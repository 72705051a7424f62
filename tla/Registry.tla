------------------------------ MODULE Registry ------------------------------
(***************************************************************************)
(* The start of the engine (engine/init.go), which enters the registered      *)
(* providers into its maps in the random order of a Go map, and the lookups   *)
(* that find a provider by name or by URL and turn what was asked for into    *)
(* the key of a row.  A lookup is one step here; MovieLookup takes it apart.  *)
(***************************************************************************)
EXTENDS ProviderIds

CONSTANTS
    Installations,   \* sets of providers a program may have imported
    None             \* no provider, no lookup yet

ASSUME InstallationsAssumption == Installations \subseteq SUBSET Names
ASSUME NoneAssumption == None \notin Names

VARIABLES
    installed,\* the providers whose packages the program imports
    config,   \* those that the operator's priority turns off, or on
    left,     \* factories that the loops over them have not reached yet
    byName,   \* actorProviders and movieProviders
    byHost,   \* actorHostProviders and movieHostProviders
    rows,     \* the keys in the movie table
    reply     \* the last lookup: what was asked and what was answered

registry == <<installed, config, left, byName, byHost, rows, reply>>

Hosts == {Site[p].host : p \in Names}
Kind(p) == IF p \in ActorNames THEN "actor" ELSE "movie"

RegistryInit ==
    /\ installed \in Installations
    /\ config \in SUBSET installed
    /\ left = installed
    /\ byName = {}
    /\ byHost = [k \in {"actor", "movie"} |-> [h \in Hosts |-> <<>>]]
    /\ rows = {}
    /\ reply = None

\* Its priority is positive, which it is by default, except for one provider.
Enabled(p) == IF p = "MadouQu" THEN p \in config ELSE p \notin config

\* One iteration of the loops: a provider that is enabled is found from now on.
InitProvider(p) ==
    /\ left' = left \ {p}
    /\ IF Enabled(p)
          THEN /\ byName' = byName \union {p}
               /\ byHost' = [byHost EXCEPT ![Kind(p)][Site[p].host] = Append(@, p)]
          ELSE UNCHANGED <<byName, byHost>>
    /\ UNCHANGED <<installed, config, rows, reply>>

InitActorProvider(p) == p \in left \intersect ActorNames /\ InitProvider(p)

\* The movie providers come after the last of the actors'.
InitMovieProvider(p) ==
    /\ left \intersect ActorNames = {}
    /\ p \in left \intersect MovieNames
    /\ InitProvider(p)

-----------------------------------------------------------------------------
\* Mutated form: the first provider of the host is taken.
ProviderOfHost(kind, page) ==
    LET found == byHost[kind][page.host]
    IN  IF page.host \notin Hosts \/ found = <<>> THEN None ELSE Head(found)

\* GetMovieProviderByURL and GetActorProviderByURL: the first of the host's
\* providers whose base path the URL's path begins with.
ProviderByURL(kind, page) ==
    LET found == IF page.host \in Hosts THEN byHost[kind][page.host] ELSE <<>>
        onPath == {i \in DOMAIN found : IsPrefix(Site[found[i]].base, page.path)}
    IN  IF onPath = {} THEN None ELSE found[Min(onPath)]

\* External: the id under which a site lists its movie.
Canonical(p) ==
    LET ids == Site[p].ids IN
    CASE ids = "upper"  -> Id(FALSE, "upper", "word")
      [] ids = "avbase" -> Id(FALSE, "mixed", "maker")
      [] ids \in {"lower", "pcolle", "h0930", "as is"} -> Id(FALSE, "lower", "word")
      [] ids \in {"padded", "digits"} -> Id(FALSE, "none", "digits")
      [] ids = "heydouga" -> Id(FALSE, "none", "pair")
      [] OTHER          -> Id(FALSE, "none", ids)

\* External: AVBase also serves a movie without its maker's name, ThePornDB one
\* by its number.
Serves(p, page) ==
    \/ page.id = Canonical(p)
    \/ p = "AVBase" /\ page.id = Id(FALSE, "upper", "word")
    \/ p \in {"ThePornDBMovie", "ThePornDBScene"} /\ page.id = Id(FALSE, "none", "digits")

\* The ids that the scraped metadata may have: what the page says, or for most
\* providers what was parsed out of its URL.  AVBase gives the maker's name only
\* when one of its source providers answers, else the id it was asked for.
InfoIDs(p, page) ==
    CASE p = "AVBase" -> {Canonical(p), Parse(p, page)}
      [] p \in {"FANZA", "DUGA", "FC2PPVDB", "OnePondo", "TenMusume", "MuraMura",
                "Pacopacomama", "ThePornDBMovie", "ThePornDBScene"} -> {Canonical(p)}
      [] OTHER -> {Parse(p, page)}

SameButCase(i, j) == Lower(i) = Lower(j)

Answered(asked, answer) == reply' = [asked |-> asked, answer |-> answer]

\* Mutated form: the row is saved under the id of the request.
SavedAsAsked(p, page, id) == {id}

\* The ids under which the row may be saved.
SavedAs(p, page, id) == InfoIDs(p, page)

\* getMovieInfoWithCallback in one step: a row of the table, if a lazy lookup
\* finds one, else one of the pages, whose metadata are saved.
Fetch(p, id, pages, lazy, asked) ==
    LET hits == {row \in rows : row.provider = p /\ SameButCase(row.id, id)}
        served == {page \in pages : Serves(p, page)}
    IN  \/ /\ lazy
           /\ \E row \in hits : Answered(asked, row)
           /\ UNCHANGED rows
        \/ /\ ~ lazy \/ hits = {}
           /\ IF served = {}
                 THEN Answered(asked, None) /\ UNCHANGED rows
                 ELSE \E page \in served : \E key \in SavedAs(p, page, id) :
                        LET row == [provider |-> p, id |-> key]
                        IN  Answered(asked, row) /\ rows' = rows \union {row}

\* GetMovieInfoByProviderID.
ByID(p, id, lazy) ==
    LET asked == [provider |-> p, id |-> id, lazy |-> lazy]
        key == Normalize(p, id)
    IN  /\ left = {}
        /\ IF p \notin byName \/ key = NoId
              THEN Answered(asked, None) /\ UNCHANGED rows
              ELSE Fetch(p, key, Pages(p, key), lazy, asked)
        /\ UNCHANGED <<installed, config, left, byName, byHost>>

\* GetMovieInfoByURL.
ByURL(page, lazy) ==
    LET asked == [page |-> page, lazy |-> lazy]
        p == ProviderByURL("movie", page)
    IN  /\ left = {}
        /\ IF p = None \/ Parse(p, page) = NoId
              THEN Answered(asked, None) /\ UNCHANGED rows
              ELSE Fetch(p, Parse(p, page), {page}, lazy, asked)
        /\ UNCHANGED <<installed, config, left, byName, byHost>>

\* With the site's name in front.
Sited(id) == [id EXCEPT !.site = TRUE]

\* What users write for the movie of a provider: in any case where the provider
\* has an opinion about case, with the site's name where it is dropped, without
\* leading zeros where the site pads them, by its number where there is one.
Spellings(p) ==
    LET ids == Site[p].ids
        canonical == Canonical(p)
        short == Id(FALSE, "none", "short")
        cases == {InCase(canonical, c) : c \in {"upper", "lower", "mixed"}}
    IN  CASE ids \in {"upper", "lower"} -> cases
          [] ids = "avbase" ->
                {canonical} \union {Id(FALSE, c, "word") : c \in {"upper", "lower", "mixed"}}
          [] ids \in {"pcolle", "h0930"} -> cases \union {Sited(i) : i \in cases}
          [] ids = "padded" -> {canonical, Sited(canonical), short, Sited(short)}
          [] ids \in {"digits", "heydouga"} -> {canonical, Sited(canonical)}
          [] OTHER -> IF p \in {"ThePornDBMovie", "ThePornDBScene"}
                         THEN {canonical, Id(FALSE, "none", "digits")}
                         ELSE {canonical}

\* Ids that most providers have nothing under.
Foreign == {Id(FALSE, "mixed", "series"), Id(FALSE, "none", "short"), Id(TRUE, "none", "dashed3")}

RegistryNext ==
    \/ \E p \in left : InitActorProvider(p) \/ InitMovieProvider(p)
    \/ \E p \in installed \intersect MovieNames, lazy \in BOOLEAN :
          \/ \E id \in Spellings(p) \union Foreign : ByID(p, id, lazy)
          \/ \E page \in Pages(p, Canonical(p)) : ByURL(page, lazy)

RegistrySpec == RegistryInit /\ [][RegistryNext]_registry

-----------------------------------------------------------------------------
\* The keys of a movie: one, except that AVBase may keep the id without the
\* maker's name that it was asked for (avbase.go:117-119, 148-149).
Keys(p) == {Canonical(p)} \union (IF p = "AVBase" THEN {Id(FALSE, "upper", "word")} ELSE {})
RowsOf(p) == {[provider |-> p, id |-> key] : key \in Keys(p)}

\* Whether a movie of an enabled provider is asked for in one spelling of its
\* id or another, or by the URL of its page, and whatever was stored by then,
\* it is answered and stored under its key (with AVBase, under one of its two),
\* and the id of a row that a client has been given leads back to that row.
\* What is asked for in any other way is answered with nothing else.
OneKeyPerMovie ==
    /\ \A row \in rows :
          row \in RowsOf(row.provider) /\ Normalize(row.provider, row.id) = row.id
    /\ reply # None =>
          /\ reply.answer = None \/ \E p \in byName : reply.answer \in RowsOf(p)
          /\ IF "page" \in DOMAIN reply.asked
                THEN \A p \in byName : reply.asked.page.host = Site[p].host
                                       /\ reply.asked.page \in Pages(p, Canonical(p))
                                       => reply.answer \in RowsOf(p)
                ELSE LET p == reply.asked.provider
                     IN  p \in byName =>
                            \/ reply.answer \in RowsOf(p)
                            \/ reply.answer = None /\ reply.asked.id \notin Spellings(p)

\* Once the engine has started, the pages of an enabled provider belong to it
\* and those of a disabled one to nobody, in whatever order the loops went
\* over the factories and although providers share hosts.  The shop that FANZA
\* keeps on a second host is known under no URL.
PagesResolve ==
    left = {} => \A p \in installed : \A page \in Pages(p, Canonical(p)) :
        ProviderByURL(Kind(p), page) =
            IF Enabled(p) /\ page.host = Site[p].host THEN p ELSE None
=============================================================================
