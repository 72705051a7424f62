---------------------------- MODULE ProviderIds ----------------------------
(***************************************************************************)
(* The registered providers with their base URLs, and what each does with    *)
(* ids: NormalizeMovieID, the page GetMovieInfoByID visits, and              *)
(* ParseMovieIDFromURL.  Every provider has one movie (or actor); an id is    *)
(* what the patterns of the code tell apart in a spelling of its id.          *)
(***************************************************************************)
EXTENDS Sequences, SequencesExt

Id(site, case, form) == [site |-> site, case |-> case, form |-> form]

\* The empty string.
NoId == Id(FALSE, "none", "empty")

\* Ids with letters come in three cases: "word" is ABC-123 or a slug, "maker"
\* is prestige:ABP-588, "series" is 4030-ppv12.  The others are of digits:
\* short ones have fewer than four, pairs are 4030-1938, the dated ones are
\* 042922_001, 042922_01 and 042922-001.  "site" is the site's name in front.
Lettered == {"word", "maker", "series"}
Numeric == {"digits", "short", "pair", "dated3", "dated2", "dashed3"}
Ids == {Id(s, c, f) : s \in BOOLEAN, c \in {"upper", "lower", "mixed"}, f \in Lettered}
       \union {Id(s, "none", f) : s \in BOOLEAN, f \in Numeric}

InCase(id, case) == IF id.form \in Lettered THEN [id EXCEPT !.case = case] ELSE id
Upper(id) == InCase(id, "upper")
Lower(id) == InCase(id, "lower")
Bare(id) == [id EXCEPT !.site = FALSE]

\* The id, if it matches a pattern that allows these forms.
Matching(id, forms) == IF id.form \in forms THEN id ELSE NoId

\* A provider: the host and the path of its base URL and how it treats ids.
Provider(host, base, ids) == [host |-> host, base |-> base, ids |-> ids]

Site ==
  [JavBus     |-> Provider("www.javbus.com", <<>>, "upper"),
   MGS        |-> Provider("www.mgstage.com", <<>>, "upper"),
   SOD        |-> Provider("ec.sod.co.jp", <<"prime">>, "upper"),
   AVBase     |-> Provider("www.avbase.net", <<>>, "avbase"),
   FANZA      |-> Provider("www.dmm.co.jp", <<>>, "lower"),
   TokyoHot   |-> Provider("my.tokyo-hot.com", <<>>, "lower"),
   DUGA       |-> Provider("duga.jp", <<>>, "lower"),
   DAHLIA     |-> Provider("dahlia-av.jp", <<>>, "lower"),
   FALENO     |-> Provider("faleno.jp", <<"top">>, "lower"),
   Pcolle     |-> Provider("www.pcolle.com", <<>>, "pcolle"),
   H0930      |-> Provider("www.h0930.com", <<>>, "h0930"),
   H4610      |-> Provider("www.h4610.com", <<>>, "h0930"),
   C0930      |-> Provider("www.c0930.com", <<>>, "h0930"),
   Heyzo      |-> Provider("www.heyzo.com", <<>>, "padded"),
   KIN8       |-> Provider("www.kin8tengoku.com", <<>>, "padded"),
   Gcolle     |-> Provider("gcolle.net", <<>>, "digits"),
   Getchu     |-> Provider("dl.getchu.com", <<>>, "digits"),
   MyWife     |-> Provider("mywife.cc", <<>>, "digits"),
   FC2        |-> Provider("adult.contents.fc2.com", <<>>, "digits"),
   FC2PPVDB   |-> Provider("fc2ppvdb.com", <<>>, "digits"),
   HeyDouga   |-> Provider("www.heydouga.com", <<>>, "heydouga"),
   OnePondo   |-> Provider("www.1pondo.tv", <<>>, "dated3"),
   MuraMura   |-> Provider("www.muramura.tv", <<>>, "dated3"),
   Pacopacomama |-> Provider("www.pacopacomama.com", <<>>, "dated3"),
   CaribbeancomPremium |-> Provider("www.caribbeancompr.com", <<>>, "dated3"),
   TenMusume  |-> Provider("www.10musume.com", <<>>, "dated2"),
   Caribbeancom |-> Provider("www.caribbeancom.com", <<>>, "dashed3"),
   FC2HUB     |-> Provider("javten.com", <<>>, "pair"),
   JAVFREE    |-> Provider("javfree.me", <<>>, "pair"),
   JAV321     |-> Provider("www.jav321.com", <<>>, "as is"),
   MadouQu    |-> Provider("madouqu.com", <<>>, "as is"),
   AVE        |-> Provider("www.aventertainments.com", <<>>, "as is"),
   ThePornDBMovie |-> Provider("theporndb.net", <<"movies">>, "as is"),
   ThePornDBScene |-> Provider("theporndb.net", <<"scenes">>, "as is"),
   ThePornDBActor |-> Provider("theporndb.net", <<"performers">>, "as is"),
   AVLeague   |-> Provider("www.av-league.com", <<>>, "as is"),
   Gfriends   |-> Provider("github.com", <<"gfriends", "gfriends">>, "as is")]

Names == DOMAIN Site
ActorNames == {"ThePornDBActor", "AVLeague", "Gfriends"}
MovieNames == Names \ ActorNames

\* AVBase: the maker in front of a colon and the id after it are kept.
UpperUnlessMaker(id) == IF id.form = "maker" THEN id ELSE Upper(id)

\* Pcolle, h0930, h4610, c0930: the site's name is dropped.
LowerBare(id, forms) == Lower(Bare(Matching(id, forms)))

\* Heyzo and the other sites whose movies have numbers.
Digits(id) == Bare(Matching(id, {"digits", "short"}))

\* The studios with one pattern for their ids, which the site's name does not match.
Exactly(id, form) == IF id.site THEN NoId ELSE Matching(id, {form})

\* NormalizeMovieID, and NormalizeActorID, of every provider.
Normalize(p, id) ==
    LET ids == Site[p].ids IN
    CASE ids = "upper"    -> Upper(id)
      [] ids = "avbase"   -> UpperUnlessMaker(id)
      [] ids = "lower"    -> Lower(id)
      [] ids = "pcolle"   -> LowerBare(id, {"word"})
      [] ids = "h0930"    -> LowerBare(id, {"word", "digits", "short"})
      [] ids \in {"padded", "digits"} -> Digits(id)
      [] ids = "heydouga" -> Bare(Matching(id, {"pair", "series"}))
      [] ids \in {"dated3", "dated2", "dashed3"} -> Exactly(id, ids)
      [] OTHER            -> id

-----------------------------------------------------------------------------
\* A page: its host, the segments of its path that matter and the id in it.
Page(host, path, id) == [host |-> host, path |-> path, id |-> id]

\* "%04s" in the URLs of Heyzo and KIN8.
Padded(id) == IF id.form = "short" THEN [id EXCEPT !.form = "digits"] ELSE id

\* GetMovieInfoByID formats the id into the URL of a page; ids without a dash
\* are refused where they are split at one.
PagesOf(p, id) ==
    LET home == Page(Site[p].host, Site[p].base, id) IN
    CASE Site[p].ids = "padded" -> {[home EXCEPT !.id = Padded(id)]}
      [] Site[p].ids \in {"heydouga", "pair"} ->
            IF id.form \in {"pair", "series", "dashed3"} THEN {home} ELSE {}
      [] OTHER -> {home}

\* FANZA looks for the id in two shops, the second on a host of its own.
FANZAPages(id) ==
    {Page(host, <<>>, id) : host \in {"www.dmm.co.jp", "video.dmm.co.jp"}}

Pages(p, id) == IF p = "FANZA" THEN FANZAPages(id) ELSE PagesOf(p, id)

\* ParseMovieIDFromURL and ParseActorIDFromURL: some normalise what is in the
\* URL, three have a pattern, Heyzo and others take it as it is.
Parse(p, page) ==
    CASE Site[p].ids \in {"upper", "avbase", "lower", "pcolle"} -> Normalize(p, page.id)
      [] Site[p].ids \in {"heydouga", "pair"} -> Matching(page.id, {"pair"})
      [] OTHER -> page.id
=============================================================================
