--------------------------- MODULE MetadataTable ---------------------------
(***************************************************************************)
(* The metadata tables of the engine (movie_metadata, actor_metadata and    *)
(* movie_reviews) as package engine queries them through gorm.  A table is   *)
(* a set of records; the primary key is the pair (id, provider), compared    *)
(* byte by byte, while the lookups compare ids with COLLATE NOCASE.          *)
(* The records have the fields the modules that extend this one give them.   *)
(***************************************************************************)
EXTENDS Integers, FiniteSets

CONSTANTS
    Providers,  \* names of the registered providers
    Ids,        \* spellings of ids, as numbers in their byte order
    Fold        \* Fold[i] stands for the spelling i with its case folded

ASSUME IdsAssumption == Ids \subseteq Nat
ASSUME FoldAssumption == Fold \in [Ids -> Ids]

\* Two records the database cannot hold at the same time.
SameKey(a, b) == a.provider = b.provider /\ a.id = b.id

\* WHERE provider = ? AND id = ? COLLATE NOCASE
Matching(table, p, id) ==
    {row \in table : row.provider = p /\ Fold[row.id] = Fold[id]}

\* First() of the matching rows, which gorm orders by id: no row or one.
First(table, p, id) ==
    {row \in Matching(table, p, id) :
        \A other \in Matching(table, p, id) : row.id <= other.id}

\* Create() with OnConflict{UpdateAll: true}.
Upsert(table, record) ==
    {row \in table : ~ SameKey(row, record)} \union {record}

\* The primary key constraint the database itself enforces.
KeysUnique(table) ==
    \A a, b \in table : SameKey(a, b) => a = b
============================================================================
