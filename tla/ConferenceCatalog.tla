-------------------------- MODULE ConferenceCatalog --------------------------
(***************************************************************************)
(* pipeline_config.py and arxiv_agent.py: the venues that the pipeline     *)
(* knows are loaded from CONFERENCE_CONFIG_FILE when the process starts,   *)
(* and looked for in the comment of each paper.                            *)
(*                                                                         *)
(* A venue is its name without the spaces around it; that of a category    *)
(* may have some in the file.                                              *)
(***************************************************************************)
EXTENDS Integers, Sequences, SequencesExt, FiniteSets, FiniteSetsExt

CONSTANTS
    Venues,
    Length,         \* Length[v]: characters of the name
    Inside,         \* <<v, w>>: w contains v as a word, whatever their case
    Fields,         \* the names of categories
    MaxEntries      \* bound: categories in the file

RawNames == [name : Fields, padded : BOOLEAN]
GoodRanks == {"A+", "A", "B", "C", ""}

ASSUME CatalogAssumption ==
    /\ Length \in [Venues -> Nat \ {0}] /\ Inside \subseteq Venues \X Venues
    /\ \A v \in Venues : <<v, v>> \in Inside
    /\ \A p \in Inside : Length[p[1]] <= Length[p[2]]
    /\ MaxEntries \in Nat

VARIABLES
    file,       \* the categories as they are written; <<>>: no file is configured
    catalog,    \* what the process made of the file, with the ranks
    filed       \* the last paper: the names in its comment, and its venue

catalogVars == <<file, catalog, filed>>

CategoryFiles == SeqOf([category : RawNames, venues : SUBSET Venues], MaxEntries) \ {<<>>}
RankTables == UNION {[vs -> {"A", "S"}] : vs \in {{v} : v \in Venues} \cup {{}}}

-----------------------------------------------------------------------------
(* load_conference_catalog.                                                *)

\* What json.loads makes of a name that is there twice: the last value, at
\* the place of the first.
Named(f, n) == {m \in 1..Len(f) : f[m].category = f[n].category}

Firsts(f) == {n \in 1..Len(f) : \A m \in 1..(n - 1) : f[m].category # f[n].category}

Parsed(f, n) == [category |-> f[n].category.name, venues |-> f[Max(Named(f, n))].venues]

NoKeys == [x \in {} |-> {}]
EmptyCatalog == [accepted |-> TRUE, categories |-> NoKeys, owners |-> NoKeys]

\* Mutation: owners are not asked.
NoConflict(c, entry) == FALSE

Conflict(c, entry) ==
    \E v \in entry.venues \cap DOMAIN c.owners : c.owners[v] # entry.category

With(f, keys, value) == [k \in DOMAIN f \cup keys |-> IF k \in keys THEN value ELSE f[k]]

LoadCategory(c, entry) ==
    IF entry.venues = {} \/ Conflict(c, entry)
    THEN [c EXCEPT !.accepted = FALSE]
    ELSE [c EXCEPT !.owners = With(@, entry.venues, entry.category),
                   !.categories = With(@, {entry.category}, entry.venues)]

\* After the first n places of the file.
Loading(f) ==
    LET loaded[n \in 0..Len(f)] ==
            IF n = 0 THEN EmptyCatalog
            ELSE IF n \in Firsts(f) THEN LoadCategory(loaded[n - 1], Parsed(f, n))
            ELSE loaded[n - 1]
    IN  loaded

Load(f) == Loading(f)[Len(f)]

\* The whole file is rejected for one rank that is none or for no venue.
RanksFit(c, ranks) == \A v \in DOMAIN ranks : v \in DOMAIN c.owners /\ ranks[v] \in GoodRanks

Unread == [accepted |-> FALSE]
Rejected == [accepted |-> FALSE, raised |-> TRUE]

\* The module of the pipeline is imported: a file that is rejected ends the
\* process.
ImportCatalog ==
    /\ catalog = Unread
    /\ \E ranks \in RankTables :
        LET loaded == Load(file)
        IN  catalog' = IF loaded.accepted /\ RanksFit(loaded, ranks)
                       THEN [accepted |-> TRUE, categories |-> loaded.categories, ranks |-> ranks]
                       ELSE Rejected
    /\ UNCHANGED <<file, filed>>

-----------------------------------------------------------------------------
(* extract_conference_info.                                                *)

TopTier == UNION {catalog.categories[c] : c \in DOMAIN catalog.categories}

\* A comment that mentions a name mentions those inside it.
Mentioned(names) == {v \in Venues : \E w \in names : <<v, w>> \in Inside}

\* The longest names; which of them comes first is the order of a set.
BestMatches(found) == {v \in found : \A w \in found : Length[w] <= Length[v]}

CategoryOf(v) == CHOOSE c \in DOMAIN catalog.categories : v \in catalog.categories[c]

Extract(comment) ==
    {[conference |-> v, category |-> CategoryOf(v),
      rank |-> IF v \in DOMAIN catalog.ranks THEN catalog.ranks[v] ELSE ""] :
        v \in BestMatches(comment \cap TopTier)}

NoPaper == [comment |-> {}]

\* bound: one paper of a process; the papers do not depend on each other.
FilePaper ==
    /\ catalog.accepted /\ filed = NoPaper
    /\ \E names \in SUBSET Venues : \E info \in Extract(Mentioned(names)) :
        filed' = [comment |-> Mentioned(names), info |-> info]
    /\ UNCHANGED <<file, catalog>>

CatalogInit(files) ==
    /\ file \in files
    /\ catalog = Unread /\ filed = NoPaper

CatalogNext == file # <<>> /\ (ImportCatalog \/ FilePaper)

CatalogSpec == CatalogInit(CategoryFiles) /\ [][CatalogNext]_catalogVars

-----------------------------------------------------------------------------
\* What a paper is filed under, by any file that is accepted and for any
\* comment: a category that lists its venue, and no other category does,
\* however often one is in the file (load_conference_catalog: "appears in
\* both"); not a mere part of a longer name that the comment has
\* (extract_conference_info: "Sort longest first"); and a rank that there is.
FiledAsConfigured ==
    filed # NoPaper =>
        LET info == filed.info  entries == {Parsed(file, n) : n \in 1..Len(file)}
        IN  /\ \E e \in entries : e.category = info.category /\ info.conference \in e.venues
            /\ \A e \in entries : info.conference \in e.venues => e.category = info.category
            /\ \A v \in filed.comment \cap TopTier :
                <<info.conference, v>> \in Inside => Length[v] = Length[info.conference]
            /\ info.rank \in GoodRanks
=============================================================================
