----------------------------- MODULE MCPipeline -----------------------------
EXTENDS Pipeline, ConferenceCatalog

CONSTANTS a, b, c, x, y, nolta, ieice, NeurIPS, ml, nlp

\* a and b of category x, c of y.  a is the oldest and may be revised and
\* rejected, b and c are new.
Old == {f \in Facts : f.category = x /\ f.submitted = 0}
New(k) == {f \in Facts : f.category = k /\ f.accepted /\ f.submitted # 0 /\
                          f.updated = f.submitted \div PerDay}

SmallWorlds == {w \in [Papers -> Old \cup New(x) \cup New(y)] :
                    w[a] \in Old /\ w[b] \in New(x) /\ w[c] \in New(y)}

\* A week needs no more than one paper.
OneWorld == {[p \in Papers |-> [category |-> x, submitted |-> 0, updated |-> 0, accepted |-> TRUE]]}

\* nolta is in the name of ieice ("NOLTA, IEICE"); NeurIPS stands for the
\* names that are as long as another one.
Lengths == [v \in Venues |-> IF v = ieice THEN 12 ELSE 5]
Parts == {<<v, v>> : v \in Venues} \cup {p \in {<<nolta, ieice>>} : p \in Venues \X Venues}

\* A behaviour is one of the days of the pipeline, with the venues it knows,
\* or one of a process that reads a file of venues.
CatalogDays == world = CHOOSE w \in Worlds : TRUE

MCInit ==
    \/ Init /\ CatalogInit({<<>>})
    \/ Init /\ CatalogDays /\ CatalogInit(CategoryFiles)

MCNext ==
    \/ file = <<>> /\ Next /\ UNCHANGED catalogVars
    \/ CatalogNext /\ UNCHANGED vars

MCSpec == MCInit /\ [][MCNext]_<<vars, catalogVars>>
=============================================================================
