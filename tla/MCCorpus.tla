------------------------------ MODULE MCCorpus ------------------------------
EXTENDS Corpus

CONSTANTS a, b, acl, icml, graph, tree

Id(base, version) == [base |-> base, version |-> version]
Word(w, end) == [word |-> w, end |-> end]

\* Two versions of a, one of them analysed twice, and b, which has a word
\* twice in the abstract and scores less than a title that has it once.
SmallItems == {
    [id |-> Id(a, 1), venue |-> icml, title |-> <<Word(graph, " ")>>,
     text |-> <<>>, tags |-> <<Word(tree, " ")>>],
    [id |-> Id(a, 1), venue |-> acl, title |-> <<Word(graph, " ")>>,
     text |-> <<Word(tree, ".")>>, tags |-> <<>>],
    [id |-> Id(a, 2), venue |-> acl, title |-> <<Word(graph, " "), Word(tree, " ")>>,
     text |-> <<Word(graph, ".")>>, tags |-> <<>>],
    [id |-> Id(b, 1), venue |-> icml, title |-> <<Word(tree, ",")>>,
     text |-> <<Word(graph, ","), Word(graph, " "), Word(tree, ".")>>, tags |-> <<>>]}

\* No term, one, one as it stands at the end of a sentence, one twice, two,
\* and the name of a conference.
SmallQueries == {
    <<>>, <<Word(graph, " ")>>, <<Word(tree, ".")>>, <<Word(graph, " "), Word(graph, " ")>>,
    <<Word(graph, " "), Word(tree, " ")>>, <<Word(tree, ","), Word(icml, " ")>>}
=============================================================================
