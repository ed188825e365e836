------------------------------- MODULE Corpus -------------------------------
(***************************************************************************)
(* mcp_server.py: what the five tools answer from one version of           *)
(* papers.json and papers_archive.json.  (When the versions change under   *)
(* them is in PaperService.)                                               *)
(*                                                                         *)
(* An id is an arXiv number with its version; a text is the sequence of    *)
(* its words, of two letters or more and none a part of another, each with *)
(* the punctuation behind it.  Dates are numbers.                          *)
(***************************************************************************)
EXTENDS Integers, Sequences, SequencesExt, FiniteSets

CONSTANTS
    Items,          \* bound: the papers there may be, each with its analysis
    Dates,          \* bound: the dates of the archive
    PerDate,        \* bound: papers of a date
    Queries,        \* bound: texts that are searched for
    Limits          \* bound: the limits that are asked for

NoDate == 0         \* papers.json without filter_date
AnyVersion == 0     \* an id without the suffix

ASSUME CorpusAssumption ==
    /\ \A i \in Items :
        /\ DOMAIN i = {"id", "venue", "title", "text", "tags"}
        /\ DOMAIN i.id = {"base", "version"} /\ i.id.version \in Nat \ {AnyVersion}
        /\ \A t \in {i.title, i.text, i.tags} : t \in Seq(ToSet(t))
    /\ Dates \subseteq Nat \ {NoDate} /\ IsFiniteSet(Dates)
    /\ PerDate \in Nat /\ Limits \subseteq Nat \ {0}
    /\ \A q \in Queries : q \in Seq(ToSet(q))

VARIABLES
    current,    \* papers.json: date and papers
    archive,    \* papers_archive.json: the papers of each date
    call,       \* the last call of a tool, with its arguments
    answer      \* what it answered

corpusVars == <<current, archive, call, answer>>

\* Papers of a date: the pipeline writes an id once.
Blocks ==
    {s \in SeqOf(Items, PerDate) :
        \A i, j \in 1..Len(s) : s[i].id = s[j].id => i = j}

Ids == {i.id : i \in Items} \cup {[base |-> i.id.base, version |-> AnyVersion] : i \in Items}

CorpusInit ==
    /\ archive \in UNION {[ds -> Blocks] : ds \in SUBSET Dates}
    /\ \/ current = [date |-> NoDate, papers |-> <<>>]
       \/ \E d \in Dates, s \in Blocks : current = [date |-> d, papers |-> s]
    /\ call = [tool |-> "none"] /\ answer = {}

-----------------------------------------------------------------------------
(* _all_papers_versioned.                                                  *)

Dated(items, date) == [n \in 1..Len(items) |-> [item |-> items[n], date |-> date]]

At(d, inArchive) ==
    Dated(IF current.date = d THEN current.papers ELSE <<>>, d)
        \o Dated(IF inArchive /\ d \in DOMAIN archive THEN archive[d] ELSE <<>>, d)

\* Where a copy of a paper is: its date, and which it is there.
Slots(inArchive) == UNION {{d} \X (1..Len(At(d, inArchive))) : d \in Dates}

Copy(p, inArchive) == At(p[1], inArchive)[p[2]]

\* The newest date first, and papers.json before the archive: the sort is
\* stable.
Before(p, q) == p[1] > q[1] \/ (p[1] = q[1] /\ p[2] < q[2])

\* Mutation: nothing is left out.
KeepAll(inArchive) == Slots(inArchive)

FirstOfEach(inArchive) ==
    {p \in Slots(inArchive) : \A q \in Slots(inArchive) :
        Before(q, p) => Copy(q, inArchive).item.id # Copy(p, inArchive).item.id}

AllPapers(inArchive) == {Copy(p, inArchive) : p \in FirstOfEach(inArchive)}

-----------------------------------------------------------------------------
(* _terms, _search_candidates, _score and search.                          *)

\* The characters of a term include the point, at the end of a sentence too.
Term(token) == <<token.word, IF token.end = "." THEN "." ELSE "">>

Terms(text) == {Term(text[n]) : n \in 1..Len(text)}

\* count and in look for a term as characters: it is in a word that is equal
\* up to a point that the term does not ask for.
Holds(token, term) == Term(token) = term \/ (term[2] = "" /\ token.word = term[1])

Venue(item) == <<[word |-> item.venue, end |-> " "]>>

\* _paper_text: text stands for the fields between the title and the tags.
Haystack(item) == item.title \o item.text \o item.tags \o Venue(item)

\* Where the query is as it stands: the blanks at its end are stripped.
HasPhrase(text, query) ==
    \E start \in 0..Len(text) : start + Len(query) <= Len(text)
        /\ \A n \in 1..Len(query) :
            LET token == text[start + n]
            IN  /\ token.word = query[n].word
                /\ token.end = query[n].end \/ (n = Len(query) /\ query[n].end = " ")

PhrasePoints(item, query) ==
    IF HasPhrase(item.title, query) THEN 24
    ELSE IF HasPhrase(Haystack(item), query) THEN 12 ELSE 0

\* Which terms of the query a field has, and how often the text has each, up
\* to four times: a term counts as often as the query has it.
Hits(text, query) ==
    {n \in 1..Len(query) : \E m \in 1..Len(text) : Holds(text[m], Term(query[n]))}

Times(text, term) == Cardinality({m \in 1..Len(text) : Holds(text[m], term)})

Counts(text, query) ==
    {c \in (1..Len(query)) \X (1..4) : c[2] <= Times(text, Term(query[c[1]]))}

Matched(text, query) == {Term(query[n]) : n \in Hits(text, query)}

\* _score, in halves.
Score(item, query) ==
    IF query = <<>> THEN 2
    ELSE PhrasePoints(item, query)
            + 10 * Cardinality(Hits(item.title, query))
            + 8 * Cardinality(Hits(item.tags, query))
            + 6 * Cardinality(Hits(Venue(item), query))
            + 2 * Cardinality(Counts(Haystack(item), query))
            + 3 * Cardinality(Matched(Haystack(item), query))

SearchCandidates(query, inArchive) ==
    {f \in AllPapers(inArchive) :
        query = <<>> \/ Terms(Haystack(f.item)) \cap Terms(query) # {}}

Better(f, g, query) ==
    \/ Score(f.item, query) > Score(g.item, query)
    \/ Score(f.item, query) = Score(g.item, query) /\ f.date > g.date

\* Mutation: the candidates are cut before they are sorted.
CutFirst(candidates, query, limit) ==
    {s \in SUBSET candidates :
        Cardinality(s) = IF limit < Cardinality(candidates) THEN limit
                                                            ELSE Cardinality(candidates)}

\* Which candidates may be left when they are sorted and cut: the order of
\* equals is that of a set of indexes.
Best(candidates, query, limit) ==
    {s \in SUBSET candidates :
        /\ Cardinality(s) = IF limit < Cardinality(candidates) THEN limit
                                                               ELSE Cardinality(candidates)
        /\ \A f \in s, g \in candidates \ s : ~Better(g, f, query)}

Search(query, limit, inArchive) ==
    /\ call' = [tool |-> "search", query |-> query, limit |-> limit, inArchive |-> inArchive]
    /\ answer' \in Best({f \in SearchCandidates(query, inArchive) : Score(f.item, query) > 0},
                        query, limit)
    /\ UNCHANGED <<current, archive>>

-----------------------------------------------------------------------------
(* fetch, recent_papers and available_dates.                               *)

Matches(id, wanted) == id = wanted \/ id.base = wanted.base

\* The first that matches, of the newest date.
FetchPaper(id) ==
    LET hits == {p \in FirstOfEach(TRUE) : Matches(Copy(p, TRUE).item.id, id)}
    IN  /\ call' = [tool |-> "fetch", id |-> id]
        /\ answer' = {Copy(p, TRUE) : p \in {h \in hits : \A k \in hits : ~Before(k, h)}}
        /\ UNCHANGED <<current, archive>>

\* One of the filters stands for all of them; NoDate for none.
Listed(date) == {f \in AllPapers(TRUE) : date = NoDate \/ f.date = date}

RecentPapers(date, limit) ==
    /\ call' = [tool |-> "recent_papers", date |-> date, limit |-> limit,
                total |-> Cardinality(Listed(date))]
    /\ answer' \in Best(Listed(date), <<>>, limit)
    /\ UNCHANGED <<current, archive>>

\* Mutation: both files count for the date of papers.json.
CountedTwice(d) == Len(At(d, TRUE))

Counted(d) == Len(IF d = current.date THEN current.papers ELSE archive[d])

AvailableDates ==
    /\ call' = [tool |-> "available_dates"]
    /\ answer' = {[date |-> d, count |-> Counted(d)] :
                    d \in (DOMAIN archive \cup {current.date}) \ {NoDate}}
    /\ UNCHANGED <<current, archive>>

\* paper_stats: how many papers each venue has, and all together.
PaperStats(date) ==
    /\ call' = [tool |-> "paper_stats", date |-> date, total |-> Cardinality(Listed(date))]
    /\ answer' = {[venue |-> v, count |-> Cardinality({f \in Listed(date) : f.item.venue = v})] :
                    v \in {f.item.venue : f \in Listed(date)}}
    /\ UNCHANGED <<current, archive>>

\* No tool keeps anything for the next call.
Return ==
    /\ call.tool # "none" /\ call' = [tool |-> "none"] /\ answer' = {}
    /\ UNCHANGED <<current, archive>>

CorpusNext ==
    \/ /\ call.tool = "none"
       /\ \/ \E query \in Queries, limit \in Limits, b \in BOOLEAN : Search(query, limit, b)
          \/ \E id \in Ids : FetchPaper(id)
          \/ \E date \in Dates \cup {NoDate}, limit \in Limits : RecentPapers(date, limit)
          \/ AvailableDates
          \/ \E date \in Dates \cup {NoDate} : PaperStats(date)
    \/ Return

CorpusSpec == CorpusInit /\ [][CorpusNext]_corpusVars

-----------------------------------------------------------------------------
\* What a file has of a paper under its date.
Stored(f, inArchive) ==
    \/ f.date = current.date /\ f.item \in ToSet(current.papers)
    \/ inArchive /\ f.date \in DOMAIN archive /\ f.item \in ToSet(archive[f.date])

AllStored == UNION {ToSet(At(d, TRUE)) : d \in Dates}
Papers == IF call.tool \in {"search", "fetch", "recent_papers"} THEN answer ELSE {}

\* No id is listed twice, and each with its newest copy of the files that
\* are read, the one of papers.json before one of the archive with the same
\* date (_all_papers_versioned: "Return newest copy of each arXiv ID").  With
\* any version of its id, or none, a paper is fetched from the newest date
\* that has one (fetch: "may include or omit the arXiv version suffix").
NewestCopies ==
    /\ \A f \in Papers : \A d \in Dates :
        \A g \in ToSet(At(d, call.tool = "search" => call.inArchive)) :
            g.item.id = f.item.id =>
                /\ g.date <= f.date
                /\ g \in Papers => g = f
                /\ g.date = f.date /\ Stored(g, FALSE) => g = f
    /\ call.tool = "fetch" =>
        \A g \in AllStored : g.item.id.base = call.id.base =>
            \E f \in answer : f.item.id.base = call.id.base /\ f.date >= g.date

\* Whatever a query finds in f, it finds in g: the phrase, each term in each
\* field, and as often.
HasAll(g, f, query) ==
    /\ HasPhrase(f.title, query) => HasPhrase(g.title, query)
    /\ HasPhrase(Haystack(f), query) => HasPhrase(Haystack(g), query)
    /\ Hits(f.title, query) \subseteq Hits(g.title, query)
    /\ Hits(f.tags, query) \subseteq Hits(g.tags, query)
    /\ Hits(Venue(f), query) \subseteq Hits(Venue(g), query)
    /\ Counts(Haystack(f), query) \subseteq Counts(Haystack(g), query)

\* g has all that f has, and more, or is as good and newer.
Surpasses(g, f, query) ==
    HasAll(g.item, f.item, query) /\ (HasAll(f.item, g.item, query) => g.date > f.date)

\* A paper that has a term of the query, and no newer copy, is in the results
\* or has given way to as many others as were asked for, and to none that it
\* surpasses: in search the index, the removal of copies, the score, the sort
\* and the cut together prefer no paper to one that has everything the query
\* finds in it and more.
NoneSurpassed ==
    call.tool = "search" =>
        \A d \in Dates : \A g \in ToSet(At(d, call.inArchive)) :
            Terms(Haystack(g.item)) \cap Terms(call.query) # {} =>
                \/ \E f \in answer : f.item.id = g.item.id
                \/ \E e \in Dates : \E h \in ToSet(At(e, call.inArchive)) :
                        h.item.id = g.item.id /\ (e > d \/ (e = d /\ h # g))
                \/ Cardinality(answer) = call.limit
                      /\ \A f \in answer : ~Surpasses(g, f, call.query)

\* available_dates counts the papers that recent_papers lists for a date and
\* those that a newer date has again, unless a run was stopped between the
\* two files (Pipeline.torn).
Torn == current.date \in DOMAIN archive /\ archive[current.date] # current.papers

CountsAreListed ==
    call.tool = "available_dates" /\ ~Torn =>
        \A c \in answer :
            c.count = Cardinality(Listed(c.date))
                        + Cardinality({f \in ToSet(At(c.date, TRUE)) :
                            \E g \in AllStored : g.item.id = f.item.id /\ g.date > f.date})
=============================================================================
