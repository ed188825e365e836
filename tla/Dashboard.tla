------------------------------ MODULE Dashboard ------------------------------
(***************************************************************************)
(* simple_dashboard.html: one page in a browser.  It asks for the dates,   *)
(* then for the papers of one of them, and for those of another when the   *)
(* reader selects it; the search, category and rank filter what it has,    *)
(* and the address of the page follows.                                    *)
(*                                                                         *)
(* A date is a number; a text is a word with or without blanks around it.  *)
(* Which papers a filter leaves is not modelled.                           *)
(***************************************************************************)
EXTENDS Integers, FiniteSetsExt

CONSTANTS
    Dates,
    Words,          \* what the reader searches for
    Categories,     \* those of the papers
    Ranks,          \* the options of the rank control
    MaxChanges      \* bound: how often the service's dates change

NoDate == 0
None == ""
Unknown == "?"      \* a category or rank in an address that no control has

ASSUME DashboardAssumption ==
    /\ Dates \subseteq Nat \ {NoDate} /\ MaxChanges \in Nat
    /\ None \notin Words \cup Categories \cup Ranks /\ Unknown \notin Categories \cup Ranks

VARIABLES
    digests,    \* the dates for which the service has papers
    changes,    \* how often they have changed
    url,        \* the parameters of the address
    options,    \* the dates that can be selected
    selected,   \* the value of the date control
    disabled,   \* it is disabled
    busy,       \* aria-busy of the list of papers
    filters,    \* the values of the search box and the other two controls
    categories, \* the options of the category control, but for None
    used,       \* history: a filter has been used, or papers have come
    loaded,     \* the date that allPapers is of
    shown,      \* what the list shows, and of which date
    banner,     \* what the button in the error banner tries again
    asking,     \* the request for the dates is under way
    requests    \* those for papers, a record with its date; aborted or not

filterVars == <<filters, categories, used>>
pageVars == <<url, options, selected, disabled, busy, filterVars, loaded, shown, banner>>
vars == <<digests, changes, pageVars, asking, requests>>

Skeleton == [kind |-> "skeleton", date |-> NoDate]
EmptyList == [kind |-> "empty", date |-> NoDate]
ErrorList == [kind |-> "error", date |-> NoDate]

Texts == [word : Words \cup {None}, blank : BOOLEAN]
Trim(t) == [t EXCEPT !.blank = FALSE]
Trimmed(f) == [f EXCEPT !.search = Trim(@)]

Nothing == [search |-> [word |-> None, blank |-> FALSE], category |-> None, rank |-> None]

Init ==
    /\ digests \in SUBSET Dates /\ changes = 0
    /\ url \in [date : Dates \cup {NoDate},
                filters : [search : Texts, category : Categories \cup {None, Unknown},
                           rank : Ranks \cup {None, Unknown}]]
    /\ options = {} /\ selected = NoDate /\ disabled = FALSE /\ busy = TRUE
    /\ filters = Nothing /\ categories = {} /\ used = FALSE
    /\ loaded = NoDate /\ shown = Skeleton /\ banner = "none"
    /\ asking = TRUE /\ requests = {}

\* A run of the pipeline, or a digest that is no longer kept.
ServiceChanges ==
    /\ changes < MaxChanges /\ changes' = changes + 1
    /\ \E d \in Dates : digests' = IF d \in digests THEN digests \ {d} ELSE digests \cup {d}
    /\ UNCHANGED <<pageVars, asking, requests>>

-----------------------------------------------------------------------------
(* applyFilters.                                                           *)

\* Mutation: the address follows when the page is next loaded.
FiltersOnly(f, papers) ==
    /\ filters' = f /\ used' = TRUE /\ UNCHANGED url
    /\ shown' = IF papers = NoDate THEN EmptyList ELSE [kind |-> "papers", date |-> papers]

\* The list shows what the filters leave of the papers; syncUrl writes the
\* filters to the address, without the blanks around the search.
ApplyFilters(f, papers) ==
    /\ filters' = f /\ used' = TRUE
    /\ url' = [date |-> selected, filters |-> Trimmed(f)]
    /\ shown' = IF papers = NoDate THEN EmptyList ELSE [kind |-> "papers", date |-> papers]

-----------------------------------------------------------------------------
(* loadPapersByDate, up to its fetch; setLoading(true) is in it.           *)

\* Mutation: the date control stays enabled and the request before is not
\* aborted.
StartFreely(d) ==
    /\ selected' = d /\ banner' = "none"
    /\ requests' = requests \cup {[date |-> d, aborted |-> FALSE]}
    /\ busy' = TRUE /\ disabled' = FALSE /\ shown' = Skeleton

StartLoad(d) ==
    /\ selected' = d /\ banner' = "none"
    /\ requests' = {[r EXCEPT !.aborted = TRUE] : r \in requests} \cup {[date |-> d, aborted |-> FALSE]}
    /\ busy' = TRUE /\ disabled' = TRUE /\ shown' = Skeleton

-----------------------------------------------------------------------------
(* loadDates.                                                              *)

DatesArrive ==
    /\ asking /\ digests # {} /\ asking' = FALSE
    /\ options' = digests
    /\ StartLoad(IF url.date \in digests THEN url.date ELSE Max(digests))
    /\ UNCHANGED <<digests, changes, url, filterVars, loaded>>

NoDatesArrive ==
    /\ asking /\ digests = {} /\ asking' = FALSE
    /\ options' = {} /\ selected' = NoDate /\ shown' = EmptyList
    /\ UNCHANGED <<digests, changes, url, disabled, busy, filterVars, loaded, banner, requests>>

DatesFail ==
    /\ asking /\ asking' = FALSE /\ banner' = "dates" /\ shown' = ErrorList
    /\ UNCHANGED <<digests, changes, url, options, selected, disabled, busy, filterVars, loaded,
                   requests>>

-----------------------------------------------------------------------------
(* loadPapersByDate, from its fetch on.                                    *)

\* finally.
Done(r) == requests' = requests \ {r} /\ busy' = FALSE /\ disabled' = FALSE

\* The category control gets the categories of the answer; then the filters
\* are taken from the address, as far as the controls have them.
PapersArrive(r) ==
    /\ ~r.aborted /\ r.date \in digests /\ Done(r)
    /\ loaded' = r.date /\ categories' \in SUBSET Categories
    /\ LET f == url.filters
       IN  ApplyFilters([search |-> f.search,
                         category |-> IF f.category \in categories' THEN f.category ELSE None,
                         rank |-> IF f.rank \in Ranks THEN f.rank ELSE None], r.date)
    /\ UNCHANGED <<digests, changes, options, selected, banner, asking>>

\* The answer for a date that is no longer kept has no papers; the address
\* and the filters stay.
NoPapersArrive(r) ==
    /\ ~r.aborted /\ r.date \notin digests /\ Done(r)
    /\ loaded' = NoDate /\ shown' = EmptyList
    /\ UNCHANGED <<digests, changes, url, options, selected, filterVars, banner, asking>>

\* Of an aborted request nothing runs but its finally.
PapersFail(r) ==
    /\ Done(r)
    /\ IF r.aborted THEN UNCHANGED <<shown, banner>>
                    ELSE shown' = ErrorList /\ banner' = "papers"
    /\ UNCHANGED <<digests, changes, url, options, selected, filterVars, loaded, asking>>

-----------------------------------------------------------------------------
(* The reader.                                                             *)

Select(d) ==
    /\ ~disabled /\ d \in options \ {selected} /\ StartLoad(d)
    /\ UNCHANGED <<digests, changes, url, options, filterVars, loaded, asking>>

\* A filter is used: at any time, also while the page has no dates yet, or waits
\* for papers, or could not have them.
Use(f) ==
    /\ ApplyFilters(f, loaded)
    /\ UNCHANGED <<digests, changes, options, selected, disabled, busy, categories, loaded, banner,
                   asking, requests>>

Type == \E t \in Texts \ {filters.search} : Use([filters EXCEPT !.search = t])

ChooseCategory ==
    \E c \in (categories \cup {None}) \ {filters.category} : Use([filters EXCEPT !.category = c])

ChooseRank ==
    \E k \in (Ranks \cup {None}) \ {filters.rank} : Use([filters EXCEPT !.rank = k])

\* The button is enabled when a filter is set.
Clear == Trimmed(filters) # Nothing /\ Use(Nothing)

UseFilter == Type \/ ChooseCategory \/ ChooseRank \/ Clear

\* The button works once.
Retry ==
    \/ /\ banner = "dates" /\ banner' = "spent" /\ asking' = TRUE
       /\ UNCHANGED <<digests, changes, url, options, selected, disabled, busy, filterVars, loaded,
                      shown, requests>>
    \/ /\ banner = "papers" /\ StartLoad(selected)
       /\ UNCHANGED <<digests, changes, url, options, filterVars, loaded, asking>>

DatesEnd == DatesArrive \/ NoDatesArrive \/ DatesFail

RequestEnds ==
    \E r \in requests : PapersArrive(r) \/ NoPapersArrive(r) \/ PapersFail(r)

Next ==
    \/ ServiceChanges \/ DatesEnd \/ RequestEnds
    \/ (\E d \in Dates : Select(d)) \/ UseFilter \/ Retry

Spec == Init /\ [][Next]_vars

-----------------------------------------------------------------------------
\* The papers in the list are those of the selected date, but while they are
\* loading or after they could not be loaded, when a filter brings those of
\* the date before back (loadPapersByDate, applyFilters).
ShownIsSelected ==
    shown.kind = "papers" =>
        shown.date = selected \/ requests # {} \/ banner = "papers"

\* The filters are the reader's: but for the first papers of a page, which bring
\* those of its address, and the blanks around a search, only the category is
\* ever taken back, when the papers that come have none of that category
\* (loadPapersByDate, populateCategories, syncUrl).
FiltersAreKept ==
    [][used /\ filters' # filters =>
        \/ UseFilter
        \/ Trimmed(filters') = Trimmed(filters)
        \/ /\ filters.category \notin categories'
           /\ Trimmed(filters') = [Trimmed(filters) EXCEPT !.category = None]]_vars
=============================================================================
