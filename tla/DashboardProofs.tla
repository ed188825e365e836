-------------------------- MODULE DashboardProofs --------------------------
(***************************************************************************)
(* Proofs about Dashboard for any dates, and however often the service     *)
(* changes them.                                                           *)
(***************************************************************************)
EXTENDS Dashboard, TLAPS

\* Until it has dates, the page has loaded nothing and asks for no papers.
FirstTheDates ==
    /\ asking \/ banner \in {"dates", "spent"} => loaded = NoDate /\ requests = {} /\ options = {}
    /\ banner = "papers" => ~asking

\* The one request that is not aborted is for the selected date ...
OneIsWaitedFor ==
    \A r \in requests :
        r = [date |-> r.date, aborted |-> r.aborted] /\ (r.aborted \/ r.date = selected)

\* ... and without one, what is loaded is of that date, or could not be loaded.
LoadedIsSelected ==
    loaded # NoDate /\ banner # "papers" /\ (\A r \in requests : r.aborted) => loaded = selected

\* The list shows what is loaded.
ShownIsLoaded == shown.kind = "papers" => shown.date = loaded /\ loaded # NoDate

\* The filters are values that the controls can have, and once they are used the
\* address has them, without the blanks.
FilterValues == [search : Texts, category : Categories \cup {None}, rank : Ranks \cup {None}]

AddressFollows ==
    /\ filters \in FilterValues /\ url.filters.search \in Texts
    /\ used => url.filters = Trimmed(filters)

PageInv ==
    /\ digests \subseteq Dates /\ categories \subseteq Categories
    /\ FirstTheDates /\ OneIsWaitedFor /\ LoadedIsSelected /\ ShownIsLoaded /\ AddressFollows

\* Trimming changes the search only, and a second time nothing.
LEMMA TrimmedValues ==
  ASSUME NEW f \in FilterValues
  PROVE  /\ Trimmed(f) = [search |-> Trim(f.search), category |-> f.category, rank |-> f.rank]
         /\ Trimmed(f) \in FilterValues /\ Trim(f.search) \in Texts
         /\ Trimmed(Trimmed(f)) = Trimmed(f)
<1>1. \A t \in Texts : Trim(t) \in Texts /\ Trim(Trim(t)) = Trim(t)
  BY DEF Texts, Trim
<1>2. /\ f = [search |-> f.search, category |-> f.category, rank |-> f.rank]
      /\ f.search \in Texts
  BY DEF FilterValues
<1>3. Trimmed(f) = [search |-> Trim(f.search), category |-> f.category, rank |-> f.rank]
  BY <1>2 DEF Trimmed
<1>4. Trimmed(f) \in FilterValues
  BY <1>1, <1>2, <1>3 DEF FilterValues
<1>5. Trimmed(Trimmed(f)) = [Trimmed(f) EXCEPT !.search = Trim(@)]
  BY DEF Trimmed
<1> QED
  BY <1>1, <1>2, <1>3, <1>4, <1>5

\* What the answer for some papers makes of the filters of the address: when they
\* are those of the controls, only the category can get lost.
LEMMA FiltersComeBack ==
  ASSUME AddressFollows, NEW r, PapersArrive(r)
  PROVE  /\ AddressFollows'
         /\ used => \/ Trimmed(filters') = Trimmed(filters)
                    \/ /\ filters.category \notin categories'
                       /\ Trimmed(filters') = [Trimmed(filters) EXCEPT !.category = None]
<1> DEFINE f == url.filters
           back == [search |-> f.search,
                    category |-> IF f.category \in categories' THEN f.category ELSE None,
                    rank |-> IF f.rank \in Ranks THEN f.rank ELSE None]
<1>1. /\ filters' = back /\ used' = TRUE /\ url' = [date |-> selected, filters |-> Trimmed(back)]
      /\ categories' \in SUBSET Categories /\ f.search \in Texts
  BY DEF PapersArrive, ApplyFilters, AddressFollows
<1>2. back \in FilterValues
  BY <1>1 DEF FilterValues
<1>3. Trimmed(back) \in FilterValues
  BY <1>2, TrimmedValues
<1>4. AddressFollows'
  <2>1. Trimmed(back).search \in Texts
    BY <1>3 DEF FilterValues
  <2> QED
    BY <1>1, <1>2, <2>1 DEF AddressFollows
<1>5. ASSUME used
      PROVE  \/ Trimmed(back) = Trimmed(filters)
             \/ /\ filters.category \notin categories'
                /\ Trimmed(back) = [Trimmed(filters) EXCEPT !.category = None]
  <2>1. f = Trimmed(filters) /\ filters \in FilterValues
    BY <1>5 DEF AddressFollows
  <2>2. /\ f = [search |-> Trim(filters.search), category |-> filters.category,
                rank |-> filters.rank]
        /\ Trim(f.search) = f.search
    <3>1. f = [search |-> Trim(filters.search), category |-> filters.category,
               rank |-> filters.rank]
      BY <2>1, TrimmedValues
    <3>2. Trim(Trim(filters.search)) = Trim(filters.search)
      BY <2>1 DEF FilterValues, Texts, Trim
    <3> QED
      BY <3>1, <3>2
  <2>3. back.rank = filters.rank
    BY <2>1, <2>2 DEF FilterValues
  <2>4. Trimmed(back) = [search |-> f.search, category |-> back.category, rank |-> filters.rank]
    BY <1>2, <2>2, <2>3, TrimmedValues
  <2>5. CASE back.category = filters.category
    BY <2>1, <2>2, <2>4, <2>5
  <2>6. CASE back.category # filters.category
    <3>1. filters.category \notin categories' /\ back.category = None
      BY <2>1, <2>2, <2>6 DEF FilterValues
    <3> QED
      BY <2>1, <2>2, <2>4, <3>1
  <2> QED
    BY <2>5, <2>6
<1> QED
  BY <1>1, <1>4, <1>5

\* What using a filter leaves.
LEMMA UsedFilters ==
  ASSUME AddressFollows, categories \subseteq Categories, UseFilter
  PROVE  /\ AddressFollows' /\ (shown'.kind = "papers" => shown'.date = loaded /\ loaded # NoDate)
         /\ UNCHANGED <<digests, changes, options, selected, disabled, busy, categories, loaded,
                        banner, asking, requests>>
<1>1. Nothing \in FilterValues /\ filters \in FilterValues
  BY DEF Nothing, FilterValues, Texts, AddressFollows
<1>2. PICK f \in FilterValues : Use(f)
  <2>1. CASE Type
    <3>1. PICK t \in Texts : Use([filters EXCEPT !.search = t])
      BY <2>1 DEF Type
    <3>2. [filters EXCEPT !.search = t] \in FilterValues
      BY <1>1 DEF FilterValues
    <3> QED
      BY <3>1, <3>2
  <2>2. CASE ChooseCategory
    <3>1. PICK c \in categories \cup {None} : Use([filters EXCEPT !.category = c])
      BY <2>2 DEF ChooseCategory
    <3>2. [filters EXCEPT !.category = c] \in FilterValues
      BY <1>1 DEF FilterValues
    <3> QED
      BY <3>1, <3>2
  <2>3. CASE ChooseRank
    <3>1. PICK k \in Ranks \cup {None} : Use([filters EXCEPT !.rank = k])
      BY <2>3 DEF ChooseRank
    <3>2. [filters EXCEPT !.rank = k] \in FilterValues
      BY <1>1 DEF FilterValues
    <3> QED
      BY <3>1, <3>2
  <2>4. CASE Clear
    BY <1>1, <2>4 DEF Clear
  <2> QED
    BY <2>1, <2>2, <2>3, <2>4 DEF UseFilter
<1>3. /\ filters' = f /\ url' = [date |-> selected, filters |-> Trimmed(f)]
      /\ shown' = IF loaded = NoDate THEN EmptyList ELSE [kind |-> "papers", date |-> loaded]
      /\ UNCHANGED <<digests, changes, options, selected, disabled, busy, categories, loaded,
                     banner, asking, requests>>
  BY <1>2 DEF Use, ApplyFilters
<1>4. Trimmed(f).search \in Texts
  BY <1>2, TrimmedValues DEF FilterValues
<1>5. AddressFollows'
  BY <1>2, <1>3, <1>4 DEF AddressFollows
<1>6. shown'.kind = "papers" => shown'.date = loaded /\ loaded # NoDate
  BY <1>3 DEF EmptyList
<1> QED
  BY <1>3, <1>5, <1>6

\* What starts a load leaves the page waiting for the date that it selects.
LEMMA LoadStarts ==
  ASSUME PageInv, NEW d, StartLoad(d), ~asking', loaded' = loaded
  PROVE  FirstTheDates' /\ OneIsWaitedFor' /\ LoadedIsSelected' /\ ShownIsLoaded'
<1> DEFINE new == [date |-> d, aborted |-> FALSE]
<1>1. selected' = d /\ banner' = "none" /\ shown' = Skeleton /\ new \in requests'
  BY DEF StartLoad
<1>2. FirstTheDates'
  BY <1>1 DEF FirstTheDates
<1>3. OneIsWaitedFor'
  <2>1. ASSUME NEW r \in requests'
        PROVE  r = [date |-> r.date, aborted |-> r.aborted] /\ (r.aborted \/ r.date = d)
    <3>1. CASE r = new
      BY <3>1
    <3>2. CASE r # new
      <4>1. PICK q \in requests : r = [q EXCEPT !.aborted = TRUE]
        BY <2>1, <3>2 DEF StartLoad
      <4>2. q = [date |-> q.date, aborted |-> q.aborted]
        BY DEF PageInv, OneIsWaitedFor
      <4>3. r = [date |-> q.date, aborted |-> TRUE]
        BY <4>1, <4>2
      <4> QED
        BY <4>3
    <3> QED
      BY <3>1, <3>2
  <2> QED
    BY <1>1, <2>1 DEF OneIsWaitedFor
<1>4. LoadedIsSelected'
  BY <1>1 DEF LoadedIsSelected
<1>5. ShownIsLoaded'
  BY <1>1 DEF ShownIsLoaded, Skeleton
<1> QED
  BY <1>2, <1>3, <1>4, <1>5

LEMMA PageStep ==
  ASSUME PageInv, Next
  PROVE  PageInv'
<1> USE DEF PageInv
<1>1. CASE ServiceChanges
  BY <1>1 DEF ServiceChanges, pageVars, filterVars, FirstTheDates, OneIsWaitedFor, LoadedIsSelected,
     ShownIsLoaded, AddressFollows
<1>2. CASE DatesArrive
  <2>1. PICK d : StartLoad(d)
    BY <1>2 DEF DatesArrive
  <2>2. FirstTheDates' /\ OneIsWaitedFor' /\ LoadedIsSelected' /\ ShownIsLoaded'
    BY <1>2, <2>1, LoadStarts DEF DatesArrive
  <2> QED
    BY <1>2, <2>2 DEF DatesArrive, filterVars, AddressFollows
<1>3. CASE NoDatesArrive \/ DatesFail
  BY <1>3 DEF NoDatesArrive, DatesFail, filterVars, EmptyList, ErrorList, FirstTheDates, OneIsWaitedFor,
     LoadedIsSelected, ShownIsLoaded, AddressFollows
<1>4. ASSUME NEW r \in requests, PapersArrive(r)
      PROVE  PageInv'
  <2>1. r.date = selected /\ r.date # NoDate
    BY <1>4, DashboardAssumption DEF PapersArrive, OneIsWaitedFor
  <2>2. /\ loaded' = selected' /\ shown'.date = loaded' /\ categories' \subseteq Categories
        /\ UNCHANGED <<digests, options, selected, banner, asking>>
        /\ requests' = requests \ {r} /\ ~r.aborted
    BY <1>4, <2>1 DEF PapersArrive, ApplyFilters, Done
  <2>3. AddressFollows'
    BY <1>4, FiltersComeBack
  <2> QED
    BY <2>1, <2>2, <2>3 DEF FirstTheDates, OneIsWaitedFor, LoadedIsSelected, ShownIsLoaded
<1>5. ASSUME NEW r \in requests, NoPapersArrive(r)
      PROVE  PageInv'
  BY <1>5 DEF NoPapersArrive, Done, filterVars, EmptyList, FirstTheDates, OneIsWaitedFor,
     LoadedIsSelected, ShownIsLoaded, AddressFollows
<1>6. ASSUME NEW r \in requests, PapersFail(r)
      PROVE  PageInv'
  BY <1>6 DEF PapersFail, Done, filterVars, ErrorList, FirstTheDates, OneIsWaitedFor,
     LoadedIsSelected, ShownIsLoaded, AddressFollows
<1>7. ASSUME NEW d \in Dates, Select(d)
      PROVE  PageInv'
  <2>1. ~asking
    BY <1>7 DEF Select, FirstTheDates
  <2>2. FirstTheDates' /\ OneIsWaitedFor' /\ LoadedIsSelected' /\ ShownIsLoaded'
    BY <1>7, <2>1, LoadStarts DEF Select
  <2> QED
    BY <1>7, <2>2 DEF Select, filterVars, AddressFollows
<1>8. CASE UseFilter
  <2>1. /\ AddressFollows' /\ (shown'.kind = "papers" => shown'.date = loaded /\ loaded # NoDate)
        /\ UNCHANGED <<digests, changes, options, selected, disabled, busy, categories, loaded,
                       banner, asking, requests>>
    BY <1>8, UsedFilters
  <2> QED
    BY <2>1 DEF FirstTheDates, OneIsWaitedFor, LoadedIsSelected, ShownIsLoaded
<1>9. CASE Retry
  <2>1. CASE banner = "papers" /\ StartLoad(selected)
    <3>1. ~asking
      BY <2>1 DEF FirstTheDates
    <3>2. UNCHANGED <<digests, url, filters, categories, used, loaded, asking>>
      BY <1>9, <2>1 DEF Retry, filterVars
    <3>3. FirstTheDates' /\ OneIsWaitedFor' /\ LoadedIsSelected' /\ ShownIsLoaded'
      BY <2>1, <3>1, <3>2, LoadStarts
    <3> QED
      BY <3>2, <3>3 DEF AddressFollows
  <2>2. CASE banner = "dates"
    BY <1>9, <2>2 DEF Retry, filterVars, FirstTheDates, OneIsWaitedFor, LoadedIsSelected, ShownIsLoaded,
       AddressFollows
  <2> QED
    BY <1>9, <2>1, <2>2 DEF Retry
<1>10. CASE RequestEnds
  <2>1. PICK r \in requests : PapersArrive(r) \/ NoPapersArrive(r) \/ PapersFail(r)
    BY <1>10 DEF RequestEnds
  <2> QED
    BY <2>1, <1>4, <1>5, <1>6
<1>11. CASE \E d \in Dates : Select(d)
  BY <1>7, <1>11
<1> HIDE DEF PageInv
<1> QED
  BY <1>1, <1>2, <1>3, <1>8, <1>9, <1>10, <1>11 DEF Next, DatesEnd

LEMMA PageInductive == Spec => []PageInv
<1>1. Init => PageInv
  <2> SUFFICES ASSUME Init PROVE PageInv
    OBVIOUS
  <2>1. FirstTheDates /\ OneIsWaitedFor /\ LoadedIsSelected /\ ShownIsLoaded
    BY DEF Init, Skeleton, FirstTheDates, OneIsWaitedFor, LoadedIsSelected, ShownIsLoaded
  <2>2. url.filters.search \in Texts
    BY DEF Init
  <2>3. filters \in FilterValues /\ ~used
    BY DEF Init, Nothing, FilterValues, Texts
  <2>4. digests \subseteq Dates /\ categories \subseteq Categories
    BY DEF Init
  <2> QED
    BY <2>1, <2>2, <2>3, <2>4 DEF PageInv, AddressFollows
<1>2. PageInv /\ [Next]_vars => PageInv'
  <2>1. CASE UNCHANGED vars
    BY <2>1 DEF vars, pageVars, filterVars, PageInv, FirstTheDates, OneIsWaitedFor, LoadedIsSelected,
       ShownIsLoaded, AddressFollows
  <2> QED
    BY <2>1, PageStep
<1> QED
  BY <1>1, <1>2, PTL DEF Spec

\* However the answers come in, the list shows papers of the selected date
\* (simple_dashboard.html, loadPapersByDate).
THEOREM ListShowsTheSelected == Spec => []ShownIsSelected
<1>1. PageInv => ShownIsSelected
  BY DEF PageInv, LoadedIsSelected, ShownIsLoaded, ShownIsSelected
<1> QED
  BY <1>1, PageInductive, PTL

\* Once the filters are used only the reader changes them, but for the blanks around
\* a search and a category that the papers that come do not have, however requests
\* end and dates change meanwhile (simple_dashboard.html, applyFilters and the
\* parameters of the address).
THEOREM FiltersStay == Spec => FiltersAreKept
<1> DEFINE Kept == \/ UseFilter
                   \/ Trimmed(filters') = Trimmed(filters)
                   \/ /\ filters.category \notin categories'
                      /\ Trimmed(filters') = [Trimmed(filters) EXCEPT !.category = None]
<1>1. PageInv /\ [Next]_vars => [used /\ filters' # filters => Kept]_vars
  <2> SUFFICES ASSUME PageInv, Next, used, filters' # filters, ~UseFilter
               PROVE  Kept
    OBVIOUS
  <2>1. PICK r \in requests : PapersArrive(r)
    BY DEF Next, ServiceChanges, pageVars, filterVars, DatesEnd, DatesArrive, NoDatesArrive,
       DatesFail, RequestEnds, NoPapersArrive, PapersFail, Select, Retry
  <2> QED
    BY <2>1, FiltersComeBack DEF PageInv
<1> QED
  BY <1>1, PageInductive, PTL DEF Spec, FiltersAreKept
=============================================================================
