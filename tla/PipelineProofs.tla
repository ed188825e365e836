--------------------------- MODULE PipelineProofs ---------------------------
(***************************************************************************)
(* Proofs about Pipeline for any papers, categories, limits and number of  *)
(* days, and about ConferenceCatalog for any names and any file.           *)
(***************************************************************************)
EXTENDS Pipeline, ConferenceCatalog, FiniteSetTheorems, WellFoundedInduction, TLAPS

Cutoff == LocalDate - Retention

\* What a run has read covers what its clean-up keeps, unless it was blind.
OldCoversArchive ==
    at \in {"fetch", "analyze", "save", "archive"} =>
        blind \/ \A d \in DOMAIN archive : d >= Cutoff => d \in DOMAIN old

\* Between the two saves papers.json is what goes to the archive.
CurrentIsNext == at = "archive" => current = [date |-> target, papers |-> papers]

PipelineInv == TypeOK /\ OldCoversArchive /\ CurrentIsNext /\ CurrentIsArchived

LEMMA LocalDateInt == ASSUME today \in Days PROVE LocalDate \in Int /\ Cutoff \in Int
  BY PipelineAssumption DEF Days, LocalDate, Cutoff

LEMMA ArchiveDates == ASSUME NEW a \in Archives, NEW d \in DOMAIN a PROVE d \in Int
<1>1. PICK ds \in SUBSET Days : a \in [ds -> SUBSET Papers]
  BY DEF Archives
<1> QED
  BY <1>1, PipelineAssumption DEF Days

LEMMA CleanupKeepsType ==
  ASSUME NEW a \in Archives
  PROVE  cleanup_old_data(a) \in Archives
<1>1. PICK ds \in SUBSET Days : a \in [ds -> SUBSET Papers]
  BY DEF Archives
<1> DEFINE es == {e \in DOMAIN a : e >= LocalDate - Retention}
<1>2. es \in SUBSET Days /\ cleanup_old_data(a) \in [es -> SUBSET Papers]
  BY <1>1 DEF cleanup_old_data
<1> QED
  BY <1>2 DEF Archives

LEMMA MergedType ==
  ASSUME old \in Archives, target \in Days, papers \in SUBSET Papers
  PROVE  Merged \in Archives
<1>1. PICK ds \in SUBSET Days : old \in [ds -> SUBSET Papers]
  BY DEF Archives
<1>2. ds \cup {target} \in SUBSET Days /\ Merged \in [ds \cup {target} -> SUBSET Papers]
  BY <1>1 DEF Merged
<1> QED
  BY <1>2 DEF Archives

LEMMA NothingType == Nothing \in Archives
<1>1. Nothing \in [{} -> SUBSET Papers]
  BY DEF Nothing
<1> QED
  BY <1>1 DEF Archives

\* What arXiv has announced has a date of the calendar.
LEMMA EffectiveDates ==
  ASSUME TypeOK, NEW c \in Categories, NEW p \in Answer(c)
  PROVE  p \in Papers /\ get_effective_date(p) \in Days
<1>1. p \in Papers /\ Submitted(p) <= today
  BY DEF Answer, Announced
<1>2. world[p] \in Facts
  BY <1>1, PipelineAssumption DEF TypeOK
<1>3. Submitted(p) \in Int /\ Submitted(p) >= 0
  BY <1>2, PipelineAssumption, Z3 DEF Submitted, Facts, Times
<1>4. Submitted(p) \in Days
  BY <1>1, <1>3, PipelineAssumption DEF TypeOK, Days
<1> QED
  BY <1>1, <1>2, <1>4 DEF get_effective_date, Facts

LEMMA FetchTypes ==
  ASSUME TypeOK, Fetch
  PROVE  /\ feed' \subseteq [paper : Papers, date : Days]
         /\ papers' \in SUBSET Papers
         /\ papers' # {} => target' \in Days
<1>1. feed' \subseteq [paper : Papers, date : Days]
  BY EffectiveDates DEF Fetch, Dated
<1>2. papers' = {p \in Papers : [paper |-> p, date |-> target'] \in feed' /\ world[p].accepted}
  BY DEF Fetch, Wanted
<1>3. ASSUME NEW p \in papers'
      PROVE  target' \in Days
  <2>1. [paper |-> p, date |-> target'] \in [paper : Papers, date : Days]
    BY <1>1, <1>2, <1>3
  <2> QED
    BY <2>1
<1> QED
  BY <1>1, <1>2, <1>3

LEMMA TypeStep ==
  ASSUME TypeOK, Next
  PROVE  TypeOK'
<1> USE PipelineAssumption DEF TypeOK, fileVars, fetchVars
<1>1. CASE Skip
  BY <1>1 DEF Skip
<1>2. CASE Begin
  <2>1. old' \in Archives
    BY <1>2, CleanupKeepsType, NothingType DEF Begin
  <2>2. blinds' \in Nat
    BY <1>2 DEF Begin
  <2>3. blind' \in BOOLEAN
    BY <1>2, Zenon DEF Begin
  <2> QED
    BY <1>2, <2>1, <2>2, <2>3 DEF Begin
<1>3. CASE Fetch
  BY <1>3, FetchTypes DEF Fetch
<1>4. CASE Analyze
  BY <1>4 DEF Analyze
<1>5. CASE SaveCurrent
  BY <1>5 DEF SaveCurrent, Dates
<1>6. CASE SaveArchive
  <2>1. archive' \in Archives
    BY <1>6, MergedType, CleanupKeepsType DEF SaveArchive
  <2>2. written' \in [{"current", "archive"} -> Nat]
    BY <1>6 DEF SaveArchive
  <2> QED
    BY <1>6, <2>1, <2>2 DEF SaveArchive
<1>7. CASE Stop
  BY <1>7 DEF Stop
<1>8. CASE Midnight
  BY <1>8 DEF Midnight, Days
<1> QED
  BY <1>1, <1>2, <1>3, <1>4, <1>5, <1>6, <1>7, <1>8 DEF Next

LEMMA RunStep ==
  ASSUME TypeOK, OldCoversArchive, Next
  PROVE  OldCoversArchive'
<1> USE PipelineAssumption DEF OldCoversArchive, fileVars, fetchVars
<1>1. CASE Begin
  BY <1>1 DEF Begin, cleanup_old_data, Cutoff, LocalDate
<1>2. CASE Midnight
  <2>1. Cutoff \in Int /\ Cutoff' = Cutoff + 1
    BY <1>2, LocalDateInt DEF Midnight, Cutoff, LocalDate, TypeOK, Days
  <2>2. \A d \in DOMAIN archive : d \in Int
    BY ArchiveDates DEF TypeOK
  <2> QED
    BY <1>2, <2>1, <2>2 DEF Midnight
<1>3. CASE Skip \/ Fetch \/ Analyze \/ SaveCurrent \/ SaveArchive \/ Stop
  BY <1>3 DEF Skip, Fetch, Analyze, SaveCurrent, SaveArchive, Stop, Cutoff, LocalDate
<1> QED
  BY <1>1, <1>2, <1>3 DEF Next

LEMMA CurrentStep ==
  ASSUME TypeOK, CurrentIsNext, CurrentIsArchived, Next
  PROVE  CurrentIsNext' /\ CurrentIsArchived'
<1> USE PipelineAssumption DEF CurrentIsNext, CurrentIsArchived, fileVars, fetchVars
<1>1. CASE SaveArchive
  <2>1. current.date = target /\ current.papers = papers
    BY <1>1 DEF SaveArchive
  <2>2. target \in DOMAIN Merged /\ Merged[target] = papers
    BY DEF Merged
  <2>3. target >= LocalDate - Retention => target \in DOMAIN archive' /\ archive'[target] = papers
    BY <1>1, <2>2 DEF SaveArchive, cleanup_old_data
  <2> QED
    BY <1>1, <2>1, <2>3 DEF SaveArchive, LocalDate
<1>2. CASE Midnight
  <2>1. LocalDate \in Int /\ LocalDate' = LocalDate + 1 /\ current.date \in Int
    BY <1>2, LocalDateInt DEF Midnight, LocalDate, TypeOK, Dates, Days
  <2> QED
    BY <1>2, <2>1 DEF Midnight
<1>3. CASE SaveCurrent
  BY <1>3 DEF SaveCurrent
<1>4. CASE Skip \/ Begin \/ Fetch \/ Analyze \/ Stop
  BY <1>4 DEF Skip, Begin, Fetch, Analyze, Stop, LocalDate
<1> QED
  BY <1>1, <1>2, <1>3, <1>4 DEF Next

LEMMA PipelineInductive == Spec => []PipelineInv
<1>1. Init => PipelineInv
  <2> SUFFICES ASSUME Init PROVE PipelineInv
    OBVIOUS
  <2>1. blind \in BOOLEAN /\ torn \in BOOLEAN
    BY DEF Init
  <2>2. TypeOK
    BY <2>1, PipelineAssumption, NothingType DEF Init, TypeOK, Days, Dates, NoDate
  <2> QED
    BY <2>2 DEF Init, PipelineInv, OldCoversArchive, CurrentIsNext, CurrentIsArchived
<1>2. PipelineInv /\ [Next]_vars => PipelineInv'
  <2>1. CASE PipelineInv /\ Next
    BY <2>1, TypeStep, RunStep, CurrentStep DEF PipelineInv
  <2>2. CASE PipelineInv /\ UNCHANGED vars
    BY <2>2 DEF PipelineInv, TypeOK, OldCoversArchive, CurrentIsNext, CurrentIsArchived,
       Cutoff, LocalDate, vars, fileVars, fetchVars
  <2> QED
    BY <2>1, <2>2
<1> QED
  BY <1>1, <1>2, PTL DEF Spec

\* Every variable keeps its type, and a run saves papers (arxiv_agent.py:638-832).
THEOREM PipelineTypes == Spec => []TypeOK
  BY PipelineInductive, PTL DEF PipelineInv

\* papers.json and its block of the archive agree (arxiv_agent.py:789-832).
THEOREM CurrentIsAlwaysArchived == Spec => []CurrentIsArchived
  BY PipelineInductive, PTL DEF PipelineInv

LEMMA DatesStay ==
  ASSUME PipelineInv, Next, NEW d \in DOMAIN archive \ DOMAIN archive'
  PROVE  blind \/ d < LocalDate - Retention
<1>1. d \in Int /\ LocalDate - Retention \in Int
  BY LocalDateInt, ArchiveDates DEF PipelineInv, TypeOK, Cutoff
<1>2. CASE SaveArchive
  <2>1. d \in DOMAIN old => d \in DOMAIN Merged
    BY DEF Merged
  <2>2. d \in DOMAIN Merged => d < LocalDate - Retention
    BY <1>1, <1>2 DEF SaveArchive, cleanup_old_data
  <2> QED
    BY <1>1, <1>2, <2>1, <2>2 DEF SaveArchive, PipelineInv, OldCoversArchive, Cutoff
<1>3. CASE ~SaveArchive
  BY <1>3 DEF Next, Skip, Begin, Fetch, Analyze, SaveCurrent, Stop, Midnight, fileVars
<1> QED
  BY <1>2, <1>3

\* No date goes from the archive before its time (arxiv_agent.py:465-493, 822-830).
THEOREM DatesAreKept == Spec => ArchiveKeepsDates
<1>1. PipelineInv /\ [Next]_vars =>
        [\A d \in DOMAIN archive \ DOMAIN archive' : blind \/ d < LocalDate - Retention]_vars
  BY DatesStay
<1> QED
  BY <1>1, PipelineInductive, PTL DEF Spec, ArchiveKeepsDates

-----------------------------------------------------------------------------
(* What the readers are promised.                                          *)

\* The archive is never replaced more often than papers.json.
ArchiveFollows ==
    /\ written["current"] <= MaxSaves
    /\ written["archive"] <= written["current"]
    /\ at = "archive" => written["archive"] < written["current"]

LEMMA FollowStep ==
  ASSUME TypeOK, ArchiveFollows, Next
  PROVE  ArchiveFollows'
<1>0. written["current"] \in Nat /\ written["archive"] \in Nat /\ MaxSaves \in Nat
  BY PipelineAssumption DEF TypeOK
<1>1. CASE SaveCurrent
  <2>1. written'["current"] = written["current"] + 1 /\ written'["archive"] = written["archive"]
    BY <1>1 DEF SaveCurrent, TypeOK
  <2> QED
    BY <1>0, <1>1, <2>1 DEF SaveCurrent, ArchiveFollows
<1>2. CASE SaveArchive
  <2>1. written'["current"] = written["current"] /\ written'["archive"] = written["archive"] + 1
    BY <1>2 DEF SaveArchive, TypeOK
  <2> QED
    BY <1>0, <1>2, <2>1 DEF SaveArchive, ArchiveFollows
<1>3. CASE Skip \/ Begin \/ Fetch \/ Analyze \/ Stop
  BY <1>3 DEF Skip, Begin, Fetch, Analyze, Stop, ArchiveFollows, fileVars
<1>4. CASE Midnight
  BY <1>4 DEF Midnight, ArchiveFollows, fileVars
<1> QED
  BY <1>1, <1>2, <1>3, <1>4 DEF Next

LEMMA FilesStep ==
  ASSUME TypeOK, ArchiveFollows, Next
  PROVE  DataFiles!Save \/ UNCHANGED <<written, at = "archive">>
<1>0. written["archive"] \in Nat /\ written["current"] \in Nat /\ MaxSaves \in Nat
  BY PipelineAssumption DEF TypeOK
<1>1. CASE SaveCurrent
  <2>1. DataFiles!Replace("current")
    BY <1>1 DEF SaveCurrent, DataFiles!Replace
  <2>2. DataFiles!SaveCurrent
    BY <1>1, <2>1 DEF SaveCurrent, DataFiles!SaveCurrent
  <2> QED
    BY <2>2 DEF DataFiles!Save
<1>2. CASE SaveArchive
  <2>1. written["archive"] < MaxSaves
    BY <1>0, <1>2 DEF SaveArchive, ArchiveFollows
  <2>2. DataFiles!Replace("archive")
    BY <1>2, <2>1 DEF SaveArchive, DataFiles!Replace
  <2>3. "archive" \in {"current", "archive"} \ {"current"}
    OBVIOUS
  <2>4. DataFiles!SaveArchive
    BY <1>2, <2>2, <2>3 DEF SaveArchive, DataFiles!SaveArchive
  <2> QED
    BY <2>4 DEF DataFiles!Save
<1>3. CASE Stop
  BY <1>3 DEF Stop, fileVars, DataFiles!Save, DataFiles!SaveInterrupted
<1>4. CASE Skip \/ Begin \/ Fetch \/ Analyze
  BY <1>4 DEF Skip, Begin, Fetch, Analyze, fileVars
<1>5. CASE Midnight
  BY <1>5 DEF Midnight, fileVars
<1> QED
  BY <1>1, <1>2, <1>3, <1>4, <1>5 DEF Next

LEMMA FollowsAlways == Spec => []ArchiveFollows
<1>1. Init => ArchiveFollows
  BY PipelineAssumption DEF Init, ArchiveFollows
<1>2. TypeOK /\ ArchiveFollows /\ [Next]_vars => ArchiveFollows'
  <2>1. CASE UNCHANGED vars
    BY <2>1 DEF vars, fileVars, ArchiveFollows
  <2> QED
    BY <2>1, FollowStep
<1> QED
  BY <1>1, <1>2, PipelineTypes, PTL DEF Spec

\* save_results replaces the two files one after the other, each as a whole, as
\* the readers are promised (arxiv_agent.py:789-832).
THEOREM FilesAreReplacedInOrder == Spec => FilesImplemented
<1>1. Init => DataFiles!FilesInit
  BY DEF Init, DataFiles!FilesInit
<1>2. TypeOK /\ ArchiveFollows /\ [Next]_vars => [DataFiles!Save]_(DataFiles!fileVars)
  <2>1. CASE UNCHANGED vars
    BY <2>1 DEF vars, fileVars, DataFiles!fileVars
  <2> QED
    BY <2>1, FilesStep DEF DataFiles!fileVars
<1> QED
  BY <1>1, <1>2, PipelineTypes, FollowsAlways, PTL
     DEF Spec, FilesImplemented, DataFiles!FilesSpec

-----------------------------------------------------------------------------
(* What becomes of the papers of a date that is saved again.               *)

\* The run has read nothing that is not in the archive still.
OldIsInArchive ==
    at \in {"fetch", "analyze", "save", "archive"} =>
        \A d \in DOMAIN old : d \in DOMAIN archive /\ old[d] = archive[d]

AcceptedPapers == {p \in Papers : world[p].accepted}

\* Nothing is kept that no venue accepted.
AcceptedAreKept ==
    /\ papers \subseteq AcceptedPapers
    /\ \A d \in DOMAIN archive : archive[d] \subseteq AcceptedPapers

\* What the run is about to save, and what it could not have analysed, are all
\* the papers of its date.
NoneIsMissing ==
    /\ at = "analyze" => Wanted(feed, target) \subseteq papers
    /\ at \in {"save", "archive"} => Wanted(feed, target) \subseteq papers \cup failed

ReasonInv == OldIsInArchive /\ AcceptedAreKept /\ NoneIsMissing

LEMMA CleanedUp ==
  ASSUME NEW a, NEW d \in DOMAIN cleanup_old_data(a)
  PROVE  d \in DOMAIN a /\ cleanup_old_data(a)[d] = a[d]
  BY DEF cleanup_old_data

LEMMA OldStep ==
  ASSUME OldIsInArchive, Next
  PROVE  OldIsInArchive'
<1> USE DEF OldIsInArchive, fileVars, fetchVars
<1>1. CASE Begin
  <2>1. CASE old' = Nothing
    BY <1>1, <2>1 DEF Begin, Nothing
  <2>2. CASE old' = cleanup_old_data(archive)
    BY <1>1, <2>2, CleanedUp DEF Begin
  <2> QED
    BY <1>1, <2>1, <2>2 DEF Begin
<1>2. CASE Skip \/ Fetch \/ Analyze \/ SaveCurrent \/ SaveArchive \/ Stop
  BY <1>2 DEF Skip, Fetch, Analyze, SaveCurrent, SaveArchive, Stop
<1>3. CASE Midnight
  BY <1>3 DEF Midnight
<1> QED
  BY <1>1, <1>2, <1>3 DEF Next

LEMMA AcceptedStep ==
  ASSUME OldIsInArchive, AcceptedAreKept, Next
  PROVE  AcceptedAreKept'
<1> USE DEF AcceptedAreKept, AcceptedPapers, fileVars, fetchVars
<1>1. CASE Fetch
  BY <1>1 DEF Fetch, Wanted
<1>2. CASE Analyze
  BY <1>2 DEF Analyze
<1>3. CASE SaveArchive
  <2>1. \A d \in DOMAIN old : old[d] \subseteq AcceptedPapers
    BY <1>3 DEF SaveArchive, OldIsInArchive
  <2>2. \A d \in DOMAIN Merged : Merged[d] \subseteq AcceptedPapers
    BY <2>1 DEF Merged
  <2>3. \A d \in DOMAIN archive' : archive'[d] = Merged[d] /\ d \in DOMAIN Merged
    BY <1>3, CleanedUp DEF SaveArchive
  <2> QED
    BY <1>3, <2>2, <2>3 DEF SaveArchive
<1>4. CASE Skip \/ Begin \/ SaveCurrent \/ Stop
  BY <1>4 DEF Skip, Begin, SaveCurrent, Stop
<1>5. CASE Midnight
  BY <1>5 DEF Midnight
<1> QED
  BY <1>1, <1>2, <1>3, <1>4, <1>5 DEF Next

LEMMA MissingStep ==
  ASSUME NoneIsMissing, Next
  PROVE  NoneIsMissing'
<1> USE DEF NoneIsMissing, Wanted, fileVars, fetchVars
<1>1. CASE Fetch
  BY <1>1 DEF Fetch
<1>2. CASE Analyze
  BY <1>2 DEF Analyze
<1>3. CASE Skip \/ Begin \/ SaveCurrent \/ SaveArchive \/ Stop
  BY <1>3 DEF Skip, Begin, SaveCurrent, SaveArchive, Stop
<1>4. CASE Midnight
  BY <1>4 DEF Midnight
<1> QED
  BY <1>1, <1>2, <1>3, <1>4 DEF Next

LEMMA ReasonAlways == Spec => []ReasonInv
<1>1. Init => ReasonInv
  BY DEF Init, Nothing, ReasonInv, OldIsInArchive, AcceptedAreKept, NoneIsMissing
<1>2. ReasonInv /\ [Next]_vars => ReasonInv'
  <2>1. CASE UNCHANGED vars
    BY <2>1 DEF vars, fileVars, fetchVars, ReasonInv, OldIsInArchive, AcceptedAreKept,
       AcceptedPapers, NoneIsMissing, Wanted
  <2> QED
    BY <2>1, OldStep, AcceptedStep, MissingStep DEF ReasonInv
<1> QED
  BY <1>1, <1>2, PTL DEF Spec

LEMMA LeavingStep ==
  ASSUME TypeOK, ReasonInv, Next,
         NEW d \in DOMAIN archive \cap DOMAIN archive', NEW p \in archive[d] \ archive'[d]
  PROVE  p \in failed \/ [paper |-> p, date |-> d] \notin feed
<1>1. CASE SaveArchive
  <2>1. d \in DOMAIN Merged /\ archive'[d] = Merged[d]
    BY <1>1, CleanedUp DEF SaveArchive
  <2>2. d \in DOMAIN old => old[d] = archive[d]
    BY <1>1 DEF SaveArchive, ReasonInv, OldIsInArchive
  <2>3. d = target /\ archive'[d] = papers
    BY <2>1, <2>2 DEF Merged
  <2>4. p \in Papers /\ world[p].accepted
    BY DEF ReasonInv, AcceptedAreKept, AcceptedPapers
  <2>5. [paper |-> p, date |-> d] \in feed => p \in Wanted(feed, target)
    BY <2>3, <2>4 DEF Wanted
  <2> QED
    BY <1>1, <2>3, <2>5 DEF SaveArchive, ReasonInv, NoneIsMissing
<1>2. CASE ~SaveArchive
  BY <1>2 DEF Next, Skip, Begin, Fetch, Analyze, SaveCurrent, Stop, Midnight, fileVars
<1> QED
  BY <1>1, <1>2

\* A paper that was shown again leaves its date only when its analysis failed
\* (arxiv_agent.py:638-832).
THEOREM PapersLeaveRightly == Spec => PapersLeaveForAReason
<1>1. TypeOK /\ ReasonInv /\ [Next]_vars =>
        [\A d \in DOMAIN archive \cap DOMAIN archive' : \A p \in archive[d] \ archive'[d] :
            p \in failed \/ [paper |-> p, date |-> d] \notin feed]_vars
  BY LeavingStep
<1> QED
  BY <1>1, PipelineTypes, ReasonAlways, PTL DEF Spec, PapersLeaveForAReason

-----------------------------------------------------------------------------
(* The date that papers.json is about.                                     *)

\* arXiv dates a revision when it is made.
RevisionsComeLater ==
    \A w \in Worlds : \A p \in Papers : w[p].submitted \div PerDay <= w[p].updated

\* arXiv shows a paper with a date that is d or later.
Shown(d) == \E c \in Categories : \E p \in Answer(c) : get_effective_date(p) >= d

\* What was the most recent date stays covered by what arXiv shows.
DatesAreShown ==
    /\ current.date # NoDate => Shown(current.date)
    /\ at \in {"analyze", "save"} =>
        Shown(target) /\ (answered = Categories => current.date <= target)

LEMMA Largest ==
  ASSUME NEW N \in Nat, NEW S \in SUBSET (0..N), S # {}
  PROVE  Max(S) \in S /\ \A y \in S : y <= Max(S)
<1> DEFINE T == {N - y : y \in S}
<1>1. T \subseteq Nat /\ T # {}
  <2>1. \A y \in S : y \in Nat /\ N - y \in Nat
    OBVIOUS
  <2>2. PICK y \in S : TRUE
    OBVIOUS
  <2>3. N - y \in T
    OBVIOUS
  <2> QED
    BY <2>1, <2>3
<1>2. PICK t \in T : \A u \in T : ~(<<u, t>> \in OpToRel(<, Nat))
  BY <1>1, NatLessThanWellFounded, WFMin
<1>3. \A u \in T : ~(u < t)
  BY <1>1, <1>2 DEF OpToRel
<1>4. PICK x \in S : t = N - x
  BY <1>2
<1>5. ASSUME NEW y \in S
      PROVE  x >= y
  <2>1. N - y \in T
    OBVIOUS
  <2>2. ~(N - y < N - x)
    BY <1>3, <1>4, <2>1
  <2> QED
    BY <2>2
<1>6. \E m \in S : \A y \in S : m >= y
  BY <1>5
<1>7. PICK m \in S : m = Max(S) /\ \A y \in S : m >= y
  BY <1>6 DEF Max
<1>8. m \in Int /\ \A y \in S : y \in Int
  OBVIOUS
<1> QED
  BY <1>7, <1>8

LEMMA DivKeepsOrder ==
  ASSUME NEW x \in Nat, NEW y \in Nat, y <= x, NEW k \in Nat \ {0}
  PROVE  y \div k <= x \div k
<1>1. PICK i, j \in Nat : i = x \div k /\ j = y \div k
  BY Z3
<1>2. x < k * (i + 1) /\ k * j <= y
  BY <1>1, Z3
<1>3. k * j < k * (i + 1)
  BY <1>2, Z3
<1>4. ~(j >= i + 1)
  <2>1. j >= i + 1 => k * j >= k * (i + 1)
    BY Z3
  <2> QED
    BY <1>3, <2>1
<1> QED
  BY <1>1, <1>4

\* What is known of a paper, as numbers.
LEMMA KnownOf ==
  ASSUME TypeOK, NEW p \in Papers
  PROVE  /\ world[p].submitted \in Nat /\ world[p].submitted \in Times
         /\ Submitted(p) \in Nat /\ world[p].updated \in Nat /\ world[p].updated \in Days
<1>1. world[p] \in Facts
  BY PipelineAssumption DEF TypeOK
<1>2. world[p].submitted \in Nat /\ PerDay \in Nat \ {0}
  BY <1>1, PipelineAssumption DEF Facts, Times
<1>3. world[p].submitted \div PerDay \in Nat
  BY <1>2, Z3
<1> QED
  BY <1>1, <1>2, <1>3, PipelineAssumption DEF Facts, Submitted, Days

LEMMA NoneIsDatedAhead ==
  ASSUME TypeOK, NEW c \in Categories, NEW p \in Answer(c)
  PROVE  get_effective_date(p) \in Nat /\ get_effective_date(p) <= today
<1>1. p \in Papers /\ Submitted(p) <= today
  BY DEF Answer, Announced
<1> QED
  BY <1>1, KnownOf DEF get_effective_date

\* The newest of what is announced is in the answer.
NewestShown ==
    \A c \in Categories : Announced(c) # {} =>
        \E p \in Answer(c) : \A q \in Announced(c) : world[q].submitted <= world[p].submitted

LEMMA NewestIsShown == TypeOK => NewestShown
<1> SUFFICES ASSUME TypeOK, NEW c \in Categories, Announced(c) # {}
             PROVE  \E p \in Answer(c) : \A q \in Announced(c) :
                        world[q].submitted <= world[p].submitted
  BY DEF NewestShown
<1> DEFINE S == {world[q].submitted : q \in Announced(c)}
           N == LastDay * PerDay + PerDay - 1
<1>1. N \in Nat
  BY PipelineAssumption
<1>2. \A q \in Announced(c) : q \in Papers /\ world[q].submitted \in 0..N
  BY KnownOf DEF Announced, Times
<1>3. S \in SUBSET (0..N) /\ S # {}
  BY <1>2
<1> HIDE DEF N
<1>4. PICK m \in S : \A y \in S : y <= m
  BY <1>1, <1>3, Largest
<1> USE DEF S
<1>5. PICK p \in Announced(c) : world[p].submitted = m
  BY <1>4
<1>6. \A q \in Announced(c) : world[q].submitted <= world[p].submitted
  BY <1>4, <1>5
<1>7. {q \in Announced(c) : world[q].submitted > world[p].submitted} = {}
  <2> SUFFICES ASSUME NEW q \in Announced(c), world[q].submitted > world[p].submitted
               PROVE  FALSE
    OBVIOUS
  <2>1. world[q].submitted \in Int /\ world[p].submitted \in Int
    BY <1>1, <1>2
  <2> QED
    BY <1>6, <2>1
<1>8. p \in Answer(c)
  <2>1. Cardinality({q \in Announced(c) : world[q].submitted > world[p].submitted}) < Cap
    BY <1>7, FS_EmptySet, PipelineAssumption
  <2> QED
    BY <1>5, <2>1 DEF Answer
<1> QED
  BY <1>6, <1>8

LEMMA NewestIsShownNext == TypeOK' => NewestShown'
  BY NewestIsShown, PTL

\* At midnight papers are announced or none is: what pushes a paper out of the
\* answer has a later date, and a revision a later one than the paper had.
LEMMA ShownStays ==
  ASSUME TypeOK, TypeOK', RevisionsComeLater, Midnight, NEW d \in Int, Shown(d)
  PROVE  Shown(d)'
<1>0. today \in Nat /\ today' = today + 1 /\ world' = world
  BY PipelineAssumption DEF Midnight, TypeOK, Days
<1>1. PICK c \in Categories : \E p \in Answer(c) : get_effective_date(p) >= d
  BY DEF Shown
<1>2. PICK p \in Answer(c) : get_effective_date(p) >= d
  BY <1>1
<1>3. p \in Papers /\ Submitted(p) \in Nat /\ world[p].updated \in Nat /\ Submitted(p) <= today
  BY KnownOf DEF Answer, Announced
<1>4. Announced(c) \subseteq Announced(c)'
  <2>1. \A q \in Papers : Submitted(q) \in Nat /\ Submitted(q)' = Submitted(q)
    BY <1>0, KnownOf DEF Submitted
  <2> QED
    BY <1>0, <2>1 DEF Announced
<1>5. CASE Announced(c)' = Announced(c)
  <2>1. p \in Answer(c)'
    BY <1>0, <1>5 DEF Answer
  <2>2. Submitted(p) <= world[p].updated
    BY <1>3, PipelineAssumption DEF RevisionsComeLater, TypeOK, Submitted
  <2>3. get_effective_date(p)' >= d
    BY <1>0, <1>2, <1>3, <2>2 DEF get_effective_date, Submitted
  <2> QED
    BY <2>1, <2>3 DEF Shown
<1>6. CASE Announced(c)' # Announced(c)
  <2>1. PICK n \in Announced(c)' : n \notin Announced(c)
    BY <1>4, <1>6
  <2>2. n \in Papers /\ Submitted(n) \in Nat /\ world[n].submitted \in Nat
    BY <2>1, KnownOf DEF Announced
  <2>3. Submitted(n) >= today + 1
    BY <1>0, <2>1, <2>2 DEF Announced
  <2>4. PICK q \in Answer(c)' : \A r \in Announced(c)' : world[r].submitted <= world[q].submitted
    <3>1. \E q \in Answer(c)' : \A r \in Announced(c)' : world'[r].submitted <= world'[q].submitted
      BY <2>1, NewestIsShownNext DEF NewestShown
    <3> QED
      BY <1>0, <3>1
  <2>5. /\ q \in Papers /\ Submitted(q) \in Nat /\ world[q].submitted \in Nat
        /\ world[q].updated \in Nat
    BY <2>4, KnownOf DEF Answer, Announced
  <2>6. Submitted(n) <= Submitted(q)
    BY <2>1, <2>2, <2>4, <2>5, DivKeepsOrder, PipelineAssumption DEF Submitted
  <2>7. Submitted(q) <= world[q].updated
    BY <2>5, PipelineAssumption DEF RevisionsComeLater, TypeOK, Submitted
  <2>8. get_effective_date(q)' >= today + 1
    BY <1>0, <2>2, <2>3, <2>5, <2>6, <2>7 DEF get_effective_date, Submitted
  <2>9. d <= today
    BY <1>0, <1>2, NoneIsDatedAhead
  <2>10. get_effective_date(q)' \in Int
    BY <1>0, <2>5 DEF get_effective_date, Submitted
  <2>11. get_effective_date(q)' >= d
    BY <1>0, <2>8, <2>9, <2>10
  <2> QED
    BY <2>4, <2>11 DEF Shown
<1> QED
  BY <1>5, <1>6

\* What a fetch finds is shown, and if every category has answered its date is
\* as late as any that is shown.
LEMMA FetchFindsNewest ==
  ASSUME TypeOK, Fetch, papers' # {}
  PROVE  /\ Shown(target')
         /\ answered' = Categories => \A d \in Int : Shown(d) => d <= target'
<1>1. PICK p \in papers' : [paper |-> p, date |-> target'] \in feed'
  BY DEF Fetch, Wanted
<1>2. feed' = Dated(UNION {Answer(c) : c \in answered'}) /\ answered' \subseteq Categories
  BY DEF Fetch
<1>3. PICK c \in answered' : \E q \in Answer(c) :
        [paper |-> p, date |-> target'] = [paper |-> q, date |-> get_effective_date(q)]
  BY <1>1, <1>2 DEF Dated
<1>4. PICK q \in Answer(c) :
        [paper |-> p, date |-> target'] = [paper |-> q, date |-> get_effective_date(q)]
  BY <1>3
<1>5. target' = get_effective_date(q) /\ c \in Categories
  BY <1>2, <1>4
<1>6. Shown(target')
  <2>1. get_effective_date(q) >= target'
    BY <1>5, NoneIsDatedAhead
  <2> QED
    BY <1>5, <2>1 DEF Shown
<1>7. ASSUME answered' = Categories, NEW d \in Int, Shown(d)
      PROVE  d <= target'
  <2> DEFINE S == {e.date : e \in feed'}
  <2>1. target' = Max(S)
    BY <1>1 DEF Fetch, get_most_recent_date
  <2>2. S \in SUBSET (0..LastDay) /\ S # {}
    BY <1>1, FetchTypes DEF Days
  <2>3. PICK k \in Categories : \E r \in Answer(k) : get_effective_date(r) >= d
    BY <1>7 DEF Shown
  <2>4. PICK r \in Answer(k) : get_effective_date(r) >= d
    BY <2>3
  <2>5. [paper |-> r, date |-> get_effective_date(r)] \in feed'
    BY <1>2, <1>7, <2>4 DEF Dated
  <2>6. get_effective_date(r) \in S
    BY <2>5
  <2>7. LastDay \in Nat
    BY PipelineAssumption
  <2> HIDE DEF S
  <2>8. Max(S) \in S /\ \A y \in S : y <= Max(S)
    BY <2>2, <2>7, Largest
  <2>9. target' \in Int
    BY FetchTypes, PipelineAssumption DEF Days
  <2>10. get_effective_date(r) <= target'
    BY <2>1, <2>6, <2>8
  <2>11. get_effective_date(r) \in Int
    BY <2>3, <2>4, NoneIsDatedAhead
  <2> QED
    BY <1>7, <2>4, <2>9, <2>10, <2>11
<1> QED
  BY <1>6, <1>7

LEMMA ShownStep ==
  ASSUME TypeOK, TypeOK', RevisionsComeLater, DatesAreShown, Next
  PROVE  DatesAreShown'
<1>0. current.date \in Int /\ NoDate = -1
  BY PipelineAssumption DEF TypeOK, Dates, Days, NoDate
<1>1. CASE Fetch
  <2>0. UNCHANGED <<world, today, current>>
    BY <1>1 DEF Fetch, fileVars
  <2>1. \A d \in Int : Shown(d)' <=> Shown(d)
    BY <2>0 DEF Shown, Answer, Announced, get_effective_date, Submitted
  <2>2. current'.date # NoDate => Shown(current.date)'
    BY <1>0, <2>0, <2>1 DEF DatesAreShown
  <2>3. CASE papers' = {}
    <3>1. at' = "idle"
      BY <1>1, <2>3 DEF Fetch
    <3> QED
      BY <2>0, <2>2, <3>1 DEF DatesAreShown
  <2>4. CASE papers' # {}
    <3>1. target' \in Int /\ target' >= 0
      BY <1>1, <2>4, FetchTypes, PipelineAssumption DEF Days
    <3>2. Shown(target') /\ (answered' = Categories => \A d \in Int : Shown(d) => d <= target')
      BY <1>1, <2>4, FetchFindsNewest
    <3>3. Shown(target)'
      BY <2>0, <3>2 DEF Shown, Answer, Announced, get_effective_date, Submitted
    <3>4. answered' = Categories => current.date <= target'
      BY <1>0, <3>1, <3>2 DEF DatesAreShown
    <3> QED
      BY <2>0, <2>2, <3>3, <3>4 DEF DatesAreShown
  <2> QED
    BY <2>3, <2>4
<1>2. CASE Midnight
  <2>1. UNCHANGED <<current, at, target, answered>>
    BY <1>2 DEF Midnight, fileVars, fetchVars
  <2>2. current.date # NoDate => Shown(current.date)'
    BY <1>0, <1>2, <2>1, ShownStays DEF DatesAreShown
  <2>3. at \in {"analyze", "save"} => target \in Int
    BY PipelineAssumption DEF TypeOK, Days
  <2>4. at \in {"analyze", "save"} => Shown(target)'
    BY <1>2, <2>1, <2>3, ShownStays DEF DatesAreShown
  <2> QED
    BY <2>1, <2>2, <2>4 DEF DatesAreShown
<1>3. CASE SaveCurrent
  <2>1. UNCHANGED <<world, today>> /\ at' = "archive" /\ current'.date = target /\ at = "save"
    BY <1>3 DEF SaveCurrent
  <2>2. Shown(target)
    BY <2>1 DEF DatesAreShown
  <2>3. Shown(current.date)'
    BY <2>1, <2>2 DEF Shown, Answer, Announced, get_effective_date, Submitted
  <2> QED
    BY <2>1, <2>3 DEF DatesAreShown
<1>4. CASE Skip \/ Begin \/ Analyze \/ SaveArchive \/ Stop
  <2>1. UNCHANGED <<world, today, current, target, answered>>
    BY <1>4 DEF Skip, Begin, Analyze, SaveArchive, Stop, fileVars, fetchVars
  <2>2. at' \in {"analyze", "save"} => at \in {"analyze", "save"}
    BY <1>4 DEF Skip, Begin, Analyze, SaveArchive, Stop
  <2> QED
    BY <2>1, <2>2 DEF DatesAreShown, Shown, Answer, Announced, get_effective_date, Submitted
<1> QED
  BY <1>1, <1>2, <1>3, <1>4 DEF Next

\* If arXiv dates no revision before the paper, papers.json is only ever about an
\* older date when a category did not answer (arxiv_agent.py:429-463, 800).
THEOREM CurrentMovesRightly ==
  ASSUME RevisionsComeLater
  PROVE  Spec => CurrentMovesForward
<1>1. Init => DatesAreShown
  BY DEF Init, DatesAreShown
<1>2. TypeOK /\ TypeOK' /\ DatesAreShown /\ [Next]_vars => DatesAreShown'
  <2>1. CASE UNCHANGED vars
    BY <2>1 DEF vars, fileVars, fetchVars, DatesAreShown, Shown, Answer, Announced,
       get_effective_date, Submitted
  <2> QED
    BY <2>1, ShownStep
<1>3. TypeOK /\ DatesAreShown /\ [Next]_vars =>
        [current'.date >= current.date \/ answered # Categories]_vars
  <2> SUFFICES ASSUME TypeOK, DatesAreShown, Next
               PROVE  current'.date >= current.date \/ answered # Categories
    OBVIOUS
  <2>1. current.date \in Int
    BY PipelineAssumption DEF TypeOK, Dates, Days
  <2>2. CASE SaveCurrent
    <3>1. target \in Int /\ current'.date = target /\ at = "save"
      BY <2>2, PipelineAssumption DEF SaveCurrent, TypeOK, Days
    <3> QED
      BY <2>1, <3>1 DEF DatesAreShown
  <2>3. CASE ~SaveCurrent
    <3>1. current' = current
      BY <2>3 DEF Next, Skip, Begin, Fetch, Analyze, SaveArchive, Stop, Midnight, fileVars
    <3> QED
      BY <2>1, <3>1
  <2> QED
    BY <2>2, <2>3
<1> QED
  BY <1>1, <1>2, <1>3, PipelineTypes, PTL DEF Spec, CurrentMovesForward

-----------------------------------------------------------------------------
\* Induction, with the property as the set of the numbers that have it.
LEMMA FromZero ==
  ASSUME NEW T, 0 \in T, \A n \in Nat : n \in T => n + 1 \in T
  PROVE  \A n \in Nat : n \in T
<1>1. SUFFICES ASSUME NEW n \in Nat, n \notin T
      PROVE  FALSE
  OBVIOUS
<1> DEFINE M == Nat \ T
<1>2. M \subseteq Nat /\ M # {}
  BY <1>1
<1>3. PICK x \in M : \A y \in M : ~(<<y, x>> \in OpToRel(<, Nat))
  BY <1>2, NatLessThanWellFounded, WFMin
<1>4. x \in Nat /\ x \notin T
  OBVIOUS
<1>5. x - 1 \in Nat
  BY <1>4
<1>6. <<x - 1, x>> \in OpToRel(<, Nat)
  BY <1>4, <1>5 DEF OpToRel
<1>7. x - 1 \in T
  BY <1>3, <1>5, <1>6
<1>8. x - 1 + 1 \in T
  BY <1>5, <1>7
<1> QED
  BY <1>4, <1>8

-----------------------------------------------------------------------------
(* The venues that a process knows.                                        *)

\* What Loading has at place n, when it has c behind it.
LoadedAt(f, c, n) == IF n \in Firsts(f) THEN LoadCategory(c, Parsed(f, n)) ELSE c

LoadsTo(g, f, k) ==
    g = [n \in 0..k |-> IF n = 0 THEN EmptyCatalog ELSE LoadedAt(f, g[n - 1], n)]

\* The loop comes to an end, however long the file is.
LEMMA LoadingLoads ==
  ASSUME NEW f, Len(f) \in Nat
  PROVE  LoadsTo(Loading(f), f, Len(f))
<1> DEFINE T == {k \in Nat : \E g : LoadsTo(g, f, k)}
<1>1. 0 \in T
  <2> DEFINE g == [n \in 0..0 |-> EmptyCatalog]
  <2>1. LoadsTo(g, f, 0)
    BY DEF LoadsTo
  <2> QED
    BY <2>1
<1>2. ASSUME NEW k \in Nat, k \in T
      PROVE  k + 1 \in T
  <2>1. PICK g : LoadsTo(g, f, k)
    BY <1>2
  <2> DEFINE h == [n \in 0..(k + 1) |-> IF n = 0 THEN EmptyCatalog ELSE LoadedAt(f, g[n - 1], n)]
  <2>2. ASSUME NEW n \in 0..k PROVE h[n] = g[n]
    BY <2>1 DEF LoadsTo
  <2>3. ASSUME NEW n \in 0..(k + 1), n # 0 PROVE h[n - 1] = g[n - 1]
    <3>1. n - 1 \in 0..k
      BY <2>3
    <3> QED
      BY <2>2, <3>1
  <2>4. LoadsTo(h, f, k + 1)
    <3> HIDE DEF h
    <3>1. h = [n \in 0..(k + 1) |-> IF n = 0 THEN EmptyCatalog ELSE LoadedAt(f, g[n - 1], n)]
      BY DEF h
    <3> QED
      BY <2>3, <3>1 DEF LoadsTo
  <2> QED
    BY <2>4
<1>3. Len(f) \in T
  <2> HIDE DEF T
  <2> QED
    BY <1>1, <1>2, FromZero
<1>4. PICK g : LoadsTo(g, f, Len(f))
  BY <1>3
<1>5. Loading(f) = CHOOSE x : LoadsTo(x, f, Len(f))
  BY DEF Loading, LoadsTo, LoadedAt
<1> QED
  BY <1>4, <1>5

LEMMA LoadingSteps ==
  ASSUME NEW f, Len(f) \in Nat
  PROVE  /\ Loading(f)[0] = EmptyCatalog
         /\ \A n \in 1..Len(f) : Loading(f)[n] = LoadedAt(f, Loading(f)[n - 1], n)
<1> DEFINE g == Loading(f)
<1>1. g = [n \in 0..Len(f) |-> IF n = 0 THEN EmptyCatalog ELSE LoadedAt(f, g[n - 1], n)]
  BY LoadingLoads DEF LoadsTo
<1> HIDE DEF g
<1>2. g[0] = EmptyCatalog /\ \A n \in 1..Len(f) : g[n] = LoadedAt(f, g[n - 1], n)
  BY <1>1
<1> QED
  BY <1>2 DEF g

CatalogFields == {"accepted", "categories", "owners"}

\* Every venue of the first n places has the category of its place for its
\* owner, unless the file is rejected, and a category has the venues of one of
\* its places.
Settled(f, c, n) ==
    /\ DOMAIN c = CatalogFields
    /\ c.accepted =>
        /\ \A m \in Firsts(f) : m <= n =>
            \A v \in Parsed(f, m).venues :
                v \in DOMAIN c.owners /\ c.owners[v] = Parsed(f, m).category
        /\ \A k \in DOMAIN c.categories : \E m \in Firsts(f) :
            k = Parsed(f, m).category /\ c.categories[k] = Parsed(f, m).venues

LEMMA EmptyIsSettled == ASSUME NEW f PROVE Settled(f, EmptyCatalog, 0)
<1>1. DOMAIN EmptyCatalog = CatalogFields /\ EmptyCatalog.categories = NoKeys
  BY DEF EmptyCatalog, CatalogFields
<1>2. DOMAIN NoKeys = {}
  BY DEF NoKeys
<1>3. \A m \in Firsts(f) : ~(m <= 0)
  BY DEF Firsts
<1> QED
  BY <1>1, <1>2, <1>3 DEF Settled

LEMMA CategoryIsSettled ==
  ASSUME NEW f, Len(f) \in Nat, NEW n \in 1..Len(f), NEW c, Settled(f, c, n - 1)
  PROVE  Settled(f, LoadedAt(f, c, n), n)
<1>0. \A m \in Firsts(f) : m \in 1..Len(f)
  BY DEF Firsts
<1>1. CASE n \notin Firsts(f)
  <2>1. \A m \in Firsts(f) : m <= n => m <= n - 1
    BY <1>0, <1>1
  <2> QED
    BY <1>1, <2>1 DEF LoadedAt, Settled
<1>2. CASE n \in Firsts(f)
  <2> DEFINE entry == Parsed(f, n)
  <2>1. LoadedAt(f, c, n) = LoadCategory(c, entry)
    BY <1>2 DEF LoadedAt
  <2>2. CASE entry.venues = {} \/ Conflict(c, entry)
    <3>1. LoadedAt(f, c, n) = [c EXCEPT !.accepted = FALSE]
      BY <2>1, <2>2 DEF LoadCategory
    <3>2. DOMAIN [c EXCEPT !.accepted = FALSE] = CatalogFields
          /\ [c EXCEPT !.accepted = FALSE].accepted = FALSE
      BY DEF Settled, CatalogFields
    <3> QED
      BY <3>1, <3>2 DEF Settled
  <2>3. CASE ~(entry.venues = {} \/ Conflict(c, entry))
    <3> DEFINE owners == With(c.owners, entry.venues, entry.category)
               categories == With(c.categories, {entry.category}, entry.venues)
               d == LoadedAt(f, c, n)
    <3>1. d = [c EXCEPT !.owners = owners, !.categories = categories]
      BY <2>1, <2>3 DEF LoadCategory
    <3>2. DOMAIN d = CatalogFields /\ d.owners = owners /\ d.categories = categories
          /\ d.accepted = c.accepted
      BY <3>1 DEF Settled, CatalogFields
    <3> HIDE DEF d, owners, categories
    <3>3. ASSUME d.accepted, NEW m \in Firsts(f), m <= n, NEW v \in Parsed(f, m).venues
          PROVE  v \in DOMAIN d.owners /\ d.owners[v] = Parsed(f, m).category
      <4>1. DOMAIN owners = DOMAIN c.owners \cup entry.venues
            /\ \A x \in DOMAIN owners :
                 owners[x] = IF x \in entry.venues THEN entry.category ELSE c.owners[x]
        BY DEF owners, With
      <4>2. CASE m = n
        BY <3>2, <4>1, <4>2, <3>3
      <4>3. CASE m # n
        <5>1. m <= n - 1
          BY <3>3, <4>3, <1>0
        <5>2. v \in DOMAIN c.owners /\ c.owners[v] = Parsed(f, m).category
          BY <3>2, <3>3, <5>1 DEF Settled
        <5>3. v \in entry.venues => c.owners[v] = entry.category
          BY <2>3, <5>2 DEF Conflict
        <5> QED
          BY <3>2, <4>1, <5>2, <5>3
      <4> QED
        BY <4>2, <4>3
    <3>4. ASSUME d.accepted, NEW k \in DOMAIN d.categories
          PROVE  \E m \in Firsts(f) :
                    k = Parsed(f, m).category /\ d.categories[k] = Parsed(f, m).venues
      <4>1. DOMAIN categories = DOMAIN c.categories \cup {entry.category}
            /\ \A x \in DOMAIN categories :
                 categories[x] = IF x \in {entry.category} THEN entry.venues ELSE c.categories[x]
        BY DEF categories, With
      <4>2. CASE k = entry.category
        BY <1>2, <3>2, <4>1, <4>2, <3>4
      <4>3. CASE k # entry.category
        BY <3>2, <3>4, <4>1, <4>3 DEF Settled
      <4> QED
        BY <4>2, <4>3
    <3> QED
      BY <3>2, <3>3, <3>4 DEF Settled, d
  <2> QED
    BY <2>2, <2>3
<1> QED
  BY <1>1, <1>2

LEMMA LoadIsSettled ==
  ASSUME NEW f, Len(f) \in Nat
  PROVE  Settled(f, Load(f), Len(f))
<1> DEFINE T == {n \in Nat : n <= Len(f) => Settled(f, Loading(f)[n], n)}
<1>1. 0 \in T
  BY LoadingSteps, EmptyIsSettled
<1>2. ASSUME NEW n \in Nat, n \in T
      PROVE  n + 1 \in T
  <2>1. SUFFICES ASSUME n + 1 <= Len(f)
                 PROVE  Settled(f, Loading(f)[n + 1], n + 1)
    OBVIOUS
  <2>2. PICK k \in 1..Len(f) : k = n + 1
    BY <2>1
  <2>3. k - 1 = n
    BY <2>2
  <2>4. Settled(f, Loading(f)[k - 1], k - 1)
    BY <1>2, <2>1, <2>3
  <2>5. Settled(f, LoadedAt(f, Loading(f)[k - 1], k), k)
    BY <2>4, CategoryIsSettled
  <2>6. Loading(f)[k] = LoadedAt(f, Loading(f)[k - 1], k)
    BY LoadingSteps
  <2> QED
    BY <2>2, <2>5, <2>6
<1>3. Len(f) \in T
  <2> HIDE DEF T
  <2> QED
    BY <1>1, <1>2, FromZero
<1> QED
  BY <1>3 DEF Load

\* An owner of a venue is the category of a place that lists it, and nothing is
\* rejected but for a place without venues or for two places that disagree.
Agreed(f) ==
    \A n, m \in 1..Len(f) :
        /\ Parsed(f, n).venues # {}
        /\ Parsed(f, n).venues \cap Parsed(f, m).venues # {} =>
               Parsed(f, n).category = Parsed(f, m).category

Warranted(f, c, n) ==
    /\ DOMAIN c = CatalogFields
    /\ \A v \in DOMAIN c.owners : \E m \in 1..Len(f) :
        v \in Parsed(f, m).venues /\ c.owners[v] = Parsed(f, m).category
    /\ c.accepted => \A m \in Firsts(f) : m <= n => Parsed(f, m).venues # {}
    /\ Agreed(f) => c.accepted

LEMMA EmptyIsWarranted == ASSUME NEW f PROVE Warranted(f, EmptyCatalog, 0)
<1>1. DOMAIN EmptyCatalog = CatalogFields /\ EmptyCatalog.owners = NoKeys /\ EmptyCatalog.accepted
  BY DEF EmptyCatalog, CatalogFields
<1>2. DOMAIN NoKeys = {}
  BY DEF NoKeys
<1>3. \A m \in Firsts(f) : ~(m <= 0)
  BY DEF Firsts
<1> QED
  BY <1>1, <1>2, <1>3 DEF Warranted

LEMMA CategoryIsWarranted ==
  ASSUME NEW f, Len(f) \in Nat, NEW n \in 1..Len(f), NEW c, Warranted(f, c, n - 1)
  PROVE  Warranted(f, LoadedAt(f, c, n), n)
<1>0. \A m \in Firsts(f) : m \in 1..Len(f)
  BY DEF Firsts
<1> DEFINE entry == Parsed(f, n)
           d == LoadedAt(f, c, n)
<1>1. CASE n \notin Firsts(f)
  <2>1. \A m \in Firsts(f) : m <= n => m <= n - 1
    BY <1>0, <1>1
  <2> QED
    BY <1>1, <2>1 DEF LoadedAt, Warranted
<1>2. CASE n \in Firsts(f) /\ (entry.venues = {} \/ Conflict(c, entry))
  <2>1. d = [c EXCEPT !.accepted = FALSE]
    BY <1>2 DEF LoadedAt, LoadCategory
  <2>2. DOMAIN d = CatalogFields /\ d.owners = c.owners /\ d.accepted = FALSE
    BY <2>1 DEF Warranted, CatalogFields
  <2>3. ~Agreed(f)
    <3>1. CASE entry.venues = {}
      BY <3>1 DEF Agreed
    <3>2. CASE Conflict(c, entry)
      <4>1. PICK v \in entry.venues \cap DOMAIN c.owners : c.owners[v] # entry.category
        BY <3>2 DEF Conflict
      <4>2. PICK m \in 1..Len(f) :
              v \in Parsed(f, m).venues /\ c.owners[v] = Parsed(f, m).category
        BY <4>1 DEF Warranted
      <4>3. v \in Parsed(f, n).venues \cap Parsed(f, m).venues
            /\ Parsed(f, n).category # Parsed(f, m).category
        BY <4>1, <4>2
      <4> QED
        BY <4>3 DEF Agreed
    <3> QED
      BY <1>2, <3>1, <3>2
  <2> HIDE DEF d
  <2>4. Warranted(f, d, n)
    BY <2>2, <2>3 DEF Warranted
  <2> QED
    BY <2>4 DEF d
<1>3. CASE n \in Firsts(f) /\ ~(entry.venues = {} \/ Conflict(c, entry))
  <2> DEFINE owners == With(c.owners, entry.venues, entry.category)
             categories == With(c.categories, {entry.category}, entry.venues)
  <2>1. d = [c EXCEPT !.owners = owners, !.categories = categories]
    BY <1>3 DEF LoadedAt, LoadCategory
  <2>2. DOMAIN d = CatalogFields /\ d.owners = owners /\ d.accepted = c.accepted
    BY <2>1 DEF Warranted, CatalogFields
  <2>3. DOMAIN owners = DOMAIN c.owners \cup entry.venues
        /\ \A x \in DOMAIN owners :
             owners[x] = IF x \in entry.venues THEN entry.category ELSE c.owners[x]
    BY DEF With
  <2> HIDE DEF d, owners, entry
  <2>4. ASSUME NEW v \in DOMAIN d.owners
        PROVE  \E m \in 1..Len(f) :
                  v \in Parsed(f, m).venues /\ d.owners[v] = Parsed(f, m).category
    <3>1. CASE v \in entry.venues
      BY <2>2, <2>3, <2>4, <3>1 DEF entry
    <3>2. CASE v \notin entry.venues
      BY <2>2, <2>3, <2>4, <3>2 DEF Warranted
    <3> QED
      BY <3>1, <3>2
  <2>5. ASSUME d.accepted, NEW m \in Firsts(f), m <= n
        PROVE  Parsed(f, m).venues # {}
    <3>1. CASE m = n
      BY <1>3, <3>1 DEF entry
    <3>2. CASE m # n
      <4>1. m <= n - 1
        BY <1>0, <2>5, <3>2
      <4> QED
        BY <2>2, <2>5, <4>1 DEF Warranted
    <3> QED
      BY <3>1, <3>2
  <2>6. Warranted(f, d, n)
    BY <2>2, <2>4, <2>5 DEF Warranted
  <2> QED
    BY <2>6 DEF d
<1> QED
  BY <1>1, <1>2, <1>3

LEMMA LoadIsWarranted ==
  ASSUME NEW f, Len(f) \in Nat
  PROVE  Warranted(f, Load(f), Len(f))
<1> DEFINE T == {n \in Nat : n <= Len(f) => Warranted(f, Loading(f)[n], n)}
<1>1. 0 \in T
  BY LoadingSteps, EmptyIsWarranted
<1>2. ASSUME NEW n \in Nat, n \in T
      PROVE  n + 1 \in T
  <2>1. SUFFICES ASSUME n + 1 <= Len(f)
                 PROVE  Warranted(f, Loading(f)[n + 1], n + 1)
    OBVIOUS
  <2>2. PICK k \in 1..Len(f) : k = n + 1
    BY <2>1
  <2>3. k - 1 = n
    BY <2>2
  <2>4. Warranted(f, Loading(f)[k - 1], k - 1)
    BY <1>2, <2>1, <2>3
  <2>5. Warranted(f, LoadedAt(f, Loading(f)[k - 1], k), k)
    BY <2>4, CategoryIsWarranted
  <2>6. Loading(f)[k] = LoadedAt(f, Loading(f)[k - 1], k)
    BY LoadingSteps
  <2> QED
    BY <2>2, <2>5, <2>6
<1>3. Len(f) \in T
  <2> HIDE DEF T
  <2> QED
    BY <1>1, <1>2, FromZero
<1> QED
  BY <1>3 DEF Load

\* A place of the file says what the first place with its name says.
LEMMA FirstOfName ==
  ASSUME NEW f, Len(f) \in Nat, NEW n \in 1..Len(f)
  PROVE  \E m \in Firsts(f) : Parsed(f, m) = Parsed(f, n)
<1> DEFINE M == Named(f, n)
<1>1. M \subseteq Nat /\ M # {}
  <2>1. n \in M
    BY DEF Named
  <2>2. M \subseteq Nat
    BY DEF Named
  <2> QED
    BY <2>1, <2>2
<1>2. PICK m \in M : \A k \in M : ~(<<k, m>> \in OpToRel(<, Nat))
  BY <1>1, NatLessThanWellFounded, WFMin
<1>3. m \in 1..Len(f) /\ f[m].category = f[n].category
  BY DEF Named
<1>4. ASSUME NEW k \in 1..(m - 1), f[k].category = f[m].category
      PROVE  FALSE
  <2>1. k \in 1..Len(f) /\ k \in Nat /\ m \in Nat /\ k < m
    BY <1>3
  <2>2. k \in M
    BY <1>3, <1>4, <2>1 DEF Named
  <2>3. <<k, m>> \in OpToRel(<, Nat)
    BY <2>1 DEF OpToRel
  <2> QED
    BY <1>2, <2>2, <2>3
<1>5. m \in Firsts(f)
  BY <1>3, <1>4 DEF Firsts
<1>6. Named(f, m) = Named(f, n)
  BY <1>3 DEF Named
<1>7. Parsed(f, m) = Parsed(f, n)
  BY <1>3, <1>6 DEF Parsed
<1> QED
  BY <1>5, <1>7

LEMMA FilesHaveLength == ASSUME NEW f \in CategoryFiles PROVE Len(f) \in Nat
  BY CatalogAssumption DEF CategoryFiles, SeqOf

\* A file is accepted exactly when each category in it lists a venue and no
\* venue is in two categories, whatever the order they come in and however
\* often a name is written (pipeline_config.py:124-158).
THEOREM AcceptedExactly ==
  \A f \in CategoryFiles : Load(f).accepted <=> Agreed(f)
<1> SUFFICES ASSUME NEW f \in CategoryFiles
             PROVE  Load(f).accepted <=> Agreed(f)
  OBVIOUS
<1>0. Len(f) \in Nat
  BY FilesHaveLength
<1>1. Agreed(f) => Load(f).accepted
  BY <1>0, LoadIsWarranted DEF Warranted
<1>2. ASSUME Load(f).accepted, NEW n \in 1..Len(f), NEW m \in 1..Len(f)
      PROVE  /\ Parsed(f, n).venues # {}
             /\ Parsed(f, n).venues \cap Parsed(f, m).venues # {} =>
                    Parsed(f, n).category = Parsed(f, m).category
  <2>1. PICK k \in Firsts(f) : Parsed(f, k) = Parsed(f, n)
    BY <1>0, FirstOfName
  <2>2. PICK l \in Firsts(f) : Parsed(f, l) = Parsed(f, m)
    BY <1>0, FirstOfName
  <2>3. k <= Len(f) /\ l <= Len(f)
    BY <1>0 DEF Firsts
  <2>4. Settled(f, Load(f), Len(f)) /\ Warranted(f, Load(f), Len(f))
    BY <1>0, LoadIsSettled, LoadIsWarranted
  <2>5. Parsed(f, k).venues # {}
    BY <1>2, <2>3, <2>4 DEF Warranted
  <2>6. ASSUME NEW v \in Parsed(f, k).venues, v \in Parsed(f, l).venues
        PROVE  Parsed(f, k).category = Parsed(f, l).category
    BY <1>2, <2>3, <2>4, <2>6 DEF Settled
  <2> QED
    BY <2>1, <2>2, <2>5, <2>6
<1>3. Load(f).accepted => Agreed(f)
  BY <1>2 DEF Agreed
<1> QED
  BY <1>1, <1>3

\* What a process knows is what it made of the file, with ranks that fit.
LoadedAsWritten ==
    catalog.accepted =>
        /\ Load(file).accepted
        /\ \E ranks \in RankTables :
            /\ RanksFit(Load(file), ranks)
            /\ catalog = [accepted |-> TRUE, categories |-> Load(file).categories,
                          ranks |-> ranks]

\* A paper is filed by that and by its comment.
FiledByComment ==
    filed # NoPaper =>
        /\ catalog.accepted
        /\ \E names \in SUBSET Venues : \E info \in Extract(Mentioned(names)) :
            filed = [comment |-> Mentioned(names), info |-> info]

CatalogInv == file \in CategoryFiles /\ LoadedAsWritten /\ FiledByComment

LEMMA CatalogInvFiles == CatalogInv => FiledAsConfigured
<1> SUFFICES ASSUME CatalogInv, filed # NoPaper
             PROVE  FiledAsConfigured
  BY DEF FiledAsConfigured
<1> DEFINE c == Load(file)
<1>0. Len(file) \in Nat
  BY FilesHaveLength DEF CatalogInv
<1>a. PICK names \in SUBSET Venues : \E info \in Extract(Mentioned(names)) :
        filed = [comment |-> Mentioned(names), info |-> info]
  BY DEF CatalogInv, FiledByComment
<1>1. PICK info \in Extract(Mentioned(names)) :
        filed = [comment |-> Mentioned(names), info |-> info]
  BY <1>a
<1>2. PICK ranks \in RankTables :
        RanksFit(c, ranks)
        /\ catalog = [accepted |-> TRUE, categories |-> c.categories, ranks |-> ranks]
  BY DEF CatalogInv, FiledByComment, LoadedAsWritten
<1>3. c.accepted
  BY DEF CatalogInv, FiledByComment, LoadedAsWritten
<1>4. PICK v \in BestMatches(filed.comment \cap TopTier) :
        info = [conference |-> v, category |-> CategoryOf(v),
                rank |-> IF v \in DOMAIN catalog.ranks THEN catalog.ranks[v] ELSE ""]
  BY <1>1 DEF Extract
<1>5. filed.info = info /\ info.conference = v /\ info.category = CategoryOf(v)
      /\ info.rank = (IF v \in DOMAIN catalog.ranks THEN catalog.ranks[v] ELSE "")
  BY <1>1, <1>4
<1>6. v \in filed.comment \cap TopTier
      /\ \A w \in filed.comment \cap TopTier : Length[w] <= Length[v]
  BY <1>4 DEF BestMatches
<1>7. CategoryOf(v) \in DOMAIN c.categories /\ v \in c.categories[CategoryOf(v)]
  <2>1. PICK k \in DOMAIN catalog.categories : v \in catalog.categories[k]
    BY <1>6 DEF TopTier
  <2>2. CategoryOf(v) \in DOMAIN catalog.categories
        /\ v \in catalog.categories[CategoryOf(v)]
    BY <2>1 DEF CategoryOf
  <2>3. catalog.categories = c.categories
    BY <1>2
  <2> QED
    BY <2>2, <2>3
<1>8. Settled(file, c, Len(file))
  BY <1>0, LoadIsSettled
<1>9. PICK m \in Firsts(file) :
        CategoryOf(v) = Parsed(file, m).category /\ v \in Parsed(file, m).venues
  BY <1>3, <1>7, <1>8 DEF Settled
<1>10. ASSUME NEW n \in 1..Len(file), v \in Parsed(file, n).venues
       PROVE  Parsed(file, n).category = CategoryOf(v)
  <2>1. PICK k \in Firsts(file) : Parsed(file, k) = Parsed(file, n)
    BY <1>0, FirstOfName
  <2>2. k <= Len(file) /\ m <= Len(file)
    BY <1>0 DEF Firsts
  <2>3. c.owners[v] = Parsed(file, k).category /\ c.owners[v] = Parsed(file, m).category
    BY <1>3, <1>8, <1>9, <1>10, <2>1, <2>2 DEF Settled
  <2> QED
    BY <1>9, <2>1, <2>3
<1>11. m \in 1..Len(file)
  BY DEF Firsts
<1>12. ASSUME NEW w \in filed.comment \cap TopTier, <<v, w>> \in Inside
       PROVE  Length[w] = Length[v]
  <2>1. Length[w] <= Length[v]
    BY <1>6
  <2>2. Length[v] <= Length[w]
    BY <1>12, CatalogAssumption
  <2>3. v \in Venues /\ w \in Venues
    BY <1>12, CatalogAssumption
  <2>4. Length[v] \in Nat /\ Length[w] \in Nat
    BY <2>3, CatalogAssumption
  <2> QED
    BY <2>1, <2>2, <2>4
<1>13. info.rank \in GoodRanks
  <2>1. catalog.ranks = ranks
    BY <1>2
  <2> QED
    BY <1>2, <1>5, <2>1 DEF RanksFit, GoodRanks
<1> QED
  BY <1>5, <1>9, <1>10, <1>11, <1>12, <1>13 DEF FiledAsConfigured

LEMMA CatalogStarts == CatalogInit(CategoryFiles) => CatalogInv
<1> SUFFICES ASSUME CatalogInit(CategoryFiles)
             PROVE  CatalogInv
  OBVIOUS
<1>1. ~catalog.accepted
  BY DEF CatalogInit, Unread
<1> QED
  BY <1>1 DEF CatalogInit, CatalogInv, LoadedAsWritten, FiledByComment

\* What is known stays the same for every comment.
LEMMA SameKnowledge ==
  ASSUME NEW comment, catalog' = catalog
  PROVE  Extract(comment)' = Extract(comment)
<1>1. TopTier' = TopTier
  BY DEF TopTier
<1>2. ASSUME NEW v PROVE CategoryOf(v)' = CategoryOf(v)
  BY DEF CategoryOf
<1>3. BestMatches(comment \cap TopTier)' = BestMatches(comment \cap TopTier)
  BY <1>1 DEF BestMatches
<1> QED
  BY <1>1, <1>2, <1>3 DEF Extract

LEMMA CatalogSteps == CatalogInv /\ [CatalogNext]_catalogVars => CatalogInv'
<1> SUFFICES ASSUME CatalogInv, [CatalogNext]_catalogVars
             PROVE  CatalogInv'
  OBVIOUS
<1>1. ASSUME ImportCatalog
      PROVE  CatalogInv'
  <2>1. file' = file /\ filed' = filed /\ ~catalog.accepted
    BY <1>1 DEF ImportCatalog, Unread
  <2>2. filed = NoPaper
    BY <2>1 DEF CatalogInv, FiledByComment
  <2>3. PICK ranks \in RankTables :
          catalog' = IF Load(file).accepted /\ RanksFit(Load(file), ranks)
                     THEN [accepted |-> TRUE, categories |-> Load(file).categories,
                           ranks |-> ranks]
                     ELSE Rejected
    BY <1>1 DEF ImportCatalog
  <2>4. LoadedAsWritten'
    <3>1. CASE Load(file).accepted /\ RanksFit(Load(file), ranks)
      BY <2>1, <2>3, <3>1 DEF LoadedAsWritten
    <3>2. CASE ~(Load(file).accepted /\ RanksFit(Load(file), ranks))
      <4>1. ~catalog'.accepted
        BY <2>3, <3>2 DEF Rejected
      <4> QED
        BY <4>1 DEF LoadedAsWritten
    <3> QED
      BY <3>1, <3>2
  <2> QED
    BY <2>1, <2>2, <2>4 DEF CatalogInv, FiledByComment, NoPaper
<1>2. ASSUME FilePaper
      PROVE  CatalogInv'
  <2>1. file' = file /\ catalog' = catalog /\ catalog.accepted
    BY <1>2 DEF FilePaper
  <2>a. PICK names \in SUBSET Venues : \E info \in Extract(Mentioned(names)) :
          filed' = [comment |-> Mentioned(names), info |-> info]
    BY <1>2 DEF FilePaper
  <2>2. PICK info \in Extract(Mentioned(names)) :
          filed' = [comment |-> Mentioned(names), info |-> info]
    BY <2>a
  <2>3. Extract(Mentioned(names))' = Extract(Mentioned(names))
    BY <2>1, SameKnowledge DEF Mentioned
  <2>4. FiledByComment'
    BY <2>1, <2>2, <2>3 DEF FiledByComment, Mentioned
  <2>5. LoadedAsWritten'
    BY <2>1 DEF CatalogInv, LoadedAsWritten
  <2> QED
    BY <2>1, <2>4, <2>5 DEF CatalogInv
<1>3. ASSUME UNCHANGED catalogVars
      PROVE  CatalogInv'
  <2>1. file' = file /\ catalog' = catalog /\ filed' = filed
    BY <1>3 DEF catalogVars
  <2>2. \A names : Extract(Mentioned(names))' = Extract(Mentioned(names))
    BY <2>1, SameKnowledge DEF Mentioned
  <2>3. FiledByComment'
    BY <2>1, <2>2 DEF CatalogInv, FiledByComment, Mentioned
  <2> QED
    BY <2>1, <2>3 DEF CatalogInv, LoadedAsWritten
<1> QED
  BY <1>1, <1>2, <1>3 DEF CatalogNext

\* What a paper is filed under: the category in the file that has its venue,
\* never a part of a longer name in its comment, and a rank that there is, for
\* any file that is accepted, any names and any comment
\* (pipeline_config.py:124-168, arxiv_agent.py:389-449).
THEOREM PapersAreFiled == CatalogSpec => []FiledAsConfigured
<1>1. CatalogSpec => []CatalogInv
  BY CatalogStarts, CatalogSteps, PTL DEF CatalogSpec
<1> QED
  BY <1>1, CatalogInvFiles, PTL
=============================================================================
