--------------------------- MODULE ExecutionProofs ---------------------------
(***************************************************************************)
(* Proofs about AnalysisLoop for any papers and any number of attempts,    *)
(* and about Publication for any number of runs, lost requests and commits *)
(* of others; Execution composes the two.                                  *)
(***************************************************************************)
EXTENDS Execution, TLAPS

-----------------------------------------------------------------------------
(* The loop of the analysis.                                               *)

\* Nothing is spent on a paper before its turn.
Unspent == \A p \in todo : calls[p] = 0 /\ waited[p] = 0

\* The attempts of the paper it is at are its calls, and the waits behind
\* them were of one minute, two, and so on.
Spent ==
    paper # NoPaper =>
        /\ status # "failed" => calls[paper] = attempt
        /\ 2 * waited[paper] <= attempt * (attempt + 1)

Waited == \A p \in Papers : 2 * waited[p] <= Attempts * (Attempts - 1)

RejectionIsFinal == rejected => status = "failed"

LoopInv == TypeOK /\ Unspent /\ Spent /\ Waited /\ RejectionIsFinal

\* k waits of one minute to k add up to k * (k + 1) / 2, which grows with k.
LEMMA WaitsGrow ==
  ASSUME NEW k \in Nat, NEW n \in Nat, k < n
  PROVE  k * (k + 1) <= n * (n - 1)
<1>1. k * (k + 1) <= (n - 1) * (k + 1)
  OBVIOUS
<1>2. (n - 1) * (k + 1) <= (n - 1) * n
  OBVIOUS
<1> QED
  BY <1>1, <1>2

LEMMA OneMoreWait ==
  ASSUME NEW k \in Nat, NEW w \in Nat, 2 * w <= k * (k + 1)
  PROVE  2 * (w + k + 1) <= (k + 1) * (k + 2)
<1>1. (k + 1) * (k + 2) = k * (k + 1) + 2 * (k + 1)
  OBVIOUS
<1> QED
  BY <1>1

\* The state a run begins in, the first as any other.
Beginning ==
    /\ todo = Papers /\ paper = NoPaper /\ attempt = 0
    /\ analysed = {} /\ dropped = {} /\ status = "running" /\ rejected = FALSE
    /\ calls = [p \in Papers |-> 0] /\ waited = [p \in Papers |-> 0]

LEMMA BeginningHolds == Beginning => LoopInv
<1> SUFFICES ASSUME Beginning PROVE LoopInv
  OBVIOUS
<1>1. TypeOK
  <2>1. todo \cup ({paper} \ {NoPaper}) \cup analysed \cup dropped = Papers
    BY DEF Beginning
  <2>2. attempt \in 0..(Attempts - 1) /\ 0 \in 0..Attempts
    BY AnalysisAssumption DEF Beginning
  <2>3. analysed \cap dropped = {} /\ ({paper} \cup todo) \cap (analysed \cup dropped) = {}
    BY DEF Beginning
  <2>4. calls \in [Papers -> 0..Attempts] /\ waited \in [Papers -> Nat]
    BY <2>2 DEF Beginning
  <2> QED
    BY <2>1, <2>2, <2>3, <2>4 DEF Beginning, TypeOK
<1>2. 0 <= Attempts * (Attempts - 1)
  BY AnalysisAssumption
<1> QED
  BY <1>1, <1>2, AnalysisAssumption DEF Beginning, LoopInv, Unspent, Spent, Waited, RejectionIsFinal

LEMMA LoopInit == Init => LoopInv
  BY BeginningHolds DEF Init, Beginning

LEMMA BeginKeeps == ASSUME Begin PROVE LoopInv'
<1>1. Beginning'
  BY DEF Begin, Beginning
<1>2. Beginning' => LoopInv'
  BY BeginningHolds, PTL
<1> QED
  BY <1>1, <1>2

LEMMA TakeKeeps == ASSUME LoopInv, NEW q \in Papers, Take(q) PROVE LoopInv'
<1>1. TypeOK'
  <2>1. todo' \cup ({paper'} \ {NoPaper}) \cup analysed' \cup dropped' = Papers
    <3>1. todo \cup analysed \cup dropped = Papers /\ q # NoPaper
      BY AnalysisAssumption DEF LoopInv, TypeOK, Take
    <3>2. todo' \cup ({paper'} \ {NoPaper}) = todo
      BY <3>1 DEF Take
    <3> QED
      BY <3>1, <3>2 DEF Take
  <2>2. attempt' \in 0..(Attempts - 1)
    BY AnalysisAssumption DEF Take
  <2>3. analysed' \cap dropped' = {} /\ ({paper'} \cup todo') \cap (analysed' \cup dropped') = {}
    BY AnalysisAssumption DEF LoopInv, TypeOK, Take
  <2>4. todo' \subseteq Papers /\ paper' \in (Papers \ todo') \cup {NoPaper}
    BY DEF LoopInv, TypeOK, Take
  <2> QED
    BY <2>1, <2>2, <2>3, <2>4 DEF LoopInv, TypeOK, Take
<1>2. Unspent' /\ Waited' /\ RejectionIsFinal'
  BY DEF LoopInv, Unspent, Waited, RejectionIsFinal, Take
<1>3. Spent'
  BY DEF LoopInv, Unspent, Spent, Take
<1> QED
  BY <1>1, <1>2, <1>3 DEF LoopInv

\* What a call does to the counts, whatever comes of it.
LEMMA CallCounts ==
  ASSUME LoopInv, Call
  PROVE  /\ paper \in Papers /\ attempt \in Nat /\ calls[paper] = attempt
         /\ calls' \in [Papers -> 0..Attempts] /\ calls'[paper] = attempt + 1
         /\ \A p \in Papers \ {paper} : calls'[p] = calls[p]
<1>1. paper \in Papers /\ attempt \in Nat /\ attempt + 1 <= Attempts /\ calls[paper] = attempt
  BY AnalysisAssumption DEF LoopInv, TypeOK, Spent, Call
<1> QED
  BY <1>1, AnalysisAssumption DEF LoopInv, TypeOK, Call

\* The paper it is at gets an analysis or is dropped, after no wait.
LEMMA PaperEnds ==
  ASSUME LoopInv, Call, paper' = NoPaper, UNCHANGED <<attempt, waited>>,
         \/ analysed' = analysed \cup {paper} /\ dropped' = dropped
         \/ dropped' = dropped \cup {paper} /\ analysed' = analysed,
         UNCHANGED <<status, rejected>>
  PROVE  LoopInv'
<1>1. TypeOK'
  BY CallCounts, AnalysisAssumption DEF LoopInv, TypeOK, Call
<1>2. Unspent'
  BY CallCounts DEF LoopInv, TypeOK, Unspent, Call
<1>3. Spent' /\ Waited' /\ RejectionIsFinal'
  BY DEF LoopInv, Spent, Waited, RejectionIsFinal
<1> QED
  BY <1>1, <1>2, <1>3 DEF LoopInv

\* The next attempt for the same paper, after a wait.
LEMMA NextAttempt ==
  ASSUME LoopInv, Call, attempt + 1 < Attempts, attempt' = attempt + 1,
         UNCHANGED <<paper, analysed, dropped, status, rejected>>,
         waited' = waited \/ waited' = [waited EXCEPT ![paper] = @ + attempt + 1]
  PROVE  LoopInv'
<1>1. paper \in Papers /\ attempt \in Nat /\ waited[paper] \in Nat
  BY CallCounts DEF LoopInv, TypeOK
<1>2. TypeOK'
  BY <1>1, CallCounts, AnalysisAssumption DEF LoopInv, TypeOK, Call
<1>3. Unspent'
  BY <1>1, CallCounts DEF LoopInv, TypeOK, Unspent, Call
<1>4. 2 * waited'[paper] <= (attempt + 1) * (attempt + 2)
  <2>1. waited'[paper] = waited[paper] \/ waited'[paper] = waited[paper] + attempt + 1
    BY <1>1 DEF LoopInv, TypeOK
  <2>2. 2 * (waited[paper] + attempt + 1) <= (attempt + 1) * (attempt + 2)
    BY <1>1, OneMoreWait DEF LoopInv, Spent, Call
  <2> QED
    BY <1>1, <2>1, <2>2
<1>5. Spent'
  BY <1>1, <1>4, CallCounts DEF Spent
<1>6. (attempt + 1) * (attempt + 2) <= Attempts * (Attempts - 1)
  <2>1. (attempt + 1) \in Nat /\ Attempts \in Nat /\ (attempt + 1) + 1 = attempt + 2
    BY <1>1, AnalysisAssumption
  <2> QED
    BY <2>1, WaitsGrow
<1>7. Waited'
  <2> SUFFICES ASSUME NEW p \in Papers PROVE 2 * waited'[p] <= Attempts * (Attempts - 1)
    BY DEF Waited
  <2>1. CASE p = paper
    <3>1. waited'[p] \in Nat
      BY <1>2 DEF TypeOK
    <3>2. /\ (attempt + 1) * (attempt + 2) \in Int /\ Attempts * (Attempts - 1) \in Int
      BY <1>1, AnalysisAssumption
    <3> QED
      BY <2>1, <1>4, <1>6, <3>1, <3>2
  <2>2. CASE p # paper
    BY <2>2 DEF LoopInv, TypeOK, Waited
  <2> QED
    BY <2>1, <2>2
<1>8. RejectionIsFinal'
  BY DEF LoopInv, RejectionIsFinal
<1> QED
  BY <1>2, <1>3, <1>5, <1>7, <1>8 DEF LoopInv

LEMMA NoObjectKeeps == ASSUME LoopInv, NoObject PROVE LoopInv'
<1>1. CASE attempt + 1 < Attempts
  BY <1>1, NextAttempt DEF NoObject, AskAgain
<1>2. CASE ~(attempt + 1 < Attempts)
  BY <1>2, PaperEnds DEF NoObject, AskAgain, Drop
<1> QED
  BY <1>1, <1>2

LEMMA RateLimitedKeeps == ASSUME LoopInv, RateLimited PROVE LoopInv'
<1>1. CASE attempt + 1 < Attempts
  <2>1. waited' = [waited EXCEPT ![paper] = @ + attempt + 1]
    <3>1. waited' = [waited EXCEPT ![paper] = @ + (attempt + 1)]
      BY <1>1 DEF RateLimited, Wait
    <3>2. attempt \in Nat /\ waited[paper] \in Nat
      BY CallCounts DEF RateLimited, LoopInv, TypeOK
    <3>3. waited[paper] + (attempt + 1) = waited[paper] + attempt + 1
      BY <3>2
    <3> QED
      BY <3>1, <3>3
  <2> QED
    BY <1>1, <2>1, NextAttempt DEF RateLimited, AskAgain
<1>2. CASE ~(attempt + 1 < Attempts)
  <2>1. waited' = waited
    BY <1>2, CallCounts DEF RateLimited, Wait, LoopInv, TypeOK
  <2> QED
    BY <1>2, <2>1, PaperEnds DEF RateLimited, AskAgain, Drop
<1> QED
  BY <1>1, <1>2

LEMMA RejectedKeeps == ASSUME LoopInv, Rejected PROVE LoopInv'
<1>1. TypeOK'
  BY CallCounts, AnalysisAssumption DEF LoopInv, TypeOK, Rejected, Call
<1>2. Unspent'
  BY CallCounts DEF LoopInv, TypeOK, Unspent, Rejected, Call
<1>3. Spent' /\ Waited' /\ RejectionIsFinal'
  BY DEF LoopInv, Spent, Waited, RejectionIsFinal, Rejected
<1> QED
  BY <1>1, <1>2, <1>3 DEF LoopInv

\* Finish and Killed change the status of a run that goes on.
LEMMA StatusKeeps == ASSUME LoopInv, Finish \/ Killed PROVE LoopInv'
<1>1. TypeOK'
  BY DEF LoopInv, TypeOK, Finish, Killed
<1>2. Unspent' /\ Waited'
  BY DEF LoopInv, Unspent, Waited, Finish, Killed
<1>3. Spent' /\ RejectionIsFinal'
  BY DEF LoopInv, Spent, RejectionIsFinal, Finish, Killed
<1> QED
  BY <1>1, <1>2, <1>3 DEF LoopInv

LEMMA LoopStep == ASSUME LoopInv, [Next]_vars PROVE LoopInv'
<1>0. CASE Begin
  BY <1>0, BeginKeeps
<1>1. CASE \E p \in Papers : Take(p)
  BY <1>1, TakeKeeps
<1>2. CASE Analysed
  BY <1>2, PaperEnds DEF Analysed
<1>3. CASE GivesUp
  BY <1>3, PaperEnds DEF GivesUp, Drop
<1>4. CASE NoObject
  BY <1>4, NoObjectKeeps
<1>5. CASE RateLimited
  BY <1>5, RateLimitedKeeps
<1>6. CASE Rejected
  BY <1>6, RejectedKeeps
<1>7. CASE Finish \/ Killed
  BY <1>7, StatusKeeps
<1>8. CASE UNCHANGED vars
  BY <1>8 DEF vars, LoopInv, TypeOK, Unspent, Spent, Waited, RejectionIsFinal
<1> QED
  BY <1>0, <1>1, <1>2, <1>3, <1>4, <1>5, <1>6, <1>7, <1>8 DEF Next, Go

LEMMA LoopInductive == Spec => []LoopInv
  BY LoopInit, LoopStep, PTL DEF Spec

\* Every paper is ahead, at hand, analysed or dropped (arxiv_agent.py:720-743).
THEOREM AnalysisTypes == Spec => []TypeOK
  BY LoopInductive, PTL DEF LoopInv

\* The cost of a paper has the bound of its attempts, for any number of them
\* (arxiv_agent.py:597-635).
THEOREM CostIsBounded == Spec => []BoundedCost
<1>1. LoopInv => BoundedCost
  <2> SUFFICES ASSUME LoopInv, NEW p \in Papers
               PROVE  /\ calls[p] <= Attempts
                      /\ waited[p] <= (Attempts * (Attempts - 1)) \div 2
                      /\ p = paper => calls[p] = attempt \/ status = "failed"
    BY DEF BoundedCost
  <2>1. calls[p] <= Attempts
    BY AnalysisAssumption DEF LoopInv, TypeOK
  <2>2. waited[p] \in Nat /\ 2 * waited[p] <= Attempts * (Attempts - 1)
    BY DEF LoopInv, TypeOK, Waited
  <2>3. Attempts * (Attempts - 1) \in Int
    BY AnalysisAssumption
  <2>4. \A w, m \in Int : 2 * w <= m => w <= m \div 2
    OBVIOUS
  <2>5. p = paper => calls[p] = attempt \/ status = "failed"
    BY AnalysisAssumption DEF LoopInv, Spent
  <2> QED
    BY <2>1, <2>2, <2>3, <2>4, <2>5
<1> QED
  BY <1>1, LoopInductive, PTL

\* A rejected run calls the model no more (arxiv_agent.py:621-627).
THEOREM RejectionEndsTheRun == Spec => NothingAfterRejection
<1>1. LoopInv /\ [Next]_vars => [rejected /\ rejected' => calls' = calls]_vars
  BY DEF LoopInv, RejectionIsFinal, Next, Begin, Go, Take, Analysed, GivesUp, NoObject, RateLimited,
     Rejected, Finish, Killed, Call, vars
<1> QED
  BY <1>1, LoopInductive, PTL DEF Spec, NothingAfterRejection

\* A step of the loop is a step of Pipeline or none (arxiv_agent.py:720-743).
LEMMA LoopSimulates ==
  ASSUME LoopInv, [Next]_vars
  PROVE  [Place = "analyze" => P!Analyze \/ P!Stop]_<<Place, Kept, Failed>>
<1>1. CASE Finish /\ Some
  <2>1. Place = "analyze" /\ Place' = "save" /\ Kept = Papers /\ Kept' = analysed
    BY <1>1 DEF Finish, Place, Kept
  <2>2. analysed \subseteq Papers /\ analysed # {} /\ dropped = Papers \ analysed
    BY <1>1 DEF LoopInv, TypeOK, Finish, Some
  <2>3. Failed' = dropped
    BY <1>1 DEF Finish, Failed
  <2> QED
    BY <2>1, <2>2, <2>3 DEF P!Analyze, P!fileVars, P!fetchVars
<1>2. CASE (Finish /\ ~Some) \/ Rejected \/ Killed
  <2>1. Place = "analyze" /\ Place' = "idle" /\ UNCHANGED <<Kept, Failed>>
    BY <1>2 DEF Finish, Rejected, Killed, Call, Place, Kept, Failed
  <2> QED
    BY <2>1 DEF P!Stop, P!fileVars, P!fetchVars
<1>3. CASE \/ \E p \in Papers : Take(p)
           \/ Analysed \/ GivesUp \/ NoObject \/ RateLimited \/ UNCHANGED vars
  <2>1. UNCHANGED status /\ (status = "running" \/ UNCHANGED vars)
    BY <1>3 DEF Take, Analysed, GivesUp, NoObject, RateLimited, Call, vars
  <2>2. UNCHANGED <<Place, Kept, Failed>>
    BY <2>1 DEF Place, Kept, Failed, vars
  <2> QED
    BY <2>2
<1>4. CASE Begin
  BY <1>4 DEF Begin, Place
<1> QED
  BY <1>1, <1>2, <1>3, <1>4 DEF Next, Go

\* The loop implements the step Pipeline takes for it, for any papers.
THEOREM LoopImplementsAnalyze == Spec => AnalyzeImplemented
  BY LoopSimulates, LoopInductive, PTL DEF Spec, AnalyzeImplemented

-----------------------------------------------------------------------------
(* Publication.  The contents of a file only grow, as long as nobody else  *)
(* commits: a run asks for the sha before its own content is anywhere, so  *)
(* what it replaces, at once or with a request that arrives late, is older *)
(* than what it sends.                                                     *)

Publishing == at \in {"read", "get", "put"}

PublishTypeOK ==
    /\ runs \in Nat /\ disk \in [Files -> Nat] /\ repo \in [Files -> Int]
    /\ committed \in [Files -> SUBSET Int] /\ touched \in SUBSET Files
    /\ foreigns \in Nat
    /\ at \in {"idle", "read", "get", "put"} /\ file \in Files /\ raw \in Nat /\ sha \in Int
    /\ late \subseteq [file : Files, content : Nat, sha : Int]

\* What is there was committed, by a run so far or by somebody else.
ContentsAreCommitted ==
    \A f \in Files :
        /\ repo[f] \in committed[f] \cup {Missing}
        /\ \A c \in committed[f] : c < 0 \/ c \in 1..runs

\* What is called published is of the last run.
ResultIsOfTheLast == result = "published" => \A f \in Files : disk[f] = runs

\* A run sends what it saved, in place of something older, and the archive after
\* papers.json.
RunSends ==
    Publishing =>
        /\ runs > 0 /\ result = "none" /\ \A f \in Files : disk[f] = runs
        /\ runs \notin committed[file] /\ \A r \in late : r.content < runs
        /\ file = Second => runs \in committed[First]
        /\ at \in {"get", "put"} => raw = runs
        /\ at = "put" => sha < runs

LateRequests ==
    \A r \in late :
        /\ r.content \in 1..runs /\ r.sha < r.content
        /\ r.file = Second => r.content \in committed[First]

\* Without commits of others each file is the newest that was committed, and
\* whatever was committed as the archive was committed as papers.json before.
NewestIsThere ==
    /\ foreigns = 0 =>
        \A f \in Files : \A c \in committed[f] : c > 0 /\ c <= repo[f]
    /\ \A c \in committed[Second] : c < 0 \/ c \in committed[First]

\* While the archive is sent, papers.json is as the run saved it, or others have
\* committed since.
FirstStays ==
    Publishing /\ file = Second => repo[First] = disk[First] \/ First \in touched

PublishInv ==
    /\ PublishTypeOK /\ ContentsAreCommitted /\ RunSends /\ LateRequests /\ NewestIsThere
    /\ PublishedStays /\ FirstStays /\ ResultIsOfTheLast

PublishNext == RunSaves \/ RunIsStopped \/ PublishStep \/ LateArrives \/ ForeignCommit

\* What a content does to a file: a newer one of the runs, or one of others.
LEMMA CommitKeeps ==
  ASSUME PublishInv, runs' = runs, NEW f \in Files, NEW c \in Int, Commit(f, c),
         \/ foreigns' \in Nat \ {0} /\ (c < 0 \/ c \in committed[f])
         \/ /\ c \in 1..runs /\ repo[f] < c /\ foreigns' = foreigns
            /\ f = Second => c \in committed[First]
  PROVE  /\ repo' \in [Files -> Int] /\ committed' \in [Files -> SUBSET Int]
         /\ ContentsAreCommitted' /\ NewestIsThere'
         /\ committed'[f] = committed[f] \cup {c} /\ repo'[f] = c
         /\ \A g \in Files \ {f} : committed'[g] = committed[g] /\ repo'[g] = repo[g]
         /\ \A g \in Files : committed[g] \subseteq committed'[g]
<1>0. /\ PublishTypeOK /\ ContentsAreCommitted /\ NewestIsThere
      /\ First \in Files /\ Second \in Files /\ First # Second
  BY PublicationAssumption DEF PublishInv
<1>1. /\ repo' \in [Files -> Int] /\ committed' \in [Files -> SUBSET Int]
      /\ committed'[f] = committed[f] \cup {c} /\ repo'[f] = c
      /\ \A g \in Files \ {f} : committed'[g] = committed[g] /\ repo'[g] = repo[g]
  BY <1>0 DEF PublishTypeOK, Commit
<1>2. ContentsAreCommitted'
  BY <1>0, <1>1 DEF ContentsAreCommitted
<1>3. ASSUME foreigns' = 0, NEW g \in Files, NEW d \in committed'[g]
      PROVE  d > 0 /\ d <= repo'[g]
  <2>1. foreigns = 0 /\ c > 0 /\ repo[f] < c /\ repo[f] \in Int
    BY <1>0, <1>3 DEF PublishTypeOK
  <2>2. \A e \in committed[g] : e \in Int /\ e > 0 /\ e <= repo[g]
    BY <1>0, <2>1 DEF NewestIsThere, PublishTypeOK
  <2> QED
    BY <1>1, <1>3, <2>1, <2>2
<1>4. ASSUME NEW d \in committed'[Second]
      PROVE  d < 0 \/ d \in committed'[First]
  <2>1. committed[First] \subseteq committed'[First]
    BY <1>0, <1>1
  <2>2. d \in committed[Second] \/ (f = Second /\ d = c)
    BY <1>0, <1>1, <1>4
  <2> QED
    BY <1>0, <2>1, <2>2 DEF NewestIsThere
<1> QED
  BY <1>0, <1>1, <1>2, <1>3, <1>4 DEF NewestIsThere

LEMMA PublishInitially == PublishInit => PublishInv
  BY PublicationAssumption
  DEF PublishInit, PublishInv, PublishTypeOK, ContentsAreCommitted, RunSends, Publishing,
      LateRequests, NewestIsThere, PublishedStays, FirstStays, ResultIsOfTheLast, Missing

\* A run that saves is the newest by far.
LEMMA SavingKeeps == ASSUME PublishInv, RunSaves \/ RunIsStopped PROVE PublishInv'
<1>0. /\ PublishTypeOK /\ ContentsAreCommitted /\ LateRequests /\ NewestIsThere
      /\ First \in Files /\ Second \in Files /\ First # Second
      /\ runs' = runs + 1 /\ UNCHANGED <<repo, committed, late, foreigns>>
      /\ result' = "none"
  BY PublicationAssumption DEF PublishInv, RunSaves, RunIsStopped
<1>1. PublishTypeOK'
  BY <1>0 DEF PublishTypeOK, RunSaves, RunIsStopped
<1>2. ContentsAreCommitted' /\ LateRequests' /\ NewestIsThere'
  BY <1>0 DEF ContentsAreCommitted, LateRequests, NewestIsThere, PublishTypeOK
<1>3. RunSends'
  <2>1. CASE RunSaves
    <3>1. at' = "read" /\ file' = First /\ \A f \in Files : disk'[f] = runs'
      BY <2>1 DEF RunSaves
    <3>2. runs + 1 \notin committed[First] /\ \A r \in late : r.content < runs + 1
      BY <1>0 DEF ContentsAreCommitted, LateRequests, PublishTypeOK
    <3>3. runs' > 0
      BY <1>0 DEF PublishTypeOK
    <3> QED
      BY <1>0, <3>1, <3>2, <3>3 DEF RunSends
  <2>2. CASE RunIsStopped
    BY <2>2 DEF RunIsStopped, RunSends, Publishing
  <2> QED
    BY <2>1, <2>2
<1>4. PublishedStays' /\ FirstStays' /\ ResultIsOfTheLast'
  BY <1>0 DEF PublishedStays, FirstStays, ResultIsOfTheLast, Publishing, RunSaves, RunIsStopped
<1> QED
  BY <1>0, <1>1, <1>2, <1>3, <1>4 DEF PublishInv

\* What the run asks for and how it fails before anything is sent.
LEMMA AskingKeeps ==
  ASSUME PublishInv, Read \/ Get \/ GetFails \/ Conflict
  PROVE  PublishInv'
<1>0. /\ PublishTypeOK /\ ContentsAreCommitted /\ RunSends /\ LateRequests /\ NewestIsThere
      /\ UNCHANGED <<runs, disk, repo, committed, touched, foreigns, late, file>>
  BY DEF PublishInv, Read, Get, GetFails, Conflict
<1>1. ContentsAreCommitted' /\ LateRequests' /\ NewestIsThere'
  BY <1>0 DEF ContentsAreCommitted, LateRequests, NewestIsThere
<1>2. PublishTypeOK'
  BY <1>0 DEF PublishTypeOK, Read, Get, GetFails, Conflict, Fail
<1>3. RunSends'
  <2>1. CASE Read
    BY <1>0, <2>1 DEF Read, RunSends, Publishing, PublishTypeOK
  <2>2. CASE Get
    <3>1. runs > 0 /\ runs \notin committed[file] /\ file \in Files
      BY <1>0, <2>2 DEF Get, RunSends, Publishing, PublishTypeOK
    <3>2. repo[file] \in Int /\ repo[file] < runs /\ runs \in Nat
      BY <1>0, <3>1 DEF ContentsAreCommitted, PublishTypeOK, Missing
    <3> QED
      BY <1>0, <2>2, <3>2 DEF Get, RunSends, Publishing
  <2>3. CASE GetFails \/ Conflict
    BY <2>3 DEF GetFails, Conflict, Fail, RunSends, Publishing
  <2> QED
    BY <2>1, <2>2, <2>3
<1>4. PublishedStays' /\ FirstStays' /\ ResultIsOfTheLast'
  BY <1>0
  DEF PublishInv, PublishedStays, FirstStays, ResultIsOfTheLast, Publishing,
      Read, Get, GetFails, Conflict, Fail
<1> QED
  BY <1>1, <1>2, <1>3, <1>4 DEF PublishInv

LEMMA LosingKeeps == ASSUME PublishInv, PutIsLost PROVE PublishInv'
<1> DEFINE r == [file |-> file, content |-> raw, sha |-> sha]
<1>0. /\ PublishTypeOK /\ ContentsAreCommitted /\ RunSends /\ LateRequests /\ NewestIsThere
      /\ UNCHANGED <<runs, disk, repo, committed, touched, foreigns, file, raw, sha>>
      /\ at = "put" /\ at' = "idle" /\ result' = "failed" /\ late' = late \cup {r}
  BY DEF PublishInv, PutIsLost, Fail
<1>1. /\ raw = runs /\ runs > 0 /\ sha < runs /\ runs \in Nat
      /\ file = Second => runs \in committed[First]
  BY <1>0 DEF RunSends, Publishing, PublishTypeOK
<1>2. PublishTypeOK'
  BY <1>0 DEF PublishTypeOK
<1>3. LateRequests'
  BY <1>0, <1>1 DEF LateRequests
<1>4. ContentsAreCommitted' /\ NewestIsThere' /\ RunSends'
  BY <1>0 DEF ContentsAreCommitted, NewestIsThere, RunSends, Publishing
<1>5. PublishedStays' /\ FirstStays' /\ ResultIsOfTheLast'
  BY <1>0 DEF PublishedStays, FirstStays, ResultIsOfTheLast, Publishing
<1> QED
  BY <1>0, <1>2, <1>3, <1>4, <1>5 DEF PublishInv

LEMMA PutKeeps == ASSUME PublishInv, Put PROVE PublishInv'
<1>0. /\ PublishTypeOK /\ ContentsAreCommitted /\ RunSends /\ LateRequests /\ NewestIsThere
      /\ UNCHANGED <<runs, disk, raw, sha, late, foreigns>> /\ touched' = touched \ {file}
      /\ at = "put" /\ Commit(file, raw) /\ repo[file] = sha /\ Sent /\ file \in Files
      /\ First \in Files /\ Second \in Files /\ Files = {First, Second} /\ First # Second
  BY PublicationAssumption DEF PublishInv, PublishTypeOK, Put
<1>1. /\ raw = runs /\ runs > 0 /\ sha < runs /\ runs \in Nat /\ \A f \in Files : disk[f] = runs
      /\ runs \notin committed[file] /\ result = "none" /\ \A r \in late : r.content < runs
      /\ file = Second => runs \in committed[First]
  BY <1>0 DEF RunSends, Publishing, PublishTypeOK
<1>2. /\ repo' \in [Files -> Int] /\ committed' \in [Files -> SUBSET Int]
      /\ ContentsAreCommitted' /\ NewestIsThere'
      /\ committed'[file] = committed[file] \cup {runs} /\ repo'[file] = runs
      /\ \A g \in Files \ {file} : committed'[g] = committed[g] /\ repo'[g] = repo[g]
      /\ \A g \in Files : committed[g] \subseteq committed'[g]
  <2>1. Commit(file, runs) /\ repo[file] < runs /\ runs \in 1..runs /\ runs \in Int
    BY <1>0, <1>1
  <2> QED
    BY <1>0, <1>1, <2>1, CommitKeeps
<1>3. PublishTypeOK'
  BY <1>0, <1>2 DEF PublishTypeOK, Sent
<1>4. LateRequests'
  BY <1>0, <1>2 DEF LateRequests
<1>5. CASE file = First
  <2>1. at' = "read" /\ file' = Second /\ result' = result
    BY <1>0, <1>5 DEF Sent
  <2>2. runs \in committed'[First] /\ committed'[Second] = committed[Second]
    BY <1>0, <1>2, <1>5
  <2>3. runs \notin committed[Second]
    BY <1>0, <1>1, <1>5 DEF NewestIsThere
  <2>4. RunSends'
    BY <1>0, <1>1, <2>1, <2>2, <2>3 DEF RunSends
  <2>5. FirstStays'
    BY <1>0, <1>1, <1>2, <1>5 DEF FirstStays
  <2>6. PublishedStays' /\ ResultIsOfTheLast'
    BY <1>0, <2>1 DEF PublishedStays, ResultIsOfTheLast, RunSends, Publishing
  <2> QED
    BY <1>2, <1>3, <1>4, <2>4, <2>5, <2>6 DEF PublishInv
<1>6. CASE file # First
  <2>1. at' = "idle" /\ file = Second
    BY <1>0, <1>6 DEF Sent
  <2>2. repo[First] = disk[First] \/ First \in touched
    BY <1>0, <2>1 DEF PublishInv, FirstStays, Publishing
  <2>3. PublishedStays' /\ FirstStays' /\ ResultIsOfTheLast'
    BY <1>0, <1>1, <1>2, <2>1, <2>2
    DEF PublishedStays, FirstStays, ResultIsOfTheLast, Publishing
  <2> QED
    BY <1>2, <1>3, <1>4, <2>1, <2>3 DEF PublishInv, RunSends, Publishing
<1> QED
  BY <1>5, <1>6

\* A late request arrives, when the run it belongs to has long failed.
LEMMA ArrivingKeeps == ASSUME PublishInv, LateArrives PROVE PublishInv'
<1>0. /\ PublishTypeOK /\ ContentsAreCommitted /\ RunSends /\ LateRequests /\ NewestIsThere
      /\ UNCHANGED <<runs, disk, at, file, raw, sha, result, touched, foreigns>>
      /\ PublishedStays /\ FirstStays
  BY DEF PublishInv, LateArrives, callVars
<1>1. PICK r \in late :
        /\ late' = late \ {r}
        /\ IF repo[r.file] = r.sha THEN Commit(r.file, r.content) ELSE UNCHANGED <<repo, committed>>
  BY DEF LateArrives
<1>2. /\ r.file \in Files /\ r.content \in 1..runs /\ r.content \in Int /\ r.sha < r.content
      /\ r.file = Second => r.content \in committed[First]
      /\ Publishing => r.content < runs
      /\ r.sha < runs
  BY <1>0 DEF LateRequests, RunSends, PublishTypeOK
<1>3. /\ repo' \in [Files -> Int] /\ committed' \in [Files -> SUBSET Int]
      /\ ContentsAreCommitted' /\ NewestIsThere'
      /\ \A g \in Files : committed[g] \subseteq committed'[g]
      /\ \A g \in Files : committed'[g] \subseteq committed[g] \cup {r.content}
      /\ \A g \in Files : repo[g] = runs => repo'[g] = runs
  <2>1. CASE repo[r.file] = r.sha
    <3>1. Commit(r.file, r.content) /\ repo[r.file] < r.content /\ repo[r.file] # runs
      BY <1>0, <1>1, <1>2, <2>1 DEF PublishTypeOK
    <3>2. /\ repo' \in [Files -> Int] /\ committed' \in [Files -> SUBSET Int]
          /\ ContentsAreCommitted' /\ NewestIsThere'
          /\ committed'[r.file] = committed[r.file] \cup {r.content}
          /\ \A g \in Files \ {r.file} : committed'[g] = committed[g] /\ repo'[g] = repo[g]
          /\ \A g \in Files : committed[g] \subseteq committed'[g]
      BY <1>0, <1>2, <3>1, CommitKeeps
    <3> QED
      BY <3>1, <3>2
  <2>2. CASE repo[r.file] # r.sha
    BY <1>0, <1>1, <2>2 DEF PublishTypeOK, ContentsAreCommitted, NewestIsThere
  <2> QED
    BY <2>1, <2>2
<1>4. PublishTypeOK'
  BY <1>0, <1>1, <1>3 DEF PublishTypeOK
<1>5. LateRequests'
  BY <1>0, <1>1, <1>3, PublicationAssumption DEF LateRequests
<1>6. RunSends'
  <2> SUFFICES ASSUME Publishing PROVE RunSends'
    BY <1>0 DEF RunSends, Publishing
  <2>1. runs \notin committed'[file]
    BY <1>0, <1>2, <1>3 DEF RunSends, PublishTypeOK
  <2> QED
    BY <1>0, <1>1, <1>3, <2>1, PublicationAssumption DEF RunSends, Publishing
<1>7. PublishedStays' /\ FirstStays' /\ ResultIsOfTheLast'
  <2>1. ASSUME result = "published" \/ (Publishing /\ file = Second),
               NEW f \in Files, repo[f] = disk[f]
        PROVE  repo'[f] = disk'[f]
    <3>1. disk[f] = runs
      BY <1>0, <2>1 DEF RunSends, PublishInv, ResultIsOfTheLast
    <3> QED
      BY <1>0, <1>3, <2>1, <3>1
  <2> QED
    BY <1>0, <2>1, PublicationAssumption
    DEF PublishInv, PublishedStays, FirstStays, ResultIsOfTheLast, Publishing
<1> QED
  BY <1>0, <1>3, <1>4, <1>5, <1>6, <1>7 DEF PublishInv

LEMMA OthersKeep == ASSUME PublishInv, ForeignCommit PROVE PublishInv'
<1>0. /\ PublishTypeOK /\ ContentsAreCommitted /\ RunSends /\ LateRequests /\ NewestIsThere
      /\ UNCHANGED <<runs, disk, at, file, raw, sha, result, late>>
  BY DEF PublishInv, ForeignCommit, callVars
<1>1. /\ foreigns' \in Nat \ {0} /\ \A f \in touched : f \in touched'
      /\ touched' \in SUBSET Files
  BY <1>0 DEF ForeignCommit, PublishTypeOK
<1>2. PICK f \in Files : /\ \E c \in committed[f] \cup {-foreigns'} : Commit(f, c)
                         /\ touched' = touched \cup {f}
  BY DEF ForeignCommit
<1>3. PICK c \in committed[f] \cup {-foreigns'} : Commit(f, c)
  BY <1>2
<1>4. c \in Int /\ (c < 0 \/ c \in committed[f])
  <2>1. CASE c = -foreigns'
    <3>1. \A n \in Nat \ {0} : -n \in Int /\ -n < 0
      OBVIOUS
    <3> QED
      BY <1>1, <2>1, <3>1, Zenon
  <2>2. CASE c \in committed[f]
    BY <1>0, <2>2 DEF PublishTypeOK
  <2> QED
    BY <1>3, <2>1, <2>2
<1>5. /\ repo' \in [Files -> Int] /\ committed' \in [Files -> SUBSET Int]
      /\ ContentsAreCommitted' /\ NewestIsThere'
      /\ committed'[f] = committed[f] \cup {c}
      /\ \A g \in Files \ {f} : committed'[g] = committed[g] /\ repo'[g] = repo[g]
      /\ \A g \in Files : committed[g] \subseteq committed'[g]
  BY <1>0, <1>1, <1>3, <1>4, CommitKeeps
<1>6. PublishTypeOK' /\ LateRequests'
  BY <1>0, <1>1, <1>5, PublicationAssumption DEF PublishTypeOK, LateRequests
<1>7. Publishing => runs \notin committed'[file]
  <2>1. Publishing => runs \notin committed[file] /\ runs \in Nat /\ file \in Files
    BY <1>0 DEF RunSends, PublishTypeOK
  <2> QED
    BY <1>4, <1>5, <2>1
<1>8. RunSends'
  BY <1>0, <1>5, <1>7, PublicationAssumption DEF RunSends, Publishing
<1>9. PublishedStays' /\ FirstStays' /\ ResultIsOfTheLast'
  BY <1>0, <1>2, <1>5, PublicationAssumption
  DEF PublishInv, PublishedStays, FirstStays, ResultIsOfTheLast, Publishing
<1> QED
  BY <1>5, <1>6, <1>8, <1>9 DEF PublishInv

LEMMA PublishKeeps == ASSUME PublishInv, [PublishNext]_publishVars PROVE PublishInv'
<1>1. CASE PublishNext
  BY <1>1, SavingKeeps, AskingKeeps, LosingKeeps, PutKeeps, ArrivingKeeps, OthersKeep
  DEF PublishNext, PublishStep
<1>2. CASE UNCHANGED publishVars
  BY <1>2
  DEF publishVars, callVars, PublishInv, PublishTypeOK, ContentsAreCommitted, RunSends, Publishing,
      LateRequests, NewestIsThere, PublishedStays, FirstStays, ResultIsOfTheLast
<1> QED
  BY <1>1, <1>2

\* A step of the whole is one of each of its parts or leaves the part alone.
LEMMA ExecutionSteps ==
  ASSUME [ExecutionNext]_executionVars
  PROVE  [Next]_vars /\ [PublishNext]_publishVars
  BY DEF ExecutionNext, executionVars, Analyse, SaveResults, Publish, NextRun, Others, Next,
         PublishNext

LEMMA ExecutionInductive == ExecutionSpec => [](LoopInv /\ PublishInv)
<1>1. ExecutionInit => LoopInv /\ PublishInv
  BY LoopInit, PublishInitially DEF ExecutionInit
<1>2. LoopInv /\ PublishInv /\ [ExecutionNext]_executionVars => LoopInv' /\ PublishInv'
  BY ExecutionSteps, LoopStep, PublishKeeps
<1> QED
  BY <1>1, <1>2, PTL DEF ExecutionSpec

\* Without commits of others the archive in the repository is never ahead of
\* papers.json, whichever requests are lost and arrive late, in any number of runs
\* (publishing.py).
THEOREM ArchiveIsNeverAhead == ExecutionSpec => []PublishedInOrder
<1>1. PublishInv => PublishedInOrder
  <2> SUFFICES ASSUME PublishInv, foreigns = 0
               PROVE  repo[Second] <= repo[First]
    BY DEF PublishedInOrder
  <2>1. /\ First \in Files /\ Second \in Files /\ repo \in [Files -> Int]
        /\ ContentsAreCommitted /\ NewestIsThere
    BY PublicationAssumption DEF PublishInv, PublishTypeOK
  <2>2. 0 <= repo[First]
    BY <2>1 DEF ContentsAreCommitted, NewestIsThere, Missing
  <2>3. repo[Second] = 0 \/ repo[Second] \in committed[First]
    BY <2>1 DEF ContentsAreCommitted, NewestIsThere, Missing
  <2> QED
    BY <2>1, <2>2, <2>3 DEF NewestIsThere
<1> QED
  BY <1>1, ExecutionInductive, PTL

\* When publish_outputs has returned True the repository keeps both files of that
\* run until the next one, but for commits of others after our PUT: however many
\* requests of earlier publications are still on their way (publishing.py).
THEOREM PublishedFilesStay == ExecutionSpec => []PublishedStays
<1>1. PublishInv => PublishedStays
  BY DEF PublishInv
<1> QED
  BY <1>1, ExecutionInductive, PTL

\* The loop goes on inside an execution as it does alone, so its theorems are
\* theorems of the execution.
THEOREM ExecutionRunsTheLoop == ExecutionSpec => Spec /\ AnalyzeImplemented
<1>1. ExecutionInit => Init
  BY DEF ExecutionInit
<1> QED
  BY <1>1, ExecutionSteps, LoopImplementsAnalyze, PTL DEF ExecutionSpec, Spec
=============================================================================
