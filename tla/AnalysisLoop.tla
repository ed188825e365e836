----------------------------- MODULE AnalysisLoop -----------------------------
(***************************************************************************)
(* arxiv_agent.py: how run_daily_pipeline has the papers analysed that it  *)
(* goes on with, one after the other, with up to three calls of the        *)
(* language model for each.  Pipeline.Analyze is what comes of it.         *)
(***************************************************************************)
EXTENDS Integers, FiniteSets, FiniteSetsExt

CONSTANTS
    Papers,         \* conference_papers
    NoPaper,
    Attempts        \* of generate_paper_analysis: 3

ASSUME AnalysisAssumption ==
    /\ NoPaper \notin Papers /\ IsFiniteSet(Papers) /\ Papers # {}
    /\ Attempts \in Nat \ {0}

VARIABLES
    todo,       \* the papers behind the one it is at
    paper,      \* the paper generate_paper_analysis is called for
    attempt,    \* its attempts before this one
    analysed,   \* analyzed_papers
    dropped,    \* the papers without an analysis
    status,     \* running, done, failed or killed
    calls,      \* history: how often the model was called for a paper
    waited,     \* history: minutes slept for a paper
    rejected    \* history: the model rejected a call for good

vars == <<todo, paper, attempt, analysed, dropped, status, calls, waited, rejected>>

Init ==
    /\ todo = Papers /\ paper = NoPaper /\ attempt = 0
    /\ analysed = {} /\ dropped = {} /\ status = "running"
    /\ calls = [p \in Papers |-> 0] /\ waited = [p \in Papers |-> 0] /\ rejected = FALSE

\* The next run, of other papers; they have the same names here.
Begin ==
    /\ status # "running" /\ status' = "running"
    /\ todo' = Papers /\ paper' = NoPaper /\ attempt' = 0
    /\ analysed' = {} /\ dropped' = {} /\ rejected' = FALSE
    /\ calls' = [p \in Papers |-> 0] /\ waited' = [p \in Papers |-> 0]

Take(p) ==
    /\ status = "running" /\ paper = NoPaper /\ p \in todo
    /\ todo' = todo \ {p} /\ paper' = p /\ attempt' = 0
    /\ UNCHANGED <<analysed, dropped, status, calls, waited, rejected>>

\* A call is made, whatever comes of it.
Call ==
    /\ status = "running" /\ paper # NoPaper
    /\ calls' = [calls EXCEPT ![paper] = @ + 1]
    /\ UNCHANGED todo

\* The answer is a JSON object that is not empty, or has one in it.
Analysed ==
    /\ Call /\ analysed' = analysed \cup {paper} /\ paper' = NoPaper
    /\ UNCHANGED <<attempt, dropped, status, waited, rejected>>

\* {} is an analysis for generate_paper_analysis and none for its caller; an
\* object that cannot be read, or an error, ends the attempts as well.
Drop == dropped' = dropped \cup {paper} /\ paper' = NoPaper /\ UNCHANGED attempt

GivesUp ==
    /\ Call /\ Drop
    /\ UNCHANGED <<analysed, status, waited, rejected>>

AskAgain ==
    IF attempt + 1 < Attempts THEN attempt' = attempt + 1 /\ UNCHANGED <<paper, dropped>>
                              ELSE Drop

\* No object in the answer: the next attempt comes at once.
NoObject ==
    /\ Call /\ AskAgain
    /\ UNCHANGED <<analysed, status, waited, rejected>>

Wait == IF attempt + 1 < Attempts THEN attempt + 1 ELSE 0

\* Status 429, or 429 somewhere in the message of any error, the column of a
\* JSON error for one: a minute for each attempt so far, then the next.
RateLimited ==
    /\ Call /\ AskAgain
    /\ waited' = [waited EXCEPT ![paper] = @ + Wait]
    /\ UNCHANGED <<analysed, status, rejected>>

\* PermanentAnalysisError (400, 401, 403, 404) ends the run.
Rejected ==
    /\ Call /\ rejected' = TRUE /\ status' = "failed"
    /\ UNCHANGED <<paper, attempt, analysed, dropped, waited>>

\* Mutation: a run without any analysis goes on.
AnyNumber == TRUE

Some == analysed # {}

\* "No papers were analyzed successfully" ends it too.
Finish ==
    /\ status = "running" /\ paper = NoPaper /\ todo = {}
    /\ status' = IF Some THEN "done" ELSE "failed"
    /\ UNCHANGED <<todo, paper, attempt, analysed, dropped, calls, waited, rejected>>

\* The timeout of execute_pipeline, or the end of the host.
Killed ==
    /\ status = "running" /\ status' = "killed"
    /\ UNCHANGED <<todo, paper, attempt, analysed, dropped, calls, waited, rejected>>

Go ==
    \/ \E p \in Papers : Take(p)
    \/ Analysed \/ GivesUp \/ NoObject \/ RateLimited \/ Rejected
    \/ Finish

Next == Begin \/ Go \/ Killed

Spec == Init /\ [][Next]_vars

-----------------------------------------------------------------------------
\* The states of the variables; a run that goes on has looked at every paper,
\* and keeps or drops each.
TypeOK ==
    /\ todo \subseteq Papers /\ paper \in (Papers \ todo) \cup {NoPaper}
    /\ attempt \in 0..(Attempts - 1)
    /\ analysed \cap dropped = {} /\ ({paper} \cup todo) \cap (analysed \cup dropped) = {}
    /\ todo \cup ({paper} \ {NoPaper}) \cup analysed \cup dropped = Papers
    /\ status \in {"running", "done", "failed", "killed"}
    /\ calls \in [Papers -> 0..Attempts] /\ waited \in [Papers -> Nat]
    /\ rejected \in BOOLEAN

\* A paper costs three calls and three minutes of sleep at most, and every
\* call but that of a run that was rejected counts as an attempt.
BoundedCost ==
    \A p \in Papers :
        /\ calls[p] <= Attempts /\ waited[p] <= (Attempts * (Attempts - 1)) \div 2
        /\ p = paper => calls[p] = attempt \/ status = "failed"

\* After a rejection that trying again cannot change no other paper is paid
\* for (PermanentAnalysisError: "retrying for other papers cannot fix").
NothingAfterRejection == [][rejected /\ rejected' => calls' = calls]_vars

\* A run of the loop does what Pipeline has it do in one step: some of the
\* papers have an analysis and the rest failed, or the run ends.  How a run
\* begins is no matter of the loop.
Place == CASE status = "running" -> "analyze" [] status = "done" -> "save" [] OTHER -> "idle"
Kept == IF status = "done" THEN analysed ELSE Papers
Failed == IF status = "done" THEN dropped ELSE {}

P == INSTANCE Pipeline WITH
    Categories <- {}, Worlds <- {}, PerDay <- 1, Cap <- 1, Retention <- 0, FirstWeekday <- 0,
    LocalShift <- 0, LastDay <- 0, MaxBlind <- 0, MaxSaves <- 0,
    world <- 0, today <- 0, current <- 0, archive <- 0, old <- 0, feed <- {}, target <- 0,
    answered <- {}, blind <- FALSE, torn <- FALSE, written <- 0, blinds <- 0,
    at <- Place, papers <- Kept, failed <- Failed

AnalyzeImplemented ==
    [][Place = "analyze" => P!Analyze \/ P!Stop]_<<Place, Kept, Failed>>
=============================================================================
