------------------------------ MODULE Pipeline ------------------------------
(***************************************************************************)
(* arxiv_agent.py: one run after the other fetches what arXiv announces,   *)
(* keeps the papers of the most recent date that a venue accepted, has     *)
(* each analysed, and replaces papers.json and papers_archive.json.        *)
(*                                                                         *)
(* A date is a number of days.  A paper keeps its name when it is revised. *)
(***************************************************************************)
EXTENDS Integers, FiniteSets, FiniteSetsExt

CONSTANTS
    Papers,
    Categories,     \* ARXIV_CATEGORIES
    Worlds,         \* bound: what there may be to know of the papers
    PerDay,         \* bound: papers submitted to a category in a day
    Cap,            \* MAX_RESULTS_PER_CATEGORY
    Retention,      \* DAYS_TO_KEEP
    FirstWeekday,   \* the weekday of day 0, with Monday 0
    LocalShift,     \* days the clock of the process is ahead of New York
    LastDay,        \* bound: days
    MaxBlind,       \* bound: how often the archive cannot be read
    MaxSaves        \* bound: how often papers.json is replaced

Days == 0..LastDay
Dates == Days \cup {-1}
NoDate == -1

\* When a paper is submitted, PerDay to a category and day at most, the date
\* of its revision, and whether its comment names a venue that accepted it
\* (is_conference_paper).
Times == 0..(LastDay * PerDay + PerDay - 1)
Facts == [category : Categories, submitted : Times, updated : Days, accepted : BOOLEAN]

ASSUME PipelineAssumption ==
    /\ Worlds \subseteq [Papers -> Facts] /\ PerDay \in Nat \ {0}
    /\ Cap \in Nat \ {0} /\ Retention \in Nat
    /\ FirstWeekday \in 0..6 /\ LocalShift \in {0, 1}
    /\ LastDay \in Nat /\ MaxBlind \in Nat /\ MaxSaves \in Nat

VARIABLES
    world,      \* what there is to know of the papers
    today,      \* the day in New York
    current,    \* papers.json: filter_date, NoDate while missing, and papers
    archive,    \* papers_archive.json: the papers of each date it has
    at,         \* what the run does next
    old,        \* the archive as the run has read it
    feed,       \* what it fetched: papers with their effective date
    target,     \* the date it is about
    papers,     \* the papers it goes on with
    answered,   \* history: the categories that answered
    failed,     \* history: the papers it could not have analysed
    blind,      \* history: it could not read the archive
    torn,       \* history: papers.json was replaced and the archive not yet
    written,    \* history: how often each file was replaced
    blinds      \* how often the archive could not be read

fileVars == <<current, archive, torn, written>>
fetchVars == <<feed, target, answered>>
vars == <<world, today, fileVars, at, old, fetchVars, papers, failed, blind, blinds>>

Nothing == [d \in {} |-> {}]

Init ==
    /\ world \in Worlds /\ today = 0
    /\ current = [date |-> NoDate, papers |-> {}] /\ archive = Nothing
    /\ torn = FALSE /\ written = [f \in {"current", "archive"} |-> 0]
    /\ at = "idle" /\ old = Nothing
    /\ feed = {} /\ target = NoDate /\ answered = {}
    /\ papers = {} /\ failed = {} /\ blind = FALSE /\ blinds = 0

-----------------------------------------------------------------------------
(* What the functions of arxiv_agent.py compute.                           *)

LocalDate == today + LocalShift     \* date.today()

is_arxiv_publishing_day == (LocalDate + FirstWeekday) % 7 \notin {4, 5}

cleanup_old_data(a) == [d \in {e \in DOMAIN a : e >= LocalDate - Retention} |-> a[d]]

Submitted(p) == world[p].submitted \div PerDay

get_effective_date(p) ==
    IF world[p].updated <= today THEN world[p].updated ELSE Submitted(p)

\* The answer of arXiv for category c: its Cap newest submissions.
Announced(c) == {p \in Papers : world[p].category = c /\ Submitted(p) <= today}

Answer(c) ==
    {p \in Announced(c) :
        Cardinality({q \in Announced(c) : world[q].submitted > world[p].submitted}) < Cap}

Dated(ps) == {[paper |-> p, date |-> get_effective_date(p)] : p \in ps}

\* Mutation: the oldest date of the feed.
OldestDate(entries) == Min({e.date : e \in entries} \cup {LocalDate})

get_most_recent_date(entries) ==
    IF entries = {} THEN LocalDate ELSE Max({e.date : e \in entries})

\* Mutation: papers the archive has are not analysed again.
WantedAnew(entries, d) ==
    {p \in Papers : [paper |-> p, date |-> d] \in entries /\ world[p].accepted
                        /\ \A e \in DOMAIN old : p \notin old[e]}

Wanted(entries, d) == {p \in Papers : [paper |-> p, date |-> d] \in entries /\ world[p].accepted}

-----------------------------------------------------------------------------
(* run_daily_pipeline.                                                     *)

Skip ==
    /\ at = "idle" /\ ~is_arxiv_publishing_day /\ at' = "skipped"
    /\ UNCHANGED <<world, today, fileVars, old, fetchVars, papers, failed, blind, blinds>>

\* load_archive makes an empty archive of one it cannot read.
Begin ==
    /\ at = "idle" /\ is_arxiv_publishing_day /\ at' = "fetch"
    /\ \/ old' = cleanup_old_data(archive) /\ blind' = FALSE /\ UNCHANGED blinds
       \/ old' = Nothing /\ blind' = TRUE /\ blinds < MaxBlind /\ blinds' = blinds + 1
    /\ UNCHANGED <<world, today, fileVars, fetchVars, papers, failed>>

\* A category that does not answer, after a 429 not the second time either,
\* is left out.  A run without papers to analyse returns none and saves none.
Fetch ==
    /\ at = "fetch"
    /\ answered' \in SUBSET Categories
    /\ feed' = Dated(UNION {Answer(c) : c \in answered'})
    /\ target' = get_most_recent_date(feed')
    /\ papers' = Wanted(feed', target')
    /\ at' = IF papers' = {} THEN "idle" ELSE "analyze"
    /\ UNCHANGED <<world, today, fileVars, old, failed, blind, blinds>>

\* Mutation: a run in which every analysis fails goes on.
AnalyzeNone ==
    /\ at = "analyze" /\ at' = "save"
    /\ papers' \in SUBSET papers
    /\ failed' = papers \ papers'
    /\ UNCHANGED <<world, today, fileVars, old, fetchVars, blind, blinds>>

\* generate_paper_analysis, with up to three attempts for each paper: one
\* without a usable answer is left out, and if none has one the run fails.
Analyze ==
    /\ at = "analyze" /\ at' = "save"
    /\ papers' \in (SUBSET papers) \ {{}}
    /\ failed' = papers \ papers'
    /\ UNCHANGED <<world, today, fileVars, old, fetchVars, blind, blinds>>

-----------------------------------------------------------------------------
(* save_results, which the safety guard skips for a run without papers.    *)

\* Mutation: save_results returns after papers.json.
SaveCurrentOnly ==
    /\ at = "save" /\ written["current"] < MaxSaves /\ at' = "idle"
    /\ current' = [date |-> target, papers |-> papers]
    /\ torn' = TRUE /\ written' = [written EXCEPT !["current"] = @ + 1]
    /\ UNCHANGED <<world, today, archive, old, fetchVars, papers, failed, blind, blinds>>

SaveCurrent ==
    /\ at = "save" /\ written["current"] < MaxSaves /\ at' = "archive"
    /\ current' = [date |-> target, papers |-> papers]
    /\ torn' = TRUE /\ written' = [written EXCEPT !["current"] = @ + 1]
    /\ UNCHANGED <<world, today, archive, old, fetchVars, papers, failed, blind, blinds>>

\* Mutation: the archive starts over with every save.
MergedWithNothing == [d \in {target} |-> papers]

\* Mutation: a date the archive has keeps its papers.
MergedOnce == [d \in DOMAIN old \cup {target} |-> IF d \in DOMAIN old THEN old[d] ELSE papers]

Merged == [d \in DOMAIN old \cup {target} |-> IF d = target THEN papers ELSE old[d]]

SaveArchive ==
    /\ at = "archive" /\ at' = "idle"
    /\ archive' = cleanup_old_data(Merged)
    /\ torn' = FALSE /\ written' = [written EXCEPT !["archive"] = @ + 1]
    /\ UNCHANGED <<world, today, current, old, fetchVars, papers, failed, blind, blinds>>

\* The run raises, is killed by its timeout or with its host, or has skipped.
Stop ==
    /\ at # "idle" /\ at' = "idle"
    /\ UNCHANGED <<world, today, fileVars, old, fetchVars, papers, failed, blind, blinds>>

\* A skipped run has returned long before midnight.
Midnight ==
    /\ today < LastDay /\ at # "skipped" /\ today' = today + 1
    /\ UNCHANGED <<world, fileVars, at, old, fetchVars, papers, failed, blind, blinds>>

Next ==
    Skip \/ Begin \/ Fetch \/ Analyze \/ SaveCurrent \/ SaveArchive \/ Stop \/ Midnight

Spec == Init /\ [][Next]_vars

-----------------------------------------------------------------------------
\* The states of the variables; a run that is to save has papers to save.
Archives == UNION {[ds -> SUBSET Papers] : ds \in SUBSET Days}

TypeOK ==
    /\ world \in Worlds /\ today \in Days
    /\ current \in [date : Dates, papers : SUBSET Papers]
    /\ archive \in Archives /\ old \in Archives
    /\ at \in {"idle", "skipped", "fetch", "analyze", "save", "archive"}
    /\ feed \subseteq [paper : Papers, date : Days]
    /\ papers \in SUBSET Papers /\ failed \in SUBSET Papers
    /\ answered \in SUBSET Categories
    /\ at \in {"analyze", "save", "archive"} => target \in Days /\ papers # {}
    /\ blind \in BOOLEAN /\ torn \in BOOLEAN
    /\ written \in [{"current", "archive"} -> Nat] /\ blinds \in Nat

\* papers.json and its block of the archive are the same papers, unless a run
\* was stopped between the two or its date is too old to be kept: the date
\* that /api/dates offers first can be loaded (save_results; main.py dates,
\* get_papers).
CurrentIsArchived ==
    ~torn /\ current.date >= LocalDate - Retention =>
        current.date = NoDate \/
        (current.date \in DOMAIN archive /\ archive[current.date] = current.papers)

\* A date goes from the archive when it is old enough, or when the run could
\* not read the archive: no failed, partial or interrupted run costs one
\* (load_archive, cleanup_old_data, save_results).
ArchiveKeepsDates ==
    [][\A d \in DOMAIN archive \ DOMAIN archive' : blind \/ d < LocalDate - Retention]_vars

\* A date that is saved again keeps each of its papers that the run was
\* shown under that date, unless its analysis failed (run_daily_pipeline).
PapersLeaveForAReason ==
    [][\A d \in DOMAIN archive \cap DOMAIN archive' : \A p \in archive[d] \ archive'[d] :
        p \in failed \/ [paper |-> p, date |-> d] \notin feed]_vars

\* papers.json goes back to an older date only if a category did not answer
\* (get_most_recent_date).
CurrentMovesForward ==
    [][current'.date >= current.date \/ answered # Categories]_vars

\* The files are replaced as PaperFiles promises the readers.
DataFiles == INSTANCE PaperFiles WITH
    Files <- {"current", "archive"}, Current <- "current", MaxVersion <- MaxSaves,
    disk <- written, saving <- at = "archive"

FilesImplemented == DataFiles!FilesSpec

\* No run is skipped on an evening on which arXiv announces
\* (is_arxiv_publishing_day: "Pipeline runs at 23:30 ET so we check today's
\* day", Friday and Saturday are skipped).
NoEveningIsSkipped == at = "skipped" => (today + FirstWeekday) % 7 \in {4, 5}
=============================================================================
