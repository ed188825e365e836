# Verification of arxiv-agent

TLA+ models of arxiv-agent: the job queue in Redis with its callers, workers,
lock refreshers and orphan recovery; the scheduler and dispatcher of the
deployment without Redis; the pipeline from arXiv to the two data files, its
calls of the language model and its publication; and the readers of the files:
repository, HTTP API, MCP tools, rate limiter and dashboard. TLC checks small
instances; TLAPS proves forty-three results for all values of the constants, among
them every safety property that TLC checks. Line numbers refer to the repository's files.

## The system

A pipeline (`arxiv_agent.py`) fetches papers, has a language model analyse them
and replaces two JSON files. A web tier (`main.py`, `mcp_server.py`) serves the
files. In the scalable deployment the pipeline is run by workers that take jobs
from a queue in Redis (`jobs.py`); without Redis one web process runs it itself
(`legacy.py`). Both publish the files with Git afterwards (`publishing.py`).

| Part | State | Operations | Meets | Correct when |
| --- | --- | --- | --- | --- |
| Job store, `jobs.py:18-88` | Redis: QUEUE, INFLIGHT, PAYLOADS, CLAIMS, DEAD; PENDING and LOCK, which expire | Lua scripts claim, ack, requeue, dead, renew-lease, renew-lock, adopt-orphan; SET NX; compare-and-delete | all processes below | a job is in one place, is delivered a bounded number of times and is settled once |
| Enqueueing, `jobs.py:104-130`, called by the scheduler (`jobs.py:290-312`) and `main.py:208-219` | locals of a call | reserve PENDING, transaction, undo | the store | at most one analysis is accepted per deduplication window, no reservation is left behind without a fault |
| Worker, `jobs.py:191-287` | locals, a refresher thread, SIGTERM flag | recover, claim, take LOCK, run, release, ack / requeue / dead-letter | the store, the pipeline, docker's restart | one analysis at a time; a job is not lost when its worker dies; a worker that lost its claim does no harm |
| Legacy runtime, `legacy.py`, and lifespan, `main.py:131-145` | scheduler, election thread, two file locks, a flag | start, elect, stop, dispatch | other processes, the pipeline | one scheduler per host, one analysis at a time, the office passes on |
| Pipeline, `arxiv_agent.py:638-832` | papers.json, papers_archive.json | skip, fetch, analyse, merge, clean up, save | arXiv, the language model, the readers of the files | history is kept, a bad day does not replace a good one without need |
| Language model client, `arxiv_agent.py:597-635` | attempts of one paper | call, retry, wait, give up | the model, the loop over the papers | bounded cost, nothing paid for after a rejection |
| Git publication, `publishing.py` | the files in a GitHub repository | publish both outputs | GitHub, others who commit | papers.json first, and what is called published is there |
| Configuration, `pipeline_config.py` | none | bounded read, validation | the pipeline | a paper is filed under one configured category |
| Paper repository, `data_store.py` | per process: snapshots by signature, a lock; shared: a Redis cache | `get`, `version`, `ready` | the file system, Redis, threads of the pool | a call returns content the file has had since the call began, and returns whatever Redis does |
| HTTP API, `main.py` | `_response_cache` | `get_papers`, `dates`, `_cached_json`, trigger, health | the repository, the queue | the cache is bounded |
| MCP tools, `mcp_server.py` | two `lru_cache`s | search, fetch, recent papers, dates, statistics | the repository | answers are not older than the files at the request; the newest copy of a paper is the one that counts; a search prefers no paper to one that has all it has and more |
| Rate limiter, `main.py:66-115` | Redis counters, a table in the process | one decision per request | Redis, threads | a bound per window with and without Redis; Retry-After is a promise |
| Dashboard, `simple_dashboard.html` | the page | load dates, load papers, filter | the API | the papers shown are of the selected date unless a load is under way or failed; the filters stay, but for blanks and a category the papers do not have |

What makes it hard: every two Redis commands of a process may be separated by
any command of any other; a command may raise although Redis applied it; a
worker may die anywhere; the refresher is a thread beside the run and may
outlive it by one step; recovery and worker may hold the same claim token; an
election thread may outlive the stop that waits for it; a file may be replaced
between any two looks a reader takes at it; a category, a paper or one of two
files may fail alone; a request that nobody waits for any more may arrive.

## Modules

```
JobLedger         what the queue promises about each job
JobStore          Redis: keys, scripts, expiry
  JobWorkers        callers, workers, refreshers, recovery, time, faults
    JobRequirements   the properties; INSTANCE JobLedger
      MCJobs            instances for TLC
      JobProofs         theorems
LegacyRuntime     legacy.py and the lifespan of main.py
  MCLegacy, LegacyProofs
PaperFiles        the two files as the pipeline replaces them
  PaperReads        what a reader may expect of get
    PaperRepository   data_store.get; INSTANCE PaperReads as its promise
      MCRepository, RepositoryProofs
  PaperService      requests of main.py and mcp_server.py over that promise
    MCService
Pipeline          run_daily_pipeline and save_results; INSTANCE PaperFiles
ConferenceCatalog load_conference_catalog, extract_conference_info
  MCPipeline        Pipeline and ConferenceCatalog
  PipelineProofs    theorems about both
AnalysisLoop      the loop over the papers, generate_paper_analysis;
                  INSTANCE Pipeline, of which it implements a step
Publication       publishing.py and the contents API of GitHub
  Execution         execute_pipeline: AnalysisLoop, then Publication
    ExecutionProofs   theorems about all three
RateLimiter       main.py:66-115
  MCRateLimiter, RateProofs
Corpus            the MCP tools over one version of the files
  MCCorpus
  ServiceProofs     theorems about PaperService and Corpus
Dashboard         simple_dashboard.html
  DashboardProofs
```

Where the parts meet: JobWorkers and LegacyRuntime decide who runs
`execute_pipeline` and show that it is one process at a time; Execution has one
such run after the other; its analysis is refined to the step `Analyze` of
Pipeline; Pipeline refines PaperFiles; PaperRepository refines PaperReads, which
is PaperFiles with calls of `get`; PaperService and Corpus are built on that.

### The job queue

`JobStore` has one variable for each Redis key and one operator for each script,
since Redis runs a script in one go. The payload of a job is its `attempts`
field, or the mark of a payload that is no JSON object, or of none. `INFLIGHT`
maps a job to the time of its last lease, `CLAIMS` to a token. Four history
variables (`done`, `deliveries`, `runs`, `reservedAt`) record what the
properties need and the code does not keep; no guard reads them.

`JobWorkers` divides each procedure where it issues its next Redis command.
`pc[w]` says what worker `w` does next:

| `pc` | code | next action |
| --- | --- | --- |
| `down` | process not running | `Start` |
| `boot` | before the recovery of `jobs.py:257` | `Scan` |
| `adopt`, `read`, `decide` | the loop of `_recover_orphans` (168-187) | `Adopt`/`SkipOrphan`, `ReadOrphan`, `Requeue`/`DeadLetter` |
| `idle` | head of the loop (259) | `Scan`, `Claim`, `Stop` |
| `claimed` | before SET NX of LOCK (221) | `TakeLock`, `LockBusy`, `LockFault` |
| `running` | in `execute_pipeline` (237) | `Finish`; the refresher: `RenewLock`, `RenewLease` |
| `release` | before the delete of the `finally` (241) | `Release`, `ReleaseFault` |
| `settle` | before `_ack`, `_requeue` or `_dead_letter` (274-287) | `Ack`, `AckFault`, `Requeue`, `DeadLetter` |

`Finish` chooses the outcome of the pipeline: success, an exception that is
retried, or a `ValueError`, which `worker_main` dead-letters. A refresher that
has woken up when the run ends may become a member of `strays` and take its
remaining steps later (`StrayLock`, `StrayLease`): `join(timeout=2)` does not
wait for it. `Crash` is a death of the process anywhere, which is also what an
exception outside the `try` of `worker_main` amounts to.

`JobRequirements` states the properties, and the mapping to `JobLedger`, in
which a job is unknown, queued, leased, done or dead.

Conventions. A tick is the interval of the refresher with the default limits
(600 s), so the default times to live are 3 ticks and the pipeline's timeout 2.
The clocks of the workers agree, and `time.time()` is read in the step of the
command it is an argument of, except the cutoff of a scan, which is kept, and
that of `_requeue` in `worker_main`, which may be read any time after the run
failed (`RequeueCutoffs`). The LOCK token of a run, a uuid of its own in the
code, is identified with the claim token of the job, which is as unique. The
order in which a scan treats its ids is arbitrary. The Redis client does not
retry. One budget, `MaxFaults`, covers deaths, failing commands and SIGTERM.
A container that is killed takes its subprocess along.

### The legacy runtime

`LegacyRuntime` has for each web process where its lifespan is (`life`), its
election thread (`election`) and its analysis thread (`run`), and the two file
locks as the process that holds them (`office` for the scheduler, `analysis` for
the single flight). `Attempted`, `TakeOffice`, `Lose` and `Schedule` are the
attempt of `_try_elect_locked` (71-90): the lock, then the scheduler, in an
attempt that `start` makes itself or its thread makes again every 15 seconds.
`Joined` may come although the attempt is not over (`join(timeout=2)`), after
which `Shutdown` and `Unlock` run beside it. `Dispatch`, `RunPipeline`,
`PipelineEnds`, `UnlockFile` and `ReleaseFlag` are `dispatch`. A failure is of one of
seven kinds, which `faults` remembers: the attempt raises, the scheduler does
not start, a join times out, the lock file cannot be opened, the thread does
not start, LOCK_UN raises, the process dies. flock is as
the kernel has it: a death gives the lock back.

### The pipeline

A date of `Pipeline` is a number of days, the clock of the process may be a day
ahead of New York (`LocalShift`), and what there is to know of a paper (category,
when it was submitted and revised, whether a venue accepted it) is fixed in
`world`. A run skips (`is_arxiv_publishing_day`) or reads and cleans the archive
(`Begin`), gets the `Cap` newest submissions of each category that answers
(`Fetch`), has some of the accepted papers of the most recent date analysed
(`Analyze`), and replaces the two files (`SaveCurrent`, `SaveArchive`); `Stop` may
end it anywhere, and midnight may pass anywhere. A run without papers saves
nothing. History variables: `failed`, `answered`, `blind`, `torn`, `written`.

`AnalysisLoop` is what `Analyze` stands for: the papers one after the other, up to
`Attempts` calls for each, answers that are an object, `{}`, no object or
unreadable, status 429, permanent errors, the timeout of the run. Its mapping
to `Pipeline` says that a loop that is done kept the analysed papers and the
others failed, and anything else ends the run.

`Publication` numbers the runs and the commits of others; the content of a file
is the run that wrote it, or minus the number of the commit, and its sha the
content, since the sha of GitHub is a hash of it. A PUT without an answer may
arrive later (`LateArrives`), others change a file or put back what it once was
(`ForeignCommit`). That a PUT needs the sha of the file is GitHub's doing, what
`publishing.py` makes of a refusal or of no answer its own (`Conflict`,
`PutIsLost`). The history variable `touched` has the files that others have
committed since our own PUT. `Execution` composes the two:
a run analyses, saves both files or is stopped between them, and is then
published.

`ConferenceCatalog` is a process of the pipeline that reads a file of venues when
it is imported (`ImportCatalog`) and files a paper (`FilePaper`). `Loading` is what
`load_conference_catalog` has after each of the categories, taken as `Parsed`: at
the first place of its name and with the last of its values, which is what
`json.loads` makes of a name that is there twice. `Extract` is the set
of results `extract_conference_info` may have for a comment: venues are looked
for by decreasing length and two of equal length ("NeurIPS" and "NEURIPS") come
in the order of a Python set. A behaviour of `MCPipeline` has the days of the
pipeline or such a process; in `Pipeline` a paper has been accepted by the
catalogue or not.

### Data files and answers

`PaperFiles` says what the pipeline does to the two files: rename the one, then
the other, possibly interrupted in between. `PaperReads` adds what `get` promises:
a content that the file has had since the call began. `PaperRepository` is
`PaperRepository.get` access by access, for threads of several processes that
share Redis, and is checked to implement this promise. `PaperService` builds on
it: since a call returns what the file had at some moment of the call, a call is
there the step at that moment. The version of a file stands for its
signature (inode, mtime, size) and for its content.

`at[t]` in `PaperRepository` names the next access of a thread in `get`: `check`
(63), `lock` (67), `ask` Redis (76), `read` (82), `share` (87), `store` (91-99).
In `PaperService` it is the next step of the request: `data`, `version`,
`version2`, then `respond` (`main.py`) or `lookup` (`lru_cache`). In the event
loop nothing of another request comes between the version and the response
(`InLoop`). `/api/papers?date=` is a `dates` request under a key of its own and
is represented by it. `_search_index` memoises in the same way as
`_all_papers_versioned`, and `include_archive=False` reads one file less. The
requests of main.py and those of the tools share no cache, so a behaviour has one
or the other kind (`mix`).

`Corpus` takes one version of the files and one call of a tool: the files, the
archive being a few papers of two dates, are chosen in `CorpusInit`, and
`CorpusNext` makes a call and computes its answer. A copy of a paper is named by
its slot, a date and a position in what the two files have of the date, those of
papers.json first; the stable sort of the code is the order `Before` of slots,
and its loop keeps the slot of each id that is before the others (`FirstOfEach`). An
id is a base and a version, a text a sequence of words, each with the
punctuation behind it. A paper has its title, its tags, the name of its conference
(which stands for category and rank too) and a text for the other fields, and
`Score` is `_score` in halves, since it has a 1.5: the phrase in the title or
anywhere (`HasPhrase`), each term of the query, as often as the query has it, in the title, the tags
and the conference (`Hits`), its occurrences up to four (`Counts`), and the
distinct ones (`Matched`). The sum over the terms is written with the cardinality
of sets of places of the query.

### Rate limiter

`RateLimiter` divides `_rate_limited` where it calls Redis (`Incr`, `Expire`,
`Answer`) and where it takes the lock of the table (`Decide`), since both come
after the reading of the clock (`Ask`). `shared` says whether REDIS_URL is set.
INCR and EXPIRE may each raise before or after they took effect (`FallBack`), and
the process may die anywhere and lose its threads and its table (`Die`); a thread
that has opened a counter and does not get to its EXPIRE, for either reason, leaves one
without an end. The history variable `spoiled` has these counters.
Times are in half seconds, so that what `int()` and `+ 1` round shows.

Assumptions: every limit is at least 1; a thread takes less than a second
(`Lag`, two ticks) from the clock to INCR or to the lock. The second is what the
`+ 1` of `window + 1` (111) allows for; with a longer delay a counter may be gone
before a late request of its window, which then starts a new one.

### Dashboard

`Dashboard` is one page: controls, address, list, error banner, the request for
the dates and the requests for papers, which may be aborted. The service loses and gains
dates meanwhile. The three filters have a control each: the search is a word with or
without blanks around it, the options of the category control are those of the
last papers. `ApplyFilters` writes the filters to the address, the search
without its blanks (`syncUrl`, 770-778), and `PapersArrive` fills the controls from the
address (850-856). So an answer takes the blanks from a search that is being typed
("deep " becomes "deep", and blanks alone vanish), and a filter that is used
before the first papers writes the other two, still empty, over those the address came with.
Which papers a filter leaves is not modelled.

## What is checked

| Run | Question | Bounds |
| --- | --- | --- |
| `jobs_core` | types, `OnePlace`, `AttemptsCountDeliveries`, `AcknowledgedJobsRan`, `OneAnalysis`, `PendingNamesLiveJob`, `NoLeakedLock`, `DedupWindow`, `LeasesEndByTheirHolder`, and that the queue implements the ledger, with any one fault | 2 jobs, 2 workers, times to live of 2 ticks, 2 ticks, 2 attempts, 1 fault |
| `jobs_long` | `RunnersKeepTheirClaim` and `EveryJobSettles` for a fresh job, an orphan without a token and a malformed queued job, with runs as long as lock and lease | 2 workers, 1 fault, 2 attempts, a clock to 13 |
| `jobs_at_least_once` | finding 1 | default limits, no fault |
| `legacy` | types, `OneScheduler`, `SingleFlight`, `OfficeIsFilled`, `FlagIsReturned` | 2 processes, 4 starts, 2 faults out of 7 kinds |
| `pipeline` | types, `CurrentIsArchived`, `ArchiveKeepsDates`, `PapersLeaveForAReason`, `CurrentMovesForward`, that the files are replaced as PaperFiles has it, and `FiledAsConfigured` | 3 papers of 2 categories over 3 days, an answer of at most 2 papers, retention of 1 day, 1 unreadable archive, 2 saves; catalogues of up to 3 categories over 3 venues |
| `pipeline_utc` | finding 2 | a week, one paper, a clock in UTC |
| `execution` | `PublishedInOrder`, `PublishedStays`, and that the loop implements `Analyze` | 2 papers, 3 attempts, 3 runs, 2 lost requests, 1 foreign commit |
| `repo` | `PaperRepository` implements `PaperReads`, and every call returns | 3 threads in 2 processes, 2 versions |
| `service` | `CachesBounded`, `McpAnswersAreFresh` | 2 threads, 2 versions of each file, a response cache of 1 entry, a memo of 2 |
| `rate` | `GrantsPerWindow`, `CountersEnd`, `LocalRate`, `RetryAfterIsKept` | 2 threads, 2 keys, a table for 1, windows of 1 and 3 seconds, 3.5 seconds, 1 call that raises or death |
| `mcp_tools` | `NewestCopies`, `NoneSurpassed`, `CountsAreListed` | every pair of files with 2 dates and 2 papers a date over 4 records of 2 papers, 6 queries, limits of 1 and 8 |
| `dashboard_page` | `ShownIsSelected`, `FiltersAreKept` | 3 dates, 2 words, 2 categories, 1 rank, any address, 2 changes of the service |

Why the bounds are enough to be interesting. Two ticks of clock after the start
with times to live of two let every lease, lock and reservation expire once in
the middle of whatever else happens, and two attempts let a job be delivered,
fail and be delivered again to the other worker. One fault at any point is
enough for each failure handler; a second one would mostly repeat the first. In
`legacy` two faults are allowed because its hazards are pairs, such as a slow
join and a scheduler that then does not start. Three threads in two processes
are the fewest that have both a rival for the lock and a partner in Redis. Three
days and a retention of one let a date be saved, saved again and become too old,
and the weekday of the first day makes one of the three a day of rest. A table for one of two keys is full at once.
Each property has a mutation of the code that TLC finds it broken by under the
same bounds (the definitions commented "Mutation").

The properties, in words.

- `OnePlace`: a job is queued once, leased, acknowledged
  or dead, never two of these, and its payload and token are there exactly when
  needed. `AttemptsCountDeliveries`: the attempts field, incremented in two
  places, is the number of deliveries that came to nothing, and never passes
  `JOB_MAX_ATTEMPTS`. `LeasesEndByTheirHolder`: nothing but the worker of the claim or a
  recovery of an expired lease ends a lease. `DedupWindow`: two accepted,
  unfinished analyses are at least the deduplication time apart.
- `OneScheduler`: one scheduler among the processes that have not given the lock
  back on their way out; one that runs there still outlived a join that timed
  out. `SingleFlight`: one pipeline among the web processes that live.
- `CurrentIsArchived`: papers.json is in the archive unless a run was stopped
  between the two. `ArchiveKeepsDates`: no failed, partial or interrupted run
  costs a date, but one that could not read the archive does. `PapersLeaveForAReason`,
  `CurrentMovesForward`: only a failed analysis or a category that did not answer takes papers
  from a date that is saved again, or the current day back to an older one.
- `FiledAsConfigured`: whatever catalogue is accepted, a paper is filed under a
  category that has its venue, and no other has it, and never under a mere part of
  a longer name in its comment.
- `PublishedInOrder`: unless others commit, the repository's archive is never ahead of its papers.json.
  `PublishedStays`: after `True` the repository has both files as the run saved
  them until the next run, but for a file that somebody else has committed since; late
  requests of earlier publications do not undo it, and no refused or lost
  request is counted as done.
- `McpAnswersAreFresh`: what a tool answers is not older than the files were at
  its request, memo or not.
- `GrantsPerWindow`, `LocalRate`: no more than the limit, by Redis in a window of the clock and
  by the table in any window. `CountersEnd`: a counter without an expiry has a thread on
  its way to set it, or was opened by one for which Redis raised, or whose process died, before that was
  done. Such a counter does stay for good. `RetryAfterIsKept`: who comes back when told is let in, unless something
  of its own or a failing call came between.
- `NewestCopies`, `NoneSurpassed`, `CountsAreListed`: an id is listed once, as its
  newest copy; a paper that matches a search is left out only for as many others
  as were asked for, and for none that it surpasses; counts agree with lists. To surpass is to have everything the
  query finds in the other (phrase, each term in each field, as many occurrences) and
  more, or as much with a newer date; between papers of which neither has all the
  other has, the points of `_score` decide, and the property says nothing.
- `ShownIsSelected`: what the list shows is of the selected date, but while papers are
  under way or after they could not be loaded. `FiltersAreKept`: once a filter has been
  used or papers have come, only the reader changes a filter, but for blanks
  around the search, and for a category that the papers that come do not have.

### Liveness and fairness

`EveryJobSettles` assumes `FairSpec`: every worker that is up takes its next
step, a run ends, docker restarts a dead worker, the clock advances. It does not
assume that an idle worker keeps being lucky: claiming and scanning are part of
the one loop. Since the clock of the model stops at `MaxTime`, what is stated is
that a job in the queue or in flight early enough (`SettleTime`) is settled; one
that comes too close to the end could not reach its next lease expiry.

`EveryCallReturns` assumes that a thread in `get` is scheduled, which is weak
fairness of its steps; the lock needs no more because a thread that holds it
never waits.

`OfficeIsFilled` and `FlagIsReturned` assume that threads go on, a pipeline ends
(its timeout) and a stop that has begun is carried on; nothing has to start,
stop or be dispatched. The first is conditional on a process that
goes on serving and on attempts that do not raise, the second on threads that start and locks
that open, and both conditions are in the formulas.

`jobs_at_least_once` and `jobs_long` use `PromptSpec`, in which time passes only when no process
has a step to take that takes it less than a tick: the finding does not depend
on slow processes.

## Findings

1. A held lock uses up the attempts of a job (`jobs.py:222`, 278-285). `LockBusy` is
   counted like a failed run and the job goes back to the head of the queue
   at once. The run of TLC needs two workers and the default limits, no crash and
   no failing command: the first run of a job fails and is retried, PENDING (1800 s)
   expires during the second run, another analysis is accepted, and the idle
   worker claims it, fails, and claims it again. After three rounds it is
   dead-lettered and its pipeline has not been started.
   DEPLOYMENT.md:42 and 121 call the queue at-least-once.
2. The weekday is that of the process (`arxiv_agent.py:358`). The schedule is in
   America/New_York (`jobs.py:295`, `legacy.py:81`), `date.today()` is in the time
   zone of the container, which neither `dockerfile` nor `docker-compose.yml`
   sets. At 23:30 in New York it is the next day in UTC: the runs of Thursday and
   Friday are skipped and that of Saturday is made, although arXiv announces on Thursday and not on
   Saturday (`arxiv_agent.py:353`).

Met while modelling, visible in the definitions named, and with no run of their
own:

- Versioned responses (`main.py:226-227`, 255-256). The data is read before the
  version, so a publication in between leaves the old body in the cache under
  the new version until the next publication; README.md:8 of the repository
  speaks of per-version snapshots. `mcp_server.py` reads the version first and
  is not affected (`PaperService.VersionCurrent`, `McpAnswersAreFresh`).
- One parse per version (`data_store.py:18`). The signature is taken before
  the lock and stored under it, so an overtaken thread puts an older snapshot
  back and both versions are parsed again; the answers stay right
  (`PaperRepository.Store`, `ReadsAreFresh`).
- An election whose scheduler does not start keeps the lock (`legacy.py:80-87`,
  `LegacyRuntime.Schedule`): the process serves on without a scheduler and no other can
  have one. `OfficeIsFilled` excludes this failure by name.
- A web process that stops during an analysis gives its file lock up while the
  subprocess goes on (`legacy.py:119`): the next process may start a second one. `SingleFlight`
  speaks of the processes, not of the subprocesses.
- The newest submissions of a category need not contain a paper revised today
  (`Pipeline.Answer`; `arxiv_agent.py:518`, 660).
- `fetch` of an id with a version returns the newest record of the paper
  (`Corpus.Matches`; MCP_SETUP.md:16), and the index has the last word of a
  sentence with its full stop only (`Corpus.Term`; `mcp_server.py:136`).
- A category that is in the file twice keeps the venues of its last place, and
  nothing is rejected (`ConferenceCatalog.Parsed`, `LoadCategory`; DEPLOYMENT.md:75).
- A filter that is used before the dates have come rewrites the address and loses its date
  and its other filters (`Dashboard.Use`; `simple_dashboard.html:908`), an answer takes the
  blanks from a search (775, 855), and `aria-busy` stays set when
  the dates cannot be had (`DatesFail`, `NoDatesArrive`).
- `EXPIRE` is sent for the first request of a window only (`main.py:110`): if it
  fails, or the process dies before it, the counter stays (`CountersEnd` names this case). The deletion of
  `main.py:96-98` cannot happen, as the table was cut to size before, and a key that
  is refused for a full table gets a Retry-After that promises nothing.

## What is proved

For any values of the constants that satisfy the assumptions of the modules.

`JobProofs`:

- `TypeCorrect`: `Spec => [](TypeOK /\ BusyWithAJob)`. Types alone are not inductive:
  `Ack` writes `payloads[job[w]]`, which is well-typed only because a worker that handles
  a job has one. `TypeInv` adds this (`BusyWithAJob`). The proof has a lemma
  for the store, the history and the processes each, with one step for each group of actions.
  `ClaimType` needs that a nonempty set of the ten positions
  claim-v1 looks at has a first element (`FirstOfTen`).
- `AtMostOneAnalysis`: if `RunMax < LockTTL` then `Spec => []OneAnalysis`. The
  inductive invariant `LockInv` says that the tokens of claims in progress are
  pairwise different and older than the next one (`TokensAreOwned`), and that a
  run holds the lock, is not past its deadline, and its deadline is before the lock's
  expiry (`RunsHoldTheLock`). Then nobody else can delete the lock, since deleting it takes its token,
  and it cannot expire under a run. The hypothesis holds for the default limits
  (1200 s and 1800 s) as long as publication takes less than the difference. Without
  it the property rests on the refresher and is false once one dies;
  `RunnersStayInCharge` has the case in which it lives.
- `EveryJobInOnePlace`: `Spec => []OnePlace`. The inductive invariant `PlaceInv` adds to
  types and `OnePlace` only that a job whose call has not pushed it yet is neither queued,
  leased nor settled (`NotYetPushed`), so a push cannot duplicate it. Nothing about what the
  workers believe is needed: every script checks by itself that the job is leased, which is
  why a worker with an old claim does no harm. Each script moves one job
  (`OneJobMoves`); `ClaimTakesHead` shows that `claim-v1`, with `OnePlace`, always takes the head of
  the queue, so its branch for ids without payload is for other writers of the queue.

- `AttemptsAreCounted`: `Spec => []AttemptsCountDeliveries`. Worker and recovery count the
  attempts from what they read earlier, so the property alone is not inductive.
  `AttemptInv` adds to `PlaceInv` that every token was handed out
  before the next one (`TokensHandedOut`), that whoever still holds the claim has read the
  number that is in the payload (`AttemptsRead`), and that a queued job has a
  delivery left (`AttemptsLeft`). Two processes that hold one claim then count once:
  the first script that ends the lease takes the claim from the other.
- `LedgerIsImplemented`: `Spec => LedgerImplemented`, the step simulation of `JobLedger`,
  from `AttemptInv`; each group of actions is a step of the ledger or leaves the status and
  the count of every job.
- `LeasesEndRightly` (an action property): besides `PlaceInv` it needs that
  every recovery looks back a lease time from its scan (`CutoffsPassed`).
- `OnlyRunsAreAcknowledged`, `LockIsNeverLeaked`, `PendingIsLive`: a worker past its run has
  run (`RunsCounted`); the other two are inductive with the types and `PlaceInv`.
- `AcceptedApart`: `Spec => []DedupWindow`. `DedupInv` extends the property to calls that have a
  reservation and are not accepted yet (`HoldingsApart`) and says that such a
  reservation stands until its time is up (`KeysStand`), whoever undoes another.
- `RunnersStayInCharge`: if `RefreshEvery < LockTTL` and `RefreshEvery < LeaseTTL` (the code takes
  a third of the shorter one) then `PromptSpec => []RunnersKeepTheirClaim`, for runs of
  any length. `RefreshInv` bounds the age of the last renewal by where the refresher is
  (`RunsAreRefreshed`): the lease by one interval, the lock by what is left of it. A
  recovery then never sees the lease expired, and the lock does not run out.

`LegacyProofs`: `LegacyTypes`, `OneSchedulerAlways`, `SingleFlightAlways`, for any
set of processes and any failures, from one inductive invariant `LegacyInv`. It
adds to types where a process may be that holds an office (`OfficeInv`), that a process is
past its join with an attempt under way only if a join timed out (`SlowJoin`,
`StopInv`), and that a thread of a run has the flag and, while the pipeline runs,
the lock (`FlightInv`).

`PipelineProofs`, for any papers, worlds, retention, clock and answers:

- `PipelineTypes`, `CurrentIsAlwaysArchived`, `DatesAreKept`. The invariant behind them relates what
  the run has read to the archive (nobody else writes it, by the theorems above)
  and papers.json to the papers of a run that is between its two saves.
- `FilesAreReplacedInOrder`: Pipeline implements `PaperFiles`. `ArchiveFollows` says that the
  archive is replaced at most as often as papers.json, and once less between the two, so
  the bound of PaperFiles is never what stops the archive.
- `PapersLeaveRightly`: a paper leaves its date for a reason. `ReasonInv` has three parts: what a run
  has read is still what the archive has (`OldIsInArchive`), everything kept was accepted by a
  venue (`AcceptedAreKept`), and what the run goes on with and what failed are
  together all it wanted (`NoneIsMissing`).
- `CurrentMovesRightly`: if arXiv dates no revision before the submission
  (`RevisionsComeLater`; the worlds of the run satisfy it, arXiv's `updated` is
  never before `published`), papers.json does not go back while all categories
  answer. This is not obvious, since an answer has only the newest `Cap` submissions:
  a paper that made a date the most recent may have been pushed out of it by the next run. The
  invariant `DatesAreShown` says that arXiv always shows a paper with that date or a later
  one; `ShownStays` proves it over midnight, because what pushes a paper out was
  submitted on the new day.

and of `ConferenceCatalog`, for any names, ranks, sequence of categories and comment:

- `AcceptedExactly`: a file is accepted exactly when each category in it lists a venue
  and no venue is in two (`Agreed`). The code compares a category with what it has
  so far, in the order of the file; `Agreed` knows no order. What is loaded after `n` categories
  is related to the file in both directions, from one category to the next: as long as nothing was
  rejected, each venue of the first `n` belongs to its category (`Settled`), and
  what is loaded or rejected has its reason in the file (`Warranted`).
- `PapersAreFiled`: `CatalogSpec => []FiledAsConfigured`. `CatalogInv` keeps that the catalogue
  of a process that goes on is the one of an accepted file, so its tables give a venue the only category
  that lists it.

`ExecutionProofs`:

- `AnalysisTypes`, `CostIsBounded`, `RejectionEndsTheRun` and
  `LoopImplementsAnalyze`, the step simulation of `Pipeline` by `AnalysisLoop`, for
  any finite set of papers and any number of attempts. `LoopInv` relates the minutes
  waited for the paper in work to its attempts so far (`2 * waited <= attempt * (attempt + 1)`),
  and `WaitsGrow` and `OneMoreWait` do the arithmetic of it. `ExecutionRunsTheLoop`: an execution is
  a behaviour of the loop, so these hold in it.
- `ArchiveIsNeverAhead`: `ExecutionSpec => []PublishedInOrder`, and `PublishedFilesStay`:
  `ExecutionSpec => []PublishedStays`, for any number of runs, lost requests and foreign
  commits. `PublishInv` says where contents come from: the repository has what was
  committed (`ContentsAreCommitted`), the run that publishes is newer than every sha it reads and
  every late request, and sends the archive after its papers.json is committed (`RunSends`,
  `LateRequests`), the newest papers.json is the one that is there unless
  somebody else has committed (`NewestIsThere`), and papers.json stays what was sent while
  the archive is (`FirstStays`). A late request is refused because the sha it was
  sent with is older than its own content, and that older than what is published.

`RepositoryProofs`: `GetKeepsItsPromise`, that `PaperRepository` implements `PaperReads`, for any
files, threads, processes and versions and whatever Redis loses. `ReadInv` says
of every place where bytes are kept under a signature (in the hands of a thread, in
a snapshot, in Redis) that the file has had them since it had the signature, not that they are
the bytes of that signature: a thread may read newer ones. `OneThreadFills`: a
thread is at a place under the lock exactly while it holds it.

`ServiceProofs`: `CachesStayBounded`, `McpAnswersStayFresh`, from `ServiceInv`: a tool's version
is between the files at its request and the files now (`VersionsSince`), and what the memo has
under a version is at least as new (`MemoSince`). And of `Corpus`, for any papers,
queries and limits, finitely many dates and any number of papers of a date:

- `NewestCopiesAreAnswered`: `CorpusSpec => []NewestCopies`. In any set of slots one is
  before all others (`FirstSlot`, since there are finitely many dates), so each id has
  one that is listed (`FirstCopyListed`), only one (`ListedOnce`), and no copy is
  newer (`FirstIsNewest`). That papers.json wins on its own date (`CurrentComesFirst`) rests on its
  having an id once.
- `NoneIsSurpassed`: `CorpusSpec => []NoneSurpassed`. What has a term of the query and no newer copy is a
  candidate with a positive score (`TermIsFound`), and of the candidates `Best` leaves one out only
  for as many as were asked for, none of them worse (`LeftOutForBetter`). What surpasses another is
  better (`SurpassingIsBetter`), because each part of the score follows what the query finds
  (`HasAllScoresMore`): sets that include one another are as large or larger
  (`MoreOfMore`), a phrase of the title is one of the whole text (`PhraseOfTitle`), and
  a term is matched when it is counted once (`CountsHits`).
- `CountsAgree`: `CorpusSpec => []CountsAreListed`. On a date whose two blocks agree the list is the
  block less what a newer date has again (`ListedOfDate`), and the block has as many papers as
  it is long (`BlockIsCounted`).

`CorpusInv`, behind all three, says that the files are as the pipeline writes them (`FilesWritten`)
and that the answer is the one of the last call (`Answered`).

`RateProofs`, for any keys, windows, limits, a finite set of threads and any size of the table:

- `RateTypes`; `CountersComeToAnEnd`, where `EndsAreComing` says that a counter without an expiry has a
  thread on its way to set it or is one that a failing call or a death has spoiled.
- `WindowsKeepTheirLimit`: if `Lag <= PerSecond` (no more than a second from the clock to
  INCR) then `Spec => []GrantsPerWindow`. A counter is there for a second after its
  window (`CountersOutlast`) and no thread is later than that (`ReadLately`); what was let through,
  with what is about to be (`LetThrough`), is then at most what is counted (`GrantsCounted`). A failed
  EXPIRE does no harm here: the counter stays.
- `RetryAfterIsHonoured`: as long as the promise stands, what Redis has counted
  belongs to windows that end before it (`SharedPromise`, `CountedLately`), and the times in the table are
  out of the way by then (`LocalPromise`).
- `TableKeepsItsRate`: times may be appended out of order, by at most `Lag`. `TimesAreGrants` relates the
  table to the history of what was let through: the table has the last of it, each time
  within `Lag`, and of the limit plus one last the first is a window less
  `Lag` before the last (`Spaced`). That idle keys are dropped costs nothing because `StaleAfter` is as
  long as every window.

`DashboardProofs`: `ListShowsTheSelected`, `FiltersStay`, for any dates, words, categories and ranks. `PageInv`:
the one request that is not aborted is for the selected date (`OneIsWaitedFor`); if there is none, what is
loaded is of that date or could not be loaded (`LoadedIsSelected`); and once a filter is used or papers have
come, the address has the filters of the controls, trimmed (`AddressFollows`), so that filling
the controls from it brings them back (`FiltersComeBack`).

Some of these proofs need an induction over data, where the induction theorems of the library
take an operator that the installed provers cannot instantiate. They are proved from
the well-foundedness of the numbers instead, with the property as a set of numbers
(`FromZero`); the recursive function `Loading` is shown to exist the same way
(`LoadingLoads`), and the newest of finitely many dates too (`Newest`).

Stays with TLC:

- liveness (`EveryJobSettles`, `EveryCallReturns`, `OfficeIsFilled`, `FlagIsReturned`): fairness and ENABLED are
  beyond the prover;
- the two findings, which are counterexamples.

## Not modelled

The wording of prompts, logging, headers, HTML and the proxy's configuration have
no state to get wrong here. The admin token and the body limit are checks of a
single request. Invalid JSON in a data file is left out because the only writer
renames whole files; so is a read that fails after a good `stat` (`data_store.py:83-84`,
where `get` returns `{}`), since the file is there. A payload whose `attempts` is no number cannot be written by
this code. Metrics, sorting for display and the Alexa answer are functions of one
file. Of the configuration, the prompt template, the model's name and the
size limits of files are checks of one value each. In the words of `Corpus` none is
part of another, so a term is never found inside a longer word, where `_score` counts it
and the index does not have it.

## Next steps

1. A proof that `paper_stats` adds up to its total, which needs the cardinality of a
   union of disjoint sets.
2. Words that are part of other words in a search.
3. Two pipelines over the same files, for a web process that stops during its run.
