# TLA+ verification of the database collector

`db_collector_os` is a set of long-lived processes around one SQLite file: a
scheduler, several workers, and whatever commands and pages an operator uses.
Each *job* describes a site; a worker claims a due job, runs one bounded pass
of its collector (`run_once()`), records the outcome and reschedules it. There
is no lock but the rows themselves: every `Database.execute()` is one commit,
and everything that spans two of them can be interrupted by another process,
by an exception or by a crash. That is what these modules are about.

## Inventory

| component | state it keeps | operations | talks to | what makes it correct |
| --- | --- | --- | --- | --- |
| Job registry, scheduler, workers (`job_registry.py`, `scheduler.py`, `worker.py`) | `jobs.status`, `enabled`, `next_run_at`, `last_started_at` | create/sync, due_jobs, mark_queued, claim_queued, finish, pause, resume, enable, reset_stale_running | everything: it starts the runs | one runner per job; parked jobs stay parked; orphans are recovered; due jobs are admitted |
| Run history, checkpoints (`run_history.py`, `checkpoint.py`) | `run_history` rows, `checkpoints.state_json` (`current_run_id`, `low_discovery_streak`) | start, finish, load, save, discovery stats | written by the run, read by the next one | a finalized row never changes; every execution ends in a row; no row is left open for good |
| Fetch queue (`fetching/queue.py`) | `fetch_queue` rows: status, attempts, next_retry_at, fetched_at | enqueue, claim_next, mark_done/skipped/failed, is_empty, requeue_* | pipeline, `jobs reseed` | exact attempt budget; nothing stuck in `fetching`; `completed` means nothing left |
| Collector pipeline, discovery, candidates (`collectors/`, `discovery/engine.py`, `candidates.py`) | `entity_candidates` rows, the run's place in its page | seed, discover, promote, fetch, extract, persist, rule | queue, discovery methods, adapters, persistence | no page lost or decided by another's result; every candidate gets into the queue |
| Phases, saturation (`collectors/phase_manager.py`, `discovery/saturation.py`) | `jobs.phase`, streak, `discovery_runs` | `_advance_phase` | run history, candidates, queue | phase 1 neither ends early nor runs for ever |
| Domain rate limiter (`fetching/rate_limiter.py`) | `domain_rate_limits` rows | is_allowed, record_request/error/success | all workers share it | the delay between two requests to a site, and its Retry-After, are kept; a waiting budget that covers its pages is enough |
| Fetch client, robots (`fetching/client.py`, `robots.py`) | a cache of robots.txt | fetch, classify the answer, parse Retry-After | pipeline; fetched pages go to the adapter | a 429 is told from a page, a 304 from an error |
| Adapters, extraction, validation (`adapters/`, `extraction/`, `validation.py`) | none | extract_common, extract, validate_record | pipeline in, persistence out | a record is of its page's thing and of no other; a page of a thing is not lost |
| Persistence, entities, evidence (`persistence.py`, `entities.py`) | entity, alias, evidence, history rows | persist: match, create or merge, evidence, review | pipeline | every field has its provenance |
| Deduplication (`deduplication/`) | fingerprints | match | persistence | one entity per real thing |
| Resource controller | none | can_admit_new_job | scheduler | an answer that may be out of date at once |
| CLI, admin pages | none of their own | jobs run/pause/resume/enable/disable/sync/reseed, reports | registry, queue | harmless next to a live run |
| Database, migrations (`database.py`) | `schema_migrations`, the schema | connect, apply_migrations | all processes, at start-up | nobody works on half a schema; all get it open |
| Discovery methods, normalization, review queue, metrics, configuration, scripts | append-only tables | I/O and pure functions | | left out, see the end |

The hard part is everywhere the same: *state read in one statement and used in
a later one*. The list of due jobs is read and then walked; stale recovery
looks at a start time, not at a heartbeat; `finish()` writes over whatever the
row became during the run; a run_history row and the marker that names it are
two commits; `enqueue()` is a SELECT and an INSERT; a page is marked done
before its records are stored. The hazards are listed line by line in
`PROJECT.json`.

## Modules

    JobLease  <==implements==  JobLifecycle        (who runs a job)
                                RunLedger          (how a run is recorded)
                                JobRuns            (both, the one inside the other)
    FetchQueue <==implements== PageFlow            (what a run does)
                                PhaseProgress      (what many runs lead to)
                                DomainGate         (when a page may be asked for)
                                PageRecords        (what record a page makes)
                                EntityStore        (what becomes of a record)
                                Startup            (how processes open the database)

`MC*.tla` instantiate them for TLC, `*Proofs.tla` hold the theorems.

**JobLifecycle** — the `jobs` table and every process that writes it, one action
per SQL statement. A process is a small program counter plus what it remembers:
`ScanStale`/`ResetStale` walk the list `recover_stale_jobs()` read, `DueScan`,
`MarkQueued`/`Admit`/`Suppress` walk `due_jobs()` (worker and scheduler share the
code), `QueuedScan`/`Claim` walk the queued jobs, `Finish` is the tail of
`run_job_and_record()`, `AbortPass` an exception in the bookkeeping, `Crash` and
`Restart` the process and systemd. Times are relative: `dueIn` counts down to
`next_run_at`, `age` counts up from `last_started_at` to the stale limit.
`stolen` is a history variable: the jobs taken from a runner that is alive, by
stale recovery or by `jobs resume`.

**JobLease** — what the registry promises, in three lines: a job may be entered
when nobody is in it, left, and revoked; only a revocation lets two in.

**RunLedger** — the `run_history` rows and the crash-resume marker of one job, one
action per statement of `run_once()` and `run_job_and_record()`, with an
exception (`Raise`) anywhere in the `try` and a crash anywhere. A run may begin
while another goes on, which is what stale recovery can do; `overlapped` remembers
that it has, and the properties that need the lease are conditional on it. The
history variables `lost` (rows whose runner was cut off before it marked them)
and `dropped` (an execution ended without finalizing a row) exist for the
properties only.

**JobRuns** — extends JobLifecycle and RunLedger, whose variables are apart: the time a
process spends in JobLifecycle's `pc = "run"` for one job is RunLedger's pass of `at` from
its first statement to the clearing of the marker. (A crash is `CutShort` in RunLedger.)
`ClaimRun` is the claim that begins a run, `Inside` a statement of it, `Throw` the
exception that ends `run_once()`, `FinishRun` the `finish()` of the job's row that comes
last and says `failed` if the run has, `Fall` a crash or an aborted pass in either part.
RunLedger lets runs begin whenever they like; here the registry decides. `taken` is
history: the job has been taken from a live runner at some time.

**FetchQueue** — the `fetch_queue` rows of one job, the run that drains them and
shells that reseed. `enqueue()` is two steps (`Look`, `Insert`) and its loser's
`IntegrityError` is a step too. Phases are collapsed to what the queue sees:
`phase1`, `phase1_complete`, `incremental`; `NextPhase` is when `_advance_phase()`
may go on as far as the queue decides it. `aged` are the rows old enough to be
revalidated, `retryIn` the ticks of back-off left.

**PageFlow** — extends FetchQueue with what happens inside a run: seeds, seed
discovery, promotion in batches of `Limit`, and for each page discovery,
promotion, extraction, `mark_done()`, and one persisted record after the other
with its candidate's new status. A candidate row is told by the *finding* that made it: a
URL, its fingerprint, a confidence. `add()` knows a finding by its fingerprint alone
(`Known`), which is the URL if a sitemap, a prefecture page or a `sameAs` led to it, and
`type:stable_id` if an internal link did. So two URLs of one product may share one
candidate, and one URL may have two: `get_by_url()` returns one of the latest
(`CandidatesOf`; `discovered_at` is of whole seconds, `latest` are the rows it may
choose from), that one is decided, and the other stays `new` for good. `handled` and
`cut` are history: pages whose latest content was stored completely, and pages whose
records were cut off. In the code `Limit` is 500 and the candidates are thousands; in
the runs both are small, and what counts is whether a batch can hold every candidate
(`BatchHoldsAll`).

**PhaseProgress** — the runs of one job in a row, each a crawl of arbitrary yield
followed by the statements that decide about the phase: the row in
`discovery_runs`, `is_saturated()`, the streak, `phase1_conditions_met()`,
`set_phase()`, the checkpoint. A run may be cut off between any two of them, so the
phase can be ahead of the checkpoint, and a row in the window without having
counted in the streak. The threshold 0.05 is `1 / LowShare`, entity count and open
reviews are one Boolean (`met`), and so is the error rate (`high`). A window is the last rows
in the order they were written; the code orders them by `created_at`, whose seconds two
runs of one job cannot share unless they overlap or are over within a second. `quiet` and
`best` are history: quiet runs on record in a row, and the most there have been.

**DomainGate** — the rows of `domain_rate_limits` and the loop of
`_drain_fetch_queue()` that waits for them, one action per statement, for workers
whose jobs share a domain. `Look` is `is_allowed()`, one domain at a time, `Sleep` and
`Wake` the waiting that a job's budget allows, `Request` is `record_request()`, which
puts the time on record, `Send` the page's real request, which comes after
`robots.can_fetch()` and so, when this process does not have the site's robots.txt yet,
after a request of its own; a target that is refused is never sent (`Unsent`).
`Answer` is what comes of the fetch with its classification, `StoreBlock` and `RecordSuccess` what the
row learns of it. The clock has `SecondTicks` ticks to a second and what is stored is
cut off to whole seconds, as `now_iso()` does it. Times are relative to now. `sentAge`
(since the page that was really requested last had been put on record), `late` (the same
of the page in hand, while robots.txt is asked for), `askedLeft` (what is left of the newest Retry-After on
record), `crossed` (domains that another worker has used since one looked) and
`smooth` are history. The queue is a number of rows per domain, those that back off
apart: FetchQueue has the rest, and for it any domain may be ready at any time.

**PageRecords** — pure functions, with one action to apply them: from what a page shows
(JSON-LD blocks, dataLayer pushes, heading, numbers in its text and URLs) through
`extract_common()` and the two production adapters to a record, its validation and
what the pipeline makes of it. A value is told by the thing it is *of*, its key, and
its kind (text, text with a postal code, blank, empty, 0 or `[]`, number, list, object):
that is what decides whether it shadows another one, raises, or fails validation. Of
strings only whose they are is kept: an id is the bare string that
`compute_fingerprint()` hashes (`IdOf`), whichever key it was read under, so that one
product's SKU may be what another one has for its MPN. `_clean_str()` drops null and
white space only; 0, false, `[]` and `{}` become the texts '0', 'False' and so on, which
all things have in common and the model has as one, `Literal`. A null in a later
dataLayer item overrides an earlier one's code, as `dict.update()` does. `Things` and `Pages` are
constants, `PageType` says which pages there can be, and `Keys` are the keys the adapters
ask for. `results` remembers the pages collected, so that records of two pages can be
compared.

**Startup** — processes that open the database and run `apply_migrations()`, one action
per statement of a script (`executescript()` commits each), the insert into
`schema_migrations` with its primary key, crashes and systemd's restart. The lock in
the code keeps threads apart, not processes.

**EntityStore** — `persist()` of one record after the other, one action per SQL
statement: the matcher's lookups (`MatchKey`, `MatchUrl`, `MatchName`), `Create`, the
read and the write of `merge_data()` and of `_update_common_fields()`, and one
`RecordEvidence` per field. A second writer is a run of a stolen job; `CutOff` is a
crash or an exception between any two statements. Kept of an entity are its
fingerprint, URL and name, which the matcher reads, and `data_json`; an external_id
is kept where the matcher finds it, in the fingerprint. `query_one()` without an order
returns any match (`Decide`). `filed` (the records an entity is made of), `cut`
(what a call that was cut off had written without its evidence) and `overlapped`
are history.

## What the runs check

| run | instance | question |
| --- | --- | --- |
| `JobDesk` | 1 job, 2 workers, scheduler, shell, all operator commands, 2 faults | type, `IsolationUnlessStolen`, `ParkedUntilOperator`, refinement of JobLease |
| `JobLive` | 2 jobs of different priority, worker, scheduler, 1 fault, fair | `OrphanRecovered`, `DueIsAdmitted` |
| `Runs` | 1 job, worker, shell, 3 rows, 2 faults, fair, no operator | `HistoryImmutable`; until the job is taken `ApartUnlessTaken`, `RestingIsFiled`, `MarkedRunEnds`; until runs overlap `EveryEndRecorded`, `CompletesOwnRow`, `OpenRowsAccountedFor` |
| `Queue` | 2 URLs of one site, 1 shell, 2 attempts, 2 pages a run, 2 faults, fair | `InHandIsFetching`, `GivenUpAtLimit`, `CompletedMeansSettled`, `EveryUrlSettled` |
| `Flow` | two pages of one product that link to each other, one of them in a sitemap as well and one a `sameAs`, so that either may have two candidates, batches of 2, 1 shell, 2 records a page, 1 fault, fair | `DoneIsAccountedFor`, `DecidedByItsPage`, `PromotedBeforeFetch`, `EveryCandidateQueued`, refinement of FetchQueue |
| `Phases` | window 3, verdict after 2 runs, streak 2, 3 candidates, 2 faults, fair | `CompletionEarned`, `PhaseOneEnds` |
| `Entities` | 4 records (one product under two URLs, with and without its id, and a namesake), 2 fields, 2 writers that may overlap, 4 calls, 1 fault | `Provenance`, `MergedOnSharedKey`; until they overlap also `LatestEvidence`, `OneEntityPerKey` |
| `Gate` | 2 workers, 1 shared domain, limits of 2 and 3 half seconds, a wait for robots.txt before each page, a page, a time-out, a CAPTCHA, a 429 with seconds and one with a date that is past | `SpacingKept`, `RetryAfterHonoured`, `BudgetCovers` |
| `Records` | every pair of the pages of 2 products, and of 2 facilities and their area; values of every kind, equal strings under different keys, codes of 0 and `[]`, malformed links | `IdsApart`, `JsonLdPrevails`, `SubjectKept` |
| `Startup` | 3 processes, 2 migrations of which 0 to 2 are done, 2 crashes, fair | `OnWholeSchema`, `EveryProcessOpens` |
| `BadPoison` | 2 URLs, one of which the adapter raises on | the queue behind it starves |
| `BadErrorRate` | as `Phases`, 2 candidates, no fault | phase 1 is completed in a run of too many errors |

The two `Bad` runs each state a sentence of the documentation, the code or a
test, and TLC refutes it; `PROJECT.json` quotes the sentence in its findings.

**Bounds.** Two workers, a scheduler and a shell give every pair of concurrent
writers the code has; a third worker only repeats the second. One job is enough
for isolation because jobs share no row; `JobLive` has two because the loops
walk lists in priority order. In `Runs`, three rows are a run cut off
before it marks its row and a later one with the failure path's extra row, or more runs
when rows are resumed; the row a run gets is the lowest free one (`RowsInOrder`), as
nothing depends on which. Once the job has been taken only HistoryImmutable still says
anything, and two rows and no crash are left to it (`LittleOnceTaken`). Two faults
allow a crash during the recovery from a crash. Two attempts distinguish "retry" from
"give up", a back-off of one tick "ready" from "waiting", two pages a run "limit
reached" from "queue empty". Two records a page make a cut between records
possible; what persist() decides is one ruling there (`Rulings`), as nothing depends on
which, while the theorems have any. With up to three candidates and a batch of two the
batch sometimes holds all and sometimes not. A window of three with a verdict after two lets a quiet pair stand at
either end of it, and three candidates with `LowShare` 2 give runs of low and high
yield, and of 0 of 0. Four records persisted in any order, with repetition, let a
URL merge and an id merge follow each other on one entity. Ticks of half a second are
the coarsest at which a stored time differs from the real one; `Far` is the longest
delay, beyond which ages need not be told apart; two jobs that disagree show whose
delay counts. Two pages are what a confusion of ids takes, and products (facilities)
are interchangeable, hence the symmetry; each page of the instance combines a
few values of every kind in every position the adapters read. A script of two
statements can be left half done, a second migration can be begun too early, and a
third process can lose to either of two others. `Startup` stops when all processes
are open, so it does not check for deadlock; its liveness says more. All bounds are constants in the `.cfg` files.

**Fairness.** `JobLifecycle`: every process's loop keeps stepping (fetches have
timeouts, runs a page limit), `Restart` (systemd `Restart=on-failure`), the clock,
and strong fairness of the worker's recovery timer, which the loop visits again
and again but not in every state. No operator command is fair. `JobRuns`: the
statements of a run follow one another like those of the loop around it, and with
JobLifecycle's recovery that is enough for `MarkedRunEnds`. It needs that no operator
pauses or resumes the job for ever, so the instance has none; nor has it the scheduler and
its load. Both are in `JobDesk`, and in the theorems. RunLedger states no fairness
of its own. `FetchQueue`, `PageFlow`: runs are started over and over (a failed
job is resumed by its operator; the scheduler does not do that by itself), and
the rate limiter lets each claimable URL through now and then, hence strong
fairness of `Claim`. Exceptions are never fair, except those that are certain
(a poisonous page, a lost `enqueue()`). `PhaseProgress`: runs are started over and
over, and infinitely often one of them finds its queue drained, the entities in and
the reviews done; without that the conditions would rightly never be met. `Startup`:
a process that runs goes on, and one that has failed is started again (systemd's
`Restart`); crashes are never fair. `DomainGate` and `PageRecords` have no liveness.

**What stays conditional.** `IsolationUnlessStolen` excludes stolen jobs because
the code does allow them: a run longer than `stale_seconds` is taken for dead, as
stale recovery reads the start time and not the heartbeat, and is run twice.
`ParkedUntilOperator` speaks of jobs without a runner, because `finish()` writes over
a pause that was given during the run. `DoneIsAccountedFor` excepts pages that were cut
off after `mark_done()`: it commits the page's ETag before its records are stored, so
that the next visit may answer 304 and the records stay away until the page changes.
`EveryUrlSettled` ends with phase 1:
afterwards pages of high priority may come of age again before a URL of lower
priority is claimed, and use up each run's page limit. `PromotedBeforeFetch` and
`EveryCandidateQueued` hold as long as a batch could hold every candidate there is
(candidates are counted, not URLs, and whatever their status): `list_new()` returns
candidates by confidence, fetched or not, and those that never leave `new` -- of blocked,
failed and unmodified pages, and the second candidate of a URL that was found by a seed
method and by an internal link -- occupy a smaller batch. Which of two candidates of one
URL is decided is chance if both were added within a second; `DecidedByItsPage` says
only that none is decided over another URL's page.
`LatestEvidence` and `OneEntityPerKey` are for one writer at a time: lookup and
INSERT are two transactions, no index is unique, and `merge_data()` writes back what
it read. Only equal fingerprints are one entity: a merge by URL never renews the
fingerprint, so a product whose id became known by such a merge may be created once
more when it turns up under another URL (`old`, `full` and `moved` of the run in turn).

`SpacingKept` and `RetryAfterHonoured` excuse a worker that had looked at the domain
before another one used it (look and request are two transactions), and are short
by up to a second (times are stored without their fraction). What `SpacingKept` keeps
apart are the times on record of pages that are really requested: between
`record_request()` and the page comes robots.txt, with a timeout of its own, so a page
that has waited for it is requested late and the next one that much closer behind it. No
distance between the requests themselves follows, nor do the requests for robots.txt
and sitemaps, which pass the gate by. Both properties
are about the row's delay, which is that of the first job to meet the domain and is
never updated; its column `concurrency` is never read. A date in a
Retry-After that is over stores nothing, but a negative number of seconds does, and
replaces a block that still holds. Only 403, 404, 429, 304 and 5xx are told apart: a
400, 401 or 410 is a page. `BudgetCovers` needs a run without failures, whose
back-off the waiting does not count.

`IdsApart` excepts pages that mislead: a code of the page's Product that is another
product's string, under whatever key, or 0, false, `[]` or `{}`, which is nobody's; when
its Product has none, the same of the last dataLayer item that has the key, be it a
recommended product's; and the first number in a path, which is taken for the facility's,
be it the area's. `SubjectKept` leaves out what the code cannot do with, each an error
path that is in the model:

* the first true name in any JSON-LD block, the shop's or the breadcrumb's as well, is not
  text: a number raises in `html.unescape()`; a list or an object raises in the scale hint
  if a product is left with it, and is sent to review for a facility. For a facility a
  blank name shadows the heading and passes for a name (the adapter asks only whether the
  string is empty, and `validate_record()` is not told that the name is required);
* a Product's `image` is an object (an `ImageObject`) or a number: `images[:5]` raises;
* a facility page's first true telephone is not text, or one of its telephones is 0,
  false, `[]` or `{}`: the record goes to review;
* an `@type` on a facility page is an object: `set()` cannot hold it and raises;
* a link, an image source or a `sameAs` is malformed: `urljoin()` or `urlsplit()` raises;
* the canonical link is no http URL: the record goes to review.

A page on which the code raises comes back as FetchQueue's poisonous one. Python's own
limits (nesting of JSON, digits of an integer, lone surrogates, a list that contains the
bare text "&") are left out.
A hyphenated telephone number contains what looks like a postal code, so a listing
page that shows one passes for a facility's page.

In `Startup`, a process that read `schema_migrations` early may run a script again
that is long recorded; as every statement says IF NOT EXISTS this changes nothing, but
its INSERT fails and the process has to be started once more. A migration that alters or
deletes would need a lock between processes.

## What is proved

TLAPS proves, for every value of the constants that satisfies the modules'
assumptions (named `...Assumption`, next to the constants):

* `JobLifecycleProofs`: `TypeCorrect`, `Isolated`, `OwnersAlwaysAgree`,
  `ParkedStaysParked`, `RegistryIsALease`. Isolation alone is not inductive; what
  carries it is `OwnersAgree`: an unstolen runner's row still says `running` (or
  `paused`), so no `claim_queued()` can succeed on it, and `holds` and `pc` agree.
  The lease follows from it step by step.
* `JobRunsProofs`, of RunLedger: `LedgerTypeCorrect`, `HistoryIsImmutable` (overlap
  included: it hangs on the `AND status='running'` of one UPDATE), and for runs kept apart
  `CompletionIsOwn`, `EndsAreRecorded`, `OpenRowsAccounted`. The inductive
  invariant is `MarkerInStep`: statement by statement, what the one active runner
  knows of marker and row.
  And of JobRuns: each step is one of JobLifecycle or leaves it alone, and one of
  RunLedger or leaves it alone (`RunsAreRegistrys`, `RunsAreLedgers`), so the theorems of
  both hold of it. `RunsAreKeptApart` joins them: a process is in a run only while it holds
  the job (`InsideHolds`), and a job that can be claimed and was never taken is held by
  nobody. So what RunLedger assumes is discharged, and its promises hold until the job is
  taken (`LedgerKeptUnlessTaken`). `RestIsFiled` needs that a run which holds its job but
  is through with its statements has cleared the marker (`ClearedBeforeFinish`), and that
  it stays cleared while the job rests.
* `PageFlowProofs`, of FetchQueue: `TypeCorrect`, `InHandAlwaysFetching`, `BudgetKept`,
  `CompletionIsHonest`. The three invariants are inductive only together: a row
  in hand is `fetching`, hence not yet `failed`, hence has an attempt left.
  And of PageFlow: `FlowImplementsQueue` (each step is a step of FetchQueue or
  leaves the queue alone, so the queue's theorems hold of the flow),
  `FlowTypeCorrect`, `DoneAccountedFor`, `DecidedOnlyByItsPage`,
  `PromotedBeforeAnyFetch`, from four strengthenings that say which stage goes
  with which part of a run (`StageFits`), that a page's candidates are its own
  (`CandidatesFit`), that validators stem from extracted pages (`ValidatorsEarned`) and
  how far promotion has got (`PromotionKept`). As candidates are never deleted, a batch
  that holds all of them now has held all of them before.
* `PhaseProgressProofs`: `TypeCorrect`, `CompletionIsEarned`, `PhasesGoForward`.
  `QuietCounted` carries them: quiet rows at the end of the window have all been
  counted in `quiet`, also when the window drops its oldest row (`Windowed`), and
  which phase goes with which part of a run.
* `EntityStoreProofs`: `TypeCorrect`, `ProvenanceHolds`, `MergesShareAKey`, `OnePerKey`,
  `EvidenceIsLatest`. Provenance needs that what `merge_data()` has read is backed as well
  (`SeenBacked`), as it may be written back over anything; what is backed stays
  backed (`BackedStable`). `MergesShareAKey` hangs on `Joined` (fingerprint and URL of
  an entity always come from records that joined it) and `Joining` (so does what a
  record in hand was matched by), `OnePerKey` on `NotFound`: the lookup is still
  right when `create()` comes. `EvidenceIsLatest` hangs on `InStep` (what `merge_data()`
  has read is still so when it writes, and what waits for its evidence is still the
  value of its field) and on `NoRowsYet` (no evidence of an entity not yet created).
* `DomainGateProofs`: `TypeCorrect`, `SpacingIsKept`, `RetryAfterIsHonoured`. Three parts
  carry them: the columns are behind what really happened by less than a second
  (`TableInv`), behind requests that still wait for robots.txt as well (`HeldInv`), and
  what a worker has found ready and nobody crossed stays spaced and
  unblocked until it is used up (`ReadyInv`). `BudgetIsEnough` counts turns of the loop
  without an induction: as long as a run is smooth, it sleeps at most once for each page
  it has asked for, and what it sleeps for is ready when it wakes (`BudgetInv`), so what
  it has waited and the turns it has taken never exceed what the pages fetched allow
  (`OnTrack`): neither the budget nor the bound on attempts ends the run before its page
  limit or its last row does.
* `PageRecordsProofs`: `RecordsAreStored`, and from it `IdsStayApart`, `JsonLdAlwaysPrevails`
  and `SubjectIsKept`, for any number of blocks, dataLayer pushes and path numbers of
  whatever kinds. They rest on lemmas about the operators: `FirstOf` distributes over
  concatenation as Python's `or` does (`FirstOfConcat`), the Product the adapter takes is
  the first one (`ProductIsStated`), the dataLayer's word is its last item's, a null included (`FromLayerFound`).
  That `FlattenSeq` yields a sequence is shown of its prefixes by the shortest
  counterexample (`HasLeast`), where an induction over data would need an operator parameter.
* `StartupProofs`: `SchemaIsWhole`, by induction together with how far each process has
  got (`AllProgress`).

`OwnersAgree`, `LedgerTypeOK`, `MarkerInStep`, `PhaseForward` and the type invariant of
PhaseProgress are proved, for all constants, and for that reason no run checks them as well.

So every safety property the runs check is a theorem. Only model-checked: the liveness properties
(`OrphanRecovered`, `DueIsAdmitted`, `MarkedRunEnds`, `EveryUrlSettled`,
`EveryCandidateQueued`, `PhaseOneEnds`, `EveryProcessOpens`), since the prover does not
handle fairness; and the refuted statements. No module declares a RECURSIVE operator.

## Plan

The core, its composition with the queue, the gate, the records and the start-up are done,
in the order of how much of the system rests on them. What could come next:

1. **Entities**, continued — the address, telephone and domain columns with their
   evidence, the abstract specification of deduplication (a partition of the records
   by shared keys), and EntityStore composed with PageFlow, whose `Persist` it refines.
2. **Runs**, continued — JobRuns with FetchQueue as well: what overlapping runs of a
   stolen job do to the queue and to `candidates.add()`.
3. The pure functions (`compute_next_run()`, the normalizers' idempotence) against
   reference definitions over small inputs.

Proofs to add: that EntityStore's one writer at a time, like RunLedger's, is the lease's
guarantee; that the crawl of PageFlow is RunLedger's `body`.

## Not modelled, and why

* Discovery methods, normalization, the sending of a request and the normalization of
  URLs: I/O and parsing. Their results are the alternatives of a step (a fetch succeeds, is
  refused, is not modified, fails, raises) or constants (`Found` and `Links`: what the
  methods make of a site and of a page).
* The cache of robots.txt, which lives as long as its worker, and the fetches of
  robots.txt and sitemaps, which do not ask DomainGate at all: what they return is an input.
* The sample adapters and the API collector's records, which no production job uses, and
  the fields of a record that no other one stands in for (scale, images, prefecture).
* Of persistence, the columns the matcher does not decide by. SQLite itself: a statement is
  atomic, and waiting for its write lock is part of it.
* Review queue, metrics, the workers' heartbeat rows: written, and read by reports
  only, but for the number of open reviews, a Boolean in PhaseProgress.
* `compute_next_run()`: a constant interval. Configuration: constants. Logging, the
  reports of `cli.py` and the admin pages, and the batch scripts: no state.
