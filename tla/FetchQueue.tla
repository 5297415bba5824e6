------------------------------ MODULE FetchQueue ------------------------------
(***************************************************************************)
(* One job's fetch_queue (fetching/queue.py) and the processes that touch  *)
(* it: the run that drains it (BaseCollector.run_once and                  *)
(* _drain_fetch_queue in collectors/pipeline.py) and shells that add seed  *)
(* URLs next to it (`db-collector jobs reseed`). There is one run at a     *)
(* time, as long as the job's lease is not revoked (JobLifecycle). Pages,  *)
(* candidates and entities are added in PageFlow.                          *)
(***************************************************************************)
EXTENDS Integers, FiniteSets

CONSTANTS
    Urls,         \* normalized URLs
    Priority,     \* fetch_queue.priority
    Domain,       \* extract_domain(url)
    Poison,       \* URLs whose page makes the adapter raise
    Shells,       \* `jobs reseed` processes
    MaxAttempts,  \* fetch_queue.max_attempts
    MaxPages,     \* jobs.max_pages: pages one run may fetch
    MaxBackoff,   \* bound on a back-off, in ticks
    MaxFaults,    \* bound on crashes, and on failures of innocent pages
    NoUrl

Run == "run"
Enqueuers == {Run} \cup Shells

ASSUME NoUrlAssumption == NoUrl \notin Urls
ASSUME UrlAssumption == Poison \subseteq Urls /\ Priority \in [Urls -> Nat]
ASSUME ShellAssumption == Run \notin Shells
ASSUME LimitAssumption ==
    /\ MaxAttempts \in Nat \ {0} /\ MaxPages \in Nat \ {0}
    /\ MaxBackoff \in Nat /\ MaxFaults \in Nat

VARIABLES
    row,      \* fetch_queue.status of each URL, "absent" if there is no row
    attempts, \* fetch_queue.attempt_count
    retryIn,  \* ticks until next_retry_at
    aged,     \* rows fetched longer ago than incremental_revalidate_after_seconds,
              \* kept only in the phase that asks for it
    phase,    \* jobs.phase, `phase1` standing for everything from bootstrap to validation
    saw,      \* the URL an enqueue() found no row for and is about to insert
    pc,       \* where the run is: idle, queueing its seeds, filling the queue with what
              \* it discovers, draining it, fetching
    item,     \* the row the run has claimed
    pages,    \* outcome.fetched
    verdict,  \* how the last run ended, as the job's status
    faults    \* crashes, and exceptions raised over innocent pages, so far

queue == <<row, attempts, retryIn, aged>>
run == <<phase, pc, item, pages, verdict>>
vars == <<row, attempts, retryIn, aged, phase, saw, pc, item, pages, verdict, faults>>

Settled == {"done", "skipped", "failed"}
RowStatus == Settled \cup {"absent", "queued", "fetching"}
Verdicts == {"none", "continuing", "completed", "failed"}
Phases == {"phase1", "phase1_complete", "incremental"}

TypeOK ==
    /\ row \in [Urls -> RowStatus]
    /\ attempts \in [Urls -> Nat]
    /\ retryIn \in [Urls -> 0 .. MaxBackoff]
    /\ aged \in SUBSET Urls
    /\ phase \in Phases
    /\ saw \in [Enqueuers -> Urls \cup {NoUrl}]
    /\ pc \in {"idle", "seed", "fill", "drain", "fetch"}
    /\ item \in Urls \cup {NoUrl}
    /\ pages \in 0 .. MaxPages
    /\ verdict \in Verdicts
    /\ faults \in 0 .. MaxFaults

Init ==
    /\ row = [u \in Urls |-> "absent"]
    /\ attempts = [u \in Urls |-> 0]
    /\ retryIn = [u \in Urls |-> 0]
    /\ aged = {}
    /\ phase = "phase1"
    /\ saw = [e \in Enqueuers |-> NoUrl]
    /\ pc = "idle"
    /\ item = NoUrl
    /\ pages = 0
    /\ verdict = "none"
    /\ faults = 0

-----------------------------------------------------------------------------
(* enqueue(): SELECT, then INSERT under UNIQUE(job_id, url).               *)

\* The run adds seeds and candidates before it drains and while it handles a page.
MayEnqueue(e) == e = Run => pc \in {"seed", "fill", "fetch"}

Look(e, u) ==
    /\ MayEnqueue(e)
    /\ saw[e] = NoUrl
    /\ row[u] = "absent"
    /\ saw' = [saw EXCEPT ![e] = u]
    /\ UNCHANGED <<queue, run, faults>>

Insert(e) ==
    /\ saw[e] # NoUrl
    /\ row[saw[e]] = "absent"
    /\ row' = [row EXCEPT ![saw[e]] = "queued"]
    /\ saw' = [saw EXCEPT ![e] = NoUrl]
    /\ UNCHANGED <<attempts, retryIn, aged, run, faults>>

\* somebody else inserted the row first: sqlite3.IntegrityError
InsertRefused(e) == saw[e] # NoUrl /\ row[saw[e]] # "absent"

ReseedFails(s) ==
    /\ InsertRefused(s)
    /\ saw' = [saw EXCEPT ![s] = NoUrl]
    /\ UNCHANGED <<queue, run, faults>>

-----------------------------------------------------------------------------
(* A run.                                                                  *)

\* mutant: no requeue_stale_fetching()
BeginWithoutRequeue ==
    /\ pc = "idle"
    /\ pc' = "seed"
    /\ pages' = 0
    /\ UNCHANGED <<queue, phase, saw, item, verdict, faults>>

\* requeue_stale_fetching(): rows a dead run left in `fetching`
Begin ==
    /\ pc = "idle"
    /\ pc' = "seed"
    /\ pages' = 0
    /\ row' = [u \in Urls |-> IF row[u] = "fetching" THEN "queued" ELSE row[u]]
    /\ UNCHANGED <<attempts, retryIn, aged, phase, saw, item, verdict, faults>>

\* requeue_for_revalidation(), in the incremental phase only: a fresh budget, too
Revalidated == {u \in aged : row[u] = "done" /\ phase = "incremental"}

Revalidate ==
    /\ pc = "seed"
    /\ saw[Run] = NoUrl
    /\ pc' = "fill"
    /\ row' = [u \in Urls |-> IF u \in Revalidated THEN "queued" ELSE row[u]]
    /\ attempts' = [u \in Urls |-> IF u \in Revalidated THEN 0 ELSE attempts[u]]
    /\ UNCHANGED <<retryIn, aged, phase, saw, item, pages, verdict, faults>>

StartDrain ==
    /\ pc = "fill"
    /\ saw[Run] = NoUrl
    /\ pc' = "drain"
    /\ UNCHANGED <<queue, phase, saw, item, pages, verdict, faults>>

Ready(u) == row[u] = "queued" /\ retryIn[u] = 0

\* claim_next() among the domains the rate limiter lets through, whichever they are
Claimable(u) ==
    /\ Ready(u)
    /\ \A v \in Urls : Ready(v) /\ Domain[v] = Domain[u] => Priority[v] <= Priority[u]

\* mutant: no page limit
ClaimWithoutLimit(u) ==
    /\ pc = "drain"
    /\ Claimable(u)
    /\ row' = [row EXCEPT ![u] = "fetching"]
    /\ item' = u
    /\ pc' = "fetch"
    /\ pages' = pages + 1
    /\ UNCHANGED <<attempts, retryIn, aged, phase, saw, verdict, faults>>

Claim(u) ==
    /\ pc = "drain"
    /\ pages < MaxPages
    /\ Claimable(u)
    /\ row' = [row EXCEPT ![u] = "fetching"]
    /\ item' = u
    /\ pc' = "fetch"
    /\ pages' = pages + 1
    /\ UNCHANGED <<attempts, retryIn, aged, phase, saw, verdict, faults>>

\* the run is through with its item and leaves it as `to`
Settle(to) ==
    /\ pc = "fetch"
    /\ saw[Run] = NoUrl
    /\ row' = [row EXCEPT ![item] = to]
    /\ item' = NoUrl
    /\ pc' = "drain"
    /\ aged' = aged \ {item}

\* 304, or a page whose records were extracted
MarkDone ==
    /\ Settle("done")
    /\ UNCHANGED <<attempts, retryIn, phase, saw, pages, verdict, faults>>

\* blocked: 403, or a CAPTCHA page
MarkSkipped ==
    /\ Settle("skipped")
    /\ UNCHANGED <<attempts, retryIn, phase, saw, pages, verdict, faults>>

\* mutants: one attempt too many; attempts that are not counted
MarkFailedLate ==
    /\ pc = "fetch"
    /\ saw[Run] = NoUrl
    /\ attempts' = [attempts EXCEPT ![item] = @ + 1]
    /\ row' = [row EXCEPT ![item] = IF attempts[item] + 1 > MaxAttempts THEN "failed" ELSE "queued"]
    /\ item' = NoUrl
    /\ pc' = "drain"
    /\ UNCHANGED <<retryIn, aged, phase, saw, pages, verdict, faults>>

MarkFailedUncounted ==
    /\ pc = "fetch"
    /\ saw[Run] = NoUrl
    /\ row' = [row EXCEPT ![item] = "queued"]
    /\ item' = NoUrl
    /\ pc' = "drain"
    /\ UNCHANGED <<attempts, retryIn, aged, phase, saw, pages, verdict, faults>>

\* timeouts, robots.txt, 404, 429, 5xx: back off, or give up after max_attempts
MarkFailed ==
    /\ pc = "fetch"
    /\ saw[Run] = NoUrl
    /\ LET n == attempts[item] + 1 IN
          /\ attempts' = [attempts EXCEPT ![item] = n]
          /\ IF n >= MaxAttempts
             THEN row' = [row EXCEPT ![item] = "failed"] /\ UNCHANGED retryIn
             ELSE /\ row' = [row EXCEPT ![item] = "queued"]
                  /\ \E wait \in 0 .. MaxBackoff : retryIn' = [retryIn EXCEPT ![item] = wait]
    /\ item' = NoUrl
    /\ pc' = "drain"
    /\ UNCHANGED <<aged, phase, saw, pages, verdict, faults>>

\* is_empty() counts the rows that say `queued`, backing off or not
Queued == {u \in Urls : row[u] = "queued"}

\* _advance_phase(): phase 1 is not complete while the queue has rows; what else it
\* waits for is not the queue's business. The run after that is the last of phase 1.
NextPhase ==
    IF phase = "phase1"
    THEN {"phase1"} \cup {p \in {"phase1_complete"} : Queued = {}}
    ELSE {"incremental"}

\* An exception that leaves run_once() (extraction, an enqueue that lost its race, a
\* locked database): the run fails, and a row in hand stays `fetching`.
Raise ==
    /\ pc # "idle"
    /\ IF InsertRefused(Run) \/ item \in Poison
       THEN UNCHANGED faults
       ELSE faults < MaxFaults /\ faults' = faults + 1
    /\ phase' \in IF pc = "drain" THEN {phase} \cup NextPhase ELSE {phase}
    /\ pc' = "idle"
    /\ verdict' = "failed"
    /\ item' = NoUrl
    /\ saw' = [saw EXCEPT ![Run] = NoUrl]
    /\ UNCHANGED <<queue, pages>>

\* mutant: rows that are backing off are not counted
HasReadyWork(p) == p # "incremental" /\ \E u \in Urls : Ready(u)

\* The drain ends: nothing ready, the page limit, or the rate limiter's wait is too
\* long. Outside the incremental phase the job is `continuing` while is_empty() says no
\* -- or, with nothing left to fetch, while phase 1 wants more discovery runs.
HasWork(p) == p # "incremental" /\ Queued # {}

EndRun ==
    /\ pc = "drain"
    /\ pc' = "idle"
    /\ phase' \in NextPhase
    /\ verdict' \in IF HasWork(phase') THEN {"continuing"}
                    ELSE {"completed"} \cup {v \in {"continuing"} : phase' = "phase1"}
    /\ UNCHANGED <<queue, saw, item, pages, faults>>

Crash ==
    /\ pc # "idle"
    /\ faults < MaxFaults
    /\ faults' = faults + 1
    /\ phase' \in IF pc = "drain" THEN {phase} \cup NextPhase ELSE {phase}
    /\ pc' = "idle"
    /\ item' = NoUrl
    /\ saw' = [saw EXCEPT ![Run] = NoUrl]
    /\ UNCHANGED <<queue, pages, verdict>>

\* Time passes: back-offs run down, and pages fetched long ago come of age.
Tick ==
    /\ retryIn' = [u \in Urls |-> IF retryIn[u] = 0 THEN 0 ELSE retryIn[u] - 1]
    /\ \E old \in SUBSET {u \in Urls : phase = "incremental" /\ row[u] = "done"} :
          aged' = aged \cup old
    /\ UNCHANGED <<row, attempts, saw, run, faults>>

-----------------------------------------------------------------------------
\* a fetch that came to an answer; a poisonous page has only one way out
Answer == MarkDone \/ MarkSkipped \/ MarkFailed

Next ==
    \/ \E e \in Enqueuers : Insert(e) \/ \E u \in Urls : Look(e, u)
    \/ \E s \in Shells : ReseedFails(s)
    \/ Begin \/ Revalidate \/ StartDrain \/ EndRun \/ Raise \/ Crash \/ Tick
    \/ \E u \in Urls : Claim(u)
    \/ item \notin Poison /\ Answer

Spec == Init /\ [][Next]_vars

\* Runs are started over and over (JobLifecycle, DueIsAdmitted; a failed job is
\* resumed by its operator), every request is answered or times out, and the rate
\* limiter lets every domain through now and then.
Fairness ==
    /\ WF_vars(Begin) /\ WF_vars(Revalidate) /\ WF_vars(StartDrain) /\ WF_vars(EndRun) /\ WF_vars(Tick)
    /\ WF_vars(Insert(Run)) /\ WF_vars(InsertRefused(Run) /\ Raise)
    /\ WF_vars(pc = "fetch" /\ (Raise \/ (item \notin Poison /\ Answer)))
    /\ \A u \in Urls : SF_vars(Claim(u))

FairSpec == Spec /\ Fairness

-----------------------------------------------------------------------------
(* Properties.                                                             *)

\* While a run has a row in hand the row says `fetching` -- whatever shells insert
\* and however many runs died before -- and no other row does once it drains.
InHandIsFetching ==
    /\ pc = "fetch" <=> item # NoUrl
    /\ pc = "fetch" => row[item] = "fetching"
    /\ pc # "idle" => \A u \in Urls \ {item} : row[u] # "fetching"

\* A URL is given up at its last attempt, neither before nor after: crashes,
\* resumptions and revalidation neither use up the budget nor overrun it.
GivenUpAtLimit ==
    \A u \in Urls : /\ attempts[u] <= MaxAttempts
                    /\ row[u] = "failed" <=> attempts[u] = MaxAttempts

\* A job reported `completed` before it is in the incremental phase has no unfinished
\* URL, not even one that a dead run left in `fetching`, which is_empty() does not count
\* (worker.py:92).
CompletedMeansSettled ==
    [][EndRun /\ verdict' = "completed" /\ phase' # "incremental"
          => \A u \in Urls : row[u] \in Settled \cup {"absent"}]_vars

\* Every URL in the queue is dealt with: done, skipped, or given up -- unless phase 1
\* is over: then revalidated pages that outrank a URL may take up every run's page limit.
EveryUrlSettled ==
    \A u \in Urls : row[u] \in {"queued", "fetching"} ~>
                        row[u] \in Settled \/ phase = "incremental"

-----------------------------------------------------------------------------
(* What the documentation promises and the code does not keep.             *)

\* fetching/queue.py:1 "A failure on one URL or one domain never stops the rest of
\* the queue": the pages that are not at fault get settled.
OthersNotBlocked ==
    \A u \in Urls \ Poison : row[u] = "queued" ~> row[u] \in Settled
=============================================================================
