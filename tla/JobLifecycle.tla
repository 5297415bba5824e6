---------------------------- MODULE JobLifecycle ----------------------------
(***************************************************************************)
(* The `jobs` table of DB Collector OS and the processes that race on it:  *)
(* the scheduler (scheduler.py), the workers (worker.py), `db-collector    *)
(* jobs run` (cli.py), and an operator at the CLI or the admin UI.         *)
(*                                                                         *)
(* One action is one SQL statement on `jobs` (database.py commits every    *)
(* statement by itself), so whatever a process read in an earlier          *)
(* statement -- the snapshot in `todo` -- may be stale when it acts on it. *)
(* What a run does between its claim and its finish() is in RunLedger and  *)
(* FetchQueue; here it is the time the process spends in pc = "run".       *)
(***************************************************************************)
EXTENDS Integers

CONSTANTS
    Jobs,         \* job_id's of the registry
    Workers,      \* db-collector-worker@N processes
    Schedulers,   \* the db-collector-scheduler process (or none)
    Clis,         \* shells in which `db-collector jobs run` is typed
    Priority,     \* jobs.priority
    Interval,     \* jobs.schedule, in ticks
    Poll,         \* worker_poll_interval_seconds, in ticks
    StaleAfter,   \* worker_stale_seconds, in ticks
    OperatorActs, \* the operator commands in use
    MaxFaults,    \* bound on crashes and aborted loop passes
    NoJob         \* "no job held"

Procs == Workers \cup Schedulers \cup Clis

ASSUME ProcsAssumption ==
    /\ Workers \cap Schedulers = {}
    /\ Workers \cap Clis = {}
    /\ Schedulers \cap Clis = {}
ASSUME NoJobAssumption == NoJob \notin Jobs
ASSUME PriorityAssumption == Priority \in [Jobs -> Nat]
ASSUME TimingAssumption ==
    /\ Interval \in Nat /\ Poll \in Nat
    /\ StaleAfter \in Nat /\ MaxFaults \in Nat
ASSUME OperatorAssumption ==
    OperatorActs \subseteq {"pause", "resume", "enable", "sync"}

Status == {"idle", "queued", "running", "completed", "continuing",
           "retry", "failed", "paused"}

\* the statuses due_jobs() and mark_queued() accept
Schedulable == {"idle", "completed", "continuing", "retry"}

VARIABLES
    status,    \* jobs.status
    enabled,   \* jobs.enabled
    dueIn,     \* ticks until jobs.next_run_at, 0 once it has passed
    age,       \* ticks since jobs.last_started_at, saturating
    headroom,  \* what ResourceController.can_admit_new_job() would say
    pc,        \* where each process is in its loop
    todo,      \* rows of its last SELECT a process has still to act on
    holds,     \* the job a process is inside run_once() for
    stolen,    \* history: jobs taken from a runner that is still alive
    faults     \* crashes and aborted passes so far

rows == <<status, enabled, dueIn, age>>
procs == <<pc, todo, holds>>
vars == <<status, enabled, dueIn, age, headroom, pc, todo, holds, stolen, faults>>

PCs == {"down", "loop", "reset", "mark", "claim", "run"}
Delays == 0 .. (Interval + Poll)
Ages == 0 .. (StaleAfter + 1)

Runners(j) == {p \in Procs : holds[p] = j}

Due(j) == enabled[j] /\ status[j] \in Schedulable /\ dueIn[j] = 0
DueJobs == {j \in Jobs : Due(j)}

\* ORDER BY priority DESC; ties may come in either order
HighestFirst(S) == {j \in S : \A k \in S : Priority[k] <= Priority[j]}

TypeOK ==
    /\ status \in [Jobs -> Status]
    /\ enabled \in [Jobs -> BOOLEAN]
    /\ dueIn \in [Jobs -> Delays]
    /\ age \in [Jobs -> Ages]
    /\ headroom \in BOOLEAN
    /\ pc \in [Procs -> PCs]
    /\ todo \in [Procs -> SUBSET Jobs]
    /\ holds \in [Procs -> Jobs \cup {NoJob}]
    /\ stolen \in SUBSET Jobs
    /\ faults \in 0 .. MaxFaults

\* Freshly synced rows (status idle, next_run_at = now), enabled as the YAML says.
Init ==
    /\ status = [j \in Jobs |-> "idle"]
    /\ enabled \in [Jobs -> BOOLEAN]
    /\ dueIn = [j \in Jobs |-> 0]
    /\ age = [j \in Jobs |-> 0]
    /\ headroom \in BOOLEAN
    /\ pc = [p \in Procs |-> "loop"]
    /\ todo = [p \in Procs |-> {}]
    /\ holds = [p \in Procs |-> NoJob]
    /\ stolen = {}
    /\ faults = 0

Goto(p, label, rest) ==
    /\ pc' = [pc EXCEPT ![p] = label]
    /\ todo' = [todo EXCEPT ![p] = rest]

-----------------------------------------------------------------------------
(* Stale-job recovery: Worker.recover_stale_jobs(), called at most every   *)
(* worker_stale_seconds / 2 from the head of the worker's loop.            *)

ScanStale(w) ==
    /\ pc[w] = "loop"
    /\ Goto(w, "reset", {j \in Jobs : status[j] = "running" /\ age[j] > StaleAfter})
    /\ UNCHANGED <<rows, headroom, holds, stolen, faults>>

\* mutant: resets the disabled jobs only
ResetStaleIfDisabled(w, j) ==
    /\ pc[w] = "reset"
    /\ j \in todo[w]
    /\ Goto(w, "reset", todo[w] \ {j})
    /\ status' = IF status[j] = "running" /\ ~enabled[j]
                 THEN [status EXCEPT ![j] = "retry"] ELSE status
    /\ UNCHANGED <<enabled, dueIn, age, headroom, holds, stolen, faults>>

ResetStale(w, j) ==
    /\ pc[w] = "reset"
    /\ j \in todo[w]
    /\ Goto(w, "reset", todo[w] \ {j})
    /\ IF status[j] = "running"
       THEN /\ status' = [status EXCEPT ![j] = "retry"]
            /\ stolen' = IF Runners(j) # {} THEN stolen \cup {j} ELSE stolen
       ELSE UNCHANGED <<status, stolen>>
    /\ UNCHANGED <<enabled, dueIn, age, headroom, holds, faults>>

-----------------------------------------------------------------------------
(* Admission: due_jobs(), then mark_queued() row by row. The worker starts *)
(* run_one_job() with the same two calls the scheduler makes in tick().    *)

DueScan(p) ==
    /\ \/ p \in Workers /\ pc[p] \in {"loop", "reset"} /\ todo[p] = {}
       \/ p \in Schedulers /\ pc[p] = "loop" /\ DueJobs # {}
    /\ Goto(p, "mark", DueJobs)
    /\ UNCHANGED <<rows, headroom, holds, stolen, faults>>

\* mutants: the UPDATE without its WHERE, and one that forgets `continuing`
MarkQueuedBlindly(j) == status' = [status EXCEPT ![j] = "queued"]

MarkQueuedOnlyRested(j) ==
    status' = IF status[j] \in {"idle", "completed"}
              THEN [status EXCEPT ![j] = "queued"] ELSE status

MarkQueued(j) ==
    status' = IF status[j] \in Schedulable
              THEN [status EXCEPT ![j] = "queued"] ELSE status

Admit(p, j) ==
    /\ pc[p] = "mark"
    /\ j \in HighestFirst(todo[p])
    /\ p \in Schedulers => headroom
    /\ MarkQueued(j)
    /\ Goto(p, IF p \in Schedulers /\ todo[p] = {j} THEN "loop" ELSE "mark",
            todo[p] \ {j})
    /\ UNCHANGED <<enabled, dueIn, age, headroom, holds, stolen, faults>>

\* the resource controller says no: tick() breaks off
Suppress(s) ==
    /\ s \in Schedulers
    /\ pc[s] = "mark"
    /\ ~headroom
    /\ Goto(s, "loop", {})
    /\ UNCHANGED <<rows, headroom, holds, stolen, faults>>

-----------------------------------------------------------------------------
(* Claiming and finishing a run.                                           *)

QueuedScan(w) ==
    /\ w \in Workers
    /\ pc[w] = "mark"
    /\ todo[w] = {}
    /\ Goto(w, "claim", {j \in Jobs : status[j] = "queued"})
    /\ UNCHANGED <<rows, headroom, holds, stolen, faults>>

\* `db-collector jobs run J`: mark_queued(J), then a single claim_queued(J)
CliQueue(c, j) ==
    /\ pc[c] = "loop"
    /\ MarkQueued(j)
    /\ Goto(c, "claim", {j})
    /\ UNCHANGED <<enabled, dueIn, age, headroom, holds, stolen, faults>>

\* mutant: the claim does not look at the status
ClaimableAnyway(j) == enabled[j]

Claimable(j) == status[j] = "queued" /\ enabled[j]

Claim(p, j) ==
    /\ pc[p] = "claim"
    /\ j \in HighestFirst(todo[p])
    /\ IF Claimable(j)
       THEN /\ status' = [status EXCEPT ![j] = "running"]
            /\ age' = [age EXCEPT ![j] = 0]
            /\ holds' = [holds EXCEPT ![p] = j]
            /\ Goto(p, "run", {})
       ELSE /\ Goto(p, "claim", todo[p] \ {j})
            /\ UNCHANGED <<status, age, holds>>
    /\ UNCHANGED <<enabled, dueIn, headroom, stolen, faults>>

NothingClaimed(p) ==
    /\ pc[p] = "claim"
    /\ todo[p] = {}
    /\ Goto(p, "loop", {})
    /\ UNCHANGED <<rows, headroom, holds, stolen, faults>>

\* p lets go of its job; a job nobody runs any more is no longer stolen
LetGo(p) ==
    /\ holds' = [holds EXCEPT ![p] = NoJob]
    /\ stolen' = IF Runners(holds[p]) = {p} THEN stolen \ {holds[p]} ELSE stolen

\* JobRegistry.finish(): the status is overwritten whatever it has become
FinishAs(j, outcome, delay) ==
    /\ status' = [status EXCEPT ![j] = outcome]
    /\ dueIn' = [dueIn EXCEPT ![j] = delay]

\* mutant: a failed run is put up for review
OutcomesWithReview == {<<"continuing", Poll>>, <<"completed", Interval>>, <<"review", Interval>>}

\* run_job_and_record(): more work to do, all done, or the collector raised
Outcomes == {<<"continuing", Poll>>, <<"completed", Interval>>, <<"failed", Interval>>}

Finish(p) ==
    /\ pc[p] = "run"
    /\ \E o \in Outcomes : FinishAs(holds[p], o[1], o[2])
    /\ LetGo(p)
    /\ Goto(p, "loop", {})
    /\ UNCHANGED <<enabled, age, headroom, faults>>

-----------------------------------------------------------------------------
(* Faults. A crash (or the SIGKILL that ends a slow stop) loses the local  *)
(* state; an exception that reaches the loop's `except` ends the pass only *)
(* -- from "run" it leaves the row running although the process lives on.  *)

Fault(p, label) ==
    /\ pc[p] # "down"
    /\ faults < MaxFaults
    /\ faults' = faults + 1
    /\ Goto(p, label, {})
    /\ LetGo(p)
    /\ UNCHANGED <<rows, headroom>>

Crash(p) == Fault(p, "down")

AbortPass(p) == pc[p] # "loop" /\ Fault(p, "loop")

Restart(p) ==
    /\ pc[p] = "down"
    /\ Goto(p, "loop", {})
    /\ UNCHANGED <<rows, headroom, holds, stolen, faults>>

-----------------------------------------------------------------------------
(* The operator, the machine's load, and time.                             *)

Pause(j) ==
    /\ "pause" \in OperatorActs
    /\ status' = [status EXCEPT ![j] = "paused"]
    /\ UNCHANGED <<enabled, dueIn, age, headroom, procs, stolen, faults>>

Resume(j) ==
    /\ "resume" \in OperatorActs
    /\ status' = [status EXCEPT ![j] = "idle"]
    /\ dueIn' = [dueIn EXCEPT ![j] = 0]
    /\ stolen' = IF Runners(j) # {} THEN stolen \cup {j} ELSE stolen
    /\ UNCHANGED <<enabled, age, headroom, procs, faults>>

SetEnabled(j, on) ==
    /\ "enable" \in OperatorActs
    /\ enabled' = [enabled EXCEPT ![j] = on]
    /\ UNCHANGED <<status, dueIn, age, headroom, procs, stolen, faults>>

\* `jobs sync` over an existing row: the upsert leaves status and next_run_at
Sync(j, yamlEnabled) ==
    /\ "sync" \in OperatorActs
    /\ enabled' = [enabled EXCEPT ![j] = yamlEnabled]
    /\ UNCHANGED <<status, dueIn, age, headroom, procs, stolen, faults>>

LoadChange ==
    /\ Schedulers # {}
    /\ headroom' = ~headroom
    /\ UNCHANGED <<rows, procs, stolen, faults>>

Tick ==
    /\ dueIn' = [j \in Jobs |-> IF dueIn[j] = 0 THEN 0 ELSE dueIn[j] - 1]
    /\ age' = [j \in Jobs |-> IF age[j] > StaleAfter THEN age[j] ELSE age[j] + 1]
    /\ UNCHANGED <<status, enabled, headroom, procs, stolen, faults>>

-----------------------------------------------------------------------------
ProcStep(p) ==
    \/ DueScan(p) \/ Suppress(p) \/ QueuedScan(p) \/ NothingClaimed(p) \/ Finish(p)
    \/ \E j \in Jobs : Admit(p, j) \/ Claim(p, j)
    \/ p \in Workers /\ \E j \in Jobs : ResetStale(p, j)

Operator ==
    \E j \in Jobs :
        \/ Pause(j) \/ Resume(j)
        \/ \E b \in BOOLEAN : SetEnabled(j, b) \/ Sync(j, b)

Next ==
    \/ \E p \in Procs : ProcStep(p) \/ Crash(p) \/ AbortPass(p) \/ Restart(p)
    \/ \E w \in Workers : ScanStale(w)
    \/ \E c \in Clis, j \in Jobs : CliQueue(c, j)
    \/ Operator \/ LoadChange \/ Tick

Spec == Init /\ [][Next]_vars

\* systemd restarts a failed service; a process's loop never blocks for ever
\* (every fetch has a timeout, every run a page limit); each worker's loop keeps
\* a timer that makes it recover again; time passes. Nobody has to type commands.
Fairness ==
    /\ WF_vars(Tick)
    /\ \A p \in Procs : WF_vars(ProcStep(p))
    /\ \A w \in Workers : WF_vars(Restart(w)) /\ SF_vars(ScanStale(w))

FairSpec == Spec /\ Fairness

-----------------------------------------------------------------------------
(* Properties.                                                             *)

\* At most one process is inside run_once() for a job, unless the job was taken
\* from its live runner by recover_stale_jobs() or by `jobs resume`. This is the
\* per-job isolation fetching/queue.py's requeue_stale_fetching() relies on; it is not
\* unconditional, as a run longer than worker_stale_seconds is taken for dead.
IsolationUnlessStolen ==
    \A p, q \in Procs : holds[p] = holds[q] /\ holds[p] \in Jobs \ stolen => p = q

\* Why that holds: a run that was not stolen still owns its row (an operator's
\* pause is the only thing that may have overwritten it), so nobody else can claim
\* it; and only jobs with a live runner count as stolen.
OwnersAgree ==
    /\ \A p \in Procs : holds[p] \in Jobs \ stolen => status[holds[p]] \in {"running", "paused"}
    /\ \A j \in stolen : Runners(j) # {}
    /\ \A p \in Procs : (pc[p] = "run") <=> (holds[p] # NoJob)

\* Seen through the processes inside its runs, the registry is a lease per job that
\* overlaps only after a revocation (JobLease).
Lease == INSTANCE JobLease WITH runners <- [j \in Jobs |-> Runners(j)],
                                revoked <- stolen
ImplementsLease == Lease!Spec

Parked(j) == status[j] \in {"paused", "failed"} /\ Runners(j) = {}

\* A paused or failed job without a live run stays out of the machinery: whatever
\* stale snapshots schedulers, workers and shells still act on, only the operator's
\* pause and resume change its status (docs/architecture.md:56). A pause given during
\* a run is another matter: finish() writes over it.
ParkedUntilOperator ==
    [][\A j \in Jobs : Parked(j) => \/ status'[j] = status[j]
                                    \/ Resume(j) \/ Pause(j)]_vars

\* An orphan -- a row left running by a dead process or by an aborted pass -- is
\* picked out of `running` again: README.md:397 "no action needed".
OrphanRecovered ==
    \A j \in Jobs : status[j] = "running" /\ Runners(j) = {} ~> status[j] # "running"

\* A due job is not overlooked for ever: it is queued (or the operator takes it out).
DueIsAdmitted == \A j \in Jobs : Due(j) ~> ~Due(j)

=============================================================================
