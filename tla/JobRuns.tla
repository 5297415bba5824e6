------------------------------- MODULE JobRuns -------------------------------
(***************************************************************************)
(* JobLifecycle and RunLedger together: what a process does between its    *)
(* claim of one job and the finish() of the job's row, statement by        *)
(* statement. RunLedger lets the runs of its job begin whenever they like, *)
(* and its promises are for runs that are kept apart; here they begin when *)
(* claim_queued() succeeds, and the registry has to keep them apart.       *)
(***************************************************************************)
EXTENDS JobLifecycle, RunLedger

CONSTANT Job  \* the job whose runs the ledger records

ASSUME JobAssumption == Job \in Jobs
ASSUME ExecutorsAssumption == Executors = Procs

VARIABLE taken  \* history: the job has been taken from a live runner

runsVars == <<vars, ledgerVars, taken>>

RunsInit == Init /\ LedgerInit /\ taken = FALSE

-----------------------------------------------------------------------------
\* a claim that succeeds is followed by run_job_and_record()
ClaimRun(p, j) ==
    /\ Claim(p, j)
    /\ IF j = Job /\ Claimable(j) THEN Begin(p) ELSE UNCHANGED ledgerVars

\* a statement inside run_job_and_record(), or the exception that ends run_once(): the
\* row of the job is not touched
Inside(p) == Step(p) /\ UNCHANGED vars

Throw(p) == Raise(p) /\ UNCHANGED vars

\* mutant: the job's row is finished before the marker is cleared
FinishRunEarly(p) ==
    /\ Finish(p)
    /\ holds[p] = Job => at[p] \in {"idle", "clear"}
    /\ UNCHANGED ledgerVars

\* the row of the job is finished last, and as `failed` if the collector raised
FinishRun(p) ==
    /\ Finish(p)
    /\ holds[p] = Job => /\ at[p] = "idle"
                         /\ status'[Job] = "failed" <=> outcome[p] = "failed"
    /\ UNCHANGED ledgerVars

\* A process that dies gives up the run it is in, and so does one whose pass is aborted:
\* from the bookkeeping, as an exception of run_once() itself does not get that far.
Fall(p) ==
    /\ \/ Crash(p)
       \/ AbortPass(p) /\ at[p] \notin Trying \ {"load"}
    /\ IF at[p] = "idle" THEN UNCHANGED ledgerVars ELSE CutShort(p)

\* what does not touch the ledger, and what goes on in it
Alone(A) == A /\ UNCHANGED ledgerVars

Remember(A) == A /\ taken' = (taken \/ Job \in stolen')

ProcRuns(p) ==
    \/ Inside(p) \/ FinishRun(p)
    \/ Alone(DueScan(p)) \/ Alone(Suppress(p)) \/ Alone(QueuedScan(p)) \/ Alone(NothingClaimed(p))
    \/ \E j \in Jobs : \/ ClaimRun(p, j) \/ Alone(Admit(p, j))
                       \/ p \in Workers /\ Alone(ResetStale(p, j))

\* what happens around the processes
Around == Operator \/ LoadChange \/ Tick

RunsNext ==
    \/ \E p \in Procs : \/ Remember(ProcRuns(p)) \/ Remember(Throw(p)) \/ Remember(Fall(p))
                        \/ Remember(Alone(Restart(p)))
    \/ \E w \in Workers : Remember(Alone(ScanStale(w)))
    \/ \E c \in Clis, j \in Jobs : Remember(Alone(CliQueue(c, j)))
    \/ Remember(Alone(Around))

RunsSpec == RunsInit /\ [][RunsNext]_runsVars

\* JobLifecycle's fairness, and the statements of a run follow one another
RunsFairSpec ==
    /\ RunsSpec
    /\ WF_runsVars(Remember(Alone(Tick)))
    /\ \A p \in Procs : WF_runsVars(Remember(ProcRuns(p)))
    /\ \A w \in Workers : /\ WF_runsVars(Remember(Alone(Restart(w))))
                          /\ SF_runsVars(Remember(Alone(ScanStale(w))))

-----------------------------------------------------------------------------
(* Properties.                                                             *)

\* The registry keeps the runs of a job apart, as everything behind run_once() relies on,
\* until the job is taken from a live runner. RunLedger's properties then hold as well.
ApartUnlessTaken == ~taken => ~overlapped

Resting == status[Job] \in {"completed", "continuing", "failed"} /\ Runners(Job) = {}

\* When the job rests after a run, however that run and those before it ended, no run is
\* marked for resumption, and no row of run_history is left open but those of runners
\* that were cut off before they marked them.
RestingIsFiled ==
    ~taken /\ Resting => /\ marker = NoRun
                         /\ \A id \in RunIds : ledger[id] = "running" => id \in lost

\* The row of a run that was cut off is finalized by a later one, since the orphaned job
\* is recovered, admitted and claimed again -- as long as no operator pauses or resumes it
\* at every turn, and no live run is taken for dead.
MarkedRunEnds ==
    \A id \in RunIds : marker = id /\ ledger[id] = "running" ~>
        ledger[id] \in Final \/ taken
=============================================================================
