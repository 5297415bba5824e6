------------------------------ MODULE RunLedger ------------------------------
(***************************************************************************)
(* The bookkeeping of one job's executions: the run_history rows           *)
(* (run_history.py), the crash-resume marker current_run_id in the job's   *)
(* checkpoint (checkpoint.py), and the statements of run_once() and        *)
(* run_job_and_record() that write them. One action is one SQL statement;  *)
(* the crawling in between is the time a runner is at "body".               *)
(*                                                                         *)
(* Here a run may begin at any time, next to another one as well; that is *)
(* what overlapped says. JobRuns lets the registry begin the runs.         *)
(***************************************************************************)
EXTENDS Integers, FiniteSets

CONSTANTS
    RunIds,    \* run_id's; how many there are bounds the executions
    Executors, \* processes that may run the job
    MaxCuts,   \* bound on runs cut short
    NoRun      \* no run_id

ASSUME NoRunAssumption == NoRun \notin RunIds
ASSUME MaxCutsAssumption == MaxCuts \in Nat

VARIABLES
    ledger,   \* run_history.status of each run_id, "none" if there is no row
    marker,   \* checkpoints.state_json["current_run_id"]
    at,       \* where each runner is in run_job_and_record()
    mine,     \* run_once()'s run_id: the row its discovery stats refer to
    found,    \* the run_id read back by run_job_and_record()
    outcome,  \* what finish() is about to write
    cuts,     \* runs cut short so far
    lost,     \* history: rows inserted by a runner that never marked them
    dropped,  \* history: some execution ended without finalizing a row
    overlapped \* history: a run was begun while another one was going on

ledgerVars == <<ledger, marker, at, mine, found, outcome, cuts, lost, dropped, overlapped>>

Final == {"completed", "failed"}
RowStatus == Final \cup {"none", "running"}
MaybeRun == RunIds \cup {NoRun}

\* inside the `try` of run_job_and_record()
Trying == {"load", "check", "start", "save", "body", "after"}
Recording == {"reload", "read", "update", "clear"}
Failing == {"fload", "fcheck", "fstart"}
Places == {"idle"} \cup Trying \cup Recording \cup Failing

Fresh == {id \in RunIds : ledger[id] = "none"}
Open(id) == id \in RunIds /\ ledger[id] = "running"
Active == {r \in Executors : at[r] # "idle"}

LedgerTypeOK ==
    /\ ledger \in [RunIds -> RowStatus]
    /\ marker \in MaybeRun
    /\ at \in [Executors -> Places]
    /\ mine \in [Executors -> MaybeRun]
    /\ found \in [Executors -> MaybeRun]
    /\ outcome \in [Executors -> Final]
    /\ cuts \in 0 .. MaxCuts
    /\ lost \in SUBSET MaybeRun
    /\ dropped \in BOOLEAN
    /\ overlapped \in BOOLEAN

LedgerInit ==
    /\ ledger = [id \in RunIds |-> "none"]
    /\ marker = NoRun
    /\ at = [r \in Executors |-> "idle"]
    /\ mine = [r \in Executors |-> NoRun]
    /\ found = [r \in Executors |-> NoRun]
    /\ outcome = [r \in Executors |-> "completed"]
    /\ cuts = 0
    /\ lost = {}
    /\ dropped = FALSE
    /\ overlapped = FALSE

MoveTo(r, label) == at' = [at EXCEPT ![r] = label]

\* run_history.start(): a new row
Insert(id) == ledger[id] = "none" /\ ledger' = [ledger EXCEPT ![id] = "running"]

-----------------------------------------------------------------------------
(* run_once(): resume the marked row if it is still open, else start one.  *)

\* The bound leaves a run that is alone the two rows it may need; a resumption needs none.
Begin(r) ==
    /\ at[r] = "idle"
    /\ Cardinality(Fresh) >= 2 \/ Open(marker) \/ Active # {}
    /\ overlapped' = (overlapped \/ Active # {})
    /\ MoveTo(r, "load")
    /\ UNCHANGED <<ledger, marker, mine, found, outcome, cuts, lost, dropped>>

LoadMarker(r) ==
    /\ at[r] = "load"
    /\ mine' = [mine EXCEPT ![r] = marker]
    /\ MoveTo(r, "check")
    /\ UNCHANGED <<ledger, marker, found, outcome, cuts, lost, dropped, overlapped>>

\* mutant: resume any marked row, open or not
CheckMarkedOnly(r) ==
    /\ at[r] = "check"
    /\ MoveTo(r, IF mine[r] # NoRun THEN "body" ELSE "start")
    /\ UNCHANGED <<ledger, marker, mine, found, outcome, cuts, lost, dropped, overlapped>>

CheckMarked(r) ==
    /\ at[r] = "check"
    /\ MoveTo(r, IF Open(mine[r]) THEN "body" ELSE "start")
    /\ UNCHANGED <<ledger, marker, mine, found, outcome, cuts, lost, dropped, overlapped>>

StartRow(r) ==
    /\ at[r] = "start"
    /\ \E id \in RunIds :
          /\ Insert(id)
          /\ mine' = [mine EXCEPT ![r] = id]
    /\ MoveTo(r, "save")
    /\ UNCHANGED <<marker, found, outcome, cuts, lost, dropped, overlapped>>

SaveMarker(r) ==
    /\ at[r] = "save"
    /\ marker' = mine[r]
    /\ MoveTo(r, "body")
    /\ UNCHANGED <<ledger, mine, found, outcome, cuts, lost, dropped, overlapped>>

\* the last checkpoint of run_once() writes the marker once more, from its own state
EndBody(r) ==
    /\ at[r] = "body"
    /\ marker' = mine[r]
    /\ MoveTo(r, "after")
    /\ UNCHANGED <<ledger, mine, found, outcome, cuts, lost, dropped, overlapped>>

Return(r) ==
    /\ at[r] = "after"
    /\ MoveTo(r, "reload")
    /\ UNCHANGED <<ledger, marker, mine, found, outcome, cuts, lost, dropped, overlapped>>

\* any exception inside the try block
Raise(r) ==
    /\ at[r] \in Trying
    /\ MoveTo(r, "fload")
    /\ lost' = IF at[r] = "save" THEN lost \cup {mine[r]} ELSE lost
    /\ UNCHANGED <<ledger, marker, mine, found, outcome, cuts, dropped, overlapped>>

-----------------------------------------------------------------------------
(* run_job_and_record(): which row to finalize, finish(), clear the marker *)

Reload(r) ==
    /\ at[r] = "reload"
    /\ found' = [found EXCEPT ![r] = marker]
    /\ outcome' = [outcome EXCEPT ![r] = "completed"]
    /\ MoveTo(r, IF marker = NoRun THEN "clear" ELSE "read")
    /\ dropped' = (dropped \/ marker = NoRun)
    /\ UNCHANGED <<ledger, marker, mine, cuts, lost, overlapped>>

\* mutant: the failure path finishes the row as completed
FailLoadAsCompleted(r) ==
    /\ at[r] = "fload"
    /\ found' = [found EXCEPT ![r] = marker]
    /\ outcome' = [outcome EXCEPT ![r] = "completed"]
    /\ MoveTo(r, "fcheck")
    /\ UNCHANGED <<ledger, marker, mine, cuts, lost, dropped, overlapped>>

FailLoad(r) ==
    /\ at[r] = "fload"
    /\ found' = [found EXCEPT ![r] = marker]
    /\ outcome' = [outcome EXCEPT ![r] = "failed"]
    /\ MoveTo(r, "fcheck")
    /\ UNCHANGED <<ledger, marker, mine, cuts, lost, dropped, overlapped>>

\* mutant: a failure always gets a row of its own
FailCheckNever(r) ==
    /\ at[r] = "fcheck"
    /\ MoveTo(r, "fstart")
    /\ UNCHANGED <<ledger, marker, mine, found, outcome, cuts, lost, dropped, overlapped>>

FailCheck(r) ==
    /\ at[r] = "fcheck"
    /\ MoveTo(r, IF Open(found[r]) THEN "read" ELSE "fstart")
    /\ UNCHANGED <<ledger, marker, mine, found, outcome, cuts, lost, dropped, overlapped>>

FailStart(r) ==
    /\ at[r] = "fstart"
    /\ \E id \in RunIds :
          /\ Insert(id)
          /\ found' = [found EXCEPT ![r] = id]
    /\ MoveTo(r, "read")
    /\ UNCHANGED <<marker, mine, outcome, cuts, lost, dropped, overlapped>>

\* finish(): SELECT status ...
FinishRead(r) ==
    /\ at[r] = "read"
    /\ MoveTo(r, IF Open(found[r]) THEN "update" ELSE "clear")
    /\ dropped' = (dropped \/ ~Open(found[r]))
    /\ UNCHANGED <<ledger, marker, mine, found, outcome, cuts, lost, overlapped>>

\* mutant: the UPDATE without AND status = 'running'
FinalizedBlindly(id, to) == [ledger EXCEPT ![id] = to]

\* UPDATE ... WHERE run_id = ? AND status = 'running'
Finalized(id, to) == [ledger EXCEPT ![id] = IF Open(id) THEN to ELSE ledger[id]]

\* ... then UPDATE
FinishUpdate(r) ==
    /\ at[r] = "update"
    /\ ledger' = Finalized(found[r], outcome[r])
    /\ dropped' = (dropped \/ ~Open(found[r]))
    /\ MoveTo(r, "clear")
    /\ UNCHANGED <<marker, mine, found, outcome, cuts, lost, overlapped>>

\* state.pop("current_run_id"), checkpoints.save(); then the job row is finished
ClearMarker(r) ==
    /\ at[r] = "clear"
    /\ marker' = NoRun
    /\ MoveTo(r, "idle")
    /\ mine' = [mine EXCEPT ![r] = NoRun]
    /\ found' = [found EXCEPT ![r] = NoRun]
    /\ UNCHANGED <<ledger, outcome, cuts, lost, dropped, overlapped>>

\* The process dies, or an exception escapes the bookkeeping itself; the job is
\* recovered later and begins again.
CutShort(r) ==
    /\ at[r] # "idle"
    /\ cuts < MaxCuts
    /\ cuts' = cuts + 1
    /\ MoveTo(r, "idle")
    /\ lost' = lost \cup (IF at[r] = "save" THEN {mine[r]} ELSE {})
                    \cup (IF at[r] \in {"read", "update"} /\ found[r] # marker
                          THEN {found[r]} ELSE {})
    /\ mine' = [mine EXCEPT ![r] = NoRun]
    /\ found' = [found EXCEPT ![r] = NoRun]
    /\ UNCHANGED <<ledger, marker, outcome, dropped, overlapped>>

-----------------------------------------------------------------------------
Step(r) ==
    \/ LoadMarker(r) \/ CheckMarked(r) \/ StartRow(r) \/ SaveMarker(r)
    \/ EndBody(r) \/ Return(r) \/ Reload(r)
    \/ FailLoad(r) \/ FailCheck(r) \/ FailStart(r)
    \/ FinishRead(r) \/ FinishUpdate(r) \/ ClearMarker(r)

LedgerNext == \E r \in Executors : Begin(r) \/ Step(r) \/ Raise(r) \/ CutShort(r)

LedgerSpec == LedgerInit /\ [][LedgerNext]_ledgerVars

-----------------------------------------------------------------------------
(* Properties.                                                             *)

\* run_history is immutable: a finalized row never changes again, not even when
\* two runs of the job overlap and both passed finish()'s check.
HistoryImmutable ==
    [][\A id \in RunIds : ledger[id] \in Final => ledger'[id] = ledger[id]]_ledgerVars

\* Kept apart, every execution that comes to its end finalizes a row -- across
\* crashes, failures before the row exists, and resumptions.
EveryEndRecorded == ~overlapped => ~dropped

\* Kept apart, an execution that succeeds completes the very row its discovery
\* stats were written under.
CompletesOwnRow ==
    ~overlapped => \A r \in Executors :
        at[r] \in {"read", "update"} /\ outcome[r] = "completed" => found[r] = mine[r]

\* r has just inserted the row, or is about to finalize it
InHand(r, id) ==
    \/ at[r] = "save" /\ mine[r] = id
    \/ at[r] \in {"read", "update"} /\ found[r] = id

\* Kept apart, a row is left open only while it is the one the next run resumes, a
\* runner still has it in hand, or its runner was cut off before marking it.
OpenRowsAccountedFor ==
    ~overlapped => \A id \in RunIds : ledger[id] = "running" =>
        id = marker \/ id \in lost \/ \E r \in Executors : InHand(r, id)

\* Why: what each runner knows of the marker and of its row, statement by statement.
Knows(r) ==
    /\ at[r] = "check" => mine[r] = marker
    /\ at[r] \in {"start", "save", "fstart", "clear"} => ~Open(marker)
    /\ at[r] = "save" => Open(mine[r])
    /\ at[r] \in {"body", "after", "reload"} => mine[r] = marker /\ Open(marker)
    /\ at[r] = "fcheck" => found[r] = marker
    /\ at[r] \in {"fcheck", "fstart"} => outcome[r] = "failed"
    /\ at[r] \in {"read", "update"} =>
           /\ Open(found[r])
           /\ found[r] = marker \/ ~Open(marker)
           /\ outcome[r] = "completed" => found[r] = mine[r]

\* Kept apart, the marker names an open row exactly while a run may resume it, and
\* the one active runner's idea of it is never out of date.
MarkerInStep ==
    ~overlapped => /\ \A r, q \in Active : r = q
                   /\ \A r \in Executors : Knows(r)
                   /\ marker # NoRun => ledger[marker] # "none"
=============================================================================
