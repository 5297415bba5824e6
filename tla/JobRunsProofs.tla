---------------------------- MODULE JobRunsProofs ----------------------------
(***************************************************************************)
(* What holds of RunLedger for any number of runs, runners and crashes;    *)
(* and of JobRuns, where the registry's lease keeps the runs of a job      *)
(* apart and what the ledger promises rests on that.                       *)
(***************************************************************************)
EXTENDS JobRuns, JobLifecycleProofs

-----------------------------------------------------------------------------
(* RunLedger: type correctness.                                            *)

\* Every variable of the ledger keeps its type.
THEOREM LedgerTypeCorrect == LedgerSpec => []LedgerTypeOK
<1>1. LedgerInit => LedgerTypeOK
  <2> SUFFICES ASSUME LedgerInit PROVE LedgerTypeOK
    OBVIOUS
  <2>1. cuts \in 0 .. MaxCuts
    BY MaxCutsAssumption DEF LedgerInit
  <2>2. dropped \in BOOLEAN /\ overlapped \in BOOLEAN
    BY DEF LedgerInit
  <2>3. QED
    BY <2>1, <2>2 DEF LedgerInit, LedgerTypeOK, RowStatus, MaybeRun, Places, Final
<1>2. LedgerTypeOK /\ [LedgerNext]_ledgerVars => LedgerTypeOK'
  <2> SUFFICES ASSUME LedgerTypeOK, [LedgerNext]_ledgerVars PROVE LedgerTypeOK'
    OBVIOUS
  <2> USE DEF LedgerTypeOK, RowStatus, MaybeRun, Places, Final, Trying, Recording, Failing, MoveTo
  <2>1. ASSUME NEW r \in Executors, Begin(r) \/ CheckMarked(r) \/ Return(r) PROVE LedgerTypeOK'
    BY <2>1 DEF Begin, CheckMarked, Return
  <2>2. ASSUME NEW r \in Executors, LoadMarker(r) PROVE LedgerTypeOK'
    BY <2>2 DEF LoadMarker
  <2>3. ASSUME NEW r \in Executors, StartRow(r) \/ FailStart(r) PROVE LedgerTypeOK'
    <3>1. CASE StartRow(r)
      BY <3>1 DEF StartRow, Insert
    <3>2. CASE FailStart(r)
      BY <3>2 DEF FailStart, Insert
    <3>3. QED
      BY <2>3, <3>1, <3>2
  <2>4. ASSUME NEW r \in Executors, SaveMarker(r) \/ EndBody(r) PROVE LedgerTypeOK'
    BY <2>4 DEF SaveMarker, EndBody
  <2>5. ASSUME NEW r \in Executors, Raise(r) PROVE LedgerTypeOK'
    BY <2>5 DEF Raise
  <2>6. ASSUME NEW r \in Executors, Reload(r) \/ FailLoad(r) \/ FailCheck(r) PROVE LedgerTypeOK'
    <3>1. CASE Reload(r)
      <4>1. dropped' \in BOOLEAN
        BY <3>1 DEF Reload
      <4>2. QED
        BY <3>1, <4>1 DEF Reload
    <3>2. CASE FailLoad(r) \/ FailCheck(r)
      BY <3>2 DEF FailLoad, FailCheck
    <3>3. QED
      BY <2>6, <3>1, <3>2
  <2>7. ASSUME NEW r \in Executors, FinishRead(r) PROVE LedgerTypeOK'
    BY <2>7 DEF FinishRead
  <2>8. ASSUME NEW r \in Executors, FinishUpdate(r) PROVE LedgerTypeOK'
    BY <2>8 DEF FinishUpdate, Finalized
  <2>9. ASSUME NEW r \in Executors, ClearMarker(r) PROVE LedgerTypeOK'
    BY <2>9 DEF ClearMarker
  <2>10. ASSUME NEW r \in Executors, CutShort(r) PROVE LedgerTypeOK'
    BY <2>10, MaxCutsAssumption DEF CutShort
  <2>11. CASE UNCHANGED ledgerVars
    BY <2>11 DEF ledgerVars
  <2>12. QED
    BY <2>1, <2>2, <2>3, <2>4, <2>5, <2>6, <2>7, <2>8, <2>9, <2>10, <2>11 DEF LedgerNext, Step
<1>3. QED
  BY <1>1, <1>2, PTL DEF LedgerSpec

-----------------------------------------------------------------------------
(* Immutability: needs no exclusion between the runners.                   *)

\* A finalized row never changes, even with overlapping runs of the job.
THEOREM HistoryIsImmutable == LedgerSpec => HistoryImmutable
<1>1. LedgerTypeOK /\ [LedgerNext]_ledgerVars =>
          [\A id \in RunIds : ledger[id] \in Final => ledger'[id] = ledger[id]]_ledgerVars
  <2> SUFFICES ASSUME LedgerTypeOK, LedgerNext, NEW id \in RunIds, ledger[id] \in Final
               PROVE  ledger'[id] = ledger[id]
    OBVIOUS
  <2>1. PICK r \in Executors : Begin(r) \/ Step(r) \/ Raise(r) \/ CutShort(r)
    BY DEF LedgerNext
  <2>2. CASE StartRow(r) \/ FailStart(r)
    BY <2>2 DEF StartRow, FailStart, Insert, Final, LedgerTypeOK
  <2>3. CASE FinishUpdate(r)
    BY <2>3 DEF FinishUpdate, Finalized, Open, Final, LedgerTypeOK
  <2>4. CASE Begin(r) \/ Raise(r) \/ CutShort(r)
    BY <2>4 DEF Begin, Raise, CutShort
  <2>5. CASE LoadMarker(r) \/ CheckMarked(r) \/ SaveMarker(r) \/ EndBody(r) \/ Return(r)
             \/ Reload(r) \/ FailLoad(r) \/ FailCheck(r) \/ FinishRead(r) \/ ClearMarker(r)
    BY <2>5 DEF LoadMarker, CheckMarked, SaveMarker, EndBody, Return, Reload, FailLoad,
                FailCheck, FinishRead, ClearMarker
  <2>6. QED
    BY <2>1, <2>2, <2>3, <2>4, <2>5 DEF Step
<1>2. QED
  BY <1>1, LedgerTypeCorrect, PTL DEF LedgerSpec, HistoryImmutable

-----------------------------------------------------------------------------
(* The marker. Of the runner that moves, show what it knows afterwards;    *)
(* the others are idle, and an idle runner knows nothing.                  *)

OneActive == \A r, q \in Active : r = q
AllKnow == \A r \in Executors : Knows(r)
MarkerExists == marker # NoRun => ledger[marker] # "none"

LEMMA IdleKnows == ASSUME NEW r \in Executors, at[r] = "idle" PROVE Knows(r)
BY DEF Knows

\* A runner takes a step while the others are idle.
LEMMA MoverKnows ==
    ASSUME LedgerTypeOK, OneActive, AllKnow, MarkerExists, NEW r \in Executors, at[r] # "idle",
           Step(r) \/ Raise(r) \/ CutShort(r)
    PROVE  Knows(r)'
<1> USE DEF LedgerTypeOK, MoveTo, Open, MaybeRun, Final
<1>0. Knows(r)
  BY DEF AllKnow
<1>1. CASE LoadMarker(r)
  BY <1>1 DEF LoadMarker, Knows
<1>2. CASE CheckMarked(r)
  BY <1>0, <1>2 DEF CheckMarked, Knows
<1>3. CASE StartRow(r)
  BY <1>0, <1>3, NoRunAssumption DEF StartRow, Insert, Knows, MarkerExists
<1>4. CASE SaveMarker(r)
  BY <1>0, <1>4 DEF SaveMarker, Knows
<1>5. CASE EndBody(r) \/ Return(r)
  BY <1>0, <1>5 DEF EndBody, Return, Knows
<1>6. CASE Reload(r)
  BY <1>0, <1>6, NoRunAssumption DEF Reload, Knows
<1>7. CASE FailLoad(r)
  BY <1>7 DEF FailLoad, Knows
<1>8. CASE FailCheck(r)
  BY <1>0, <1>8 DEF FailCheck, Knows
<1>9. CASE FailStart(r)
  <2>1. PICK id \in RunIds : Insert(id) /\ found' = [found EXCEPT ![r] = id]
    BY <1>9 DEF FailStart
  <2>2. at[r] = "fstart" /\ at' = [at EXCEPT ![r] = "read"] /\ UNCHANGED <<marker, mine, outcome>>
    BY <1>9 DEF FailStart
  <2>3. ~Open(marker) /\ marker # id
    BY <1>0, <2>1, <2>2, NoRunAssumption DEF Knows, MarkerExists, Insert
  <2>4. ~Open(marker)' /\ Open(found[r])'
    BY <2>1, <2>2, <2>3 DEF Insert
  <2>5. outcome[r] = "failed"
    BY <1>0, <2>2 DEF Knows
  <2>6. QED
    BY <2>1, <2>2, <2>4, <2>5 DEF Knows
<1>10. CASE FinishRead(r)
  <2>1. Open(found[r]) /\ at[r] = "read"
    BY <1>0, <1>10 DEF FinishRead, Knows
  <2>2. at' = [at EXCEPT ![r] = "update"] /\ UNCHANGED <<ledger, marker, mine, found, outcome>>
    BY <1>10, <2>1 DEF FinishRead
  <2>3. QED
    BY <1>0, <2>1, <2>2 DEF Knows
<1>11. CASE FinishUpdate(r)
  BY <1>0, <1>11 DEF FinishUpdate, Finalized, Knows
<1>12. CASE ClearMarker(r) \/ CutShort(r)
  BY <1>12 DEF ClearMarker, CutShort, Knows
<1>13. CASE Raise(r)
  BY <1>13 DEF Raise, Knows
<1>14. QED
  BY <1>1, <1>2, <1>3, <1>4, <1>5, <1>6, <1>7, <1>8, <1>9, <1>10, <1>11, <1>12,
     <1>13 DEF Step

\* The marker names an existing row: it is only ever set to an open one.
LEMMA MarkerKeepsExisting ==
    ASSUME LedgerTypeOK, AllKnow, MarkerExists, NEW r \in Executors,
           Begin(r) \/ Step(r) \/ Raise(r) \/ CutShort(r)
    PROVE  MarkerExists'
<1> USE DEF LedgerTypeOK, MarkerExists, MaybeRun, Open
<1>1. CASE StartRow(r) \/ FailStart(r)
  BY <1>1 DEF StartRow, FailStart, Insert
<1>2. CASE FinishUpdate(r)
  BY <1>2 DEF FinishUpdate, Finalized, Final
<1>3. CASE SaveMarker(r) \/ EndBody(r)
  BY <1>3 DEF SaveMarker, EndBody, AllKnow, Knows
<1>4. CASE ClearMarker(r)
  BY <1>4 DEF ClearMarker
<1>5. CASE \/ Begin(r) \/ Raise(r) \/ CutShort(r) \/ LoadMarker(r) \/ CheckMarked(r)
           \/ Return(r) \/ Reload(r) \/ FailLoad(r) \/ FailCheck(r) \/ FinishRead(r)
  <2>1. UNCHANGED <<ledger, marker>>
    BY <1>5 DEF Begin, Raise, CutShort, LoadMarker, CheckMarked, Return, Reload, FailLoad,
                FailCheck, FinishRead
  <2>2. QED
    BY <2>1
<1>6. QED
  BY <1>1, <1>2, <1>3, <1>4, <1>5 DEF Step

\* A step is taken by one runner and moves only that runner's at.
LEMMA OneMoves ==
    ASSUME LedgerTypeOK, NEW r \in Executors, Begin(r) \/ Step(r) \/ Raise(r) \/ CutShort(r)
    PROVE  \A q \in Executors \ {r} : at'[q] = at[q]
<1> USE DEF MoveTo, LedgerTypeOK
<1>1. CASE Begin(r) \/ Raise(r) \/ CutShort(r)
  BY <1>1 DEF Begin, Raise, CutShort
<1>2. CASE Step(r)
  BY <1>2 DEF Step, LoadMarker, CheckMarked, StartRow, SaveMarker, EndBody, Return, Reload,
              FailLoad, FailCheck, FailStart, FinishRead, FinishUpdate, ClearMarker
<1>3. QED
  BY <1>1, <1>2

LEMMA StepIsActive ==
    ASSUME NEW r \in Executors, Step(r) \/ Raise(r) \/ CutShort(r)
    PROVE  at[r] # "idle"
BY DEF Step, Raise, CutShort, Trying, LoadMarker, CheckMarked, StartRow, SaveMarker, EndBody,
       Return, Reload, FailLoad, FailCheck, FailStart, FinishRead, FinishUpdate, ClearMarker

\* Runs that have not overlapped after a step had not before, and none was going on when
\* the step began another.
LEMMA StillApart ==
    ASSUME LedgerTypeOK, [LedgerNext]_ledgerVars, ~overlapped'
    PROVE  ~overlapped /\ \A r \in Executors : Begin(r) => Active = {}
<1>1. ASSUME NEW r \in Executors, Begin(r) PROVE ~overlapped /\ Active = {}
  BY <1>1 DEF Begin
<1>2. ASSUME NEW r \in Executors, Step(r) \/ Raise(r) \/ CutShort(r) PROVE overlapped' = overlapped
  BY <1>2 DEF Step, Raise, CutShort, LoadMarker, CheckMarked, StartRow, SaveMarker, EndBody,
              Return, Reload, FailLoad, FailCheck, FailStart, FinishRead, FinishUpdate,
              ClearMarker
<1>3. UNCHANGED ledgerVars => overlapped' = overlapped
  BY DEF ledgerVars
<1>4. QED
  BY <1>1, <1>2, <1>3 DEF LedgerNext

LEMMA MarkerInductive == LedgerTypeOK /\ MarkerInStep /\ [LedgerNext]_ledgerVars => MarkerInStep'
<1> SUFFICES ASSUME LedgerTypeOK, MarkerInStep, [LedgerNext]_ledgerVars, ~overlapped'
             PROVE  OneActive' /\ AllKnow' /\ MarkerExists'
  BY DEF MarkerInStep, OneActive, AllKnow, MarkerExists
<1>1. OneActive /\ AllKnow /\ MarkerExists
  BY StillApart DEF MarkerInStep, OneActive, AllKnow, MarkerExists
<1>2. CASE UNCHANGED ledgerVars
  BY <1>1, <1>2 DEF ledgerVars, OneActive, AllKnow, MarkerExists, Active, Knows, Open
<1>3. ASSUME NEW r \in Executors, Begin(r) \/ Step(r) \/ Raise(r) \/ CutShort(r)
      PROVE  OneActive' /\ AllKnow' /\ MarkerExists'
  <2>1. \A q \in Executors \ {r} : at[q] = "idle"
    BY <1>1, <1>3, StepIsActive, StillApart DEF OneActive, Active
  <2>2. \A q \in Executors \ {r} : at'[q] = "idle"
    BY <1>3, <2>1, OneMoves
  <2>3. OneActive'
    BY <2>2 DEF OneActive, Active
  <2>4. Knows(r)'
    <3>1. CASE Begin(r)
      BY <3>1 DEF Begin, MoveTo, Knows, LedgerTypeOK
    <3>2. CASE Step(r) \/ Raise(r) \/ CutShort(r)
      BY <1>1, <3>2, StepIsActive, MoverKnows
    <3>3. QED
      BY <1>3, <3>1, <3>2
  <2>5. \A q \in Executors \ {r} : Knows(q)'
    BY <2>2 DEF Knows
  <2>6. QED
    BY <1>1, <1>3, <2>3, <2>4, <2>5, MarkerKeepsExisting DEF AllKnow
<1>4. QED
  BY <1>2, <1>3 DEF LedgerNext

LEMMA MarkerInvariant == LedgerSpec => []MarkerInStep
<1>1. LedgerInit => MarkerInStep
  BY DEF LedgerInit, MarkerInStep, Active, Knows
<1>2. QED
  BY <1>1, LedgerTypeCorrect, MarkerInductive, PTL DEF LedgerSpec

-----------------------------------------------------------------------------
(* What follows from it when the runs are kept apart.                      *)

\* A successful execution completes the row it wrote its discovery stats under.
THEOREM CompletionIsOwn == LedgerSpec => []CompletesOwnRow
<1>1. MarkerInStep => CompletesOwnRow
  BY DEF MarkerInStep, CompletesOwnRow, Knows
<1>2. QED
  BY <1>1, MarkerInvariant, PTL

\* No execution ends without having finalized a row of run_history.
THEOREM EndsAreRecorded == LedgerSpec => []EveryEndRecorded
<1>1. LedgerInit => EveryEndRecorded
  BY DEF LedgerInit, EveryEndRecorded
<1>2. LedgerTypeOK /\ MarkerInStep /\ EveryEndRecorded /\ [LedgerNext]_ledgerVars => EveryEndRecorded'
  <2> SUFFICES ASSUME MarkerInStep, ~dropped, [LedgerNext]_ledgerVars, ~overlapped PROVE ~dropped'
    BY StillApart DEF EveryEndRecorded
  <2>1. ASSUME NEW r \in Executors, Reload(r) PROVE ~dropped'
    <3>1. marker # NoRun
      BY <2>1, NoRunAssumption DEF MarkerInStep, Knows, Reload, Open
    <3>2. QED
      BY <2>1, <3>1 DEF Reload
  <2>2. ASSUME NEW r \in Executors, FinishRead(r) \/ FinishUpdate(r) PROVE ~dropped'
    <3>1. Open(found[r])
      BY <2>2 DEF MarkerInStep, Knows, FinishRead, FinishUpdate
    <3>2. QED
      BY <2>2, <3>1 DEF FinishRead, FinishUpdate
  <2>3. ASSUME NEW r \in Executors,
               \/ Begin(r) \/ Raise(r) \/ CutShort(r) \/ LoadMarker(r) \/ CheckMarked(r)
               \/ StartRow(r) \/ SaveMarker(r) \/ EndBody(r) \/ Return(r)
               \/ FailLoad(r) \/ FailCheck(r) \/ FailStart(r) \/ ClearMarker(r)
        PROVE  dropped' = dropped
    BY <2>3 DEF Begin, Raise, CutShort, LoadMarker, CheckMarked, StartRow, SaveMarker, EndBody,
                Return, FailLoad, FailCheck, FailStart, ClearMarker
  <2>4. UNCHANGED ledgerVars => dropped' = dropped
    BY DEF ledgerVars
  <2>5. QED
    BY <2>1, <2>2, <2>3, <2>4, Zenon DEF LedgerNext, Step
<1>3. QED
  BY <1>1, <1>2, LedgerTypeCorrect, MarkerInvariant, PTL DEF LedgerSpec

\* One step of one runner: an open row stays accounted for.
LEMMA RowStaysAccountedFor ==
    ASSUME LedgerTypeOK, MarkerInStep, OpenRowsAccountedFor, ~overlapped', NEW r \in Executors,
           Begin(r) \/ Step(r) \/ Raise(r) \/ CutShort(r),
           NEW id \in RunIds, ledger'[id] = "running"
    PROVE  id = marker' \/ id \in lost' \/ InHand(r, id)'
<1> USE DEF LedgerTypeOK, MoveTo, InHand
<1>1. /\ Knows(r)
      /\ \A q \in Executors \ {r} : at[q] = "idle"
  BY StepIsActive, StillApart DEF MarkerInStep, Active, LedgerNext
<1>2. ledger[id] = "running" => id = marker \/ id \in lost \/ InHand(r, id)
  BY <1>1, StillApart DEF OpenRowsAccountedFor, LedgerNext
<1>3. CASE StartRow(r)
  <2>1. PICK new \in RunIds : Insert(new) /\ mine' = [mine EXCEPT ![r] = new]
    BY <1>3 DEF StartRow
  <2>2. at'[r] = "save" /\ at[r] = "start" /\ UNCHANGED <<marker, lost>>
    BY <1>3 DEF StartRow
  <2>3. id = new \/ ledger[id] = "running"
    BY <2>1 DEF Insert
  <2>4. QED
    BY <1>2, <2>1, <2>2, <2>3
<1>4. CASE FailStart(r)
  <2>1. PICK new \in RunIds : Insert(new) /\ found' = [found EXCEPT ![r] = new]
    BY <1>4 DEF FailStart
  <2>2. at'[r] = "read" /\ at[r] = "fstart" /\ UNCHANGED <<marker, lost>>
    BY <1>4 DEF FailStart
  <2>3. id = new \/ ledger[id] = "running"
    BY <2>1 DEF Insert
  <2>4. QED
    BY <1>2, <2>1, <2>2, <2>3
<1>5. CASE SaveMarker(r) \/ EndBody(r)
  BY <1>1, <1>2, <1>5 DEF SaveMarker, EndBody, Knows, Open
<1>6. CASE FinishUpdate(r)
  <2>1. id # found[r] /\ ledger[id] = "running"
    BY <1>1, <1>6 DEF FinishUpdate, Finalized, Knows, Open, Final
  <2>2. QED
    BY <1>2, <1>6, <2>1 DEF FinishUpdate
<1>7. CASE FinishRead(r)
  <2>1. Open(found[r])
    BY <1>1, <1>7 DEF FinishRead, Knows
  <2>2. QED
    BY <1>2, <1>7, <2>1 DEF FinishRead
<1>8. CASE ClearMarker(r)
  BY <1>1, <1>2, <1>8 DEF ClearMarker, Knows, Open
<1>9. CASE Raise(r)
  BY <1>2, <1>9 DEF Raise, Trying
<1>10. CASE CutShort(r)
  BY <1>2, <1>10 DEF CutShort
<1>11. CASE \/ Begin(r) \/ LoadMarker(r) \/ CheckMarked(r) \/ Return(r) \/ Reload(r)
            \/ FailLoad(r) \/ FailCheck(r)
  <2>1. /\ UNCHANGED <<ledger, marker, lost>>
        /\ at[r] \notin {"save", "read", "update"}
    BY <1>11 DEF Begin, LoadMarker, CheckMarked, Return, Reload, FailLoad, FailCheck
  <2>2. QED
    BY <1>2, <2>1
<1>12. QED
  BY <1>3, <1>4, <1>5, <1>6, <1>7, <1>8, <1>9, <1>10, <1>11 DEF Step

\* The only rows ever left behind are those of a runner cut off between inserting its
\* row and marking it (or, after a failure, before finalizing the row it inserted).
THEOREM OpenRowsAccounted == LedgerSpec => []OpenRowsAccountedFor
<1>1. LedgerInit => OpenRowsAccountedFor
  BY DEF LedgerInit, OpenRowsAccountedFor
<1>2. LedgerTypeOK /\ MarkerInStep /\ OpenRowsAccountedFor /\ [LedgerNext]_ledgerVars => OpenRowsAccountedFor'
  <2>1. ASSUME LedgerTypeOK, MarkerInStep, OpenRowsAccountedFor, LedgerNext PROVE OpenRowsAccountedFor'
    BY <2>1, RowStaysAccountedFor DEF OpenRowsAccountedFor, LedgerNext
  <2>2. OpenRowsAccountedFor /\ UNCHANGED ledgerVars => OpenRowsAccountedFor'
    BY DEF ledgerVars, OpenRowsAccountedFor, InHand
  <2>3. QED
    BY <2>1, <2>2
<1>3. QED
  BY <1>1, <1>2, LedgerTypeCorrect, MarkerInvariant, PTL DEF LedgerSpec

-----------------------------------------------------------------------------
(* JobRuns, part by part: what it does to the registry is a step of        *)
(* JobLifecycle, and what it does to the ledger a step of RunLedger.       *)

\* the steps of the registry that are outside run_job_and_record()
AloneStep ==
    \/ \E p \in Procs : DueScan(p) \/ Suppress(p) \/ QueuedScan(p)
                        \/ NothingClaimed(p) \/ Restart(p)
    \/ \E w \in Workers : ScanStale(w)
    \/ \E p \in Procs, j \in Jobs : Admit(p, j)
    \/ \E w \in Workers, j \in Jobs : ResetStale(w, j)
    \/ \E c \in Clis, j \in Jobs : CliQueue(c, j)
    \/ Operator
    \/ LoadChange
    \/ Tick

\* RunsNext, flattened for the case splits below.
LEMMA RunsStepCases ==
    ASSUME RunsNext
    PROVE  /\ taken' = (taken \/ Job \in stolen')
           /\ \/ \E p \in Procs, j \in Jobs : ClaimRun(p, j)
              \/ \E p \in Procs : Inside(p) \/ Throw(p)
              \/ \E p \in Procs : FinishRun(p)
              \/ \E p \in Procs : Fall(p)
              \/ UNCHANGED ledgerVars /\ AloneStep
<1>1. taken' = (taken \/ Job \in stolen')
  BY Zenon DEF RunsNext, Remember
<1>2. QED
  BY <1>1, Zenon DEF RunsNext, Remember, ProcRuns, Alone, Around, AloneStep

\* Every behaviour of JobRuns is one of the registry: its theorems hold of it.
THEOREM RunsAreRegistrys == RunsSpec => Spec
<1>1. RunsInit => Init
  BY DEF RunsInit
<1>2. [RunsNext]_runsVars => [Next]_vars
  <2> SUFFICES ASSUME RunsNext PROVE Next \/ UNCHANGED vars
    BY DEF runsVars
  <2>1. ASSUME NEW p \in Procs, NEW j \in Jobs, ClaimRun(p, j) PROVE Next
    BY <2>1 DEF ClaimRun, Next, ProcStep
  <2>2. ASSUME NEW p \in Procs, Inside(p) \/ Throw(p) PROVE UNCHANGED vars
    BY <2>2 DEF Inside, Throw
  <2>3. ASSUME NEW p \in Procs, FinishRun(p) PROVE Next
    BY <2>3 DEF FinishRun, Next, ProcStep
  <2>4. ASSUME NEW p \in Procs, Fall(p) PROVE Next
    BY <2>4 DEF Fall, Next
  <2>5. ASSUME NEW p \in Procs,
               DueScan(p) \/ Suppress(p) \/ QueuedScan(p) \/ NothingClaimed(p) \/ Restart(p)
        PROVE  Next
    BY <2>5, Zenon DEF Next, ProcStep
  <2>6. ASSUME NEW p \in Procs, NEW j \in Jobs, Admit(p, j) PROVE Next
    BY <2>6, Zenon DEF Next, ProcStep
  <2>7. ASSUME NEW w \in Workers, NEW j \in Jobs, ResetStale(w, j) PROVE Next
    BY <2>7 DEF Next, ProcStep, Procs
  <2>8. ASSUME NEW w \in Workers, ScanStale(w) PROVE Next
    BY <2>8 DEF Next
  <2>9. ASSUME NEW c \in Clis, NEW j \in Jobs, CliQueue(c, j) PROVE Next
    BY <2>9 DEF Next
  <2>10. Operator \/ LoadChange \/ Tick => Next
    BY DEF Next
  <2>11. QED
    BY <2>1, <2>2, <2>3, <2>4, <2>5, <2>6, <2>7, <2>8, <2>9, <2>10, RunsStepCases, Zenon
       DEF AloneStep
<1>3. QED
  BY <1>1, <1>2, PTL DEF RunsSpec, Spec

\* Every behaviour of JobRuns is also one of the ledger.
THEOREM RunsAreLedgers == RunsSpec => LedgerSpec
<1>1. RunsInit => LedgerInit
  BY DEF RunsInit
<1>2. [RunsNext]_runsVars => [LedgerNext]_ledgerVars
  <2> SUFFICES ASSUME RunsNext PROVE LedgerNext \/ UNCHANGED ledgerVars
    BY DEF runsVars, ledgerVars
  <2>1. ASSUME NEW p \in Procs, NEW j \in Jobs, ClaimRun(p, j)
        PROVE  LedgerNext \/ UNCHANGED ledgerVars
    BY <2>1, ExecutorsAssumption DEF ClaimRun, LedgerNext
  <2>2. ASSUME NEW p \in Procs, Inside(p) \/ Throw(p) PROVE LedgerNext
    BY <2>2, ExecutorsAssumption DEF Inside, Throw, LedgerNext
  <2>3. ASSUME NEW p \in Procs, FinishRun(p) PROVE UNCHANGED ledgerVars
    BY <2>3 DEF FinishRun
  <2>4. ASSUME NEW p \in Procs, Fall(p) PROVE LedgerNext \/ UNCHANGED ledgerVars
    BY <2>4, ExecutorsAssumption DEF Fall, LedgerNext
  <2>5. QED
    BY <2>1, <2>2, <2>3, <2>4, RunsStepCases, Zenon
<1>3. QED
  BY <1>1, <1>2, PTL DEF RunsSpec, LedgerSpec

\* What the theorems about either half say of the whole.
LEMMA RunsInvariants ==
    RunsSpec => [](IsolationInv /\ LedgerTypeOK /\ EveryEndRecorded /\ CompletesOwnRow
                   /\ OpenRowsAccountedFor)
<1>1. RunsSpec => []IsolationInv
  BY RunsAreRegistrys, IsolationInvariant
<1>2. RunsSpec => []LedgerTypeOK
  BY RunsAreLedgers, LedgerTypeCorrect
<1>3. RunsSpec => []EveryEndRecorded
  BY RunsAreLedgers, EndsAreRecorded
<1>4. RunsSpec => []CompletesOwnRow
  BY RunsAreLedgers, CompletionIsOwn
<1>5. RunsSpec => []OpenRowsAccountedFor
  BY RunsAreLedgers, OpenRowsAccounted
<1>6. QED
  BY <1>1, <1>2, <1>3, <1>4, <1>5, PTL

-----------------------------------------------------------------------------
(* Apart. A process is in run_job_and_record() for the job only while it   *)
(* holds it, so the lease decides who may begin.                           *)

InsideHolds == \A p \in Procs : at[p] # "idle" => holds[p] = Job
TakenRecalled == ~taken => Job \notin stolen
ApartInv == InsideHolds /\ TakenRecalled /\ ApartUnlessTaken

\* a statement of a run moves the process that executes it, which was in the run before
LEMMA StepsMoveOne ==
    ASSUME LedgerTypeOK, NEW p \in Procs, Inside(p) \/ Throw(p)
    PROVE  /\ at[p] # "idle"
           /\ \A q \in Procs \ {p} : at'[q] = at[q]
           /\ UNCHANGED <<vars, overlapped>>
<1>1. Step(p) \/ Raise(p)
  BY DEF Inside, Throw
<1>2. \A q \in Procs \ {p} : at'[q] = at[q]
  BY <1>1, OneMoves, ExecutorsAssumption
<1>3. at[p] # "idle"
  BY <1>1, StepIsActive, ExecutorsAssumption
<1>4. QED
  BY <1>1, <1>2, <1>3 DEF Inside, Throw, Step, Raise, LoadMarker, CheckMarked,
     StartRow, SaveMarker, EndBody, Return, Reload, FailLoad, FailCheck,
     FailStart, FinishRead, FinishUpdate, ClearMarker

\* outside the runs nobody enters or leaves a run, and no row is put to rest
LEMMA AloneStepsRestNothing ==
    ASSUME TypeOK, AloneStep
    PROVE  /\ holds' = holds
           /\ \A j \in Jobs : status'[j] \in {"completed", "continuing", "failed"} =>
                                  status'[j] = status[j]
<1> USE DEF rows, procs, TypeOK
<1>1. ASSUME NEW p \in Procs,
             DueScan(p) \/ Suppress(p) \/ QueuedScan(p) \/ NothingClaimed(p) \/ Restart(p)
      PROVE  holds' = holds /\ status' = status
  BY <1>1 DEF DueScan, Suppress, QueuedScan, NothingClaimed, Restart
<1>2. ASSUME NEW w \in Workers, ScanStale(w) PROVE holds' = holds /\ status' = status
  BY <1>2 DEF ScanStale
<1>3. ASSUME NEW p \in Procs, NEW k \in Jobs, Admit(p, k)
      PROVE  holds' = holds /\ \A j \in Jobs : status'[j] = status[j] \/ status'[j] = "queued"
  BY <1>3 DEF Admit, MarkQueued
<1>4. ASSUME NEW w \in Workers, NEW k \in Jobs, ResetStale(w, k)
      PROVE  holds' = holds /\ \A j \in Jobs : status'[j] = status[j] \/ status'[j] = "retry"
  BY <1>4 DEF ResetStale
<1>5. ASSUME NEW c \in Clis, NEW k \in Jobs, CliQueue(c, k)
      PROVE  holds' = holds /\ \A j \in Jobs : status'[j] = status[j] \/ status'[j] = "queued"
  BY <1>5 DEF CliQueue, MarkQueued
<1>6. ASSUME NEW k \in Jobs, Pause(k) \/ Resume(k)
      PROVE  /\ holds' = holds
             /\ \A j \in Jobs : status'[j] = status[j] \/ status'[j] \in {"paused", "idle"}
  BY <1>6 DEF Pause, Resume
<1>7. ASSUME NEW k \in Jobs, NEW b \in BOOLEAN, SetEnabled(k, b) \/ Sync(k, b)
      PROVE  holds' = holds /\ status' = status
  BY <1>7 DEF SetEnabled, Sync
<1>8. LoadChange \/ Tick => holds' = holds /\ status' = status
  BY DEF LoadChange, Tick
<1>9. QED
  BY <1>1, <1>2, <1>3, <1>4, <1>5, <1>6, <1>7, <1>8 DEF AloneStep, Operator

LEMMA ApartInductive ==
    ASSUME IsolationInv, LedgerTypeOK, ApartInv, [RunsNext]_runsVars
    PROVE  ApartInv'
<1>0. TypeOK
  BY DEF IsolationInv
<1> USE DEF ApartInv, InsideHolds, TakenRecalled, ApartUnlessTaken
<1>1. CASE UNCHANGED runsVars
  BY <1>1 DEF runsVars, vars, ledgerVars
<1> SUFFICES ASSUME RunsNext PROVE ApartInv'
  BY <1>1
<1>2. TakenRecalled'
  BY RunsStepCases
<1>3. ASSUME NEW p \in Procs, NEW j \in Jobs, ClaimRun(p, j)
      PROVE  InsideHolds' /\ ApartUnlessTaken'
  <2>1. holds[p] = NoJob /\ at[p] = "idle"
    BY <1>3, NoJobAssumption, JobAssumption DEF ClaimRun, Claim, IsolationInv, OwnersAgree
  <2>2. CASE j = Job /\ Claimable(j)
    <3>1. Begin(p) /\ holds' = [holds EXCEPT ![p] = Job] /\ stolen' = stolen
      BY <1>3, <2>2 DEF ClaimRun, Claim
    <3>2. InsideHolds'
      BY <1>0, <3>1, ExecutorsAssumption DEF Begin, MoveTo, LedgerTypeOK, TypeOK
    <3>3. ASSUME ~taken' PROVE ~overlapped'
      <4>1. ~taken /\ Job \notin stolen
        BY <3>3, RunsStepCases
      <4>2. \A q \in Procs : holds[q] # Job
        BY <2>2, <4>1, FreeUnlessRunning DEF Claimable
      <4>3. Active = {}
        BY <4>2, ExecutorsAssumption DEF Active
      <4>4. QED
        BY <3>1, <4>1, <4>3 DEF Begin
    <3>4. QED
      BY <3>2, <3>3
  <2>3. CASE ~(j = Job /\ Claimable(j))
    <3>1. UNCHANGED ledgerVars /\ \A q \in Procs \ {p} : holds'[q] = holds[q]
      BY <1>0, <1>3, <2>3 DEF ClaimRun, Claim, TypeOK
    <3>2. QED
      BY <2>1, <3>1, RunsStepCases DEF ledgerVars
  <2>4. QED
    BY <2>2, <2>3
<1>4. ASSUME NEW p \in Procs, Inside(p) \/ Throw(p) PROVE InsideHolds' /\ ApartUnlessTaken'
  BY <1>4, StepsMoveOne, RunsStepCases DEF vars
<1>5. ASSUME NEW p \in Procs, FinishRun(p) PROVE InsideHolds' /\ ApartUnlessTaken'
  <2>1. at[p] = "idle" /\ UNCHANGED ledgerVars
    BY <1>5 DEF FinishRun
  <2>2. \A q \in Procs \ {p} : holds'[q] = holds[q]
    BY <1>0, <1>5 DEF FinishRun, Finish, LetGo, TypeOK
  <2>3. QED
    BY <2>1, <2>2, RunsStepCases DEF ledgerVars
<1>6. ASSUME NEW p \in Procs, Fall(p) PROVE InsideHolds' /\ ApartUnlessTaken'
  <2>1. \A q \in Procs \ {p} : holds'[q] = holds[q]
    BY <1>0, <1>6 DEF Fall, Crash, AbortPass, Fault, LetGo, TypeOK
  <2>2. at'[p] = "idle" /\ overlapped' = overlapped /\ \A q \in Procs \ {p} : at'[q] = at[q]
    <3>1. CASE at[p] = "idle"
      BY <1>6, <3>1 DEF Fall, ledgerVars
    <3>2. CASE at[p] # "idle"
      <4>1. CutShort(p)
        BY <1>6, <3>2 DEF Fall
      <4>2. QED
        BY <4>1, ExecutorsAssumption DEF CutShort, MoveTo, LedgerTypeOK
    <3>3. QED
      BY <3>1, <3>2
  <2>3. QED
    BY <2>1, <2>2, RunsStepCases
<1>7. ASSUME UNCHANGED ledgerVars, AloneStep PROVE InsideHolds' /\ ApartUnlessTaken'
  BY <1>0, <1>7, AloneStepsRestNothing, RunsStepCases DEF ledgerVars
<1>8. QED
  BY <1>2, <1>3, <1>4, <1>5, <1>6, <1>7, RunsStepCases

LEMMA ApartInvariant == RunsSpec => []ApartInv
<1>1. RunsInit => ApartInv
  BY JobAssumption, ExecutorsAssumption DEF RunsInit, Init, LedgerInit, ApartInv, InsideHolds,
     TakenRecalled, ApartUnlessTaken
<1>2. IsolationInv /\ LedgerTypeOK /\ ApartInv /\ [RunsNext]_runsVars => ApartInv'
  BY ApartInductive
<1>3. QED
  BY <1>1, <1>2, RunsInvariants, PTL DEF RunsSpec

\* Two runs of a job never go on at a time, unless the job was taken from a live one:
\* the guarantee of the registry is what the ledger assumes.
THEOREM RunsAreKeptApart == RunsSpec => []ApartUnlessTaken
BY ApartInvariant, PTL DEF ApartInv

\* What RunLedger promises of runs kept apart holds of the runs the registry starts: an
\* execution that ends has finalized a row, one that succeeds its own, and open rows are
\* accounted for.
THEOREM LedgerKeptUnlessTaken ==
    RunsSpec => [](~taken => /\ ~dropped
                             /\ \A p \in Procs : at[p] \in {"read", "update"} /\ outcome[p] = "completed"
                                                     => found[p] = mine[p]
                             /\ \A id \in RunIds : ledger[id] = "running" =>
                                    id = marker \/ id \in lost \/ \E p \in Procs : InHand(p, id))
<1>1. /\ ApartInv /\ EveryEndRecorded /\ CompletesOwnRow /\ OpenRowsAccountedFor
      => (~taken => /\ ~dropped
                    /\ \A p \in Procs : at[p] \in {"read", "update"} /\ outcome[p] = "completed"
                                            => found[p] = mine[p]
                    /\ \A id \in RunIds : ledger[id] = "running" =>
                           id = marker \/ id \in lost \/ \E p \in Procs : InHand(p, id))
  BY ExecutorsAssumption DEF ApartInv, ApartUnlessTaken, EveryEndRecorded, CompletesOwnRow,
         OpenRowsAccountedFor
<1>2. QED
  BY <1>1, ApartInvariant, RunsInvariants, PTL

-----------------------------------------------------------------------------
(* At rest. Once its marker is cleared a run only finishes its job, and    *)
(* nobody sets the marker again before the next claim.                     *)

ClearedBeforeFinish == \A p \in Procs : holds[p] = Job /\ at[p] = "idle" => marker = NoRun
RestingInv == ~taken => ClearedBeforeFinish /\ (Resting => marker = NoRun)

\* a run leaves run_job_and_record() by clearing the marker
LEMMA LeavingClears ==
    ASSUME LedgerTypeOK, NEW p \in Procs, Inside(p) \/ Throw(p), at'[p] = "idle"
    PROVE  marker' = NoRun
<1>1. Step(p) \/ Raise(p)
  BY DEF Inside, Throw
<1> USE ExecutorsAssumption DEF LedgerTypeOK, MoveTo
<1>2. ~ Raise(p)
  BY DEF Raise
<1>3. CASE \/ LoadMarker(p) \/ CheckMarked(p) \/ StartRow(p) \/ SaveMarker(p)
           \/ EndBody(p) \/ Return(p) \/ Reload(p) \/ FailLoad(p)
           \/ FailCheck(p) \/ FailStart(p) \/ FinishRead(p) \/ FinishUpdate(p)
  BY <1>3 DEF LoadMarker, CheckMarked, StartRow, SaveMarker, EndBody,
     Return, Reload, FailLoad, FailCheck, FailStart, FinishRead,
     FinishUpdate
<1>4. CASE ClearMarker(p)
  BY <1>4 DEF ClearMarker
<1>5. QED
  BY <1>1, <1>2, <1>3, <1>4 DEF Step

LEMMA RestingInductive ==
    ASSUME IsolationInv, LedgerTypeOK, ApartInv, RestingInv, [RunsNext]_runsVars
    PROVE  RestingInv'
<1>0. TypeOK
  BY DEF IsolationInv
<1> USE DEF ClearedBeforeFinish, Resting
<1>1. CASE UNCHANGED runsVars
  BY <1>1 DEF runsVars, vars, ledgerVars, RestingInv, Runners
<1> SUFFICES ASSUME RunsNext, ~taken' PROVE ClearedBeforeFinish' /\ (Resting' => marker' = NoRun)
  BY <1>1 DEF RestingInv
<1>2. ~taken /\ Job \notin stolen /\ ClearedBeforeFinish /\ (Resting => marker = NoRun)
  BY RunsStepCases DEF ApartInv, TakenRecalled, RestingInv
<1>3. ASSUME NEW p \in Procs, NEW q \in Procs, holds[p] = Job, holds[q] = Job PROVE p = q
  BY <1>2, <1>3, JobAssumption DEF IsolationInv, IsolationUnlessStolen
<1>4. ASSUME NEW p \in Procs, NEW j \in Jobs, ClaimRun(p, j)
      PROVE  ClearedBeforeFinish' /\ (Resting' => marker' = NoRun)
  <2>1. holds[p] = NoJob /\ marker' = marker
    BY <1>4 DEF ClaimRun, Claim, IsolationInv, OwnersAgree, Begin, ledgerVars
  <2>2. CASE j = Job /\ Claimable(j)
    <3>1. Begin(p) /\ holds' = [holds EXCEPT ![p] = Job]
      BY <1>4, <2>2 DEF ClaimRun, Claim
    <3>2. at'[p] # "idle" /\ holds'[p] = Job /\ \A q \in Procs \ {p} : at'[q] = at[q] /\ holds'[q] = holds[q]
      BY <1>0, <3>1, ExecutorsAssumption DEF Begin, MoveTo, LedgerTypeOK, TypeOK
    <3>3. Runners(Job)' # {}
      BY <3>2 DEF Runners
    <3>4. QED
      BY <1>2, <2>1, <3>2, <3>3
  <2>3. CASE ~(j = Job /\ Claimable(j))
    <3>1. UNCHANGED ledgerVars
      BY <1>4, <2>3 DEF ClaimRun
    <3>2. /\ \A q \in Procs : holds'[q] = Job <=> holds[q] = Job
          /\ status'[Job] = status[Job]
      BY <1>0, <1>4, <2>1, <2>3, JobAssumption, NoJobAssumption DEF ClaimRun, Claim, TypeOK
    <3>3. QED
      BY <1>2, <3>1, <3>2 DEF ledgerVars, Runners
  <2>4. QED
    BY <2>2, <2>3
<1>5. ASSUME NEW p \in Procs, Inside(p) \/ Throw(p)
      PROVE  ClearedBeforeFinish' /\ (Resting' => marker' = NoRun)
  <2>1. holds[p] = Job /\ UNCHANGED vars
    BY <1>5, StepsMoveOne DEF ApartInv, InsideHolds
  <2>2. \A q \in Procs : holds'[q] = Job => q = p
    BY <1>3, <2>1 DEF vars
  <2>3. Runners(Job)' # {}
    BY <2>1 DEF vars, Runners
  <2>4. QED
    BY <1>5, <2>2, <2>3, LeavingClears
<1>6. ASSUME NEW p \in Procs, FinishRun(p)
      PROVE  ClearedBeforeFinish' /\ (Resting' => marker' = NoRun)
  <2>1. at[p] = "idle" /\ UNCHANGED ledgerVars /\ holds[p] \in Jobs
    BY <1>0, <1>6 DEF FinishRun, Finish, ApartInv, InsideHolds, IsolationInv, OwnersAgree, TypeOK
  <2>2. holds' = [holds EXCEPT ![p] = NoJob]
    BY <1>6 DEF FinishRun, Finish, LetGo
  <2>3. ClearedBeforeFinish'
    BY <1>0, <1>2, <2>1, <2>2, JobAssumption, NoJobAssumption DEF ledgerVars, TypeOK
  <2>4. CASE holds[p] = Job
    BY <1>2, <2>1, <2>3, <2>4 DEF ledgerVars
  <2>5. CASE holds[p] # Job
    <3>1. status'[Job] = status[Job]
      BY <1>0, <1>6, <2>5, JobAssumption DEF FinishRun, Finish, FinishAs, TypeOK
    <3>2. Runners(Job)' = Runners(Job)
      BY <1>0, <2>2, <2>5, JobAssumption, NoJobAssumption DEF Runners, TypeOK
    <3>3. QED
      BY <1>2, <2>1, <2>3, <3>1, <3>2 DEF ledgerVars
  <2>6. QED
    BY <2>4, <2>5
<1>7. ASSUME NEW p \in Procs, Fall(p)
      PROVE  ClearedBeforeFinish' /\ (Resting' => marker' = NoRun)
  <2>1. holds' = [holds EXCEPT ![p] = NoJob] /\ status' = status
    BY <1>7 DEF Fall, Crash, AbortPass, Fault, LetGo, rows
  <2>2. marker' = marker /\ \A q \in Procs \ {p} : at'[q] = at[q]
    <3>1. CASE at[p] = "idle"
      BY <1>7, <3>1 DEF Fall, ledgerVars
    <3>2. CASE at[p] # "idle"
      <4>1. CutShort(p)
        BY <1>7, <3>2 DEF Fall
      <4>2. QED
        BY <4>1, ExecutorsAssumption DEF CutShort, MoveTo, LedgerTypeOK
    <3>3. QED
      BY <3>1, <3>2
  <2>3. ClearedBeforeFinish'
    BY <1>0, <1>2, <2>1, <2>2, JobAssumption, NoJobAssumption DEF TypeOK
  <2>4. CASE holds[p] = Job
    <3>1. status'[Job] \in {"running", "paused"}
      BY <1>2, <2>1, <2>4, JobAssumption DEF IsolationInv, OwnersAgree
    <3>2. QED
      BY <2>3, <3>1
  <2>5. CASE holds[p] # Job
    <3>1. Runners(Job)' = Runners(Job)
      BY <1>0, <2>1, <2>5, JobAssumption, NoJobAssumption DEF Runners, TypeOK
    <3>2. QED
      BY <1>2, <2>1, <2>2, <2>3, <3>1
  <2>6. QED
    BY <2>4, <2>5
<1>8. ASSUME UNCHANGED ledgerVars, AloneStep
      PROVE  ClearedBeforeFinish' /\ (Resting' => marker' = NoRun)
  <2>1. holds' = holds /\ Runners(Job)' = Runners(Job)
    BY <1>0, <1>8, AloneStepsRestNothing DEF Runners
  <2>2. Resting' => Resting
    BY <1>0, <1>8, <2>1, JobAssumption, AloneStepsRestNothing
  <2>3. QED
    BY <1>2, <1>8, <2>1, <2>2 DEF ledgerVars
<1>9. QED
  BY <1>4, <1>5, <1>6, <1>7, <1>8, RunsStepCases

\* When a job rests after a run nothing of its runs is left behind, but rows whose runners
\* were cut off before they marked them.
THEOREM RestIsFiled == RunsSpec => []RestingIsFiled
<1>1. RunsInit => RestingInv
  BY NoJobAssumption, JobAssumption, ExecutorsAssumption DEF RunsInit, Init, LedgerInit, RestingInv,
     ClearedBeforeFinish, Resting
<1>2. IsolationInv /\ LedgerTypeOK /\ ApartInv /\ RestingInv /\ [RunsNext]_runsVars => RestingInv'
  BY RestingInductive
<1>3. ApartInv /\ RestingInv /\ OpenRowsAccountedFor => RestingIsFiled
  <2> SUFFICES ASSUME ApartInv, RestingInv, OpenRowsAccountedFor, ~taken, Resting,
                      NEW id \in RunIds, ledger[id] = "running"
               PROVE  id \in lost
    BY DEF RestingIsFiled, RestingInv
  <2>1. \A p \in Procs : at[p] = "idle"
    BY DEF Resting, Runners, ApartInv, InsideHolds
  <2>2. \A p \in Procs : ~ InHand(p, id)
    BY <2>1 DEF InHand
  <2>3. id # marker
    BY NoRunAssumption DEF RestingInv
  <2>4. QED
    BY <2>2, <2>3, ExecutorsAssumption DEF OpenRowsAccountedFor, ApartInv, ApartUnlessTaken
<1>4. QED
  BY <1>1, <1>2, <1>3, ApartInvariant, RunsInvariants, PTL DEF RunsSpec
=============================================================================
