------------------------- MODULE JobLifecycleProofs -------------------------
(***************************************************************************)
(* What holds of JobLifecycle for every set of jobs, workers, schedulers   *)
(* and shells, every priority, interval and fault bound.                   *)
(***************************************************************************)
EXTENDS JobLifecycle, TLAPS

\* Next, flattened into its actions, for the case splits below.
LEMMA StepCases ==
    ASSUME Next
    PROVE  \/ \E p \in Procs : DueScan(p) \/ Suppress(p) \/ QueuedScan(p)
                               \/ NothingClaimed(p) \/ Restart(p)
           \/ \E w \in Workers : ScanStale(w)
           \/ \E p \in Procs, j \in Jobs : Admit(p, j)
           \/ \E p \in Procs, j \in Jobs : Claim(p, j)
           \/ \E p \in Procs : Finish(p)
           \/ \E w \in Workers, j \in Jobs : ResetStale(w, j)
           \/ \E p \in Procs : Crash(p) \/ AbortPass(p)
           \/ \E c \in Clis, j \in Jobs : CliQueue(c, j)
           \/ \E j \in Jobs : Pause(j)
           \/ \E j \in Jobs : Resume(j)
           \/ \E j \in Jobs, b \in BOOLEAN : SetEnabled(j, b) \/ Sync(j, b)
           \/ LoadChange
           \/ Tick
BY Zenon DEF Next, ProcStep, Operator

-----------------------------------------------------------------------------
(* Type correctness.                                                       *)

\* Every variable of the registry and of the processes keeps its type.
THEOREM TypeCorrect == Spec => []TypeOK
<1>1. Init => TypeOK
  BY TimingAssumption DEF Init, TypeOK, Status, Delays, Ages, PCs
<1>2. TypeOK /\ [Next]_vars => TypeOK'
  <2> SUFFICES ASSUME TypeOK, [Next]_vars PROVE TypeOK'
    OBVIOUS
  <2> USE DEF TypeOK, rows, procs, Goto, PCs
  <2>1. ASSUME NEW p \in Procs,
               DueScan(p) \/ Suppress(p) \/ QueuedScan(p) \/ NothingClaimed(p) \/ Restart(p)
        PROVE  TypeOK'
    BY <2>1 DEF DueScan, DueJobs, Suppress, QueuedScan, NothingClaimed, Restart
  <2>2. ASSUME NEW w \in Workers, ScanStale(w) PROVE TypeOK'
    BY <2>2 DEF ScanStale, Procs
  <2>3. ASSUME NEW p \in Procs, NEW j \in Jobs, Admit(p, j) PROVE TypeOK'
    BY <2>3 DEF Admit, MarkQueued, Status
  <2>4. ASSUME NEW p \in Procs, NEW j \in Jobs, Claim(p, j) PROVE TypeOK'
    BY <2>4, TimingAssumption DEF Claim, Status, Ages
  <2>5. ASSUME NEW p \in Procs, Finish(p) PROVE TypeOK'
    <3>1. PICK o \in Outcomes : FinishAs(holds[p], o[1], o[2])
      BY <2>5 DEF Finish
    <3>2. o[1] \in Status /\ o[2] \in Delays
      BY TimingAssumption DEF Outcomes, Status, Delays
    <3>3. status' \in [Jobs -> Status] /\ dueIn' \in [Jobs -> Delays]
      BY <3>1, <3>2 DEF FinishAs
    <3>4. QED
      BY <2>5, <3>3 DEF Finish, LetGo
  <2>6. ASSUME NEW w \in Workers, NEW j \in Jobs, ResetStale(w, j) PROVE TypeOK'
    BY <2>6 DEF ResetStale, Status, Procs
  <2>7. ASSUME NEW p \in Procs, Crash(p) \/ AbortPass(p) PROVE TypeOK'
    BY <2>7, TimingAssumption DEF Crash, AbortPass, Fault, LetGo
  <2>8. ASSUME NEW c \in Clis, NEW j \in Jobs, CliQueue(c, j) PROVE TypeOK'
    BY <2>8 DEF CliQueue, MarkQueued, Status, Procs
  <2>9. ASSUME NEW j \in Jobs, Pause(j) PROVE TypeOK'
    BY <2>9 DEF Pause, Status
  <2>10. ASSUME NEW j \in Jobs, Resume(j) PROVE TypeOK'
    BY <2>10, TimingAssumption DEF Resume, Status, Delays
  <2>11. ASSUME NEW j \in Jobs, NEW b \in BOOLEAN, SetEnabled(j, b) \/ Sync(j, b)
         PROVE  TypeOK'
    BY <2>11 DEF SetEnabled, Sync
  <2>12. CASE LoadChange
    BY <2>12 DEF LoadChange
  <2>13. CASE Tick
    BY <2>13, TimingAssumption DEF Tick, Delays, Ages
  <2>14. CASE UNCHANGED vars
    BY <2>14 DEF vars
  <2>15. QED
    BY <2>1, <2>2, <2>3, <2>4, <2>5, <2>6, <2>7, <2>8, <2>9, <2>10, <2>11,
       <2>12, <2>13, <2>14, StepCases, Zenon
<1>3. QED
  BY <1>1, <1>2, PTL DEF Spec

-----------------------------------------------------------------------------
(* Isolation. Inductive only together with the reason for it: the row of a *)
(* run that was not stolen says `running` (or `paused`), and claim_queued  *)
(* takes only rows that say `queued`.                                      *)

IsolationInv == TypeOK /\ IsolationUnlessStolen /\ OwnersAgree

\* A job whose row is neither running nor paused has no runner.
LEMMA FreeUnlessRunning ==
    ASSUME IsolationInv, NEW j \in Jobs, status[j] \notin {"running", "paused"}
    PROVE  j \in stolen \/ \A p \in Procs : holds[p] # j
BY DEF IsolationInv, OwnersAgree

\* Changing no claim and no row that is held keeps the invariant.
LEMMA UnheldRowsMayChange ==
    ASSUME IsolationInv, TypeOK', UNCHANGED <<holds, stolen>>,
           \A p \in Procs : (pc'[p] = "run") <=> (pc[p] = "run"),
           \A j \in Jobs : status'[j] # status[j] =>
               status[j] \notin {"running", "paused"} \/ status'[j] \in {"running", "paused"}
    PROVE  IsolationInv'
<1>1. IsolationUnlessStolen'
  BY DEF IsolationInv, IsolationUnlessStolen
<1>2. \A p \in Procs : holds[p] \in Jobs \ stolen => status'[holds[p]] \in {"running", "paused"}
  BY DEF IsolationInv, OwnersAgree
<1>3. (\A j \in stolen : Runners(j) # {})'
  BY DEF IsolationInv, OwnersAgree, Runners
<1>4. QED
  BY <1>1, <1>2, <1>3 DEF IsolationInv, OwnersAgree

\* Letting go of a job keeps the invariant, whatever then happens to its row.
LEMMA LettingGo ==
    ASSUME IsolationInv, TypeOK', NEW p \in Procs, LetGo(p), pc'[p] # "run",
           \A q \in Procs \ {p} : pc'[q] = pc[q],
           \A j \in Jobs \ {holds[p]} : status'[j] = status[j],
           holds[p] = NoJob => status' = status
    PROVE  IsolationInv'
<1> USE DEF IsolationInv, LetGo
<1>1. holds' = [holds EXCEPT ![p] = NoJob] /\ holds'[p] = NoJob
  BY DEF TypeOK
<1>2. \A q \in Procs \ {p} : holds'[q] = holds[q]
  BY <1>1 DEF TypeOK
<1>3. ASSUME NEW q \in Procs, holds'[q] \in Jobs \ stolen'
      PROVE  q # p /\ holds[q] # holds[p] /\ holds[q] \in Jobs \ stolen
  <2>1. q # p /\ holds'[q] = holds[q]
    BY <1>1, <1>2, <1>3, NoJobAssumption
  <2>2. CASE Runners(holds[p]) = {p}
    <3>1. holds[q] # holds[p]
      BY <2>1, <2>2 DEF Runners
    <3>2. QED
      BY <2>1, <2>2, <3>1, <1>3
  <2>3. CASE Runners(holds[p]) # {p}
    <3>1. holds[q] \in Jobs \ stolen
      BY <2>1, <2>3, <1>3
    <3>2. holds[q] # holds[p]
      BY <2>1, <3>1 DEF IsolationUnlessStolen
    <3>3. QED
      BY <2>1, <3>1, <3>2
  <2>4. QED
    BY <2>2, <2>3
<1>4. IsolationUnlessStolen'
  BY <1>2, <1>3 DEF IsolationUnlessStolen
<1>5. ASSUME NEW q \in Procs, holds'[q] \in Jobs \ stolen'
      PROVE  status'[holds'[q]] \in {"running", "paused"}
  BY <1>2, <1>3, <1>5 DEF OwnersAgree
<1>6. ASSUME NEW j \in stolen' PROVE Runners(j)' # {}
  <2>1. PICK q \in Procs : holds[q] = j
    BY <1>6 DEF OwnersAgree, Runners
  <2>2. CASE j # holds[p]
    BY <2>1, <2>2, <1>2 DEF Runners
  <2>3. CASE j = holds[p]
    <3>1. Runners(holds[p]) # {p}
      BY <1>6, <2>3
    <3>2. PICK r \in Procs \ {p} : holds[r] = j
      BY <3>1, <2>3 DEF Runners
    <3>3. QED
      BY <3>2, <1>2 DEF Runners
  <2>4. QED
    BY <2>2, <2>3
<1>7. (\A q \in Procs : (pc[q] = "run") <=> (holds[q] # NoJob))'
  BY <1>1, <1>2 DEF OwnersAgree
<1>8. QED
  BY <1>4, <1>5, <1>6, <1>7 DEF OwnersAgree

LEMMA IsolationInductive == IsolationInv /\ TypeOK' /\ [Next]_vars => IsolationInv'
<1> SUFFICES ASSUME IsolationInv, TypeOK', [Next]_vars PROVE IsolationInv'
  OBVIOUS
<1> USE DEF rows, procs, Goto
<1>a. TypeOK
  BY DEF IsolationInv
<1>1. ASSUME NEW p \in Procs,
             DueScan(p) \/ Suppress(p) \/ QueuedScan(p) \/ NothingClaimed(p) \/ Restart(p)
      PROVE  IsolationInv'
  BY <1>1, <1>a, UnheldRowsMayChange
     DEF TypeOK, DueScan, Suppress, QueuedScan, NothingClaimed, Restart
<1>2. ASSUME NEW w \in Workers, ScanStale(w) PROVE IsolationInv'
  BY <1>2, <1>a, UnheldRowsMayChange DEF TypeOK, ScanStale, Procs
<1>3. ASSUME NEW p \in Procs, NEW j \in Jobs, Admit(p, j) PROVE IsolationInv'
  BY <1>3, <1>a, UnheldRowsMayChange DEF TypeOK, Admit, MarkQueued, Schedulable
<1>4. ASSUME NEW p \in Procs, NEW j \in Jobs, Claim(p, j) PROVE IsolationInv'
  <2>1. CASE ~Claimable(j)
    BY <1>4, <2>1, <1>a, UnheldRowsMayChange DEF TypeOK, Claim
  <2>2. CASE Claimable(j)
    <3>1. /\ status[j] = "queued"
          /\ status' = [status EXCEPT ![j] = "running"]
          /\ holds' = [holds EXCEPT ![p] = j]
          /\ pc' = [pc EXCEPT ![p] = "run"]
          /\ stolen' = stolen
      BY <1>4, <2>2 DEF Claim, Claimable
    <3>2. holds'[p] = j /\ \A q \in Procs \ {p} : holds'[q] = holds[q]
      BY <3>1, <1>a DEF TypeOK
    <3>3. j \in stolen \/ \A q \in Procs : holds[q] # j
      BY <3>1, FreeUnlessRunning
    <3>4. IsolationUnlessStolen'
      BY <3>1, <3>2, <3>3 DEF IsolationInv, IsolationUnlessStolen
    <3>5. ASSUME NEW q \in Procs, holds'[q] \in Jobs \ stolen'
          PROVE  status'[holds'[q]] \in {"running", "paused"}
      BY <3>1, <3>2, <3>5, <1>a DEF IsolationInv, OwnersAgree, TypeOK
    <3>6. holds[p] = NoJob
      BY <1>4 DEF Claim, IsolationInv, OwnersAgree
    <3>7. ASSUME NEW k \in stolen' PROVE Runners(k)' # {}
      <4>1. PICK q \in Procs : holds[q] = k
        BY <3>1, <3>7 DEF IsolationInv, OwnersAgree, Runners
      <4>2. q # p
        BY <4>1, <3>6, <3>7, <3>1, <1>a, NoJobAssumption DEF TypeOK
      <4>3. QED
        BY <4>1, <4>2, <3>2 DEF Runners
    <3>8. (\A q \in Procs : (pc[q] = "run") <=> (holds[q] # NoJob))'
      BY <3>1, <3>2, <1>a, NoJobAssumption DEF TypeOK, IsolationInv, OwnersAgree
    <3>9. QED
      BY <3>4, <3>5, <3>7, <3>8 DEF IsolationInv, OwnersAgree
  <2>3. QED
    BY <2>1, <2>2
<1>5. ASSUME NEW p \in Procs, Finish(p) PROVE IsolationInv'
  <2>1. PICK o \in Outcomes : FinishAs(holds[p], o[1], o[2])
    BY <1>5 DEF Finish
  <2>2. holds[p] # NoJob
    BY <1>5 DEF Finish, IsolationInv, OwnersAgree
  <2>3. \A j \in Jobs \ {holds[p]} : status'[j] = status[j]
    BY <2>1, <1>a DEF FinishAs, TypeOK
  <2>4. QED
    BY <1>5, <2>2, <2>3, <1>a, LettingGo DEF Finish, TypeOK
<1>6. ASSUME NEW w \in Workers, NEW j \in Jobs, ResetStale(w, j) PROVE IsolationInv'
  <2>1. /\ holds' = holds
        /\ stolen' = IF status[j] = "running" /\ Runners(j) # {} THEN stolen \cup {j} ELSE stolen
        /\ \A k \in Jobs : status'[k] # status[k] => k = j /\ status[j] = "running"
        /\ \A q \in Procs : (pc'[q] = "run") <=> (pc[q] = "run")
    BY <1>6, <1>a DEF ResetStale, TypeOK, Procs
  <2>2. IsolationUnlessStolen'
    BY <2>1 DEF IsolationInv, IsolationUnlessStolen
  <2>3. ASSUME NEW q \in Procs, holds[q] \in Jobs \ stolen'
        PROVE  status'[holds[q]] \in {"running", "paused"}
    <3>1. holds[q] \in Jobs \ stolen
      BY <2>1, <2>3
    <3>2. CASE holds[q] = j
      <4>1. status'[j] = status[j]
        BY <2>1, <2>3, <3>2 DEF Runners
      <4>2. QED
        BY <3>1, <3>2, <4>1 DEF IsolationInv, OwnersAgree
    <3>3. CASE holds[q] # j
      BY <2>1, <3>1, <3>3 DEF IsolationInv, OwnersAgree
    <3>4. QED
      BY <3>2, <3>3
  <2>4. ASSUME NEW k \in stolen' PROVE Runners(k)' # {}
    BY <2>1, <2>4 DEF IsolationInv, OwnersAgree, Runners
  <2>5. QED
    BY <2>1, <2>2, <2>3, <2>4 DEF IsolationInv, OwnersAgree
<1>7. ASSUME NEW p \in Procs, Crash(p) \/ AbortPass(p) PROVE IsolationInv'
  <2>1. LetGo(p) /\ status' = status /\ pc'[p] # "run" /\ \A q \in Procs \ {p} : pc'[q] = pc[q]
    BY <1>7, <1>a DEF Crash, AbortPass, Fault, TypeOK
  <2>2. QED
    BY <2>1, LettingGo
<1>8. ASSUME NEW c \in Clis, NEW j \in Jobs, CliQueue(c, j) PROVE IsolationInv'
  BY <1>8, <1>a, UnheldRowsMayChange DEF TypeOK, CliQueue, MarkQueued, Schedulable, Procs
<1>9. ASSUME NEW j \in Jobs, Pause(j) PROVE IsolationInv'
  BY <1>9, <1>a, UnheldRowsMayChange DEF TypeOK, Pause
<1>10. ASSUME NEW j \in Jobs, Resume(j) PROVE IsolationInv'
  <2>1. /\ holds' = holds /\ pc' = pc
        /\ stolen' = IF Runners(j) # {} THEN stolen \cup {j} ELSE stolen
        /\ \A k \in Jobs \ {j} : status'[k] = status[k]
    BY <1>10, <1>a DEF Resume, TypeOK
  <2>2. IsolationUnlessStolen'
    BY <2>1 DEF IsolationInv, IsolationUnlessStolen
  <2>3. ASSUME NEW q \in Procs, holds[q] \in Jobs \ stolen'
        PROVE  holds[q] \in Jobs \ stolen /\ holds[q] # j
    BY <2>1, <2>3 DEF Runners
  <2>4. ASSUME NEW k \in stolen' PROVE Runners(k)' # {}
    BY <2>1, <2>4 DEF IsolationInv, OwnersAgree, Runners
  <2>5. QED
    BY <2>1, <2>2, <2>3, <2>4 DEF IsolationInv, OwnersAgree
<1>11. ASSUME NEW j \in Jobs, NEW b \in BOOLEAN, SetEnabled(j, b) \/ Sync(j, b)
       PROVE  IsolationInv'
  BY <1>11, UnheldRowsMayChange DEF SetEnabled, Sync
<1>12. CASE LoadChange
  BY <1>12, UnheldRowsMayChange DEF LoadChange
<1>13. CASE Tick
  BY <1>13, UnheldRowsMayChange DEF Tick
<1>14. CASE UNCHANGED vars
  BY <1>14, UnheldRowsMayChange DEF vars
<1>15. QED
  BY <1>1, <1>2, <1>3, <1>4, <1>5, <1>6, <1>7, <1>8, <1>9, <1>10, <1>11,
     <1>12, <1>13, <1>14, StepCases, Zenon

LEMMA IsolationInvariant == Spec => []IsolationInv
<1>1. Init => IsolationUnlessStolen /\ OwnersAgree
  BY NoJobAssumption DEF Init, IsolationUnlessStolen, OwnersAgree, Runners
<1>2. QED
  BY <1>1, TypeCorrect, IsolationInductive, PTL DEF Spec, IsolationInv

\* No two processes are ever inside run_once() for the same job, unless a live run
\* was revoked by recover_stale_jobs() or by an operator's resume.
THEOREM Isolated == Spec => []IsolationUnlessStolen
BY IsolationInvariant, PTL DEF IsolationInv

\* A run that was not revoked still owns its row; a revoked one has a live runner.
THEOREM OwnersAlwaysAgree == Spec => []OwnersAgree
BY IsolationInvariant, PTL DEF IsolationInv

-----------------------------------------------------------------------------
(* Parked jobs.                                                            *)

\* A paused or failed job that nobody runs changes status only by the operator's
\* pause or resume, whatever snapshots the processes hold.
THEOREM ParkedStaysParked == Spec => ParkedUntilOperator
<1> DEFINE Kept == \A j \in Jobs : Parked(j) => \/ status'[j] = status[j]
                                                \/ Resume(j) \/ Pause(j)
<1>1. TypeOK /\ [Next]_vars => [Kept]_vars
  <2> SUFFICES ASSUME TypeOK, Next, NEW j \in Jobs, Parked(j)
               PROVE  status'[j] = status[j] \/ Resume(j) \/ Pause(j)
    OBVIOUS
  <2> USE DEF TypeOK, rows
  <2>0. status[j] \notin Schedulable \cup {"queued", "running"} /\ Runners(j) = {}
    BY DEF Parked, Schedulable
  <2>1. ASSUME NEW p \in Procs,
               DueScan(p) \/ Suppress(p) \/ QueuedScan(p) \/ NothingClaimed(p) \/ Restart(p)
        PROVE  status' = status
    BY <2>1 DEF DueScan, Suppress, QueuedScan, NothingClaimed, Restart
  <2>2. ASSUME NEW w \in Workers, ScanStale(w) PROVE status' = status
    BY <2>2 DEF ScanStale
  <2>3. ASSUME NEW p \in Procs, NEW k \in Jobs, Admit(p, k) PROVE status'[j] = status[j]
    BY <2>0, <2>3 DEF Admit, MarkQueued
  <2>4. ASSUME NEW p \in Procs, NEW k \in Jobs, Claim(p, k) PROVE status'[j] = status[j]
    BY <2>0, <2>4 DEF Claim, Claimable
  <2>5. ASSUME NEW p \in Procs, Finish(p) PROVE status'[j] = status[j]
    BY <2>0, <2>5 DEF Finish, FinishAs, Runners
  <2>6. ASSUME NEW w \in Workers, NEW k \in Jobs, ResetStale(w, k)
        PROVE  status'[j] = status[j]
    BY <2>0, <2>6 DEF ResetStale
  <2>7. ASSUME NEW p \in Procs, Crash(p) \/ AbortPass(p) PROVE status' = status
    BY <2>7 DEF Crash, AbortPass, Fault
  <2>8. ASSUME NEW c \in Clis, NEW k \in Jobs, CliQueue(c, k) PROVE status'[j] = status[j]
    BY <2>0, <2>8 DEF CliQueue, MarkQueued
  <2>9. ASSUME NEW k \in Jobs, Pause(k) \/ Resume(k)
        PROVE  status'[j] = status[j] \/ Resume(j) \/ Pause(j)
    <3>1. CASE k = j
      BY <2>9, <3>1
    <3>2. CASE k # j
      BY <2>9, <3>2 DEF Pause, Resume
    <3>3. QED
      BY <3>1, <3>2
  <2>10. ASSUME NEW k \in Jobs, NEW b \in BOOLEAN, SetEnabled(k, b) \/ Sync(k, b)
         PROVE  status' = status
    BY <2>10 DEF SetEnabled, Sync
  <2>11. LoadChange \/ Tick => status' = status
    BY DEF LoadChange, Tick
  <2>12. QED
    BY <2>1, <2>2, <2>3, <2>4, <2>5, <2>6, <2>7, <2>8, <2>9, <2>10, <2>11,
       StepCases, Zenon
<1>2. QED
  BY <1>1, TypeCorrect, PTL DEF Spec, ParkedUntilOperator

-----------------------------------------------------------------------------
(* Refinement: the registry implements the per-job lease.                  *)

\* No claim changes: a stuttering step of the lease.
LEMMA LeaseStutter ==
    ASSUME UNCHANGED <<holds, stolen>>
    PROVE  UNCHANGED Lease!vars
BY DEF Lease!vars, Runners

\* Letting go of a job leaves the lease; letting go of nothing stutters.
LEMMA LeaseLeave ==
    ASSUME IsolationInv, NEW p \in Procs, LetGo(p)
    PROVE  [Lease!Next]_(Lease!vars)
<1>0. TypeOK
  BY DEF IsolationInv
<1>1. CASE holds[p] = NoJob
  <2>1. holds' = holds
    BY <1>0, <1>1 DEF LetGo, TypeOK
  <2>2. stolen' = stolen
    BY <1>0, <1>1, NoJobAssumption DEF LetGo, TypeOK
  <2>3. QED
    BY <2>1, <2>2, LeaseStutter
<1>2. CASE holds[p] # NoJob
  <2> DEFINE j == holds[p]
  <2>1. j \in Jobs
    BY <1>0, <1>2 DEF TypeOK
  <2>2. p \in Runners(j)
    BY DEF Runners
  <2>3. ASSUME NEW k \in Jobs
        PROVE  Runners(k)' = IF k = j THEN Runners(k) \ {p} ELSE Runners(k)
    BY <1>0, <2>1, NoJobAssumption DEF LetGo, Runners, TypeOK
  <2>4. [k \in Jobs |-> Runners(k)]' = [[k \in Jobs |-> Runners(k)] EXCEPT ![j] = @ \ {p}]
    BY <2>1, <2>3
  <2>5. stolen' = IF Runners(j) = {p} THEN stolen \ {j} ELSE stolen
    BY DEF LetGo
  <2>6. Lease!Leave(p, j)
    BY <2>1, <2>2, <2>4, <2>5 DEF Lease!Leave
  <2>7. QED
    BY <2>1, <2>6 DEF Lease!Next
<1>3. QED
  BY <1>1, <1>2

\* Adding a live runner's job to `stolen` revokes its lease.
LEMMA LeaseRevoke ==
    ASSUME NEW j \in Jobs, UNCHANGED holds, Runners(j) # {}, stolen' = stolen \cup {j}
    PROVE  Lease!Next
<1>1. [k \in Jobs |-> Runners(k)]' = [k \in Jobs |-> Runners(k)]
  BY DEF Runners
<1>2. Lease!Revoke(j)
  BY <1>1 DEF Lease!Revoke
<1>3. QED
  BY <1>2 DEF Lease!Next

\* Every behaviour of the registry, seen through who is inside which job, is a
\* behaviour of a lease that overlaps only after a revocation.
THEOREM RegistryIsALease == Spec => ImplementsLease
<1>1. Init => Lease!Init
  BY NoJobAssumption DEF Init, Lease!Init, Runners
<1>2. IsolationInv /\ [Next]_vars => [Lease!Next]_(Lease!vars)
  <2> SUFFICES ASSUME IsolationInv, [Next]_vars PROVE [Lease!Next]_(Lease!vars)
    OBVIOUS
  <2>0. TypeOK
    BY DEF IsolationInv
  <2> USE DEF procs
  <2>1. ASSUME NEW p \in Procs,
               DueScan(p) \/ Suppress(p) \/ QueuedScan(p) \/ NothingClaimed(p) \/ Restart(p)
        PROVE  UNCHANGED <<holds, stolen>>
    BY <2>1 DEF DueScan, Suppress, QueuedScan, NothingClaimed, Restart
  <2>2. ASSUME NEW w \in Workers, ScanStale(w) PROVE UNCHANGED <<holds, stolen>>
    BY <2>2 DEF ScanStale
  <2>3. ASSUME NEW p \in Procs, NEW j \in Jobs, Admit(p, j) PROVE UNCHANGED <<holds, stolen>>
    BY <2>3 DEF Admit
  <2>4. ASSUME NEW p \in Procs, NEW j \in Jobs, Claim(p, j) PROVE [Lease!Next]_(Lease!vars)
    <3>1. CASE ~Claimable(j)
      BY <2>4, <3>1, LeaseStutter DEF Claim
    <3>2. CASE Claimable(j)
      <4>1. holds' = [holds EXCEPT ![p] = j] /\ stolen' = stolen /\ status[j] = "queued"
        BY <2>4, <3>2 DEF Claim, Claimable
      <4>2. holds[p] = NoJob
        BY <2>4 DEF Claim, IsolationInv, OwnersAgree
      <4>3. j \in stolen \/ Runners(j) = {}
        BY <4>1, FreeUnlessRunning DEF Runners
      <4>4. \A k \in Jobs : p \notin Runners(k)
        BY <4>2, NoJobAssumption DEF Runners
      <4>5. ASSUME NEW k \in Jobs
            PROVE  Runners(k)' = IF k = j THEN Runners(k) \cup {p} ELSE Runners(k)
        BY <2>0, <4>1, <4>2, NoJobAssumption DEF Runners, TypeOK
      <4>6. [k \in Jobs |-> Runners(k)]' = [[k \in Jobs |-> Runners(k)] EXCEPT ![j] = @ \cup {p}]
        BY <4>5
      <4>7. Lease!Enter(p, j)
        BY <4>1, <4>3, <4>4, <4>6 DEF Lease!Enter, Lease!Idle
      <4>8. QED
        BY <4>7 DEF Lease!Next
    <3>3. QED
      BY <3>1, <3>2
  <2>5. ASSUME NEW p \in Procs, Finish(p) \/ Crash(p) \/ AbortPass(p)
        PROVE  [Lease!Next]_(Lease!vars)
    BY <2>5, LeaseLeave DEF Finish, Crash, AbortPass, Fault
  <2>6. ASSUME NEW w \in Workers, NEW j \in Jobs, ResetStale(w, j)
        PROVE  [Lease!Next]_(Lease!vars)
    <3>1. \/ UNCHANGED <<holds, stolen>>
          \/ UNCHANGED holds /\ Runners(j) # {} /\ stolen' = stolen \cup {j}
      BY <2>6 DEF ResetStale
    <3>2. QED
      BY <3>1, LeaseStutter, LeaseRevoke
  <2>7. ASSUME NEW c \in Clis, NEW j \in Jobs, CliQueue(c, j) PROVE UNCHANGED <<holds, stolen>>
    BY <2>7 DEF CliQueue
  <2>8. ASSUME NEW j \in Jobs, Resume(j) PROVE [Lease!Next]_(Lease!vars)
    <3>1. \/ UNCHANGED <<holds, stolen>>
          \/ UNCHANGED holds /\ Runners(j) # {} /\ stolen' = stolen \cup {j}
      BY <2>8 DEF Resume
    <3>2. QED
      BY <3>1, LeaseStutter, LeaseRevoke
  <2>9. ASSUME NEW j \in Jobs, NEW b \in BOOLEAN, Pause(j) \/ SetEnabled(j, b) \/ Sync(j, b)
        PROVE  UNCHANGED <<holds, stolen>>
    BY <2>9 DEF Pause, SetEnabled, Sync
  <2>10. LoadChange \/ Tick \/ UNCHANGED vars => UNCHANGED <<holds, stolen>>
    BY DEF LoadChange, Tick, vars
  <2>11. UNCHANGED <<holds, stolen>> => [Lease!Next]_(Lease!vars)
    BY LeaseStutter
  <2>12. QED
    BY <2>1, <2>2, <2>3, <2>4, <2>5, <2>6, <2>7, <2>8, <2>9, <2>10, <2>11,
       StepCases, Zenon
<1>3. QED
  BY <1>1, <1>2, IsolationInvariant, PTL DEF Spec, ImplementsLease, Lease!Spec
=============================================================================
