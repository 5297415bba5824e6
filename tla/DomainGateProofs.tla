-------------------------- MODULE DomainGateProofs --------------------------
(***************************************************************************)
(* Theorems about DomainGate, for any domains, workers, limits and answers *)
(* of the sites.                                                           *)
(***************************************************************************)
EXTENDS DomainGate, TLAPS

USE DomainsAssumption, RateAssumption, RunAssumption

\* What a stored time loses by being cut off to a whole second.
LEMMA ModRange == ASSUME NEW x \in Int PROVE x % SecondTicks \in 0 .. (SecondTicks - 1)
    OBVIOUS

LEMMA RetryAfterInt == ASSUME NEW r \in Responses PROVE RetryAfter(r) \in Int
    BY ResponsesAssumption DEF RetryAfter, Positive

LEMMA BlockForCloses ==
    ASSUME TypeOK, NEW secs \in Int
    PROVE  BlockFor(secs) \in Nat /\ Positive(secs) <= BlockFor(secs) + SecondTicks - 1
<1>1. (frac + secs) % SecondTicks \in 0 .. (SecondTicks - 1)
    BY ModRange DEF TypeOK
<1>2. QED
    BY <1>1 DEF BlockFor, Positive

-----------------------------------------------------------------------------
(* The inductive invariant. A worker that has found a domain ready, and has *)
(* not been crossed, can rely on what it has read until it uses it up.     *)

\* the columns are behind what really happened by less than a second
TableInv ==
    \A d \in Domains :
        /\ sinceLast[d] <= sentAge[d] + SecondTicks - 1
        /\ askedLeft[d] <= blockLeft[d] + SecondTicks - 1

\* w has a request on record that it has not made yet
Held(w, d) == pc[w] = "robots" /\ inHand[w] = d

HeldInv ==
    \A w \in Workers : \A d \in Domains : Held(w, d) => sinceLast[d] <= late[w] + SecondTicks - 1

\* neither a page that was requested nor one that may yet be, before w gets round to it
Spaced(w, d) ==
    pc[w] \in {"look", "request", "robots"} =>
        /\ sentAge[d] > delay[d] - SecondTicks
        /\ \A v \in Workers \ {w} : Held(v, d) => late[v] > delay[d] - SecondTicks

Unblocked(w, d) ==
    pc[w] \in {"look", "request", "robots", "fetch", "clear", "block"} =>
        askedLeft[d] < SecondTicks

ReadyInv ==
    \A w \in Workers : \A d \in ready[w] \ crossed[w] : Spaced(w, d) /\ Unblocked(w, d)

PageLimit ==
    \A w \in Workers : pc[w] \in {"look", "request", "robots", "fetch"} => fetched[w] < MaxPages[w]

GateInv == TypeOK /\ TableInv /\ HeldInv /\ ReadyInv /\ PageLimit

LEMMA InitEstablishes == Init => GateInv
<1> SUFFICES ASSUME Init PROVE GateInv
  OBVIOUS
<1> USE DEF Init
<1>1. TypeOK
  BY DEF TypeOK, Ages, NoRow, PCs, MaxAttempts
<1>2. TableInv /\ HeldInv /\ ReadyInv /\ PageLimit
  BY DEF TableInv, HeldInv, Held, ReadyInv, PageLimit
<1>3. QED
  BY <1>1, <1>2 DEF GateInv

USE DEF Goto, table, history, run

\* Between two turns, and in whatever only reads the table, nothing that was read ages.
LEMMA HeadKeeps == ASSUME GateInv, NEW w \in Workers, Head(w) PROVE GateInv'
<1> USE DEF GateInv, Head, Forget
<1>1. TypeOK'
  <2>1. Queued(w) \in SUBSET Domains
    BY DEF Queued
  <2>2. CASE fetched[w] < MaxPages[w] /\ attempts[w] < MaxAttempts(w)
    <3>1. pc' = [pc EXCEPT ![w] = "look"] /\ attempts' = [attempts EXCEPT ![w] = @ + 1]
          /\ toCheck' = [toCheck EXCEPT ![w] = Queued(w)]
      BY <2>2
    <3>2. attempts' \in [Workers -> Nat] /\ \A v \in Workers : attempts'[v] <= MaxAttempts(v)
      BY <2>2, <3>1 DEF TypeOK, MaxAttempts
    <3>3. QED
      BY <2>1, <3>1, <3>2 DEF TypeOK, PCs
  <2>3. CASE ~(fetched[w] < MaxPages[w] /\ attempts[w] < MaxAttempts(w))
    <3>1. pc' = [pc EXCEPT ![w] = "done"] /\ UNCHANGED <<attempts, toCheck>>
      BY <2>3
    <3>2. QED
      BY <3>1 DEF TypeOK, PCs
  <2>4. QED
    BY <2>2, <2>3
<1>2. TableInv' /\ HeldInv' /\ ReadyInv' /\ PageLimit'
  BY DEF TypeOK, TableInv, HeldInv, Held, ReadyInv, Spaced, Unblocked, PageLimit
<1>3. QED
  BY <1>1, <1>2

LEMMA BeginKeeps ==
    ASSUME GateInv, NEW w \in Workers, NEW queue \in Queues, BeginRun(w, queue) PROVE GateInv'
<1> USE DEF GateInv, BeginRun
<1>1. TypeOK'
  BY DEF TypeOK, PCs
<1>2. TableInv' /\ HeldInv' /\ ReadyInv' /\ PageLimit'
  BY DEF TypeOK, TableInv, HeldInv, Held, ReadyInv, Spaced, Unblocked, PageLimit
<1>3. QED
  BY <1>1, <1>2

LEMMA CreateRowKeeps ==
    ASSUME GateInv, NEW w \in Workers, NEW d \in Domains, CreateRow(w, d) PROVE GateInv'
<1> USE DEF GateInv, CreateRow
<1>1. TypeOK'
  BY DEF TypeOK, NoRow
<1>2. TableInv' /\ HeldInv' /\ ReadyInv' /\ PageLimit'
  BY DEF TypeOK, TableInv, HeldInv, Held, ReadyInv, Spaced, Unblocked, PageLimit
<1>3. QED
  BY <1>1, <1>2

\* What is_allowed() lets pass is spaced and unblocked, but for the cut-off fractions.
LEMMA LookKeeps ==
    ASSUME GateInv, NEW w \in Workers, NEW d \in Domains, Look(w, d) PROVE GateInv'
<1> USE DEF GateInv
<1>1. WaitFor(w, d) \in Nat
  BY DEF Look, TypeOK, WaitFor, RowDelay, Positive, NoRow, Ages
<1>2. TypeOK'
  <2>1. CASE WaitFor(w, d) = 0
    <3>1. /\ ready' = [ready EXCEPT ![w] = @ \cup {d}]
          /\ toCheck' = [toCheck EXCEPT ![w] = @ \ {d}]
          /\ delay[d] # NoRow
          /\ UNCHANGED <<frac, table, history, pc, minWait, inHand, wait, waited, attempts,
                         fetched, pending, resting>>
      BY <2>1 DEF Look
    <3>2. QED
      BY <3>1 DEF TypeOK, MaxAttempts
  <2>2. CASE WaitFor(w, d) # 0
    <3>1. AtMost(minWait[w], WaitFor(w, d)) \in Nat
      BY <1>1 DEF TypeOK, AtMost
    <3>2. QED
      BY <1>1, <2>2, <3>1, SMTT(60) DEF Look, TypeOK, MaxAttempts
  <2>3. QED
    BY <2>1, <2>2
<1>3. ASSUME WaitFor(w, d) = 0
      PROVE  /\ sentAge[d] > delay[d] - SecondTicks /\ askedLeft[d] < SecondTicks
             /\ \A v \in Workers : Held(v, d) => late[v] > delay[d] - SecondTicks
  BY <1>3 DEF Look, TypeOK, TableInv, HeldInv, WaitFor, RowDelay, Positive, NoRow, Ages
<1>4. ReadyInv'
  <2>1. CASE WaitFor(w, d) = 0
    <3>1. /\ ready' = [ready EXCEPT ![w] = @ \cup {d}]
          /\ UNCHANGED <<delay, sentAge, late, inHand, askedLeft, crossed, pc>>
      BY <2>1 DEF Look
    <3>2. ASSUME NEW v \in Workers, NEW e \in ready'[v] \ crossed'[v]
          PROVE  e \in ready[v] \ crossed[v] \/ e = d
      BY <3>1, <3>2 DEF TypeOK
    <3>3. QED
      BY <1>3, <2>1, <3>1, <3>2 DEF ReadyInv, Spaced, Held, Unblocked
  <2>2. CASE WaitFor(w, d) # 0
    BY <2>2 DEF Look, ReadyInv, Spaced, Held, Unblocked
  <2>3. QED
    BY <2>1, <2>2
<1>5. TableInv' /\ HeldInv' /\ PageLimit'
  BY DEF Look, TableInv, HeldInv, Held, PageLimit
<1>6. QED
  BY <1>2, <1>4, <1>5

LEMMA ClaimKeeps ==
    ASSUME GateInv, NEW w \in Workers, NEW d \in Domains, Claim(w, d) PROVE GateInv'
<1> USE DEF GateInv, Claim
<1>1. TypeOK'
  BY DEF TypeOK, PCs
<1>2. TableInv' /\ HeldInv' /\ ReadyInv' /\ PageLimit'
  BY DEF TypeOK, TableInv, HeldInv, Held, ReadyInv, Spaced, Unblocked, PageLimit
<1>3. QED
  BY <1>1, <1>2

LEMMA SleepKeeps == ASSUME GateInv, NEW w \in Workers, Sleep(w) \/ Wake(w) PROVE GateInv'
<1> USE DEF GateInv, Sleep, Wake
<1>1. TypeOK'
  <2>1. CASE Sleep(w)
    <3>1. CASE CanAfford(w)
      <4>0. /\ waited' = [waited EXCEPT ![w] = @ + minWait[w]]
            /\ waited[w] + minWait[w] <= Budget[w]
        BY <2>1, <3>1 DEF CanAfford
      <4>1. waited' \in [Workers -> Nat] /\ \A v \in Workers : waited'[v] <= Budget[v]
        BY ONLY <4>0, TypeOK, w \in Workers, RunAssumption DEF TypeOK
      <4>2. /\ pc' = [pc EXCEPT ![w] = "sleep"] /\ wait' = [wait EXCEPT ![w] = minWait[w]]
            /\ UNCHANGED <<frac, table, history, toCheck, ready, minWait, inHand, attempts,
                           fetched, pending, resting>>
        BY <2>1, <3>1
      <4>3. wait' \in [Workers -> Int] /\ pc' \in [Workers -> PCs]
        BY <4>2 DEF TypeOK, PCs
      <4>4. \A v \in Workers : pc'[v] \in {"request", "robots", "fetch", "block", "clear"} => pc'[v] = pc[v]
        BY <4>2 DEF TypeOK
      <4>5. QED
        BY <4>1, <4>2, <4>3, <4>4 DEF TypeOK, MaxAttempts
    <3>2. CASE ~CanAfford(w)
      <4>1. pc' = [pc EXCEPT ![w] = "done"] /\ UNCHANGED <<frac, table, history, run>>
        BY <2>1, <3>2
      <4>2. QED
        BY <4>1 DEF TypeOK, PCs, MaxAttempts
    <3>3. QED
      BY <3>1, <3>2
  <2>2. CASE Wake(w)
    BY <2>2 DEF TypeOK, PCs, MaxAttempts
  <2>3. QED
    BY <2>1, <2>2
<1>2. TableInv' /\ HeldInv' /\ ReadyInv' /\ PageLimit'
  BY DEF TypeOK, TableInv, HeldInv, Held, ReadyInv, Spaced, Unblocked, PageLimit
<1>3. QED
  BY <1>1, <1>2

\* A request takes the domain from every other worker that has looked at it.
LEMMA RequestKeeps == ASSUME GateInv, NEW w \in Workers, Request(w) PROVE GateInv'
<1> USE DEF GateInv, Request, Cross
<1>1. inHand[w] \in Domains /\ AtMost(frac, Far) \in 0 .. Far /\ AtMost(frac, Far) <= SecondTicks - 1
  BY DEF TypeOK, AtMost
<1>2. TypeOK'
  BY <1>1 DEF TypeOK, PCs, Ages
<1>3. TableInv' /\ HeldInv'
  BY <1>1 DEF TypeOK, TableInv, HeldInv, Held, Ages
<1>4. ReadyInv'
  BY <1>1 DEF TypeOK, ReadyInv, Spaced, Held, Unblocked
<1>5. PageLimit'
  BY DEF TypeOK, PageLimit
<1>6. QED
  BY <1>2, <1>3, <1>4, <1>5

\* The page that is requested at last was put on record before whatever a worker that
\* has not been crossed has read.
LEMMA SendKeeps == ASSUME GateInv, NEW w \in Workers, Send(w) PROVE GateInv'
<1> USE DEF GateInv, Send
<1>1. inHand[w] \in Domains /\ late[w] \in Ages /\ Held(w, inHand[w])
  BY DEF TypeOK, Held
<1>2. TypeOK'
  BY <1>1 DEF TypeOK, PCs, Ages
<1>3. TableInv' /\ HeldInv'
  BY <1>1 DEF TypeOK, TableInv, HeldInv, Held
<1>4. ReadyInv'
  BY <1>1 DEF TypeOK, ReadyInv, Spaced, Held, Unblocked
<1>5. PageLimit'
  BY DEF TypeOK, PageLimit
<1>6. QED
  BY <1>2, <1>3, <1>4, <1>5

LEMMA AnswerKeeps ==
    ASSUME GateInv, NEW w \in Workers, NEW r \in Responses, NEW retried \in BOOLEAN,
           Answer(w, r, retried)
    PROVE  GateInv'
<1> USE DEF GateInv, Answer
<1>1. inHand[w] \in Domains /\ RetryAfter(r) \in Int /\ fetched[w] < MaxPages[w]
  BY RetryAfterInt DEF TypeOK, PageLimit
<1>2. TypeOK'
  <2>1. smooth' \in [Workers -> BOOLEAN]
    BY Zenon DEF TypeOK
  <2>2. late' \in [Workers -> Ages]
    BY DEF TypeOK, Ages
  <2>3. fetched' \in [Workers -> Nat] /\ \A v \in Workers : fetched'[v] <= MaxPages[v]
    BY <1>1 DEF TypeOK
  <2>4. /\ pc[w] \in {"robots", "fetch"} /\ pc' \in [Workers -> PCs]
        /\ \A v \in Workers : pc'[v] \in {"request", "robots", "fetch"} => pc'[v] = pc[v]
        /\ \A v \in Workers : pc'[v] \in {"block", "clear"} =>
                                   pc'[v] = pc[v] \/ pc[v] \in {"robots", "fetch"}
    BY DEF TypeOK, PCs
  <2>5. QED
    BY <1>1, <2>1, <2>2, <2>3, <2>4 DEF TypeOK
<1>3. TableInv' /\ HeldInv' /\ ReadyInv' /\ PageLimit'
  BY DEF TypeOK, TableInv, HeldInv, Held, ReadyInv, Spaced, Unblocked, PageLimit
<1>4. QED
  BY <1>2, <1>3

\* A stored block crosses every other worker that has looked at the domain.
LEMMA StoreBlockKeeps == ASSUME GateInv, NEW w \in Workers, StoreBlock(w) PROVE GateInv'
<1> USE DEF GateInv, StoreBlock, Cross
<1>1. /\ inHand[w] \in Domains
      /\ BlockFor(wait[w]) \in Nat /\ Positive(wait[w]) \in Nat
      /\ Positive(wait[w]) <= BlockFor(wait[w]) + SecondTicks - 1
  BY BlockForCloses DEF TypeOK, Positive
<1>2. TypeOK'
  BY <1>1 DEF TypeOK, PCs
<1>3. TableInv' /\ HeldInv'
  BY <1>1 DEF TypeOK, TableInv, HeldInv, Held
<1>4. ReadyInv'
  BY <1>1 DEF TypeOK, ReadyInv, Spaced, Held, Unblocked
<1>5. PageLimit'
  BY DEF TypeOK, PageLimit
<1>6. QED
  BY <1>2, <1>3, <1>4, <1>5

\* What a worker that was not crossed lifts is over but for a fraction of a second.
LEMMA RecordSuccessKeeps == ASSUME GateInv, NEW w \in Workers, RecordSuccess(w) PROVE GateInv'
<1> USE DEF GateInv, RecordSuccess
<1>1. inHand[w] \in Domains /\ inHand[w] \in ready[w]
  BY DEF TypeOK
<1>2. TypeOK'
  BY <1>1 DEF TypeOK, PCs
<1>3. TableInv' /\ HeldInv'
  BY <1>1 DEF TypeOK, TableInv, HeldInv, Held, ReadyInv, Unblocked
<1>4. ReadyInv'
  BY <1>1 DEF TypeOK, ReadyInv, Spaced, Held, Unblocked
<1>5. PageLimit'
  BY DEF TypeOK, PageLimit
<1>6. QED
  BY <1>2, <1>3, <1>4, <1>5

LEMMA RestedKeeps ==
    ASSUME GateInv, NEW w \in Workers, NEW d \in Domains, Rested(w, d) PROVE GateInv'
<1> USE DEF GateInv, Rested
<1>1. TypeOK'
  BY DEF TypeOK
<1>2. TableInv' /\ HeldInv' /\ ReadyInv' /\ PageLimit'
  BY DEF TypeOK, TableInv, HeldInv, Held, ReadyInv, Spaced, Unblocked, PageLimit
<1>3. QED
  BY <1>1, <1>2

LEMMA LeaveKeeps == ASSUME GateInv, NEW w \in Workers, Leave(w) PROVE GateInv'
<1> USE DEF GateInv, Leave, Forget
<1>1. TypeOK'
  <2>1. late' \in [Workers -> Ages] /\ pc' \in [Workers -> PCs]
    BY DEF TypeOK, PCs, Ages
  <2>2. QED
    BY <2>1 DEF TypeOK, MaxAttempts
<1>2. TableInv' /\ HeldInv' /\ ReadyInv' /\ PageLimit'
  BY DEF TypeOK, TableInv, HeldInv, Held, ReadyInv, Spaced, Unblocked, PageLimit
<1>3. QED
  BY <1>1, <1>2

LEMMA TickKeeps == ASSUME GateInv, Tick PROVE GateInv'
<1> USE DEF GateInv, Tick, Older, Shorter, AtMost, Positive
<1>1. frac' \in 0 .. (SecondTicks - 1)
  BY ModRange DEF TypeOK
<1>2. TypeOK'
  BY <1>1 DEF TypeOK, Ages
<1>3. TableInv' /\ HeldInv'
  BY DEF TypeOK, TableInv, HeldInv, Held, Ages
<1>4. ReadyInv'
  BY DEF TypeOK, ReadyInv, Spaced, Held, Unblocked, Ages, NoRow
<1>5. PageLimit'
  BY DEF PageLimit
<1>6. QED
  BY <1>2, <1>3, <1>4, <1>5

LEMMA NextKeeps == GateInv /\ [Next]_vars => GateInv'
<1> SUFFICES ASSUME GateInv, [Next]_vars PROVE GateInv'
  OBVIOUS
<1>1. ASSUME NEW w \in Workers, Step(w) PROVE GateInv'
  BY <1>1, HeadKeeps, SleepKeeps, RequestKeeps, SendKeeps, StoreBlockKeeps, RecordSuccessKeeps,
     CreateRowKeeps, LookKeeps, ClaimKeeps, AnswerKeeps DEF Step
<1>2. CASE Tick
  BY <1>2, TickKeeps
<1>3. CASE UNCHANGED vars
  BY <1>3 DEF vars, GateInv, TypeOK, TableInv, HeldInv, Held, ReadyInv, Spaced, Unblocked,
              PageLimit, MaxAttempts
<1>4. QED
  BY <1>1, <1>2, <1>3, LeaveKeeps, BeginKeeps, RestedKeeps DEF Next

LEMMA AlwaysGateInv == Spec => []GateInv
  BY InitEstablishes, NextKeeps, PTL DEF Spec

-----------------------------------------------------------------------------
\* Every variable of the gate keeps its type; the attempts, pages and waits of a run
\* stay within the limits of its job (pipeline.py:191).
THEOREM TypeCorrect == Spec => []TypeOK
<1>1. GateInv => TypeOK
  BY DEF GateInv
<1>2. QED
  BY <1>1, AlwaysGateInv, PTL

\* A request that no other worker has crossed follows the record of the one before it by
\* the row's delay but for the fraction of a second that record_request() cuts off,
\* whatever the number of workers and however long each waits for robots.txt.
THEOREM SpacingIsKept == Spec => []SpacingKept
<1>1. GateInv => SpacingKept
  BY DEF GateInv, TypeOK, ReadyInv, Spaced, SpacingKept
<1>2. QED
  BY <1>1, AlwaysGateInv, PTL

\* A stored Retry-After holds back all but those that had already passed the gate.
THEOREM RetryAfterIsHonoured == Spec => []RetryAfterHonoured
<1>1. GateInv => RetryAfterHonoured
  BY DEF GateInv, TypeOK, ReadyInv, Unblocked, RetryAfterHonoured
<1>2. QED
  BY <1>1, AlwaysGateInv, PTL
-----------------------------------------------------------------------------
(* The waiting budget. As long as a run goes smoothly it sleeps at most    *)
(* once for a page: the domain it has slept for is ready when it wakes.    *)

\* d has a page queued, and no more than t to wait for
Due(w, d, t) ==
    pending[w][d] > 0 /\ delay[d] # NoRow /\ RowDelay(w, d) - sinceLast[d] <= t

\* turns taken and budget spent, counted in pages fetched
Spent(w, turns, sleeps) ==
    /\ attempts[w] <= 2 * fetched[w] + turns
    /\ MaxPages[w] * waited[w] <= Budget[w] * (fetched[w] + sleeps)

\* a turn begins after a page, or after the sleep for one
AtHead(w) ==
    pc[w] = "head" => \/ Spent(w, 0, 0)
                      \/ Spent(w, 1, 1) /\ \E d \in Domains : Due(w, d, 0)

\* what _ready_domains() has found, and what it has still to find
Looking(w) ==
    pc[w] = "look" =>
        /\ toCheck[w] \cup ready[w] \subseteq {d \in Domains : pending[w][d] > 0}
        /\ \A d \in Domains : pending[w][d] > 0 => d \in toCheck[w] \cup ready[w] \/ minWait[w] > 0
        /\ minWait[w] > 0 => /\ \E d \in Domains : Due(w, d, minWait[w])
                             /\ MaxPages[w] * minWait[w] <= Budget[w]
        /\ \/ Spent(w, 1, 0)
           \/ Spent(w, 2, 1) /\ \E d \in toCheck[w] \cup ready[w] : Due(w, d, 0)

Sleeping(w) == pc[w] = "sleep" => Spent(w, 1, 1) /\ \E d \in Domains : Due(w, d, wait[w])

Fetching(w) ==
    /\ pc[w] \in {"request", "robots", "fetch"} => Spent(w, 2, 1)
    /\ pc[w] = "clear" => Spent(w, 0, 0)

Drained(w) ==
    pc[w] = "done" => fetched[w] = MaxPages[w] \/ \A d \in Domains : pending[w][d] = 0

OnTrack(w) == AtHead(w) /\ Looking(w) /\ Sleeping(w) /\ Fetching(w) /\ Drained(w)

Smooth(w) == resting[w] = {} /\ pc[w] # "block" /\ \A d \in Domains : blockLeft[d] = 0

Unstarted(w) == resting[w] = {} /\ attempts[w] = 0 /\ waited[w] = 0 /\ fetched[w] = 0

BudgetOf(w) ==
    /\ pc[w] = "idle" => Unstarted(w)
    /\ smooth[w] => Smooth(w)
    /\ smooth[w] /\ Covers(w) => OnTrack(w)

BudgetInv == \A w \in Workers : BudgetOf(w)

LEMMA SpentType == ASSUME TypeOK, NEW w \in Workers
    PROVE  /\ MaxPages[w] \in Nat /\ Budget[w] \in Nat
           /\ attempts[w] \in Nat /\ waited[w] \in Nat /\ fetched[w] \in Nat /\ minWait[w] \in Nat
           /\ MaxPages[w] * waited[w] \in Nat /\ MaxPages[w] * minWait[w] \in Nat
<1>1. MaxPages[w] \in Nat /\ Budget[w] \in Nat /\ waited[w] \in Nat /\ minWait[w] \in Nat
  BY DEF TypeOK
<1>2. \A m, n \in Nat : m * n \in Nat
  OBVIOUS
<1>3. QED
  BY <1>1, <1>2 DEF TypeOK

LEMMA RowDelayType ==
    ASSUME TypeOK, NEW w \in Workers, NEW d \in Domains, delay[d] # NoRow
    PROVE  RowDelay(w, d) \in 0 .. Far /\ sinceLast[d] \in 0 .. Far
    BY DEF TypeOK, RowDelay, NoRow, Ages

\* What another worker does, unless it ends the smoothness, is of no consequence.
LEMMA OthersStay ==
    ASSUME TypeOK, NEW v \in Workers, BudgetOf(v),
           UNCHANGED <<pc[v], toCheck[v], ready[v], minWait[v], wait[v], waited[v],
                       attempts[v], fetched[v], pending[v], resting[v]>>,
           smooth'[v] => /\ smooth[v]
                         /\ UNCHANGED sinceLast
                         /\ \A d \in Domains : blockLeft[d] = 0 => blockLeft'[d] = 0
                         /\ \A d \in Domains : delay[d] # NoRow => delay'[d] = delay[d]
    PROVE  BudgetOf(v)'
<1>1. pc'[v] = "idle" => Unstarted(v)'
  BY DEF BudgetOf, Unstarted
<1>2. smooth'[v] => Smooth(v)'
  BY DEF BudgetOf, Smooth
<1>3. ASSUME smooth'[v], Covers(v)' PROVE OnTrack(v)'
  <2>1. smooth[v] /\ \A d \in Domains : delay[d] # NoRow =>
            delay'[d] = delay[d] /\ RowDelay(v, d)' = RowDelay(v, d)
    BY <1>3 DEF RowDelay
  <2>2. Covers(v)
    BY <1>3, <2>1 DEF Covers
  <2>3. \A d \in Domains : \A t : Due(v, d, t) => /\ pending'[v][d] > 0
                                                 /\ delay'[d] # NoRow
                                                 /\ RowDelay(v, d)' - sinceLast'[d] <= t
    BY <1>3, <2>1 DEF Due, NoRow
  <2>4. \A a, s : Spent(v, a, s) => /\ attempts'[v] <= 2 * fetched'[v] + a
                                    /\ MaxPages[v] * waited'[v] <= Budget[v] * (fetched'[v] + s)
    BY DEF Spent
  <2>5. OnTrack(v)
    BY <2>1, <2>2 DEF BudgetOf
  <2>6. AtHead(v)' /\ Sleeping(v)' /\ Fetching(v)' /\ Drained(v)'
    BY <2>3, <2>4, <2>5 DEF OnTrack, AtHead, Sleeping, Fetching, Drained, Due, Spent
  <2>7. Looking(v)'
    BY <2>3, <2>4, <2>5 DEF OnTrack, Looking, Due, Spent
  <2>8. QED
    BY <2>6, <2>7 DEF OnTrack
<1>4. QED
  BY <1>1, <1>2, <1>3 DEF BudgetOf

\* A turn of the loop is paid for by a page, or by the one sleep that goes with it.
LEMMA HeadBudget ==
    ASSUME GateInv, BudgetInv, NEW w \in Workers, Head(w) PROVE BudgetInv'
<1> USE DEF GateInv
<1>1. ASSUME NEW v \in Workers, v # w PROVE BudgetOf(v)'
  BY <1>1, OthersStay DEF BudgetInv, Head, Forget, TypeOK
<1>2. /\ pc'[w] = "look" \/ pc'[w] = "done"
      /\ UNCHANGED <<delay, sinceLast, blockLeft, smooth, waited, fetched, pending, resting>>
  BY DEF Head, TypeOK
<1>3. smooth'[w] => Smooth(w)'
  BY <1>2 DEF BudgetInv, BudgetOf, Smooth
<1>4. ASSUME smooth'[w], Covers(w)' PROVE OnTrack(w)'
  <2>1. Covers(w) /\ smooth[w] /\ pc[w] = "head"
    BY <1>2, <1>4 DEF Covers, RowDelay, Head
  <2>2. /\ resting[w] = {}
        /\ \/ Spent(w, 0, 0)
           \/ Spent(w, 1, 1) /\ \E d \in Domains : Due(w, d, 0)
    BY <2>1 DEF BudgetInv, BudgetOf, Smooth, OnTrack, AtHead
  <2>3. Queued(w) = {d \in Domains : pending[w][d] > 0}
    BY <2>2 DEF Queued
  <2>4. CASE fetched[w] < MaxPages[w] /\ attempts[w] < MaxAttempts(w)
    <3>1. /\ pc'[w] = "look" /\ attempts'[w] = attempts[w] + 1 /\ toCheck'[w] = Queued(w)
          /\ ready'[w] = {} /\ minWait'[w] = 0
      BY <2>4 DEF Head, Forget, TypeOK
    <3>2. \A d : Due(w, d, 0) => Due(w, d, 0)' /\ pending[w][d] > 0
      BY <1>2 DEF Due, RowDelay, NoRow
    <3>3. \/ Spent(w, 1, 0)'
          \/ Spent(w, 2, 1)' /\ \E d \in toCheck'[w] \cup ready'[w] : Due(w, d, 0)'
      BY <1>2, <2>2, <2>3, <3>1, <3>2, SpentType DEF Spent
    <3>4. Looking(w)'
      BY <1>2, <2>3, <3>1, <3>3 DEF Looking
    <3>5. QED
      BY <3>1, <3>4 DEF OnTrack, AtHead, Sleeping, Fetching, Drained
  <2>5. CASE ~(fetched[w] < MaxPages[w] /\ attempts[w] < MaxAttempts(w))
    <3>1. pc'[w] = "done"
      BY <2>5 DEF Head, TypeOK
    <3>2. attempts[w] <= 2 * fetched[w] + 1
      BY <2>2, SpentType DEF Spent
    <3>3. fetched[w] <= MaxPages[w]
      BY DEF TypeOK
    <3>4. attempts[w] \in Nat /\ fetched[w] \in Nat /\ MaxPages[w] \in Nat
      BY SpentType
    <3>5. fetched[w] = MaxPages[w]
      BY ONLY <2>5, <3>2, <3>3, <3>4 DEF MaxAttempts
    <3>6. QED
      BY <1>2, <3>1, <3>5 DEF OnTrack, AtHead, Looking, Sleeping, Fetching, Drained
  <2>6. QED
    BY <2>4, <2>5
<1>5. BudgetOf(w)'
  BY <1>2, <1>3, <1>4 DEF BudgetOf
<1>6. QED
  BY <1>1, <1>5 DEF BudgetInv

\* A run starts with its budget unspent.
LEMMA BeginBudget ==
    ASSUME GateInv, BudgetInv, NEW w \in Workers, NEW queue \in Queues, BeginRun(w, queue)
    PROVE  BudgetInv'
<1> USE DEF GateInv
<1>1. ASSUME NEW v \in Workers, v # w PROVE BudgetOf(v)'
  BY <1>1, OthersStay DEF BudgetInv, BeginRun, TypeOK
<1>2. /\ pc'[w] = "head" /\ resting'[w] = {} /\ attempts'[w] = 0 /\ waited'[w] = 0
      /\ fetched'[w] = 0 /\ UNCHANGED blockLeft
      /\ smooth'[w] => \A d \in Domains : blockLeft[d] = 0
  BY DEF BeginRun, TypeOK, BudgetInv, BudgetOf, Unstarted
<1>3. Spent(w, 0, 0)'
  BY <1>2 DEF Spent, TypeOK
<1>4. BudgetOf(w)'
  BY <1>2, <1>3 DEF BudgetOf, Smooth, OnTrack, AtHead, Looking, Sleeping, Fetching, Drained
<1>5. QED
  BY <1>1, <1>4 DEF BudgetInv

\* What a run relies on is not touched by the row another domain gets.
LEMMA CreateRowBudget ==
    ASSUME GateInv, BudgetInv, NEW w \in Workers, NEW d \in Domains, CreateRow(w, d)
    PROVE  BudgetInv'
<1>1. ASSUME NEW v \in Workers PROVE BudgetOf(v)'
  BY <1>1, OthersStay DEF GateInv, BudgetInv, CreateRow, TypeOK
<1>2. QED
  BY <1>1 DEF BudgetInv

\* Unblocked, a domain is waited for at most its delay; what is not due is ready.
LEMMA LookBudget ==
    ASSUME GateInv, BudgetInv, NEW w \in Workers, NEW d \in Domains, Look(w, d)
    PROVE  BudgetInv'
<1> USE DEF GateInv
<1>1. ASSUME NEW v \in Workers, v # w PROVE BudgetOf(v)'
  BY <1>1, OthersStay DEF BudgetInv, Look, TypeOK
<1>2. /\ pc'[w] = "look" /\ pc[w] = "look" /\ d \in toCheck[w] /\ delay[d] # NoRow
      /\ toCheck'[w] = toCheck[w] \ {d}
      /\ UNCHANGED <<delay, sinceLast, blockLeft, smooth, waited, attempts, fetched, pending, resting>>
  BY DEF Look, TypeOK
<1>3. smooth'[w] => Smooth(w)'
  BY <1>2 DEF BudgetInv, BudgetOf, Smooth
<1>4. ASSUME smooth'[w], Covers(w)' PROVE Looking(w)'
  <2>1. Covers(w) /\ smooth[w]
    BY <1>2, <1>4 DEF Covers, RowDelay
  <2>2. /\ Looking(w) /\ blockLeft[d] = 0 /\ pending[w][d] > 0
        /\ \/ Spent(w, 1, 0)
           \/ Spent(w, 2, 1) /\ \E e \in toCheck[w] \cup ready[w] : Due(w, e, 0)
    BY <1>2, <2>1 DEF BudgetInv, BudgetOf, Smooth, OnTrack, Looking
  <2>3. /\ WaitFor(w, d) = Positive(RowDelay(w, d) - sinceLast[d])
        /\ RowDelay(w, d) \in Nat /\ sinceLast[d] \in Nat
    BY <1>2, <2>2, RowDelayType DEF WaitFor
  <2>4. Spent(w, 1, 0)' = Spent(w, 1, 0) /\ Spent(w, 2, 1)' = Spent(w, 2, 1)
    BY <1>2 DEF Spent
  <2>5. \A e, t : Due(w, e, t)' = Due(w, e, t)
    BY <1>2 DEF Due, RowDelay, NoRow
  <2>6. CASE WaitFor(w, d) = 0
    <3>1. ready'[w] = ready[w] \cup {d} /\ minWait'[w] = minWait[w]
      BY <2>6 DEF Look, TypeOK
    <3>2. toCheck'[w] \cup ready'[w] = toCheck[w] \cup ready[w]
      BY <1>2, <3>1
    <3>3. QED
      BY <1>2, <2>2, <2>4, <2>5, <3>1, <3>2 DEF Looking, Due
  <2>7. CASE WaitFor(w, d) # 0
    <3>1. /\ ready'[w] = ready[w] /\ minWait[w] \in Nat
          /\ minWait'[w] = IF minWait[w] = 0 THEN WaitFor(w, d)
                                             ELSE AtMost(minWait[w], WaitFor(w, d))
      BY <2>7 DEF Look, TypeOK
    <3>2. WaitFor(w, d) = RowDelay(w, d) - sinceLast[d] /\ WaitFor(w, d) \in Nat \ {0}
      BY <2>3, <2>7 DEF Positive
    <3>3. minWait'[w] > 0 /\ (minWait'[w] = WaitFor(w, d) \/ minWait'[w] = minWait[w])
      BY <3>1, <3>2 DEF AtMost
    <3>4. Due(w, d, WaitFor(w, d))
      BY <1>2, <2>2, <3>2 DEF Due
    <3>5. MaxPages[w] * WaitFor(w, d) <= Budget[w]
      <4>1. MaxPages[w] * RowDelay(w, d) <= Budget[w] /\ WaitFor(w, d) <= RowDelay(w, d)
        BY <1>2, <2>1, <2>3, <3>2 DEF Covers
      <4>2. \A m, a, b \in Nat : a <= b => m * a <= m * b
        OBVIOUS
      <4>3. \A m, a \in Nat : m * a \in Nat
        OBVIOUS
      <4>4. MaxPages[w] \in Nat /\ Budget[w] \in Nat
        BY SpentType
      <4>5. MaxPages[w] * WaitFor(w, d) <= MaxPages[w] * RowDelay(w, d)
        BY <2>3, <3>2, <4>1, <4>2, <4>4
      <4>6. MaxPages[w] * WaitFor(w, d) \in Nat /\ MaxPages[w] * RowDelay(w, d) \in Nat
        BY <2>3, <3>2, <4>3, <4>4
      <4>7. QED
        BY <4>1, <4>4, <4>5, <4>6
    <3>6. MaxPages[w] * minWait'[w] <= Budget[w] /\ \E e \in Domains : Due(w, e, minWait'[w])
      <4>1. CASE minWait'[w] = WaitFor(w, d)
        BY <3>4, <3>5, <4>1
      <4>2. CASE minWait'[w] = minWait[w]
        BY <1>2, <2>2, <3>3, <4>2 DEF Looking
      <4>3. QED
        BY <3>3, <4>1, <4>2
    <3>7. \A e : Due(w, e, 0) => e # d
      BY <2>3, <3>2 DEF Due
    <3>8. QED
      BY <1>2, <2>2, <2>4, <2>5, <3>1, <3>3, <3>6, <3>7 DEF Looking
  <2>8. QED
    BY <2>6, <2>7
<1>5. BudgetOf(w)'
  BY <1>2, <1>3, <1>4 DEF BudgetOf, OnTrack, AtHead, Sleeping, Fetching, Drained
<1>6. QED
  BY <1>1, <1>5 DEF BudgetInv

LEMMA ClaimBudget ==
    ASSUME GateInv, BudgetInv, NEW w \in Workers, NEW d \in Domains, Claim(w, d)
    PROVE  BudgetInv'
<1> USE DEF GateInv
<1>1. ASSUME NEW v \in Workers, v # w PROVE BudgetOf(v)'
  BY <1>1, OthersStay DEF BudgetInv, Claim, TypeOK
<1>2. /\ pc[w] = "look" /\ pc'[w] = "request"
      /\ UNCHANGED <<delay, sinceLast, blockLeft, smooth, waited, attempts, fetched, resting>>
  BY DEF Claim, TypeOK
<1>3. smooth'[w] => Smooth(w)'
  BY <1>2 DEF BudgetInv, BudgetOf, Smooth
<1>4. ASSUME smooth'[w], Covers(w)' PROVE Spent(w, 2, 1)'
  <2>1. Covers(w) /\ smooth[w]
    BY <1>2, <1>4 DEF Covers, RowDelay
  <2>2. Spent(w, 1, 0) \/ Spent(w, 2, 1)
    BY <1>2, <2>1 DEF BudgetInv, BudgetOf, OnTrack, Looking
  <2>3. Spent(w, 1, 0) => Spent(w, 2, 1)
    <3>1. \A b, f \in Nat : b * f \in Nat /\ b * (f + 0) = b * f /\ b * (f + 1) = b * f + b
      OBVIOUS
    <3>2. QED
      BY <3>1, SpentType DEF Spent
  <2>4. QED
    BY <1>2, <2>2, <2>3 DEF Spent
<1>5. BudgetOf(w)'
  BY <1>2, <1>3, <1>4 DEF BudgetOf, OnTrack, AtHead, Looking, Sleeping, Fetching, Drained
<1>6. QED
  BY <1>1, <1>5 DEF BudgetInv

\* What is left of the budget short of the page limit is enough for one more sleep.
LEMMA Affordable ==
    ASSUME NEW pages \in Nat, NEW budget \in Nat, NEW slept \in Nat, NEW got \in Nat,
           NEW sleep \in Nat \ {0},
           pages * slept <= budget * got, pages * sleep <= budget, got < pages
    PROVE  /\ pages * (slept + sleep) <= budget * (got + 1)
           /\ budget > 0 /\ slept + sleep <= budget
<1>1. \A m, a, b \in Nat : m * (a + b) = m * a + m * b /\ m * a \in Nat
  OBVIOUS
<1>2. pages * (slept + sleep) = pages * slept + pages * sleep /\ budget * (got + 1) = budget * got + budget
  BY <1>1
<1>3. pages * (slept + sleep) <= budget * (got + 1)
  BY <1>1, <1>2
<1>4. \A m, a, b \in Nat : a <= b => m * a <= m * b
  OBVIOUS
<1>5. budget * (got + 1) <= budget * pages
  BY <1>4
<1>6. \A m, a, b \in Nat : m > 0 /\ m * a <= m * b => a <= b
  OBVIOUS
<1>7. \A m, a \in Nat : m * a = a * m
  OBVIOUS
<1>8. pages * (slept + sleep) <= pages * budget
  BY <1>1, <1>3, <1>5, <1>7
<1>9. slept + sleep <= budget
  BY <1>6, <1>8
<1>10. QED
  BY <1>3, <1>9

\* A run sleeps only for a domain it has a page of, and never right after a sleep.
LEMMA SleepBudget ==
    ASSUME GateInv, BudgetInv, NEW w \in Workers, Sleep(w) PROVE BudgetInv'
<1> USE DEF GateInv
<1>1. ASSUME NEW v \in Workers, v # w PROVE BudgetOf(v)'
  BY <1>1, OthersStay DEF BudgetInv, Sleep, TypeOK
<1>2. /\ pc[w] = "look" /\ pc'[w] \in {"sleep", "done"} /\ toCheck[w] = {}
      /\ \A d \in ready[w] : pending[w][d] = 0
      /\ UNCHANGED <<delay, sinceLast, blockLeft, smooth, attempts, fetched, pending, resting, minWait>>
  BY DEF Sleep, TypeOK
<1>3. smooth'[w] => Smooth(w)'
  BY <1>2 DEF BudgetInv, BudgetOf, Smooth
<1>4. ASSUME smooth'[w], Covers(w)' PROVE OnTrack(w)'
  <2>1. Covers(w) /\ smooth[w]
    BY <1>2, <1>4 DEF Covers, RowDelay
  <2>2. Looking(w) /\ fetched[w] < MaxPages[w]
    BY <1>2, <2>1 DEF BudgetInv, BudgetOf, OnTrack, PageLimit
  <2>3. /\ ready[w] = {}
        /\ Spent(w, 1, 0)
        /\ \A d \in Domains : pending[w][d] > 0 => minWait[w] > 0
        /\ minWait[w] > 0 => /\ \E d \in Domains : Due(w, d, minWait[w])
                             /\ MaxPages[w] * minWait[w] <= Budget[w]
    BY <1>2, <2>2 DEF Looking
  <2>4. ASSUME minWait[w] > 0
        PROVE  /\ MaxPages[w] * (waited[w] + minWait[w]) <= Budget[w] * (fetched[w] + 1)
               /\ CanAfford(w)
    <3>1. MaxPages[w] * waited[w] <= Budget[w] * fetched[w]
      BY <2>3, SpentType DEF Spent
    <3>2. MaxPages[w] \in Nat /\ Budget[w] \in Nat /\ waited[w] \in Nat /\ fetched[w] \in Nat
          /\ minWait[w] \in Nat \ {0}
      BY <2>4, SpentType
    <3>3. QED
      BY <2>2, <2>3, <2>4, <3>1, <3>2, Affordable DEF CanAfford
  <2>5. CASE CanAfford(w)
    <3>1. pc'[w] = "sleep" /\ wait'[w] = minWait[w] /\ waited'[w] = waited[w] + minWait[w]
      BY <2>5 DEF Sleep, TypeOK
    <3>2. minWait[w] > 0
      BY <2>5 DEF CanAfford
    <3>3. attempts[w] <= 2 * fetched[w] + 1
      BY <2>3 DEF Spent
    <3>4. Spent(w, 1, 1)'
      BY <1>2, <2>4, <3>1, <3>2, <3>3 DEF Spent
    <3>5. \E d \in Domains : Due(w, d, wait[w])'
      BY <1>2, <2>3, <3>1, <3>2 DEF Due, RowDelay, NoRow
    <3>6. QED
      BY <3>1, <3>4, <3>5 DEF OnTrack, AtHead, Looking, Sleeping, Fetching, Drained
  <2>6. CASE ~CanAfford(w)
    <3>1. pc'[w] = "done"
      BY <2>6 DEF Sleep, TypeOK
    <3>2. \A d \in Domains : pending'[w][d] = 0
      BY <1>2, <2>3, <2>4, <2>6 DEF TypeOK
    <3>3. QED
      BY <3>1, <3>2 DEF OnTrack, AtHead, Looking, Sleeping, Fetching, Drained
  <2>7. QED
    BY <2>5, <2>6
<1>5. BudgetOf(w)'
  BY <1>2, <1>3, <1>4 DEF BudgetOf
<1>6. QED
  BY <1>1, <1>5 DEF BudgetInv

LEMMA WakeBudget == ASSUME GateInv, BudgetInv, NEW w \in Workers, Wake(w) PROVE BudgetInv'
<1> USE DEF GateInv
<1>1. ASSUME NEW v \in Workers, v # w PROVE BudgetOf(v)'
  BY <1>1, OthersStay DEF BudgetInv, Wake, TypeOK
<1>2. /\ pc[w] = "sleep" /\ pc'[w] = "head" /\ wait[w] <= 0 /\ wait[w] \in Int
      /\ UNCHANGED <<delay, sinceLast, blockLeft, smooth, waited, attempts, fetched, pending, resting>>
  BY DEF Wake, TypeOK
<1>3. smooth'[w] => Smooth(w)'
  BY <1>2 DEF BudgetInv, BudgetOf, Smooth
<1>4. ASSUME smooth'[w], Covers(w)' PROVE AtHead(w)'
  <2>1. Covers(w) /\ smooth[w]
    BY <1>2, <1>4 DEF Covers, RowDelay
  <2>2. Spent(w, 1, 1) /\ \E d \in Domains : Due(w, d, wait[w])
    BY <1>2, <2>1 DEF BudgetInv, BudgetOf, OnTrack, Sleeping
  <2>3. \A d \in Domains : Due(w, d, wait[w]) => Due(w, d, 0)
    BY <1>2, RowDelayType DEF Due
  <2>4. QED
    BY <1>2, <2>2, <2>3 DEF AtHead, Spent, Due, RowDelay, NoRow
<1>5. BudgetOf(w)'
  BY <1>2, <1>3, <1>4 DEF BudgetOf, OnTrack, Looking, Sleeping, Fetching, Drained
<1>6. QED
  BY <1>1, <1>5 DEF BudgetInv

\* Another worker's request on record ends the smoothness of everybody else's run.
LEMMA RequestBudget ==
    ASSUME GateInv, BudgetInv, NEW w \in Workers, Request(w) \/ Send(w) \/ StoreBlock(w)
    PROVE  BudgetInv'
<1> USE DEF GateInv
<1>1. ASSUME NEW v \in Workers, v # w PROVE BudgetOf(v)'
  BY <1>1, OthersStay DEF BudgetInv, Request, Send, StoreBlock, TypeOK
<1>2. BudgetOf(w)'
  <2>1. CASE Request(w) \/ Send(w)
    <3>1. /\ pc[w] \in {"request", "robots"} /\ pc'[w] \in {"robots", "fetch"}
          /\ smooth'[w] = smooth[w]
          /\ UNCHANGED <<delay, blockLeft, waited, attempts, fetched, pending, resting>>
      BY <2>1 DEF Request, Send, TypeOK
    <3>2. Covers(w)' => Covers(w)
      BY <3>1 DEF Covers, RowDelay
    <3>3. QED
      BY <3>1, <3>2 DEF BudgetInv, BudgetOf, Smooth, OnTrack, AtHead, Looking, Sleeping, Fetching,
                        Drained, Spent
  <2>2. CASE StoreBlock(w)
    BY <2>2 DEF StoreBlock, TypeOK, BudgetInv, BudgetOf, Smooth
  <2>3. QED
    BY <2>1, <2>2
<1>3. QED
  BY <1>1, <1>2 DEF BudgetInv

\* A page pays for the turns and the sleep before it.
LEMMA AnswerBudget ==
    ASSUME GateInv, BudgetInv, NEW w \in Workers, NEW r \in Responses, NEW retried \in BOOLEAN,
           Answer(w, r, retried)
    PROVE  BudgetInv'
<1> USE DEF GateInv
<1>1. ASSUME NEW v \in Workers, v # w PROVE BudgetOf(v)'
  BY <1>1, OthersStay DEF BudgetInv, Answer, TypeOK
<1>2. /\ pc[w] \in {"robots", "fetch"} /\ pc'[w] \in {"clear", "block", "head"}
      /\ fetched'[w] = fetched[w] + 1
      /\ smooth'[w] => smooth[w] /\ Succeeds(r)
      /\ Succeeds(r) => pc'[w] = "clear" /\ resting' = resting
      /\ UNCHANGED <<delay, sinceLast, blockLeft, waited, attempts, pending>>
  <2>1. smooth'[w] = (smooth[w] /\ Succeeds(r))
    BY Zenon DEF Answer, TypeOK
  <2>2. QED
    BY <2>1 DEF Answer, TypeOK
<1>3. smooth'[w] => Smooth(w)'
  BY <1>2 DEF BudgetInv, BudgetOf, Smooth
<1>4. ASSUME smooth'[w], Covers(w)' PROVE Spent(w, 0, 0)'
  <2>1. Covers(w) /\ smooth[w]
    BY <1>2, <1>4 DEF Covers, RowDelay
  <2>2. Spent(w, 2, 1)
    BY <1>2, <2>1 DEF BudgetInv, BudgetOf, OnTrack, Fetching
  <2>3. attempts[w] <= 2 * fetched[w] + 2 /\ MaxPages[w] * waited[w] <= Budget[w] * (fetched[w] + 1)
    BY <2>2 DEF Spent
  <2>4. attempts[w] \in Nat /\ fetched[w] \in Nat
    BY SpentType
  <2>5. fetched'[w] + 0 = fetched[w] + 1 /\ attempts[w] <= 2 * fetched'[w] + 0
    BY <1>2, <2>3, <2>4
  <2>6. QED
    BY <1>2, <2>3, <2>5 DEF Spent
<1>5. BudgetOf(w)'
  BY <1>2, <1>3, <1>4 DEF BudgetOf, OnTrack, AtHead, Looking, Sleeping, Fetching, Drained
<1>6. QED
  BY <1>1, <1>5 DEF BudgetInv

LEMMA RecordSuccessBudget ==
    ASSUME GateInv, BudgetInv, NEW w \in Workers, RecordSuccess(w) PROVE BudgetInv'
<1> USE DEF GateInv
<1>1. ASSUME NEW v \in Workers, v # w PROVE BudgetOf(v)'
  BY <1>1, OthersStay DEF BudgetInv, RecordSuccess, TypeOK
<1>2. /\ pc[w] = "clear" /\ pc'[w] = "head" /\ inHand[w] \in Domains
      /\ \A d \in Domains : blockLeft[d] = 0 => blockLeft'[d] = 0
      /\ UNCHANGED <<delay, smooth, waited, attempts, fetched, resting>>
  BY DEF RecordSuccess, TypeOK
<1>3. Covers(w)' => Covers(w)
  BY <1>2 DEF Covers, RowDelay
<1>4. BudgetOf(w)'
  BY <1>2, <1>3 DEF BudgetInv, BudgetOf, Smooth, OnTrack, AtHead, Looking, Sleeping, Fetching,
                    Drained, Spent
<1>5. QED
  BY <1>1, <1>4 DEF BudgetInv

\* Rows that back off have failed before.
LEMMA RestedBudget ==
    ASSUME GateInv, BudgetInv, NEW w \in Workers, NEW d \in Domains, Rested(w, d)
    PROVE  BudgetInv'
<1> USE DEF GateInv
<1>1. ASSUME NEW v \in Workers, v # w PROVE BudgetOf(v)'
  BY <1>1, OthersStay DEF BudgetInv, Rested, TypeOK
<1>2. BudgetOf(w)'
  BY DEF Rested, BudgetInv, BudgetOf, Smooth, Unstarted
<1>3. QED
  BY <1>1, <1>2 DEF BudgetInv

LEMMA LeaveBudget ==
    ASSUME GateInv, BudgetInv, NEW w \in Workers, Leave(w) PROVE BudgetInv'
<1> USE DEF GateInv
<1>1. ASSUME NEW v \in Workers, v # w PROVE BudgetOf(v)'
  BY <1>1, OthersStay DEF BudgetInv, Leave, Forget, TypeOK
<1>2. BudgetOf(w)'
  BY DEF Leave, Forget, TypeOK, BudgetOf, Unstarted
<1>3. QED
  BY <1>1, <1>2 DEF BudgetInv

\* Time only brings closer what a run waits for.
LEMMA TickBudget == ASSUME GateInv, BudgetInv, Tick PROVE BudgetInv'
<1> USE DEF GateInv
<1> SUFFICES ASSUME NEW w \in Workers PROVE BudgetOf(w)'
  BY DEF BudgetInv
<1>1. /\ UNCHANGED <<delay, smooth, pc, toCheck, ready, minWait, waited, attempts, fetched,
                     pending, resting>>
      /\ \A d \in Domains : blockLeft[d] = 0 => blockLeft'[d] = 0
      /\ \A d \in Domains : sinceLast'[d] = AtMost(sinceLast[d] + 1, Far)
      /\ pc[w] = "sleep" => wait'[w] = Positive(wait[w] - 1)
  BY DEF Tick, Older, Shorter, Positive, TypeOK
<1>2. ASSUME NEW d \in Domains, NEW t \in Int, Due(w, d, t)
      PROVE  /\ pending'[w][d] > 0 /\ delay'[d] # NoRow
             /\ RowDelay(w, d)' - sinceLast'[d] <= Positive(t - 1)
             /\ RowDelay(w, d)' - sinceLast'[d] <= Positive(t)
  BY <1>1, <1>2, RowDelayType DEF Due, AtMost, Positive, RowDelay, NoRow
<1>3. minWait[w] \in Nat /\ wait[w] \in Int /\ \A t \in Nat : Positive(t) = t
  BY DEF TypeOK, Positive
<1>4. \A d \in Domains : /\ Due(w, d, 0) => Due(w, d, 0)'
                         /\ Due(w, d, minWait[w]) => Due(w, d, minWait[w])'
                         /\ pc[w] = "sleep" /\ Due(w, d, wait[w]) => Due(w, d, wait[w])'
  <2>1. ASSUME NEW d \in Domains, NEW t \in Nat, Due(w, d, t)
        PROVE  pending'[w][d] > 0 /\ delay'[d] # NoRow /\ RowDelay(w, d)' - sinceLast'[d] <= t
    BY <1>2, <1>3, <2>1
  <2>2. ASSUME NEW d \in Domains
        PROVE  /\ Due(w, d, 0) => Due(w, d, 0)'
               /\ Due(w, d, minWait[w]) => Due(w, d, minWait[w])'
    BY <1>1, <1>3, <2>1 DEF Due
  <2>3. ASSUME NEW d \in Domains, pc[w] = "sleep", Due(w, d, wait[w]) PROVE Due(w, d, wait[w])'
    BY <1>1, <1>2, <1>3, <2>3 DEF Due
  <2>4. QED
    BY <2>2, <2>3
<1>5. Covers(w)' => Covers(w)
  BY <1>1 DEF Covers, RowDelay
<1>6. \A a, s : Spent(w, a, s)' = Spent(w, a, s)
  BY <1>1 DEF Spent
<1>7. smooth'[w] => Smooth(w)'
  BY <1>1 DEF BudgetInv, BudgetOf, Smooth
<1>8. ASSUME smooth[w], Covers(w)' PROVE OnTrack(w)'
  <2>1. OnTrack(w)
    BY <1>5, <1>8 DEF BudgetInv, BudgetOf
  <2>2. AtHead(w)' /\ Fetching(w)' /\ Drained(w)'
    BY <1>1, <1>4, <1>6, <2>1 DEF OnTrack, AtHead, Fetching, Drained
  <2>3. Looking(w)'
    <3>1. toCheck[w] \cup ready[w] \subseteq Domains
      BY DEF TypeOK
    <3>2. QED
      BY <1>1, <1>4, <1>6, <2>1, <3>1 DEF OnTrack, Looking
  <2>4. Sleeping(w)'
    <3>1. SUFFICES ASSUME pc[w] = "sleep" PROVE Spent(w, 1, 1) /\ \E d \in Domains : Due(w, d, wait[w])'
      BY <1>1, <1>6 DEF Sleeping
    <3>2. PICK d \in Domains : Due(w, d, wait[w])
      BY <2>1, <3>1 DEF OnTrack, Sleeping
    <3>3. Due(w, d, wait[w])'
      BY <1>4, <3>1, <3>2
    <3>4. QED
      BY <2>1, <3>1, <3>3 DEF OnTrack, Sleeping
  <2>5. QED
    BY <2>2, <2>3, <2>4 DEF OnTrack
<1>9. QED
  BY <1>1, <1>7, <1>8 DEF BudgetInv, BudgetOf, Unstarted

LEMMA NextBudget == GateInv /\ BudgetInv /\ [Next]_vars => BudgetInv'
<1> SUFFICES ASSUME GateInv, BudgetInv, [Next]_vars PROVE BudgetInv'
  OBVIOUS
<1>1. ASSUME NEW w \in Workers, Step(w) PROVE BudgetInv'
  BY <1>1, HeadBudget, SleepBudget, WakeBudget, RequestBudget, RecordSuccessBudget,
     CreateRowBudget, LookBudget, ClaimBudget, AnswerBudget DEF Step
<1>2. CASE Tick
  BY <1>2, TickBudget
<1>3. CASE UNCHANGED vars
  <2>1. ASSUME NEW w \in Workers PROVE BudgetOf(w)'
    BY <1>3, <2>1, OthersStay DEF BudgetInv, GateInv, vars
  <2>2. QED
    BY <2>1 DEF BudgetInv
<1>4. QED
  BY <1>1, <1>2, <1>3, LeaveBudget, BeginBudget, RestedBudget DEF Next

\* A run whose budget is a delay per page, and that nothing disturbs, never gives up
\* for want of budget or of turns, whatever the number of domains (pipeline.py:181).
THEOREM BudgetIsEnough == Spec => []BudgetCovers
<1>1. Init => BudgetInv
  BY DEF Init, BudgetInv, BudgetOf, Unstarted
<1>2. BudgetInv => BudgetCovers
  BY DEF BudgetInv, BudgetOf, OnTrack, Drained, BudgetCovers
<1>3. QED
  BY <1>1, <1>2, NextBudget, AlwaysGateInv, PTL DEF Spec
=============================================================================
