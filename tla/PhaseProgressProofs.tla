------------------------ MODULE PhaseProgressProofs ------------------------
(***************************************************************************)
(* What holds of PhaseProgress for every window, threshold and condition,  *)
(* and any number of candidates and of runs that are cut off.              *)
(***************************************************************************)
EXTENDS PhaseProgress, SequenceTheorems, TLAPS

PhaseInv == TypeOK /\ QuietCounted

LEMMA InitEstablishes == Init => PhaseInv
<1> SUFFICES ASSUME Init PROVE PhaseInv
  OBVIOUS
<1> USE WindowAssumption, BoundAssumption DEF Init
<1>1. TypeOK
  <2>1. log \in Seq(Rows) /\ Len(log) = 0
    BY EmptySeq
  <2>2. phase \in DOMAIN Rank
    BY DEF Rank
  <2>3. rowHigh \in BOOLEAN /\ high \in BOOLEAN /\ queued \in BOOLEAN /\ met \in BOOLEAN
    BY Zenon
  <2>4. QED
    BY <2>1, <2>2, <2>3 DEF TypeOK
<1>2. QuietCounted
  BY DEF QuietCounted
<1>3. QED
  BY <1>1, <1>2 DEF PhaseInv

\* The window after a run has recorded its row: the rows before it move up by one when
\* the window is full, and the new row comes last.
LEMMA Windowed ==
    ASSUME NEW S, NEW s \in Seq(S), NEW r \in S, NEW w \in Nat \ {0}, Len(s) <= w,
           NEW d \in {0, 1}, d = (IF Len(s) < w THEN 0 ELSE 1),
           NEW t, t = Append(IF Len(s) < w THEN s ELSE Tail(s), r)
    PROVE  /\ t \in Seq(S)
           /\ Len(t) = Len(s) + 1 - d /\ Len(t) \in 1 .. w
           /\ t[Len(t)] = r
           /\ \A i \in 1 .. (Len(t) - 1) : i + d \in 1 .. Len(s) /\ t[i] = s[i + d]
<1>1. CASE Len(s) < w
  BY <1>1
<1>2. CASE ~(Len(s) < w)
  <2>1. s # <<>> /\ Len(s) = w
    BY <1>2
  <2>2. /\ Tail(s) \in Seq(S) /\ Len(Tail(s)) = w - 1
        /\ \A i \in 1 .. (w - 1) : Tail(s)[i] = s[i + 1]
    BY <2>1
  <2>3. QED
    BY <1>2, <2>1, <2>2
<1>3. QED
  BY <1>1, <1>2

LEMMA RecordKeeps == PhaseInv /\ Record => PhaseInv'
<1> SUFFICES ASSUME PhaseInv, Record PROVE PhaseInv'
  OBVIOUS
<1> USE WindowAssumption, BoundAssumption DEF PhaseInv
<1> PICK d \in {0, 1} : d = IF Len(log) < Window THEN 0 ELSE 1
  OBVIOUS
<1>1. Row \in Rows /\ Row.new = found /\ Row.total = total
  BY DEF TypeOK, Rows, Row
<1>2. /\ log' \in Seq(Rows)
      /\ Len(log') = Len(log) + 1 - d /\ Len(log') \in 1 .. Window
      /\ log'[Len(log')] = Row
      /\ \A i \in 1 .. (Len(log') - 1) : i + d \in 1 .. Len(log) /\ log'[i] = log[i + d]
  <2>1. log \in Seq(Rows) /\ Len(log) <= Window /\ Window \in Nat \ {0}
    BY DEF TypeOK
  <2>2. log' = Append(IF Len(log) < Window THEN log ELSE Tail(log), Row)
    BY DEF Record
  <2>3. QED
    BY <1>1, <2>1, <2>2, Windowed
<1>3. /\ quiet \in 0 .. Window /\ quiet' \in 0 .. Window
      /\ best' \in 0 .. Window /\ best' >= quiet'
  BY DEF TypeOK, Record
<1>4. TypeOK'
  BY <1>2, <1>3 DEF TypeOK, Record
<1>5. ASSUME NEW k \in 1 .. Len(log'), \A i \in k .. Len(log') : Low(log'[i])
      PROVE  quiet' >= Len(log') - k + 1
  <2>1. Low(Row)
    BY <1>2, <1>5
  <2>2. quiet' = IF quiet < Window THEN quiet + 1 ELSE quiet
    BY <2>1 DEF Record
  <2>3. CASE k = Len(log')
    BY <1>2, <1>3, <2>2, <2>3
  <2>4. CASE k # Len(log')
    <3>1. k + d \in 1 .. Len(log)
      BY <1>2, <2>4
    <3>2. \A j \in (k + d) .. Len(log) : Low(log[j])
      <4> TAKE j \in (k + d) .. Len(log)
      <4>1. j - d \in k .. (Len(log') - 1) /\ (j - d) + d = j
        BY <1>2, <3>1 DEF TypeOK
      <4>2. j - d \in k .. Len(log')
        BY <1>2, <4>1
      <4>3. Low(log'[j - d])
        BY <1>5, <4>2, Zenon
      <4>4. log'[j - d] = log[j]
        <5>1. j - d \in 1 .. (Len(log') - 1)
          BY <1>2, <4>1
        <5>2. log'[j - d] = log[(j - d) + d]
          BY <1>2, <5>1, Zenon
        <5>3. QED
          BY <4>1, <5>2, Zenon
      <4>5. QED
        BY <4>3, <4>4, Zenon
    <3>3. quiet >= Len(log) - (k + d) + 1
      BY <3>1, <3>2 DEF QuietCounted
    <3>4. QED
      BY <1>2, <1>3, <2>2, <3>3 DEF TypeOK
  <2>5. QED
    BY <2>3, <2>4
<1>6. \A i \in 1 .. Len(log') : log'[i].total <= total'
  <2> TAKE i \in 1 .. Len(log')
  <2>1. total' = total /\ total \in Nat
    BY DEF Record, TypeOK
  <2>2. CASE i = Len(log')
    BY <1>1, <1>2, <2>1, <2>2
  <2>3. CASE i # Len(log')
    <3>1. i + d \in 1 .. Len(log) /\ log'[i] = log[i + d]
      BY <1>2, <2>3
    <3>2. QED
      BY <2>1, <3>1 DEF QuietCounted
  <2>4. QED
    BY <2>2, <2>3
<1>7. QuietCounted'
  <2>1. \A k \in 1 .. Len(log') :
           (\A i \in k .. Len(log') : Low(log'[i])) => quiet' >= Len(log') - k + 1
    BY <1>5
  <2>2. pc = "record" /\ pc' = "advance" /\ phase' = phase
    BY DEF Record
  <2>3. QED
    BY <1>3, <1>6, <2>1, <2>2 DEF QuietCounted, Low
<1>8. QED
  BY <1>4, <1>7

LEMMA PhaseInductive == PhaseInv /\ [Next]_vars => PhaseInv'
<1> SUFFICES ASSUME PhaseInv, [Next]_vars PROVE PhaseInv'
  OBVIOUS
<1> USE WindowAssumption, BoundAssumption DEF PhaseInv
<1>1. CASE Record
  BY <1>1, RecordKeeps
<1>2. CASE Begin
  <2>1. TypeOK'
    <3>1. rowHigh' \in BOOLEAN
      BY <1>2, Zenon DEF Begin
    <3>2. QED
      BY <1>2, <3>1 DEF Begin, TypeOK
  <2>2. QuietCounted'
    BY <1>2 DEF Begin, QuietCounted, Low
  <2>3. QED
    BY <2>1, <2>2
<1>3. CASE Bootstrap \/ Crawl
  <2>1. total' \in total .. MaxTotal /\ total' >= total /\ UNCHANGED <<log, quiet, best, phase>>
    BY <1>3 DEF Bootstrap, Crawl, TypeOK
  <2>2. TypeOK'
    BY <1>3, <2>1 DEF Bootstrap, Crawl, TypeOK
  <2>3. \A i \in 1 .. Len(log') : log'[i].total <= total'
    <3> TAKE i \in 1 .. Len(log')
    <3>1. log[i] \in Rows /\ log[i].total <= total
      BY <2>1 DEF QuietCounted, TypeOK
    <3>2. log[i].total \in Nat /\ total \in Nat /\ total' \in Nat
      BY <2>1, <3>1 DEF Rows, TypeOK
    <3>3. QED
      BY <2>1, <3>1, <3>2
  <2>4. QuietCounted'
    BY <1>3, <2>1, <2>3 DEF Bootstrap, Crawl, QuietCounted, Low
  <2>5. QED
    BY <2>2, <2>4
<1>4. CASE EnterDiscovery
  <2>1. TypeOK'
    BY <1>4 DEF EnterDiscovery, TypeOK, Rank
  <2>2. QuietCounted'
    BY <1>4 DEF EnterDiscovery, QuietCounted, Low
  <2>3. QED
    BY <2>1, <2>2
<1>5. CASE Advance
  <2>1. phase' \in DOMAIN Rank
    BY <1>5 DEF Advance, NextPhase, TypeOK, Rank
  <2>2. counted' \in 0 .. Required
    BY <1>5 DEF Advance, Streak, TypeOK
  <2>3. TypeOK'
    BY <1>5, <2>1, <2>2 DEF Advance, TypeOK
  <2>4. QuietCounted'
    BY <1>5 DEF Advance, QuietCounted, Low
  <2>5. QED
    BY <2>3, <2>4
<1>6. CASE Save \/ CutOff
  <2>1. TypeOK'
    <3>1. rowHigh' \in BOOLEAN
      BY <1>6, Zenon DEF Save, CutOff, TypeOK
    <3>2. QED
      BY <1>6, <3>1 DEF Save, CutOff, TypeOK
  <2>2. QuietCounted'
    BY <1>6 DEF Save, CutOff, QuietCounted, Low
  <2>3. QED
    BY <2>1, <2>2
<1>7. CASE UNCHANGED vars
  BY <1>7 DEF vars, TypeOK, QuietCounted, Low
<1>8. QED
  BY <1>1, <1>2, <1>3, <1>4, <1>5, <1>6, <1>7 DEF Next

\* Every variable of the phases keeps its type; the window never outgrows its size
\* (recent_discovery_runs(n=window_runs)).
THEOREM TypeCorrect == Spec => []TypeOK
<1>1. PhaseInv => TypeOK
  BY DEF PhaseInv
<1>2. QED
  BY <1>1, InitEstablishes, PhaseInductive, PTL DEF Spec

\* A verdict of is_saturated() is a row of at least MinRuns quiet runs on record.
LEMMA VerdictCounts == PhaseInv /\ Saturated => total > 0 /\ best >= MinRuns
<1> SUFFICES ASSUME PhaseInv, Saturated PROVE total > 0 /\ best >= MinRuns
  OBVIOUS
<1> USE WindowAssumption, BoundAssumption DEF PhaseInv
<1>1. 1 \in 1 .. Len(log) /\ Len(log) \in Nat /\ Len(log) >= MinRuns
  BY DEF Saturated, TypeOK
<1>2. quiet >= Len(log) - 1 + 1
  BY <1>1 DEF Saturated, QuietCounted
<1>3. best >= MinRuns
  BY <1>1, <1>2 DEF QuietCounted, TypeOK
<1>4. log[1] \in Rows /\ log[1].total # 0 /\ log[1].total <= total
  BY <1>1 DEF Saturated, QuietCounted, TypeOK
<1>5. total > 0
  BY <1>4 DEF Rows, TypeOK
<1>6. QED
  BY <1>3, <1>5

LEMMA EarnedInductive == PhaseInv /\ CompletionEarned /\ [Next]_vars => CompletionEarned'
<1> SUFFICES ASSUME PhaseInv, CompletionEarned, [Next]_vars,
                    Rank[phase'] >= Rank["validation"]
             PROVE  total' > 0 /\ best' >= MinRuns
  BY DEF CompletionEarned
<1> USE WindowAssumption, BoundAssumption
<1>1. total' >= total /\ best' >= best /\ {total, total', best, best', MinRuns} \subseteq Nat
  <2>1. TypeOK /\ TypeOK'
    BY PhaseInductive DEF PhaseInv
  <2>2. {total, total', quiet', best, best', MinRuns} \subseteq Nat
    BY <2>1 DEF TypeOK
  <2>3. total' = total \/ total' \in total .. MaxTotal
    BY DEF Next, vars, Begin, Bootstrap, EnterDiscovery, Crawl, Record, Advance, Save, CutOff
  <2>4. best' = best \/ best' = IF best < quiet' THEN quiet' ELSE best
    BY DEF Next, vars, Begin, Bootstrap, EnterDiscovery, Crawl, Record, Advance, Save, CutOff
  <2>5. QED
    BY <2>2, <2>3, <2>4
<1>2. total > 0 /\ best >= MinRuns
  <2>1. CASE phase' = phase
    BY <2>1 DEF CompletionEarned
  <2>2. CASE EnterDiscovery
    BY <2>2 DEF EnterDiscovery, Rank
  <2>3. CASE Advance
    <3>1. CASE phase \in {"discovery", "collect"}
      <4>1. Saturated
        BY <2>3, <3>1 DEF Advance, NextPhase, Rank
      <4>2. QED
        BY <4>1, VerdictCounts
    <3>2. CASE phase \in {"validation", "phase1_complete", "incremental"}
      BY <3>2 DEF CompletionEarned, Rank
    <3>3. CASE phase = "bootstrap"
      BY <2>3, <3>3 DEF Advance, PhaseInv, QuietCounted
    <3>4. QED
      BY <3>1, <3>2, <3>3 DEF PhaseInv, TypeOK, Rank
  <2>4. QED
    BY <2>1, <2>2, <2>3 DEF Next, vars, Begin, Bootstrap, Crawl, Record, Save, CutOff
<1>3. QED
  BY <1>1, <1>2

\* Phase 1 is never left because discovery has not been tried (_advance_phase(),
\* is_saturated()), for every configuration of the conditions and whichever runs die.
THEOREM CompletionIsEarned == Spec => []CompletionEarned
<1>1. Init => CompletionEarned
  BY DEF Init, CompletionEarned, Rank
<1>2. QED
  BY <1>1, InitEstablishes, PhaseInductive, EarnedInductive, PTL DEF Spec

\* The phase moves one step at a time and never back (set_phase() in run_once() and
\* _advance_phase()).
THEOREM PhasesGoForward == Spec => PhaseForward
<1>1. PhaseInv /\ [Next]_vars => [Rank[phase'] \in {Rank[phase], Rank[phase] + 1}]_vars
  <2> SUFFICES ASSUME PhaseInv, Next
               PROVE  Rank[phase'] \in {Rank[phase], Rank[phase] + 1}
    OBVIOUS
  <2>1. CASE phase' = phase
    BY <2>1
  <2>2. CASE EnterDiscovery
    BY <2>2 DEF EnterDiscovery, PhaseInv, QuietCounted, Rank
  <2>3. CASE Advance
    BY <2>3 DEF Advance, NextPhase, Rank
  <2>4. QED
    BY <2>1, <2>2, <2>3 DEF Next, Begin, Bootstrap, Crawl, Record, Save, CutOff
<1>2. QED
  BY <1>1, InitEstablishes, PhaseInductive, PTL DEF Spec, PhaseForward
=============================================================================
