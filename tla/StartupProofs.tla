---------------------------- MODULE StartupProofs ----------------------------
(***************************************************************************)
(* Startup: whoever has the database open sees the whole schema, for any   *)
(* number of processes, migrations and crashes. The invariant is           *)
(* OnWholeSchema with AllProgress, how far each process has got.           *)
(***************************************************************************)
EXTENDS Startup, TLAPS

Inv == TypeOK /\ OnWholeSchema /\ AllProgress

\* No statement undoes another one, and no version is taken off the record.
LEMMA OnlyGrows ==
    ASSUME Next
    PROVE  effective \subseteq effective' /\ recorded \subseteq recorded'
  BY DEF Next, Step, Start, ReadApplied, NextFile, Execute, Insert, Crash

\* The columns of schema_migrations and the variables of the processes keep their types.
LEMMA TypeInductive == TypeOK /\ [Next]_vars => TypeOK'
<1> USE LastAssumption, StatementsAssumption
<1> SUFFICES ASSUME TypeOK, [Next]_vars PROVE TypeOK'
  OBVIOUS
<1>1. ASSUME NEW p \in Processes, Start(p) PROVE TypeOK'
  BY <1>1 DEF TypeOK, Start, Goto, Versions
<1>2. ASSUME NEW p \in Processes, ReadApplied(p) PROVE TypeOK'
  BY <1>2 DEF TypeOK, ReadApplied, Goto, Versions
<1>3. ASSUME NEW p \in Processes, NextFile(p) PROVE TypeOK'
  <2> USE <1>3 DEF TypeOK, NextFile, Goto, Versions
  <2>1. version[p] <= Last => version[p] \in Versions /\ 1 <= Statements[version[p]]
    OBVIOUS
  <2>2. pc' \in [Processes -> {"down", "read", "next", "script", "insert", "open"}]
    OBVIOUS
  <2>3. version' \in [Processes -> 1 .. Last + 1] /\ stmt' \in [Processes -> Nat \ {0}]
    BY <2>1
  <2>4. \A q \in Processes : pc'[q] \in {"script", "insert"} => version'[q] \in Versions
    BY <2>1
  <2>5. \A q \in Processes : pc'[q] = "script" => stmt'[q] <= Statements[version'[q]]
    BY <2>1
  <2> QED  BY <2>2, <2>3, <2>4, <2>5
<1>4. ASSUME NEW p \in Processes, Execute(p) PROVE TypeOK'
  <2>1. <<version[p], stmt[p]>> \in Whole(version[p]) /\ version[p] \in Versions
    BY <1>4 DEF TypeOK, Execute, Whole, Versions
  <2>2. effective' \subseteq UNION {Whole(v) : v \in Versions}
    BY <1>4, <2>1 DEF TypeOK, Execute
  <2> QED  BY <1>4, <2>2 DEF TypeOK, Execute, Goto, Versions
<1>5. ASSUME NEW p \in Processes, Insert(p) PROVE TypeOK'
  <2> USE <1>5 DEF TypeOK, Insert, Goto, Versions
  <2>1. version[p] \in Versions /\ version[p] + 1 \in 1 .. Last + 1
    OBVIOUS
  <2>2. version' \in [Processes -> 1 .. Last + 1] /\ recorded' \subseteq Versions
    BY <2>1
  <2>3. \A q \in Processes : pc'[q] \in {"script", "insert"} =>
            q # p /\ version'[q] = version[q] /\ pc[q] = pc'[q]
    OBVIOUS
  <2> QED  BY <2>2, <2>3
<1>6. ASSUME NEW p \in Processes, Crash(p) PROVE TypeOK'
  BY <1>6 DEF TypeOK, Crash, Goto, Versions
<1>7. CASE UNCHANGED vars
  BY <1>7 DEF TypeOK, vars
<1> QED  BY <1>1, <1>2, <1>3, <1>4, <1>5, <1>6, <1>7 DEF Next, Step

\* Every process knows of no more than is recorded, and has what it has been through.
LEMMA ProgressInductive == Inv /\ [Next]_vars => AllProgress'
<1> USE LastAssumption, StatementsAssumption
<1> SUFFICES ASSUME Inv, [Next]_vars, NEW q \in Processes PROVE Progress(q)'
  BY DEF AllProgress
<1>0. Progress(q)
  BY DEF Inv, AllProgress
<1>1. CASE UNCHANGED vars
  BY <1>0, <1>1 DEF Progress, vars, Whole
<1>2. ASSUME NEW p \in Processes, Step(p) \/ Crash(p), p # q PROVE Progress(q)'
  <2>1. UNCHANGED <<pc[q], applied[q], version[q], stmt[q]>>
    BY <1>2 DEF Inv, TypeOK, Step, Start, ReadApplied, NextFile, Execute, Insert, Crash, Goto
  <2>2. effective \subseteq effective' /\ recorded \subseteq recorded'
    BY <1>2, OnlyGrows DEF Next
  <2> QED  BY <1>0, <2>1, <2>2 DEF Progress, Whole
<1>3. CASE Start(q)
  BY <1>3 DEF Start, Goto, Progress, Inv, TypeOK
<1>4. CASE ReadApplied(q)
  BY <1>4 DEF ReadApplied, Goto, Progress, Inv, TypeOK
<1>5. CASE NextFile(q)
  <2> USE DEF Inv, TypeOK, NextFile, Goto, Versions
  <2>1. CASE version[q] > Last
    BY <1>0, <1>5, <2>1 DEF Progress
  <2>2. CASE version[q] <= Last /\ IsApplied(q, version[q])
    <3>1. version[q] \in recorded
      BY <1>0, <1>5, <2>2 DEF Progress, IsApplied
    <3>2. Whole(version[q]) \subseteq effective
      BY <3>1 DEF OnWholeSchema
    <3>3. \A u \in 1 .. version[q] : Whole(u) \subseteq effective
      <4>1. \A u \in 1 .. version[q] : u = version[q] \/ u \in 1 .. version[q] - 1
        BY DEF Versions
      <4> QED  BY <1>0, <1>5, <3>2, <4>1 DEF Progress
    <3>4. /\ version'[q] = version[q] + 1 /\ pc'[q] = "next" /\ applied'[q] = applied[q]
          /\ recorded' = recorded /\ effective' = effective /\ version[q] + 1 - 1 = version[q]
      BY <1>5, <2>2
    <3>5. applied[q] \subseteq recorded
      BY <1>0, <1>5 DEF Progress
    <3> QED  BY <3>3, <3>4, <3>5 DEF Progress, Whole
  <2>3. CASE version[q] <= Last /\ ~IsApplied(q, version[q])
    <3>1. {version[q]} \X (1 .. 0) \subseteq effective
      OBVIOUS
    <3> QED  BY <1>0, <1>5, <2>3, <3>1 DEF Progress, Whole
  <2> QED  BY <1>5, <2>1, <2>2, <2>3
<1>6. CASE Execute(q)
  <2> DEFINE v == version[q]
             k == stmt[q]
  <2>1. /\ v \in Versions /\ k \in Nat \ {0} /\ k <= Statements[v] /\ Statements[v] \in Nat
        /\ {v} \X (1 .. k - 1) \subseteq effective
    BY <1>0, <1>6 DEF Execute, Progress, Inv, TypeOK, Versions
  <2>2. {v} \X (1 .. k) \subseteq effective'
    BY <1>6, <2>1 DEF Execute
  <2>3. /\ version'[q] = v /\ applied'[q] = applied[q] /\ stmt'[q] = k + 1
        /\ recorded' = recorded /\ effective \subseteq effective'
        /\ pc'[q] = IF k = Statements[v] THEN "insert" ELSE "script"
    BY <1>6 DEF Execute, Goto, Inv, TypeOK
  <2>4. applied[q] \subseteq recorded /\ \A u \in 1 .. v - 1 : Whole(u) \subseteq effective
    BY <1>0, <1>6 DEF Execute, Progress
  <2>5. k + 1 - 1 = k
    BY <2>1
  <2> QED  BY <2>1, <2>2, <2>3, <2>4, <2>5 DEF Progress, Whole
<1>7. CASE Insert(q)
  <2>1. CASE version[q] \in recorded
    BY <1>7, <2>1 DEF Insert, Goto, Progress, Inv, TypeOK
  <2>2. CASE version[q] \notin recorded
    <3>1. \A u \in 1 .. version[q] : u = version[q] \/ u \in 1 .. version[q] - 1
      BY DEF Inv, TypeOK, Versions
    <3>2. /\ applied[q] \subseteq recorded
          /\ \A u \in 1 .. version[q] : Whole(u) \subseteq effective
      BY <1>0, <1>7, <3>1 DEF Insert, Progress
    <3>3. /\ version'[q] = version[q] + 1 /\ pc'[q] = "next" /\ applied'[q] = applied[q]
          /\ recorded \subseteq recorded' /\ effective' = effective
          /\ version'[q] - 1 = version[q]
      BY <1>7, <2>2 DEF Insert, Goto, Inv, TypeOK, Versions
    <3>4. applied'[q] \subseteq recorded'
      BY <3>2, <3>3
    <3>5. \A u \in 1 .. version'[q] - 1 : Whole(u) \subseteq effective'
      BY <3>2, <3>3
    <3> QED  BY <3>3, <3>4, <3>5 DEF Progress, Whole
  <2> QED  BY <2>1, <2>2
<1>8. CASE Crash(q)
  BY <1>8 DEF Crash, Goto, Progress, Inv, TypeOK
<1> QED  BY <1>1, <1>2, <1>3, <1>4, <1>5, <1>6, <1>7, <1>8 DEF Next, Step

\* A script is begun by a process that has been through all earlier ones, and recorded
\* by one that has been through it.
LEMMA WholeInductive == Inv /\ [Next]_vars => OnWholeSchema'
<1> USE LastAssumption, StatementsAssumption
<1> SUFFICES ASSUME Inv, [Next]_vars PROVE OnWholeSchema'
  OBVIOUS
<1>1. CASE UNCHANGED vars
  BY <1>1 DEF Inv, OnWholeSchema, vars, Whole
<1>2. ASSUME Next PROVE OnWholeSchema'
  <2>1. effective \subseteq effective' /\ recorded \subseteq recorded'
    BY <1>2, OnlyGrows
  <2>2. \A v \in recorded' : Whole(v)' \subseteq effective'
    <3> SUFFICES ASSUME NEW v \in recorded', v \notin recorded PROVE Whole(v) \subseteq effective
      BY <2>1 DEF Inv, OnWholeSchema, Whole
    <3>1. PICK p \in Processes : Insert(p) /\ v = version[p]
      BY <1>2 DEF Next, Step, Start, ReadApplied, NextFile, Execute, Insert, Crash
    <3> QED  BY <3>1 DEF Inv, AllProgress, Progress, Insert
  <2>3. \A e \in effective' : \A v \in 1 .. e[1] - 1 : Whole(v)' \subseteq effective'
    <3> SUFFICES ASSUME NEW e \in effective', e \notin effective, NEW v \in 1 .. e[1] - 1
                 PROVE  Whole(v) \subseteq effective
      BY <2>1 DEF Inv, OnWholeSchema, Whole
    <3>1. PICK p \in Processes : Execute(p) /\ e = <<version[p], stmt[p]>>
      BY <1>2 DEF Next, Step, Start, ReadApplied, NextFile, Execute, Insert, Crash
    <3> QED  BY <3>1 DEF Inv, AllProgress, Progress, Execute
  <2>4. \A p \in Processes : pc'[p] = "open" => \A v \in Versions : Whole(v)' \subseteq effective'
    <3> SUFFICES ASSUME NEW p \in Processes, pc'[p] = "open", NEW v \in Versions
                 PROVE  Whole(v)' \subseteq effective'
      OBVIOUS
    <3>1. Progress(p)'
      BY ProgressInductive DEF AllProgress
    <3> QED  BY <3>1 DEF Progress, Versions
  <2> QED  BY <2>2, <2>3, <2>4 DEF OnWholeSchema
<1> QED  BY <1>1, <1>2

LEMMA InitEstablishes == Init => Inv
<1> USE LastAssumption, StatementsAssumption
<1> SUFFICES ASSUME Init PROVE Inv
  OBVIOUS
<1>1. PICK n \in 0 .. Last : recorded = 1 .. n /\ effective = UNION {Whole(v) : v \in 1 .. n}
  BY DEF Init
<1>2. TypeOK
  BY <1>1 DEF Init, TypeOK, Versions
<1>3. \A e \in effective : e[1] \in 1 .. n
  BY <1>1 DEF Whole
<1>4. OnWholeSchema
  BY <1>1, <1>3 DEF Init, OnWholeSchema
<1>5. AllProgress
  BY DEF Init, AllProgress, Progress
<1> QED  BY <1>2, <1>4, <1>5 DEF Inv

LEMMA Invariance == Spec => []Inv
<1>1. Inv /\ [Next]_vars => Inv'
  BY TypeInductive, ProgressInductive, WholeInductive DEF Inv
<1> QED  BY <1>1, InitEstablishes, PTL DEF Spec

\* Whatever is recorded in schema_migrations is there as a whole, in the order of the
\* files, and a process that has opened the database sees all of it (database.py:46-68).
THEOREM SchemaIsWhole == Spec => []OnWholeSchema
<1>1. Inv => OnWholeSchema
  BY DEF Inv
<1> QED  BY <1>1, Invariance, PTL
=============================================================================
