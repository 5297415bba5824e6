------------------------- MODULE EntityStoreProofs -------------------------
(***************************************************************************)
(* What holds of EntityStore for any records, whatever keys and fields     *)
(* they have, and any number of writers, calls and faults.                 *)
(***************************************************************************)
EXTENDS EntityStore, TLAPS

\* What a writer's place in persist() says of its entity and its fields.
WriterFits ==
    \A w \in Writers :
        /\ pc[w] \in {"read", "write", "common", "update", "evidence"} => target[w] \in Made
        /\ todo[w] # {} => pc[w] \in {"common", "update", "evidence"}
        /\ todo[w] \subseteq Present(rec[w])

Shape == TypeOK /\ WriterFits

LEMMA InitShape == Init => Shape
<1> SUFFICES ASSUME Init PROVE Shape
  OBVIOUS
<1> USE BoundAssumption, RecordsAssumption DEF Init
<1>1. WriterFits
  BY DEF WriterFits
<1>2. /\ key \in [Ids -> Fingerprints \cup {NoKey}]
      /\ url \in [Ids -> {Url[r] : r \in Records} \cup {NoKey}]
      /\ name \in [Ids -> {Name[r] : r \in Records} \cup {NoKey}]
  OBVIOUS
<1>3. rec \in [Writers -> Records]
  OBVIOUS
<1>4. overlapped \in BOOLEAN
  OBVIOUS
<1>5. TypeOK
  BY <1>2, <1>3, <1>4 DEF TypeOK, PCs, Blank
<1>6. QED
  BY <1>1, <1>5 DEF Shape

LEMMA ShapeInductive ==
    ASSUME Shape, [Next]_vars PROVE Shape'
<1> USE BoundAssumption, ContentAssumption, AbsentAssumption
    DEF Shape, TypeOK, WriterFits, Made, Ids, PCs, Goto, EvidenceNext, entity, history, local
<1>1. ASSUME NEW w \in Writers, NEW r \in Records, Persist(w, r) PROVE Shape'
  <2>1. overlapped' \in BOOLEAN
    BY <1>1 DEF Persist
  <2>2. todo[w] = {}
    BY <1>1 DEF Persist
  <2>3. TypeOK'
    BY <1>1, <2>1 DEF Persist, Blank
  <2>4. WriterFits'
    BY <1>1, <2>2 DEF Persist, Present
  <2>5. QED
    BY <2>3, <2>4
<1>2. ASSUME NEW w \in Writers, MatchKey(w) \/ MatchUrl(w) PROVE Shape'
  <2>1. PICK found \in SUBSET Made, label \in {"url", "name"} : Decide(w, found, label)
    BY <1>2 DEF MatchKey, MatchUrl
  <2>2. todo[w] = {}
    BY <1>2 DEF MatchKey, MatchUrl
  <2>3. /\ UNCHANGED <<entity, evidence, rec, seen, change, todo, persists, faults, history>>
        /\ \/ \E e \in Made : target' = [target EXCEPT ![w] = e] /\ pc' = [pc EXCEPT ![w] = "read"]
           \/ pc' = [pc EXCEPT ![w] = label] /\ UNCHANGED target
    BY <2>1 DEF Decide
  <2>4. pc' \in [Writers -> PCs] /\ target' \in [Writers -> 0 .. made']
    <3>1. made' = made
      BY <2>3
    <3>2. pc' \in [Writers -> PCs]
      BY <2>3
    <3>3. target' \in [Writers -> 0 .. made]
      <4>1. CASE \E e \in Made : target' = [target EXCEPT ![w] = e]
        BY <4>1
      <4>2. CASE UNCHANGED target
        BY <4>2
      <4>3. QED
        BY <2>3, <4>1, <4>2
    <3>4. QED
      BY <3>1, <3>2, <3>3
  <2>5. TypeOK'
    BY <2>3, <2>4
  <2>6. WriterFits'
    BY <2>2, <2>3 DEF Present
  <2>7. QED
    BY <2>5, <2>6
<1>3. ASSUME NEW w \in Writers, MatchName(w) PROVE Shape'
  BY <1>3 DEF MatchName, Present
<1>4. ASSUME NEW w \in Writers, Create(w) PROVE Shape'
  <2> DEFINE e == made + 1  r == rec[w]
  <2>1. r \in Records /\ e \in Ids /\ Present(r) \subseteq Fields
    BY <1>4 DEF Create, Present
  <2>2. Fingerprint(r) \in Fingerprints
    BY <2>1 DEF Fingerprints
  <2>3. WriterFits'
    BY <1>4, <2>1 DEF Create, Present
  <2>4. /\ key' \in [Ids -> Fingerprints \cup {NoKey}]
        /\ url' \in [Ids -> {Url[q] : q \in Records} \cup {NoKey}]
        /\ name' \in [Ids -> {Name[q] : q \in Records} \cup {NoKey}]
    BY <1>4, <2>1, <2>2 DEF Create
  <2>5. /\ filed' \in [Ids -> Seq(Records)]
        /\ data' \in [Ids -> [Fields -> Values \cup {Absent}]]
    BY <1>4, <2>1 DEF Create
  <2>6. /\ pc' \in [Writers -> PCs] /\ target' \in [Writers -> 0 .. made']
        /\ todo' \in [Writers -> SUBSET Fields] /\ made' \in 0 .. MaxPersists
    BY <1>4, <2>1 DEF Create
  <2>7. UNCHANGED <<evidence, rec, seen, change, persists, faults, cut, overlapped>>
    BY <1>4 DEF Create
  <2>8. TypeOK'
    BY <2>4, <2>5, <2>6, <2>7
  <2>9. QED
    BY <2>3, <2>8
<1>5. ASSUME NEW w \in Writers, ReadData(w) PROVE Shape'
  BY <1>5 DEF ReadData, Present
<1>6. ASSUME NEW w \in Writers, WriteData(w) PROVE Shape'
  <2>1. target[w] \in Ids /\ rec[w] \in Records /\ Present(rec[w]) \subseteq Fields
    BY <1>6 DEF WriteData, Present
  <2>2. Merged(Content[rec[w]], seen[w]) \in [Fields -> Values \cup {Absent}]
    BY <2>1 DEF Merged
  <2>3. filed' \in [Ids -> Seq(Records)]
    BY <1>6, <2>1 DEF WriteData
  <2>4. TypeOK'
    BY <1>6, <2>1, <2>2, <2>3 DEF WriteData
  <2>5. WriterFits'
    BY <1>6, <2>1 DEF WriteData, Present
  <2>6. QED
    BY <2>4, <2>5
<1>7. ASSUME NEW w \in Writers, ReadCommon(w) PROVE Shape'
  <2>1. change' \in [Writers -> SUBSET {"url", "name"}]
    BY <1>7 DEF ReadCommon
  <2>2. /\ pc[w] = "common"
        /\ \/ pc' = [pc EXCEPT ![w] = "update"]
           \/ pc' = [pc EXCEPT ![w] = "evidence"]
           \/ pc' = [pc EXCEPT ![w] = "idle"] /\ todo[w] = {}
    BY <1>7 DEF ReadCommon
  <2>3. UNCHANGED <<entity, evidence, rec, target, seen, todo, persists, faults, history>>
    BY <1>7 DEF ReadCommon
  <2>4. QED
    BY <2>1, <2>2, <2>3 DEF Present
<1>8. ASSUME NEW w \in Writers, WriteCommon(w) PROVE Shape'
  <2>1. target[w] \in Ids /\ rec[w] \in Records
    BY <1>8 DEF WriteCommon
  <2>2. /\ url' \in [Ids -> {Url[q] : q \in Records} \cup {NoKey}]
        /\ name' \in [Ids -> {Name[q] : q \in Records} \cup {NoKey}]
    BY <1>8, <2>1 DEF WriteCommon
  <2>3. TypeOK'
    BY <1>8, <2>1, <2>2 DEF WriteCommon
  <2>4. WriterFits'
    BY <1>8 DEF WriteCommon, Present
  <2>5. QED
    BY <2>3, <2>4
<1>9. ASSUME NEW w \in Writers, RecordEvidence(w) PROVE Shape'
  <2>1. PICK f \in todo[w] :
           /\ evidence' = [evidence EXCEPT ![target[w]][f] = Append(@, Content[rec[w]][f])]
           /\ todo' = [todo EXCEPT ![w] = @ \ {f}]
           /\ Goto(w, EvidenceNext(todo[w] \ {f}))
    BY <1>9 DEF RecordEvidence
  <2>2. target[w] \in Ids /\ f \in Fields /\ Content[rec[w]][f] \in Values
    BY <1>9 DEF RecordEvidence, Present
  <2>3. evidence' \in [Ids -> [Fields -> Seq(Values)]]
    BY <2>1, <2>2
  <2>4. TypeOK'
    BY <1>9, <2>1, <2>3 DEF RecordEvidence
  <2>5. WriterFits'
    BY <1>9, <2>1 DEF RecordEvidence, Present
  <2>6. QED
    BY <2>4, <2>5
<1>10. ASSUME NEW w \in Writers, CutOff(w) PROVE Shape'
  <2>1. \A f \in todo[w] : <<target[w], f, Content[rec[w]][f]>> \in Ids \X Fields \X Values
    BY <1>10 DEF CutOff, Present
  <2>2. cut' \in SUBSET (Ids \X Fields \X Values)
    BY <1>10, <2>1 DEF CutOff
  <2>3. TypeOK'
    BY <1>10, <2>2 DEF CutOff
  <2>4. WriterFits'
    BY <1>10 DEF CutOff, Present
  <2>5. QED
    BY <2>3, <2>4
<1>11. CASE UNCHANGED vars
  BY <1>11 DEF vars, Present
<1>12. QED
  BY <1>1, <1>2, <1>3, <1>4, <1>5, <1>6, <1>7, <1>8, <1>9, <1>10, <1>11 DEF Next, Step

\* Every variable of the store keeps its type (persist(), EntityStore, EvidenceStore).
THEOREM TypeCorrect == Spec => []TypeOK
<1>1. Shape => TypeOK
  BY DEF Shape
<1>2. QED
  BY <1>1, InitShape, ShapeInductive, PTL DEF Spec

LEMMA ShapeInvariant == Spec => []Shape
BY InitShape, ShapeInductive, PTL DEF Spec

-----------------------------------------------------------------------------
(* Provenance: what is backed stays backed, so it is enough to look at the *)
(* two steps that write data_json.                                         *)

LEMMA BackedStable ==
    ASSUME Shape, [Next]_vars, NEW e \in Ids, NEW f \in Fields, NEW v \in Values,
           Backed(e, f, v)
    PROVE  Backed(e, f, v)'
<1> USE DEF Shape, TypeOK, WriterFits, entity, history, local
<1>1. CASE UNCHANGED vars
  BY <1>1 DEF vars, Backed, InHand
<1>2. ASSUME NEW w \in Writers, RecordEvidence(w) PROVE Backed(e, f, v)'
  <2>1. PICK g \in todo[w] :
           /\ evidence' = [evidence EXCEPT ![target[w]][g] = Append(@, Content[rec[w]][g])]
           /\ todo' = [todo EXCEPT ![w] = @ \ {g}]
    BY <1>2 DEF RecordEvidence
  <2>2. UNCHANGED <<rec, target, cut>>
    BY <1>2 DEF RecordEvidence
  <2>3. target[w] \in Ids /\ g \in Fields /\ Content[rec[w]][g] \in Values
    <3>1. pc[w] = "evidence" /\ g \in Present(rec[w]) /\ rec[w] \in Records
      BY <1>2 DEF RecordEvidence
    <3>2. target[w] \in Made
      BY <3>1
    <3>3. target[w] \in Ids
      BY <3>2, BoundAssumption DEF Made, Ids
    <3>4. g \in Fields /\ Content[rec[w]][g] \in Values
      BY <3>1, ContentAssumption DEF Present
    <3>5. QED
      BY <3>3, <3>4
  <2>4. evidence[e][f] \in Seq(Values)
    OBVIOUS
  <2>5. \/ evidence'[e][f] = evidence[e][f]
        \/ /\ e = target[w] /\ f = g
           /\ evidence'[e][f] = Append(evidence[e][f], Content[rec[w]][f])
    BY <2>1, <2>3
  <2>6. ASSUME NEW i \in DOMAIN evidence[e][f], evidence[e][f][i] = v PROVE Backed(e, f, v)'
    <3>1. i \in 1 .. Len(evidence[e][f])
      BY <2>4
    <3>2. CASE evidence'[e][f] = evidence[e][f]
      BY <2>6, <3>2 DEF Backed
    <3>3. CASE evidence'[e][f] = Append(evidence[e][f], Content[rec[w]][f]) /\ f = g
      <4>1. i \in DOMAIN evidence'[e][f] /\ evidence'[e][f][i] = v
        BY <2>3, <2>4, <2>6, <3>1, <3>3
      <4>2. QED
        BY <4>1 DEF Backed
    <3>4. QED
      BY <2>5, <3>2, <3>3
  <2>7. ASSUME NEW q \in Writers, target[q] = e, f \in todo[q], Content[rec[q]][f] = v
        PROVE  Backed(e, f, v)'
    <3>1. CASE q = w /\ f = g
      <4>1. evidence'[e][f] = Append(evidence[e][f], v)
        BY <2>1, <2>3, <2>7, <3>1
      <4>2. /\ Len(evidence[e][f]) + 1 \in DOMAIN evidence'[e][f]
            /\ evidence'[e][f][Len(evidence[e][f]) + 1] = v
        BY <2>4, <4>1
      <4>3. QED
        BY <4>2 DEF Backed
    <3>2. CASE ~(q = w /\ f = g)
      <4>1. f \in todo'[q]
        BY <2>1, <2>7, <3>2
      <4>2. QED
        BY <2>2, <2>7, <4>1 DEF Backed, InHand
    <3>3. QED
      BY <3>1, <3>2
  <2>8. QED
    BY <2>2, <2>6, <2>7 DEF Backed, InHand
<1>3. ASSUME NEW w \in Writers, CutOff(w) PROVE Backed(e, f, v)'
  <2>1. /\ cut' = cut \cup {<<target[w], g, Content[rec[w]][g]>> : g \in todo[w]}
        /\ todo' = [todo EXCEPT ![w] = {}]
        /\ UNCHANGED <<evidence, rec, target>>
    BY <1>3 DEF CutOff
  <2>2. ASSUME NEW q \in Writers, target[q] = e, f \in todo[q], Content[rec[q]][f] = v
        PROVE  Backed(e, f, v)'
    <3>1. CASE q = w
      BY <2>1, <2>2, <3>1 DEF Backed
    <3>2. CASE q # w
      BY <2>1, <2>2, <3>2 DEF Backed, InHand
    <3>3. QED
      BY <3>1, <3>2
  <2>3. QED
    BY <2>1, <2>2 DEF Backed, InHand
<1>4. ASSUME NEW w \in Writers,
             \/ MatchKey(w) \/ MatchUrl(w) \/ MatchName(w) \/ Create(w) \/ ReadData(w)
             \/ WriteData(w) \/ ReadCommon(w) \/ WriteCommon(w)
             \/ \E r \in Records : Persist(w, r)
      PROVE  Backed(e, f, v)'
  <2>1. UNCHANGED <<evidence, cut>>
    BY <1>4 DEF MatchKey, MatchUrl, MatchName, Create, ReadData, WriteData, ReadCommon,
                WriteCommon, Persist, Decide
  <2>2. \/ UNCHANGED <<rec, target, todo>>
        \/ /\ todo[w] = {}
           /\ \A q \in Writers \ {w} :
                 rec'[q] = rec[q] /\ target'[q] = target[q] /\ todo'[q] = todo[q]
    <3>1. CASE ReadCommon(w) \/ WriteCommon(w) \/ ReadData(w) \/ MatchName(w)
      BY <3>1 DEF ReadCommon, WriteCommon, ReadData, MatchName
    <3>2. CASE MatchKey(w) \/ MatchUrl(w)
      BY <3>2 DEF MatchKey, MatchUrl, Decide
    <3>3. CASE Create(w) \/ WriteData(w)
      BY <3>3 DEF Create, WriteData
    <3>4. CASE \E r \in Records : Persist(w, r)
      BY <3>4 DEF Persist
    <3>5. QED
      BY <1>4, <3>1, <3>2, <3>3, <3>4
  <2>3. QED
    BY <2>1, <2>2 DEF Backed, InHand
<1>5. QED
  BY <1>1, <1>2, <1>3, <1>4 DEF Next, Step

\* Provenance, and the same of what merge_data() has read and may write back over
\* anything, with every value given a name.
ValueBacked ==
    \A e \in Made, f \in Fields, v \in Values : data[e][f] = v => Backed(e, f, v)

SeenBacked ==
    \A w \in Writers, e \in Ids, f \in Fields, v \in Values :
        pc[w] = "write" /\ target[w] = e /\ seen[w][f] = v => Backed(e, f, v)

LEMMA ProvenanceByValue == Shape /\ ValueBacked => Provenance
<1> SUFFICES ASSUME Shape, ValueBacked, NEW e \in Made, NEW f \in Fields,
                    data[e][f] # Absent
             PROVE  Backed(e, f, data[e][f])
  BY DEF Provenance
<1>1. e \in Ids
  BY BoundAssumption DEF Shape, TypeOK, Made, Ids
<1>2. data[e][f] \in Values
  BY <1>1 DEF Shape, TypeOK
<1>3. QED
  BY <1>2 DEF ValueBacked

\* the two steps that write data_json
LEMMA WrittenIsBacked ==
    ASSUME Shape, ValueBacked, SeenBacked, NEW w \in Writers, Create(w) \/ WriteData(w),
           NEW e \in Ids, e \in Made', NEW f \in Fields, NEW v \in Values, data'[e][f] = v
    PROVE  \/ Backed(e, f, v)
           \/ target'[w] = e /\ f \in todo'[w] /\ Content[rec'[w]][f] = v
<1> USE AbsentAssumption, ContentAssumption DEF Shape, TypeOK
<1>1. CASE Create(w)
  <2>1. /\ made + 1 \in Ids /\ made' = made + 1 /\ target'[w] = made + 1 /\ rec' = rec
        /\ data' = [data EXCEPT ![made + 1] = Content[rec[w]]]
        /\ todo'[w] = Present(rec[w])
    BY <1>1, BoundAssumption DEF Create, Ids
  <2>2. CASE e = made + 1
    BY <2>1, <2>2 DEF Present
  <2>3. CASE e # made + 1
    <3>1. e \in Made /\ data[e][f] = v
      BY <2>1, <2>3 DEF Made, Ids
    <3>2. QED
      BY <3>1 DEF ValueBacked
  <2>4. QED
    BY <2>2, <2>3
<1>2. CASE WriteData(w)
  <2>1. /\ pc[w] = "write" /\ UNCHANGED <<made, rec, target>>
        /\ data' = [data EXCEPT ![target[w]] = Merged(Content[rec[w]], seen[w])]
        /\ todo'[w] = Present(rec[w])
    BY <1>2 DEF WriteData
  <2>2. CASE e = target[w] /\ Content[rec[w]][f] # Absent
    BY <2>1, <2>2 DEF Present, Merged
  <2>3. CASE e = target[w] /\ Content[rec[w]][f] = Absent
    <3>1. seen[w][f] = v
      BY <2>1, <2>3 DEF Merged
    <3>2. QED
      BY <2>1, <2>3, <3>1 DEF SeenBacked
  <2>4. CASE e # target[w]
    <3>1. e \in Made /\ data[e][f] = v
      BY <2>1, <2>4 DEF Made
    <3>2. QED
      BY <3>1 DEF ValueBacked
  <2>5. QED
    BY <2>2, <2>3, <2>4
<1>3. QED
  BY <1>1, <1>2

\* merge_data() reads what is backed
LEMMA ReadIsBacked ==
    ASSUME Shape, ValueBacked, SeenBacked, [Next]_vars, NEW w \in Writers, NEW e \in Ids,
           NEW f \in Fields, NEW v \in Values,
           pc'[w] = "write", target'[w] = e, seen'[w][f] = v
    PROVE  Backed(e, f, v)
<1> USE DEF Shape, TypeOK, Goto, local
<1>1. ASSUME NEW q \in Writers, Step(q) \/ CutOff(q) \/ (\E r \in Records : Persist(q, r)),
             q # w
      PROVE  pc'[w] = pc[w] /\ seen'[w] = seen[w] /\ target'[w] = target[w]
  BY <1>1 DEF Step, CutOff, Persist, MatchKey, MatchUrl, MatchName, Create, ReadData,
              WriteData, ReadCommon, WriteCommon, RecordEvidence, Decide
<1>2. ASSUME Step(w) \/ CutOff(w) \/ (\E r \in Records : Persist(w, r)) PROVE ReadData(w)
  <2>1. ~CutOff(w) /\ ~(\E r \in Records : Persist(w, r))
    BY DEF CutOff, Persist
  <2>2. ~MatchKey(w) /\ ~MatchUrl(w) /\ ~MatchName(w)
    BY DEF MatchKey, MatchUrl, MatchName, Decide
  <2>3. ~Create(w) /\ ~WriteData(w)
    BY DEF Create, WriteData, EvidenceNext
  <2>4. ~ReadCommon(w) /\ ~WriteCommon(w) /\ ~RecordEvidence(w)
    BY DEF ReadCommon, WriteCommon, RecordEvidence, EvidenceNext
  <2>5. QED
    BY <1>2, <2>1, <2>2, <2>3, <2>4 DEF Step
<1>3. \/ ReadData(w)
      \/ pc[w] = "write" /\ seen'[w] = seen[w] /\ target'[w] = target[w]
  BY <1>1, <1>2 DEF Next, vars
<1>4. CASE ReadData(w)
  <2>1. pc[w] = "read" /\ target[w] = e /\ seen'[w] = data[e]
    BY <1>4 DEF ReadData
  <2>2. e \in Made /\ data[e][f] = v
    BY <2>1 DEF WriterFits
  <2>3. QED
    BY <2>2 DEF ValueBacked
<1>5. CASE pc[w] = "write" /\ seen'[w] = seen[w] /\ target'[w] = target[w]
  BY <1>5 DEF SeenBacked
<1>6. QED
  BY <1>3, <1>4, <1>5

LEMMA ProvenanceInductive ==
    ASSUME Shape, Shape', ValueBacked, SeenBacked, [Next]_vars
    PROVE  ValueBacked' /\ SeenBacked'
<1>1. \A e \in Ids, f \in Fields, v \in Values : Backed(e, f, v) => Backed(e, f, v)'
  BY BackedStable
<1>2. ASSUME NEW e \in Made', NEW f \in Fields, NEW v \in Values, data'[e][f] = v
      PROVE  Backed(e, f, v)'
  <2>1. e \in Ids
    BY BoundAssumption DEF Shape, TypeOK, Made, Ids
  <2>2. ASSUME NEW w \in Writers, Create(w) \/ WriteData(w) PROVE Backed(e, f, v)'
    <3>1. \/ Backed(e, f, v)
          \/ target'[w] = e /\ f \in todo'[w] /\ Content[rec'[w]][f] = v
      BY <1>2, <2>1, <2>2, WrittenIsBacked
    <3>2. CASE Backed(e, f, v)
      BY <1>1, <2>1, <3>2
    <3>3. CASE target'[w] = e /\ f \in todo'[w] /\ Content[rec'[w]][f] = v
      BY <3>3 DEF Backed, InHand
    <3>4. QED
      BY <3>1, <3>2, <3>3
  <2>3. ASSUME UNCHANGED <<made, data>> PROVE Backed(e, f, v)'
    <3>1. e \in Made /\ data[e][f] = v
      BY <1>2, <2>3 DEF Made
    <3>2. Backed(e, f, v)
      BY <3>1 DEF ValueBacked
    <3>3. QED
      BY <1>1, <2>1, <3>2
  <2>4. ASSUME NEW w \in Writers,
               \/ MatchKey(w) \/ MatchUrl(w) \/ MatchName(w) \/ ReadData(w)
               \/ ReadCommon(w) \/ WriteCommon(w) \/ RecordEvidence(w) \/ CutOff(w)
               \/ \E r \in Records : Persist(w, r)
        PROVE  UNCHANGED <<made, data>>
    BY <2>4 DEF MatchKey, MatchUrl, MatchName, ReadData, ReadCommon, WriteCommon,
                RecordEvidence, CutOff, Persist, Decide, entity
  <2>5. UNCHANGED vars => UNCHANGED <<made, data>>
    BY DEF vars
  <2>6. QED
    BY <2>2, <2>3, <2>4, <2>5 DEF Next, Step
<1>3. ASSUME NEW w \in Writers, NEW e \in Ids, NEW f \in Fields, NEW v \in Values,
             pc'[w] = "write", target'[w] = e, seen'[w][f] = v
      PROVE  Backed(e, f, v)'
  BY <1>1, <1>3, ReadIsBacked
<1>4. QED
  BY <1>2, <1>3 DEF ValueBacked, SeenBacked

\* No value of data_json without an evidence row of it, overlapping runs included, but
\* for calls cut off between the two (persist(), record_many()).
THEOREM ProvenanceHolds == Spec => []Provenance
<1>1. Init => ValueBacked /\ SeenBacked
  BY DEF Init, ValueBacked, SeenBacked, Made
<1>2. QED
  BY <1>1, ShapeInvariant, ProvenanceInductive, ProvenanceByValue, PTL DEF Spec

-----------------------------------------------------------------------------
(* Merging: an entity's fingerprint and URL always come from records that  *)
(* joined it, and so does what a record in hand was matched by.            *)

Filed(e) == 1 .. Len(filed[e])

Joined ==
    \A e \in Made :
        /\ filed[e] # <<>>
        /\ key[e] = Fingerprint(filed[e][1])
        /\ \E i \in Filed(e) : url[e] = Url[filed[e][i]]

Joining ==
    \A w \in Writers, e \in Made :
        /\ pc[w] \in {"read", "write"} /\ target[w] = e =>
               \E i \in Filed(e) : Alike(rec[w], filed[e][i])
        /\ pc[w] \in {"common", "update"} /\ target[w] = e =>
               \E i \in Filed(e) : filed[e][i] = rec[w]

\* what a call that has matched or merged its record holds of its entity
LEMMA MatchedIsAlike ==
    ASSUME Shape, Joined, NEW w \in Writers, NEW e \in Made,
           \/ key[e] = Fingerprint(rec[w])
           \/ url[e] = Url[rec[w]]
    PROVE  \E i \in Filed(e) : Alike(rec[w], filed[e][i])
<1> USE DEF Shape, TypeOK
<1>1. /\ filed[e] # <<>> /\ key[e] = Fingerprint(filed[e][1])
      /\ \E i \in Filed(e) : url[e] = Url[filed[e][i]]
  BY DEF Joined
<1>2. CASE url[e] = Url[rec[w]]
  BY <1>1, <1>2 DEF Alike
<1>3. CASE key[e] = Fingerprint(rec[w])
  <2>1. filed[e] \in Seq(Records)
    BY BoundAssumption DEF Made, Ids
  <2>2. 1 \in Filed(e)
    BY <1>1, <2>1 DEF Filed
  <2>3. Fingerprint(rec[w]) = Fingerprint(filed[e][1])
    BY <1>1, <1>3
  <2>4. Alike(rec[w], filed[e][1])
    BY <2>3 DEF Fingerprint, Alike
  <2>5. QED
    BY <2>2, <2>4
<1>4. QED
  BY <1>2, <1>3

\* No record is taken out of an entity, and none changes place.
LEMMA FiledGrows ==
    ASSUME Shape, [Next]_vars, NEW e \in Made, NEW i \in Filed(e)
    PROVE  e \in Made' /\ i \in Filed(e)' /\ filed'[e][i] = filed[e][i]
<1> USE BoundAssumption DEF Shape, TypeOK, Made, Ids, Filed
<1>1. ASSUME NEW w \in Writers, Create(w)
      PROVE  e \in Made' /\ i \in Filed(e)' /\ filed'[e][i] = filed[e][i]
  BY <1>1 DEF Create
<1>2. ASSUME NEW w \in Writers, WriteData(w)
      PROVE  e \in Made' /\ i \in Filed(e)' /\ filed'[e][i] = filed[e][i]
  <2>1. e \in Ids /\ filed[e] \in Seq(Records) /\ rec[w] \in Records
    <3>1. e \in Ids
      OBVIOUS
    <3>2. filed[e] \in Seq(Records) /\ rec[w] \in Records
      BY <3>1
    <3>3. QED
      BY <3>1, <3>2
  <2>2. made' = made /\ filed' = [filed EXCEPT ![target[w]] = Append(@, rec[w])]
    BY <1>2 DEF WriteData
  <2>3. CASE e # target[w]
    BY <2>1, <2>2, <2>3
  <2>4. CASE e = target[w]
    <3>1. filed'[e] = Append(filed[e], rec[w])
      BY <2>1, <2>2, <2>4
    <3>2. Len(filed'[e]) = Len(filed[e]) + 1 /\ filed'[e][i] = filed[e][i]
      BY <2>1, <3>1
    <3>3. QED
      BY <2>1, <2>2, <3>2
  <2>5. QED
    BY <2>3, <2>4
<1>3. ASSUME UNCHANGED <<made, filed>>
      PROVE  e \in Made' /\ i \in Filed(e)' /\ filed'[e][i] = filed[e][i]
  BY <1>3
<1>4. ASSUME NEW w \in Writers,
             \/ MatchKey(w) \/ MatchUrl(w) \/ MatchName(w) \/ ReadData(w)
             \/ ReadCommon(w) \/ WriteCommon(w) \/ RecordEvidence(w) \/ CutOff(w)
             \/ \E r \in Records : Persist(w, r)
      PROVE  UNCHANGED <<made, filed>>
  BY <1>4 DEF MatchKey, MatchUrl, MatchName, ReadData, ReadCommon, WriteCommon,
              RecordEvidence, CutOff, Persist, Decide, entity, history
<1>5. UNCHANGED vars => UNCHANGED <<made, filed>>
  BY DEF vars
<1>6. QED
  BY <1>1, <1>2, <1>3, <1>4, <1>5 DEF Next, Step

LEMMA JoinedInductive ==
    ASSUME Shape, Shape', Joined, Joining, [Next]_vars PROVE Joined'
<1> USE BoundAssumption DEF Shape, TypeOK
<1> DEFINE Fits(e) == /\ filed'[e] # <<>>
                      /\ key'[e] = Fingerprint(filed'[e][1])
                      /\ \E i \in Filed(e)' : url'[e] = Url[filed'[e][i]]
<1>1. ASSUME NEW e \in Made, key'[e] = key[e],
             \/ url'[e] = url[e]
             \/ \E j \in Filed(e) : url'[e] = Url[filed[e][j]]
      PROVE  Fits(e)
  <2>1. PICK j \in Filed(e) : url'[e] = Url[filed[e][j]]
    BY <1>1 DEF Joined
  <2>2. e \in Ids
    BY DEF Made, Ids
  <2>3. 1 \in Filed(e) /\ key[e] = Fingerprint(filed[e][1])
    BY <2>2 DEF Joined, Filed
  <2>4. 1 \in Filed(e)' /\ filed'[e][1] = filed[e][1]
    BY <2>3, FiledGrows
  <2>5. j \in Filed(e)' /\ filed'[e][j] = filed[e][j]
    BY <2>1, FiledGrows
  <2>6. filed'[e] # <<>>
    BY <2>2, <2>4 DEF Filed
  <2>7. QED
    BY <1>1, <2>1, <2>3, <2>4, <2>5, <2>6
<1>2. ASSUME NEW w \in Writers, Create(w), NEW e \in Made' PROVE Fits(e)
  <2>1. CASE e = made + 1
    <3>1. /\ made + 1 \in Ids /\ filed'[e] = <<rec[w]>> /\ key'[e] = Fingerprint(rec[w])
          /\ url'[e] = Url[rec[w]]
      BY <1>2, <2>1 DEF Create, Ids
    <3>2. 1 \in Filed(e)' /\ filed'[e][1] = rec[w] /\ filed'[e] # <<>>
      BY <3>1 DEF Filed
    <3>3. QED
      BY <3>1, <3>2
  <2>2. CASE e # made + 1
    <3>1. e \in Made /\ key'[e] = key[e] /\ url'[e] = url[e]
      BY <1>2, <2>2 DEF Create, Made, Ids
    <3>2. QED
      BY <1>1, <3>1
  <2>3. QED
    BY <2>1, <2>2
<1>3. ASSUME NEW w \in Writers, WriteCommon(w), NEW e \in Made' PROVE Fits(e)
  <2>1. e \in Made /\ e \in Ids /\ key' = key /\ pc[w] = "update"
    BY <1>3 DEF WriteCommon, Made, Ids
  <2>2. url'[e] = url[e] \/ (e = target[w] /\ url'[e] = Url[rec[w]])
    BY <1>3, <2>1 DEF WriteCommon
  <2>3. CASE e = target[w] /\ url'[e] = Url[rec[w]]
    <3>1. \E j \in Filed(e) : filed[e][j] = rec[w]
      BY <2>1, <2>3 DEF Joining
    <3>2. \E j \in Filed(e) : url'[e] = Url[filed[e][j]]
      BY <2>3, <3>1
    <3>3. QED
      BY <1>1, <2>1, <3>2
  <2>4. QED
    BY <1>1, <2>1, <2>2, <2>3
<1>4. ASSUME UNCHANGED <<made, key, url>>, NEW e \in Made' PROVE Fits(e)
  <2>1. e \in Made
    BY <1>4 DEF Made
  <2>2. QED
    BY <1>1, <1>4, <2>1
<1>5. ASSUME NEW w \in Writers,
             \/ MatchKey(w) \/ MatchUrl(w) \/ MatchName(w) \/ ReadData(w) \/ WriteData(w)
             \/ ReadCommon(w) \/ RecordEvidence(w) \/ CutOff(w)
             \/ \E r \in Records : Persist(w, r)
      PROVE  UNCHANGED <<made, key, url>>
  BY <1>5 DEF MatchKey, MatchUrl, MatchName, ReadData, WriteData, ReadCommon,
              RecordEvidence, CutOff, Persist, Decide, entity
<1>6. UNCHANGED vars => UNCHANGED <<made, key, url>>
  BY DEF vars
<1>7. \A e \in Made' : Fits(e)
  BY <1>2, <1>3, <1>4, <1>5, <1>6 DEF Next, Step
<1>8. QED
  BY <1>7 DEF Joined

LEMMA JoiningInductive ==
    ASSUME Shape, Shape', Joined, Joining, [Next]_vars PROVE Joining'
<1> USE BoundAssumption DEF Shape, TypeOK, Goto, local
\* a writer's own steps
<1>1. ASSUME NEW w \in Writers, MatchKey(w) \/ MatchUrl(w), NEW e \in Made,
             pc'[w] \in {"read", "write", "common", "update"}, target'[w] = e
      PROVE  pc'[w] = "read" /\ \E i \in Filed(e) : Alike(rec[w], filed[e][i])
  <2>1. pc'[w] = "read" /\ (key[e] = Fingerprint(rec[w]) \/ url[e] = Url[rec[w]])
    <3>1. CASE MatchKey(w)
      BY <1>1, <3>1 DEF MatchKey, Decide
    <3>2. CASE MatchUrl(w)
      BY <1>1, <3>2 DEF MatchUrl, Decide
    <3>3. QED
      BY <1>1, <3>1, <3>2
  <2>2. QED
    BY <2>1, MatchedIsAlike
<1>2. ASSUME NEW w \in Writers, ReadData(w) \/ ReadCommon(w)
      PROVE  /\ UNCHANGED <<made, filed, rec, target>>
             /\ \A q \in Writers : q # w => pc'[q] = pc[q]
             /\ \/ pc[w] = "read" /\ pc'[w] = "write"
                \/ pc[w] = "common" /\ pc'[w] \in {"update", "idle", "evidence"}
  BY <1>2 DEF ReadData, ReadCommon, EvidenceNext, entity, history
<1>3. ASSUME NEW w \in Writers, WriteData(w), NEW e \in Made, target[w] = e
      PROVE  pc'[w] = "common" /\ \E i \in Filed(e)' : filed'[e][i] = rec[w]
  <2>1. e \in Ids
    BY DEF Made, Ids
  <2>2. filed[e] \in Seq(Records) /\ rec[w] \in Records
    BY <2>1
  <2>3. pc'[w] = "common" /\ filed'[e] = Append(filed[e], rec[w])
    BY <1>3, <2>1 DEF WriteData
  <2>4. /\ Len(filed[e]) + 1 \in 1 .. Len(filed'[e])
        /\ filed'[e][Len(filed[e]) + 1] = rec[w]
    BY <2>2, <2>3
  <2>5. QED
    BY <2>3, <2>4 DEF Filed
\* every other step leaves the writer alone, or out of the middle of a merge
<1>4. ASSUME NEW w \in Writers,
             \/ MatchName(w) \/ Create(w) \/ WriteCommon(w) \/ RecordEvidence(w)
             \/ CutOff(w) \/ \E r \in Records : Persist(w, r)
      PROVE  pc'[w] \notin {"read", "write", "common", "update"}
  BY <1>4 DEF MatchName, Create, WriteCommon, RecordEvidence, CutOff, Persist, EvidenceNext
<1>5. ASSUME NEW q \in Writers, Step(q) \/ CutOff(q) \/ (\E r \in Records : Persist(q, r)),
             NEW w \in Writers, q # w
      PROVE  pc'[w] = pc[w] /\ rec'[w] = rec[w] /\ target'[w] = target[w]
  BY <1>5 DEF Step, CutOff, Persist, MatchKey, MatchUrl, MatchName, Create, ReadData,
              WriteData, ReadCommon, WriteCommon, RecordEvidence, Decide
<1>6. ASSUME NEW w \in Writers,
             MatchKey(w) \/ MatchUrl(w) \/ ReadData(w) \/ ReadCommon(w) \/ WriteData(w)
      PROVE  UNCHANGED <<made, rec>>
  BY <1>6 DEF MatchKey, MatchUrl, ReadData, ReadCommon, WriteData, Decide, entity
\* what is known of a record in hand stays known
<1>7. ASSUME NEW w \in Writers, NEW e \in Made, rec'[w] = rec[w],
             \E i \in Filed(e) : Alike(rec[w], filed[e][i])
      PROVE  \E i \in Filed(e)' : Alike(rec'[w], filed'[e][i])
  BY <1>7, FiledGrows
<1>8. ASSUME NEW w \in Writers, NEW e \in Made, rec'[w] = rec[w],
             \E i \in Filed(e) : filed[e][i] = rec[w]
      PROVE  \E i \in Filed(e)' : filed'[e][i] = rec'[w]
  BY <1>8, FiledGrows
<1> SUFFICES ASSUME NEW w \in Writers, NEW e \in Made', target'[w] = e
             PROVE  /\ pc'[w] \in {"read", "write"} =>
                           \E i \in Filed(e)' : Alike(rec'[w], filed'[e][i])
                    /\ pc'[w] \in {"common", "update"} =>
                           \E i \in Filed(e)' : filed'[e][i] = rec'[w]
  BY DEF Joining
<1>9. CASE pc'[w] \notin {"read", "write", "common", "update"}
  BY <1>9
<1>10. ASSUME pc'[w] = pc[w], rec'[w] = rec[w], target'[w] = target[w],
              pc[w] \in {"read", "write", "common", "update"}
       PROVE  /\ pc'[w] \in {"read", "write"} =>
                     \E i \in Filed(e)' : Alike(rec'[w], filed'[e][i])
              /\ pc'[w] \in {"common", "update"} =>
                     \E i \in Filed(e)' : filed'[e][i] = rec'[w]
  <2>1. e \in Made /\ target[w] = e
    BY <1>10 DEF WriterFits
  <2>2. QED
    BY <1>7, <1>8, <1>10, <2>1 DEF Joining
<1>11. ASSUME MatchKey(w) \/ MatchUrl(w),
              pc'[w] \in {"read", "write", "common", "update"}
       PROVE  pc'[w] = "read" /\ \E i \in Filed(e)' : Alike(rec'[w], filed'[e][i])
  <2>1. e \in Made /\ rec'[w] = rec[w]
    BY <1>6, <1>11 DEF Made
  <2>2. QED
    BY <1>1, <1>7, <1>11, <2>1
<1>12. CASE ReadData(w) \/ ReadCommon(w)
  <2>1. e \in Made /\ target[w] = e /\ UNCHANGED <<made, filed, rec>>
    BY <1>2, <1>12 DEF Made
  <2>2. CASE pc[w] = "read" /\ pc'[w] = "write"
    BY <1>7, <2>1, <2>2 DEF Joining
  <2>3. CASE pc[w] = "common" /\ pc'[w] \in {"update", "idle", "evidence"}
    BY <1>8, <2>1, <2>3 DEF Joining
  <2>4. QED
    BY <1>2, <1>12, <2>2, <2>3
<1>13. CASE WriteData(w)
  <2>1. e \in Made /\ target[w] = e /\ rec' = rec
    BY <1>13 DEF WriteData, Made
  <2>2. pc'[w] = "common" /\ \E i \in Filed(e)' : filed'[e][i] = rec[w]
    BY <1>3, <1>13, <2>1
  <2>3. pc'[w] \notin {"read", "write"}
    BY <2>2
  <2>4. \E i \in Filed(e)' : filed'[e][i] = rec'[w]
    BY <2>1, <2>2
  <2>5. QED
    BY <2>3, <2>4
<1>14. CASE UNCHANGED vars
  BY <1>9, <1>10, <1>14 DEF vars
<1>15. CASE Step(w) \/ CutOff(w) \/ \E r \in Records : Persist(w, r)
  BY <1>4, <1>9, <1>11, <1>12, <1>13, <1>15 DEF Step
<1>16. ASSUME NEW q \in Writers, q # w,
              Step(q) \/ CutOff(q) \/ (\E r \in Records : Persist(q, r))
       PROVE  pc'[w] = pc[w] /\ rec'[w] = rec[w] /\ target'[w] = target[w]
  BY <1>5, <1>16
<1>17. QED
  BY <1>9, <1>10, <1>14, <1>15, <1>16 DEF Next

LEMMA MergingInductive ==
    ASSUME Shape, Shape', Joining, MergedOnSharedKey, [Next]_vars
    PROVE  MergedOnSharedKey'
<1> USE BoundAssumption DEF Shape, TypeOK
<1> DEFINE Fits(e) == \A i \in 2 .. Len(filed'[e]) :
                          \E j \in 1 .. (i - 1) : Alike(filed'[e][i], filed'[e][j])
<1>1. ASSUME NEW e \in Made, filed'[e] = filed[e] PROVE Fits(e)
  BY <1>1 DEF MergedOnSharedKey
<1>2. ASSUME NEW w \in Writers, Create(w), NEW e \in Made' PROVE Fits(e)
  <2>1. CASE e = made + 1
    <3>1. made + 1 \in Ids /\ filed'[e] = <<rec[w]>>
      BY <1>2, <2>1 DEF Create, Ids
    <3>2. Len(filed'[e]) = 1
      BY <3>1
    <3>3. QED
      BY <3>2
  <2>2. CASE e # made + 1
    <3>1. e \in Made /\ filed'[e] = filed[e]
      BY <1>2, <2>2 DEF Create, Made, Ids
    <3>2. QED
      BY <1>1, <3>1
  <2>3. QED
    BY <2>1, <2>2
<1>3. ASSUME NEW w \in Writers, WriteData(w), NEW e \in Made' PROVE Fits(e)
  <2>1. e \in Made /\ pc[w] = "write"
    BY <1>3 DEF WriteData, Made
  <2>2. e \in Ids
    BY <2>1 DEF Made, Ids
  <2>3. filed[e] \in Seq(Records) /\ rec[w] \in Records
    BY <2>2
  <2>4. filed' = [filed EXCEPT ![target[w]] = Append(@, rec[w])]
    BY <1>3 DEF WriteData
  <2>5. CASE e = target[w]
    <3>1. filed'[e] = Append(filed[e], rec[w])
      BY <2>2, <2>4, <2>5
    <3>2. /\ Len(filed'[e]) = Len(filed[e]) + 1
          /\ filed'[e][Len(filed[e]) + 1] = rec[w]
          /\ \A i \in 1 .. Len(filed[e]) : filed'[e][i] = filed[e][i]
      BY <2>3, <3>1
    <3>3. ASSUME NEW i \in 2 .. Len(filed'[e])
          PROVE  \E j \in 1 .. (i - 1) : Alike(filed'[e][i], filed'[e][j])
      <4>1. Len(filed[e]) \in Nat
        BY <2>3
      <4>2. CASE i = Len(filed[e]) + 1
        <5>1. PICK j \in Filed(e) : Alike(rec[w], filed[e][j])
          BY <2>1, <2>5 DEF Joining
        <5>2. j \in 1 .. (i - 1)
          BY <4>1, <4>2, <5>1 DEF Filed
        <5>3. filed'[e][j] = filed[e][j]
          BY <3>2, <5>1 DEF Filed
        <5>4. QED
          BY <3>2, <4>2, <5>1, <5>2, <5>3
      <4>3. CASE i # Len(filed[e]) + 1
        <5>1. i \in 2 .. Len(filed[e])
          BY <3>2, <4>1, <4>3
        <5>2. PICK j \in 1 .. (i - 1) : Alike(filed[e][i], filed[e][j])
          BY <2>1, <5>1 DEF MergedOnSharedKey
        <5>3. filed'[e][i] = filed[e][i] /\ filed'[e][j] = filed[e][j]
          BY <3>2, <4>1, <5>1
        <5>4. QED
          BY <5>2, <5>3
      <4>4. QED
        BY <4>2, <4>3
    <3>4. QED
      BY <3>3
  <2>6. CASE e # target[w]
    <3>1. filed'[e] = filed[e]
      BY <2>2, <2>4, <2>6
    <3>2. QED
      BY <1>1, <2>1, <3>1
  <2>7. QED
    BY <2>5, <2>6
<1>4. ASSUME UNCHANGED <<made, filed>>, NEW e \in Made' PROVE Fits(e)
  BY <1>1, <1>4 DEF Made
<1>5. ASSUME NEW w \in Writers,
             \/ MatchKey(w) \/ MatchUrl(w) \/ MatchName(w) \/ ReadData(w)
             \/ ReadCommon(w) \/ WriteCommon(w) \/ RecordEvidence(w) \/ CutOff(w)
             \/ \E r \in Records : Persist(w, r)
      PROVE  UNCHANGED <<made, filed>>
  BY <1>5 DEF MatchKey, MatchUrl, MatchName, ReadData, ReadCommon, WriteCommon,
              RecordEvidence, CutOff, Persist, Decide, entity, history
<1>6. UNCHANGED vars => UNCHANGED <<made, filed>>
  BY DEF vars
<1>7. \A e \in Made' : Fits(e)
  BY <1>2, <1>3, <1>4, <1>5, <1>6 DEF Next, Step
<1>8. QED
  BY <1>7 DEF MergedOnSharedKey

\* Nothing is merged on a weaker signal than a shared URL or external_id, however often
\* merges have changed both, also while runs overlap (resolve(), merge_data()).
THEOREM MergesShareAKey == Spec => []MergedOnSharedKey
<1>1. Init => Joined /\ Joining /\ MergedOnSharedKey
  BY DEF Init, Joined, Joining, MergedOnSharedKey, Made
<1>2. QED
  BY <1>1, ShapeInvariant, JoinedInductive, JoiningInductive, MergingInductive, PTL
     DEF Spec

-----------------------------------------------------------------------------
(* One entity per fingerprint: create() comes after a lookup that another  *)
(* call may have made stale, unless calls come one at a time.              *)

OneAtATime ==
    ~overlapped => \A v, w \in Writers : pc[v] # "idle" /\ pc[w] # "idle" => v = w

NotFound ==
    ~overlapped => \A w \in Writers, e \in Made :
        pc[w] \in {"url", "name", "create"} => key[e] # Fingerprint(rec[w])

LEMMA OneAtATimeInductive ==
    ASSUME Shape, OneAtATime, [Next]_vars PROVE OneAtATime'
<1> USE DEF Shape, TypeOK, Goto, history
<1>1. ASSUME NEW w \in Writers, NEW r \in Records, Persist(w, r) PROVE OneAtATime'
  BY <1>1 DEF Persist, OneAtATime
<1>2. ASSUME NEW w \in Writers, Step(w) \/ CutOff(w) PROVE OneAtATime'
  <2>1. pc[w] # "idle" /\ overlapped' = overlapped
    BY <1>2 DEF Step, CutOff, MatchKey, MatchUrl, MatchName, Create, ReadData,
                WriteData, ReadCommon, WriteCommon, RecordEvidence, Decide
  <2>2. \A v \in Writers : v # w => pc'[v] = pc[v]
    BY <1>2 DEF Step, CutOff, MatchKey, MatchUrl, MatchName, Create, ReadData,
                WriteData, ReadCommon, WriteCommon, RecordEvidence, Decide
  <2>3. QED
    BY <2>1, <2>2 DEF OneAtATime
<1>3. CASE UNCHANGED vars
  BY <1>3 DEF vars, OneAtATime
<1>4. QED
  BY <1>1, <1>2, <1>3 DEF Next

LEMMA OneEntityInductive ==
    ASSUME Shape, Shape', OneAtATime, OneAtATime', NotFound, OneEntityPerKey, [Next]_vars
    PROVE  NotFound' /\ OneEntityPerKey'
<1> USE BoundAssumption DEF Shape, TypeOK, Goto, local, history, entity
<1> SUFFICES ASSUME ~overlapped' PROVE NotFound' /\ OneEntityPerKey'
  BY DEF NotFound, OneEntityPerKey
<1>1. ~overlapped
  BY DEF Next, Step, CutOff, Persist, MatchKey, MatchUrl, MatchName, Create, ReadData,
         WriteData, ReadCommon, WriteCommon, RecordEvidence, Decide, vars
<1>2. ASSUME NEW w \in Writers, Create(w) PROVE NotFound' /\ OneEntityPerKey'
  <2>1. /\ made + 1 \in Ids /\ made' = made + 1
        /\ key' = [key EXCEPT ![made + 1] = Fingerprint(rec[w])]
        /\ pc[w] = "create" /\ pc'[w] \in {"idle", "evidence"}
    BY <1>2 DEF Create, Ids, EvidenceNext
  <2>2. \A q \in Writers : q # w => pc[q] = "idle" /\ pc'[q] = "idle"
    BY <1>1, <1>2 DEF OneAtATime, Create
  <2>3. NotFound'
    BY <2>1, <2>2 DEF NotFound
  <2>4. \A e \in Made : key'[e] = key[e] /\ key[e] # Fingerprint(rec[w])
    BY <1>1, <2>1 DEF NotFound, Made, Ids
  <2>5. key'[made + 1] = Fingerprint(rec[w])
    BY <2>1
  <2>6. \A e \in Made' : e = made + 1 \/ e \in Made
    BY <2>1 DEF Made
  <2>7. OneEntityPerKey'
    BY <1>1, <2>4, <2>5, <2>6 DEF OneEntityPerKey
  <2>8. QED
    BY <2>3, <2>7
<1>3. ASSUME UNCHANGED <<made, key>>,
             \A w \in Writers : pc'[w] \in {"url", "name", "create"} =>
                 /\ rec'[w] = rec[w]
                 /\ \/ pc[w] \in {"url", "name", "create"}
                    \/ \A e \in Made : key[e] # Fingerprint(rec[w])
      PROVE  NotFound' /\ OneEntityPerKey'
  BY <1>1, <1>3 DEF NotFound, OneEntityPerKey, Made
<1>4. ASSUME NEW w \in Writers,
             \/ MatchKey(w) \/ MatchUrl(w) \/ MatchName(w) \/ ReadData(w) \/ WriteData(w)
             \/ ReadCommon(w) \/ WriteCommon(w) \/ RecordEvidence(w) \/ CutOff(w)
             \/ \E r \in Records : Persist(w, r)
      PROVE  NotFound' /\ OneEntityPerKey'
  <2>1. UNCHANGED <<made, key>>
    BY <1>4 DEF MatchKey, MatchUrl, MatchName, ReadData, WriteData, ReadCommon,
                WriteCommon, RecordEvidence, CutOff, Persist, Decide
  <2>2. ASSUME NEW q \in Writers, q # w PROVE pc'[q] = pc[q] /\ rec'[q] = rec[q]
    BY <1>4, <2>2 DEF MatchKey, MatchUrl, MatchName, ReadData, WriteData, ReadCommon,
                WriteCommon, RecordEvidence, CutOff, Persist, Decide
  <2>3. ASSUME pc'[w] \in {"url", "name", "create"}
        PROVE  /\ rec'[w] = rec[w]
               /\ \/ pc[w] \in {"url", "name", "create"}
                  \/ \A e \in Made : key[e] # Fingerprint(rec[w])
    <3>1. CASE MatchKey(w)
      BY <2>3, <3>1 DEF MatchKey, Decide
    <3>2. CASE MatchUrl(w)
      BY <3>2 DEF MatchUrl, Decide
    <3>3. CASE MatchName(w)
      BY <3>3 DEF MatchName
    <3>4. CASE \/ ReadData(w) \/ WriteData(w) \/ ReadCommon(w) \/ WriteCommon(w)
               \/ RecordEvidence(w) \/ CutOff(w) \/ \E r \in Records : Persist(w, r)
      <4>1. ~ReadData(w) /\ ~WriteData(w) /\ ~ReadCommon(w)
        BY <2>3 DEF ReadData, WriteData, ReadCommon, EvidenceNext
      <4>2. ~WriteCommon(w) /\ ~RecordEvidence(w)
        BY <2>3 DEF WriteCommon, RecordEvidence, EvidenceNext
      <4>3. ~CutOff(w) /\ ~(\E r \in Records : Persist(w, r))
        BY <2>3 DEF CutOff, Persist
      <4>4. QED
        BY <3>4, <4>1, <4>2, <4>3
    <3>5. QED
      BY <1>4, <3>1, <3>2, <3>3, <3>4
  <2>4. QED
    BY <1>3, <2>1, <2>2, <2>3
<1>5. CASE UNCHANGED vars
  BY <1>3, <1>5 DEF vars
<1>6. QED
  BY <1>2, <1>4, <1>5 DEF Next, Step

\* One run at a time never leaves two entities with one fingerprint, crashes included
\* (find_by_fingerprint(), create()).
THEOREM OnePerKey == Spec => []OneEntityPerKey
<1>1. Init => OneAtATime /\ NotFound /\ OneEntityPerKey
  BY DEF Init, OneAtATime, NotFound, OneEntityPerKey, Made
<1>2. QED
  BY <1>1, ShapeInvariant, OneAtATimeInductive, OneEntityInductive, PTL DEF Spec

-----------------------------------------------------------------------------
(* The newest evidence: with one call at a time, what merge_data() has read *)
(* is still so when it writes, and what waits for its evidence is still the *)
(* value of its field when the evidence comes.                              *)

NoRowsYet == \A e \in Ids \ Made, f \in Fields : evidence[e][f] = <<>>

InStep ==
    ~overlapped => \A w \in Writers :
        /\ pc[w] = "write" => seen[w] = data[target[w]]
        /\ \A f \in todo[w] : data[target[w]][f] = Content[rec[w]][f]

\* what one call may rely on while there is no other
LEMMA AloneAtWork ==
    ASSUME Shape, OneAtATime, ~overlapped, NEW w \in Writers, pc[w] # "idle"
    PROVE  \A q \in Writers : q # w => pc[q] = "idle" /\ todo[q] = {}
  BY DEF Shape, WriterFits, OneAtATime

\* steps that touch neither data nor evidence
LEMMA QuietKeepsNewest ==
    ASSUME Shape, Shape', InStep, LatestEvidence, ~overlapped,
           UNCHANGED <<made, data, evidence, cut>>,
           NEW w \in Writers,
           \A q \in Writers \ {w} :
               /\ pc'[q] = pc[q] /\ rec'[q] = rec[q] /\ target'[q] = target[q]
               /\ seen'[q] = seen[q] /\ todo'[q] = todo[q],
           todo'[w] = todo[w],
           todo[w] = {} \/ (rec'[w] = rec[w] /\ target'[w] = target[w]),
           pc'[w] = "write" => seen'[w] = data[target'[w]]
    PROVE  InStep' /\ LatestEvidence'
<1>1. InStep'
  BY DEF InStep
<1>2. \A e \in Made, f \in Fields, v \in Values : InHand(e, f, v) => InHand(e, f, v)'
  BY DEF InHand
<1>3. ASSUME NEW e \in Made', NEW f \in Fields PROVE Newest(e, f)'
  <2>1. e \in Made /\ e \in Ids /\ Newest(e, f)
    BY BoundAssumption DEF Made, Ids, LatestEvidence, Shape, TypeOK
  <2>2. data[e][f] \in Values \cup {Absent}
    BY <2>1 DEF Shape, TypeOK
  <2>3. QED
    BY <1>2, <2>1, <2>2 DEF Newest
<1>4. QED
  BY <1>1, <1>3 DEF LatestEvidence

LEMMA CreateKeepsNewest ==
    ASSUME Shape, OneAtATime, NoRowsYet, InStep, LatestEvidence, ~overlapped,
           NEW w \in Writers, Create(w)
    PROVE  NoRowsYet' /\ InStep' /\ LatestEvidence'
<1> USE BoundAssumption, ContentAssumption, AbsentAssumption DEF Shape, TypeOK, WriterFits, Goto
<1> DEFINE new == made + 1
<1>1. /\ pc[w] = "create" /\ new \in Ids /\ new \notin Made /\ made' = new
      /\ data' = [data EXCEPT ![new] = Content[rec[w]]]
      /\ target' = [target EXCEPT ![w] = new]
      /\ todo' = [todo EXCEPT ![w] = Present(rec[w])]
      /\ pc' = [pc EXCEPT ![w] = EvidenceNext(Present(rec[w]))]
      /\ UNCHANGED <<evidence, rec, seen, cut>>
  BY DEF Create, Ids, Made
<1>2. \A q \in Writers : q # w => pc[q] = "idle" /\ todo[q] = {}
  BY <1>1, AloneAtWork
<1>3. NoRowsYet'
  BY <1>1 DEF NoRowsYet, Made
<1>4. InStep'
  BY <1>1, <1>2 DEF InStep, EvidenceNext
<1>5. ASSUME NEW e \in Made', NEW f \in Fields PROVE Newest(e, f)'
  <2>1. CASE e = new
    <3>1. data'[e][f] = Content[rec[w]][f] /\ evidence'[e][f] = <<>>
      BY <1>1, <2>1 DEF NoRowsYet
    <3>2. CASE Content[rec[w]][f] = Absent
      BY <3>1, <3>2 DEF Newest
    <3>3. CASE Content[rec[w]][f] # Absent
      <4>1. InHand(e, f, data[e][f])'
        BY <1>1, <2>1, <3>1, <3>3 DEF InHand, Present
      <4>2. QED
        BY <3>1, <3>3, <4>1 DEF Newest
    <3>4. QED
      BY <3>2, <3>3
  <2>2. CASE e # new
    <3>1. e \in Made /\ e \in Ids /\ data'[e][f] = data[e][f] /\ evidence'[e][f] = evidence[e][f]
      BY <1>1, <2>2 DEF Made, Ids
    <3>2. Newest(e, f)
      BY <3>1 DEF LatestEvidence
    <3>3. todo[w] = {}
      BY <1>1
    <3>4. InHand(e, f, data[e][f]) => InHand(e, f, data[e][f])'
      BY <1>1, <1>2, <3>3 DEF InHand
    <3>5. QED
      BY <1>1, <3>1, <3>2, <3>4 DEF Newest
  <2>3. QED
    BY <2>1, <2>2
<1>6. QED
  BY <1>3, <1>4, <1>5 DEF LatestEvidence

\* What a merge does not mention stays, and what it mentions is in hand.
LEMMA WriteKeepsNewest ==
    ASSUME Shape, OneAtATime, InStep, LatestEvidence, ~overlapped,
           NEW w \in Writers, WriteData(w)
    PROVE  InStep' /\ LatestEvidence'
<1> USE BoundAssumption, ContentAssumption, AbsentAssumption DEF Shape, TypeOK, WriterFits, Goto
<1>1. /\ pc[w] = "write" /\ target[w] \in Made /\ target[w] \in Ids
      /\ data' = [data EXCEPT ![target[w]] = Merged(Content[rec[w]], seen[w])]
      /\ todo' = [todo EXCEPT ![w] = Present(rec[w])]
      /\ pc' = [pc EXCEPT ![w] = "common"]
      /\ UNCHANGED <<made, evidence, rec, target, seen, cut>>
  BY DEF WriteData, Made, Ids
<1>2. \A q \in Writers : q # w => pc[q] = "idle" /\ todo[q] = {}
  BY <1>1, AloneAtWork
<1>3. seen[w] = data[target[w]]
  BY <1>1 DEF InStep
<1>4. InStep'
  <2>1. \A f \in Present(rec[w]) : data'[target[w]][f] = Content[rec[w]][f]
    BY <1>1 DEF Present, Merged
  <2>2. QED
    BY <1>1, <1>2, <2>1 DEF InStep
<1>5. ASSUME NEW e \in Made', NEW f \in Fields PROVE Newest(e, f)'
  <2>1. e \in Made /\ e \in Ids /\ Newest(e, f)
    <3>1. e \in Made /\ e \in Ids
      BY <1>1 DEF Made, Ids
    <3>2. QED
      BY <3>1 DEF LatestEvidence
  <2>2. CASE e = target[w] /\ Content[rec[w]][f] # Absent
    <3>1. data'[e][f] = Content[rec[w]][f]
      BY <1>1, <2>2 DEF Merged
    <3>2. InHand(e, f, data[e][f])'
      BY <1>1, <2>2, <3>1 DEF InHand, Present
    <3>3. QED
      BY <2>2, <3>1, <3>2 DEF Newest
  <2>3. CASE ~(e = target[w] /\ Content[rec[w]][f] # Absent)
    <3>1. data'[e][f] = data[e][f]
      BY <1>1, <1>3, <2>1, <2>3 DEF Merged
    <3>2. todo[w] = {}
      BY <1>1
    <3>3. InHand(e, f, data[e][f]) => InHand(e, f, data[e][f])'
      BY <1>1, <1>2, <3>2 DEF InHand
    <3>4. QED
      BY <1>1, <2>1, <3>1, <3>3 DEF Newest
  <2>4. QED
    BY <2>2, <2>3
<1>6. QED
  BY <1>4, <1>5 DEF LatestEvidence

\* A new row is of the value that its field has.
LEMMA EvidenceKeepsNewest ==
    ASSUME Shape, OneAtATime, NoRowsYet, InStep, LatestEvidence, ~overlapped,
           NEW w \in Writers, RecordEvidence(w)
    PROVE  InStep' /\ LatestEvidence'
<1> USE BoundAssumption, ContentAssumption, AbsentAssumption DEF Shape, TypeOK, WriterFits, Goto
<1>1. PICK g \in todo[w] :
         /\ evidence' = [evidence EXCEPT ![target[w]][g] = Append(@, Content[rec[w]][g])]
         /\ todo' = [todo EXCEPT ![w] = @ \ {g}]
         /\ pc' = [pc EXCEPT ![w] = EvidenceNext(todo[w] \ {g})]
  BY DEF RecordEvidence
<1>2. /\ pc[w] = "evidence" /\ target[w] \in Made /\ target[w] \in Ids
      /\ UNCHANGED <<made, data, rec, target, seen, cut>>
  BY DEF RecordEvidence, entity, history, Made, Ids
<1>3. g \in Fields /\ Content[rec[w]][g] \in Values /\ data[target[w]][g] = Content[rec[w]][g]
  BY <1>1 DEF Present, InStep
<1>4. \A q \in Writers : q # w => pc[q] = "idle" /\ todo[q] = {}
  BY <1>2, AloneAtWork
<1>5. InStep'
  BY <1>1, <1>2, <1>4 DEF InStep, EvidenceNext
<1>6. ASSUME NEW e \in Made', NEW f \in Fields PROVE Newest(e, f)'
  <2>1. e \in Made /\ e \in Ids /\ Newest(e, f)
    BY <1>2 DEF Made, Ids, LatestEvidence
  <2>2. CASE e = target[w] /\ f = g
    <3>1. evidence[e][f] \in Seq(Values)
      BY <2>1
    <3>2. evidence'[e][f] = Append(evidence[e][f], data[e][f])
      BY <1>1, <1>2, <1>3, <2>2
    <3>3. data[e][f] \in Values
      BY <1>3, <2>2
    <3>4. /\ Len(evidence'[e][f]) = Len(evidence[e][f]) + 1
          /\ evidence'[e][f][Len(evidence[e][f]) + 1] = data[e][f]
      BY <3>1, <3>2, <3>3
    <3>5. evidence'[e][f] # <<>>
      BY <3>1, <3>4
    <3>6. QED
      BY <1>2, <3>3, <3>4, <3>5 DEF Newest
  <2>3. CASE ~(e = target[w] /\ f = g)
    <3>1. evidence'[e][f] = evidence[e][f]
      BY <1>1, <1>2, <1>3, <2>1, <2>3
    <3>2. InHand(e, f, data[e][f]) => InHand(e, f, data[e][f])'
      BY <1>1, <1>2, <2>3 DEF InHand
    <3>3. QED
      BY <1>2, <2>1, <3>1, <3>2 DEF Newest
  <2>4. QED
    BY <2>2, <2>3
<1>7. QED
  BY <1>5, <1>6 DEF LatestEvidence

LEMMA CutOffKeepsNewest ==
    ASSUME Shape, InStep, LatestEvidence, ~overlapped, NEW w \in Writers, CutOff(w)
    PROVE  InStep' /\ LatestEvidence'
<1> USE DEF Shape, TypeOK, Goto
<1>1. /\ cut' = cut \cup {<<target[w], f, Content[rec[w]][f]>> : f \in todo[w]}
      /\ todo' = [todo EXCEPT ![w] = {}]
      /\ pc' = [pc EXCEPT ![w] = "idle"]
      /\ UNCHANGED <<made, data, evidence, rec, target, seen>>
  BY DEF CutOff, entity
<1>2. InStep'
  BY <1>1 DEF InStep
<1>3. ASSUME NEW e \in Made', NEW f \in Fields PROVE Newest(e, f)'
  <2>1. Newest(e, f)
    BY <1>1 DEF Made, LatestEvidence
  <2>2. InHand(e, f, data[e][f])
           => InHand(e, f, data[e][f])' \/ <<e, f, data[e][f]>> \in cut'
    <3>1. ASSUME NEW q \in Writers, target[q] = e, f \in todo[q],
                 Content[rec[q]][f] = data[e][f]
          PROVE  InHand(e, f, data[e][f])' \/ <<e, f, data[e][f]>> \in cut'
      <4>1. CASE q = w
        BY <1>1, <3>1, <4>1
      <4>2. CASE q # w
        BY <1>1, <3>1, <4>2 DEF InHand
      <4>3. QED
        BY <4>1, <4>2
    <3>2. QED
      BY <3>1 DEF InHand
  <2>3. cut \subseteq cut'
    BY <1>1
  <2>4. QED
    BY <1>1, <2>1, <2>2, <2>3 DEF Newest
<1>4. QED
  BY <1>2, <1>3 DEF LatestEvidence

LEMMA NewestInductive ==
    ASSUME Shape, Shape', OneAtATime, NoRowsYet, InStep, LatestEvidence, [Next]_vars
    PROVE  NoRowsYet' /\ InStep' /\ LatestEvidence'
<1> USE DEF Goto, local, history, entity
<1>1. overlapped => overlapped'
  BY DEF Next, Step, CutOff, Persist, MatchKey, MatchUrl, MatchName, Create, ReadData,
         WriteData, ReadCommon, WriteCommon, RecordEvidence, Decide, vars
<1>2. NoRowsYet'
  <2>1. ASSUME NEW w \in Writers, RecordEvidence(w) PROVE NoRowsYet'
    <3>1. target[w] \in Made /\ made' = made
      BY <2>1 DEF RecordEvidence, Shape, WriterFits
    <3>2. \A e \in Ids : e # target[w] => evidence'[e] = evidence[e]
      BY <2>1 DEF RecordEvidence, Shape, TypeOK
    <3>3. QED
      BY <3>1, <3>2 DEF NoRowsYet, Made
  <2>2. ASSUME NEW w \in Writers, Create(w) PROVE NoRowsYet'
    BY <2>2 DEF Create, NoRowsYet, Made, Ids, Shape, TypeOK
  <2>3. ASSUME NEW w \in Writers,
               \/ MatchKey(w) \/ MatchUrl(w) \/ MatchName(w) \/ ReadData(w) \/ WriteData(w)
               \/ ReadCommon(w) \/ WriteCommon(w) \/ CutOff(w)
               \/ \E r \in Records : Persist(w, r)
        PROVE  UNCHANGED <<made, evidence>>
    BY <2>3 DEF MatchKey, MatchUrl, MatchName, ReadData, WriteData, ReadCommon, WriteCommon,
                CutOff, Persist, Decide
  <2>4. UNCHANGED <<made, evidence>> => NoRowsYet'
    BY DEF NoRowsYet, Made
  <2>5. UNCHANGED vars => UNCHANGED <<made, evidence>>
    BY DEF vars
  <2>6. QED
    BY <2>1, <2>2, <2>3, <2>4, <2>5 DEF Next, Step
<1>3. CASE overlapped'
  BY <1>2, <1>3 DEF InStep, LatestEvidence
<1>4. CASE ~overlapped'
  <2>1. ~overlapped
    BY <1>1, <1>4
  <2>2. ASSUME NEW w \in Writers, Create(w) \/ WriteData(w) \/ RecordEvidence(w) \/ CutOff(w)
        PROVE  InStep' /\ LatestEvidence'
    BY <2>1, <2>2, CreateKeepsNewest, WriteKeepsNewest, EvidenceKeepsNewest, CutOffKeepsNewest
  <2>3. ASSUME NEW w \in Writers,
               \/ MatchKey(w) \/ MatchUrl(w) \/ MatchName(w) \/ ReadData(w)
               \/ ReadCommon(w) \/ WriteCommon(w) \/ \E r \in Records : Persist(w, r)
        PROVE  InStep' /\ LatestEvidence'
    <3>1. /\ UNCHANGED <<made, data, evidence, cut>> /\ todo' = todo
          /\ \A q \in Writers \ {w} :
                /\ pc'[q] = pc[q] /\ rec'[q] = rec[q] /\ target'[q] = target[q]
                /\ seen'[q] = seen[q] /\ todo'[q] = todo[q]
      BY <2>3 DEF MatchKey, MatchUrl, MatchName, ReadData, ReadCommon, WriteCommon,
                  Persist, Decide, Shape, TypeOK
    <3>2. todo[w] = {} \/ (rec'[w] = rec[w] /\ target'[w] = target[w])
      <4>1. CASE ReadData(w) \/ ReadCommon(w) \/ WriteCommon(w) \/ MatchName(w)
        BY <4>1 DEF ReadData, ReadCommon, WriteCommon, MatchName
      <4>2. CASE MatchKey(w) \/ MatchUrl(w) \/ \E r \in Records : Persist(w, r)
        <5>1. pc[w] \in {"key", "url", "idle"}
          BY <4>2 DEF MatchKey, MatchUrl, Persist
        <5>2. QED
          BY <5>1 DEF Shape, WriterFits
      <4>3. QED
        BY <2>3, <4>1, <4>2
    <3>3. pc'[w] = "write" => seen'[w] = data[target'[w]]
      BY <2>3 DEF MatchKey, MatchUrl, MatchName, ReadData, ReadCommon, WriteCommon,
                  Persist, Decide, Shape, TypeOK, EvidenceNext
    <3>4. QED
      BY <2>1, <3>1, <3>2, <3>3, QuietKeepsNewest
  <2>4. CASE UNCHANGED vars
    <3>1. InStep'
      BY <2>4 DEF vars, InStep
    <3>2. LatestEvidence'
      BY <2>4 DEF vars, LatestEvidence, Newest, InHand, Made
    <3>3. QED
      BY <1>2, <3>1, <3>2
  <2>5. QED
    BY <1>2, <2>2, <2>3, <2>4 DEF Next, Step
<1>5. QED
  BY <1>2, <1>3, <1>4

\* One run at a time keeps the newest evidence row of a field the one of its value,
\* crashes included (merge_data(), record_many()).
THEOREM EvidenceIsLatest == Spec => []LatestEvidence
<1>1. Init => OneAtATime /\ NoRowsYet /\ InStep /\ LatestEvidence
  BY DEF Init, OneAtATime, NoRowsYet, InStep, LatestEvidence, Made
<1>2. QED
  BY <1>1, ShapeInvariant, OneAtATimeInductive, NewestInductive, PTL DEF Spec
=============================================================================
