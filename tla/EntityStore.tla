----------------------------- MODULE EntityStore -----------------------------
(***************************************************************************)
(* What becomes of an extracted record: PersistenceService.persist()       *)
(* (persistence.py) asks the Deduplicator (deduplication/matcher.py) for   *)
(* an entity to merge it into, creates or updates the entity, and writes   *)
(* one evidence row per field (entities.py). One action is one SQL         *)
(* statement, so a crash, or a second run of a stolen job, can come in     *)
(* between any two of them.                                                *)
(*                                                                         *)
(* Records that are skipped or invalid change nothing and are left out.    *)
(* Records and entities are of one job and of one type. Of the columns of  *)
(* an entity those are kept that resolve() reads, and data_json; of the    *)
(* evidence the rows about data_json, none of whose keys is the name of a  *)
(* column. A field that is None is a value like any other.                 *)
(***************************************************************************)
EXTENDS Integers, Sequences

CONSTANTS
    Writers,     \* processes persisting records of the job; one, unless it was stolen
    Records,     \* extracted records
    Fields,      \* keys of data_json
    Values,      \* their values
    Absent,      \* the record, or the entity, has no such field
    Url,         \* canonical_url of each record, else the URL it was fetched from
    ExternalId,  \* external_id of each record, or NoKey
    Name,        \* normalized_name of each record, or NoKey
    Content,     \* record.fields
    NoKey,       \* None
    MaxPersists, \* bound on calls of persist()
    MaxFaults    \* bound on crashes and exceptions

ASSUME AbsentAssumption == Absent \notin Values
ASSUME RecordsAssumption == Records # {}
ASSUME ContentAssumption == Content \in [Records -> [Fields -> Values \cup {Absent}]]
ASSUME BoundAssumption == MaxPersists \in Nat /\ MaxFaults \in Nat

Ids == 1 .. MaxPersists

VARIABLES
    made,        \* entities there are: 1 .. made
    key,         \* fingerprint of each entity
    url,         \* its canonical_url
    name,        \* its normalized_name
    data,        \* its data_json
    evidence,    \* values of its evidence rows for each field, oldest first
    pc,          \* where each writer is in persist()
    rec,         \* the record it persists
    target,      \* the entity it has decided on, 0 before
    seen,        \* data_json as read by merge_data()
    change,      \* columns _update_common_fields() found to differ
    todo,        \* fields written whose evidence is still to be written
    persists,    \* calls of persist() so far
    faults,      \* calls cut off so far
    filed,       \* history: records merged into each entity, its first one included
    cut,         \* history: what was written by a call cut off before its evidence
    overlapped   \* history: two calls of persist() have gone on at a time

vars == <<made, key, url, name, data, evidence, pc, rec, target, seen, change, todo,
          persists, faults, filed, cut, overlapped>>

Made == 1 .. made
Blank == [f \in Fields |-> Absent]
Present(r) == {f \in Fields : Content[r][f] # Absent}

\* compute_fingerprint(); a record always has a URL, if only that of its page
Fingerprint(r) ==
    IF ExternalId[r] # NoKey THEN <<"external_id", ExternalId[r]>> ELSE <<"url", Url[r]>>
Fingerprints == {Fingerprint(r) : r \in Records}

PCs == {"idle", "key", "url", "name", "create", "read", "write", "common", "update",
        "evidence"}

TypeOK ==
    /\ made \in 0 .. MaxPersists
    /\ key \in [Ids -> Fingerprints \cup {NoKey}]
    /\ url \in [Ids -> {Url[r] : r \in Records} \cup {NoKey}]
    /\ name \in [Ids -> {Name[r] : r \in Records} \cup {NoKey}]
    /\ data \in [Ids -> [Fields -> Values \cup {Absent}]]
    /\ evidence \in [Ids -> [Fields -> Seq(Values)]]
    /\ pc \in [Writers -> PCs]
    /\ rec \in [Writers -> Records]
    /\ target \in [Writers -> 0 .. made]
    /\ seen \in [Writers -> [Fields -> Values \cup {Absent}]]
    /\ change \in [Writers -> SUBSET {"url", "name"}]
    /\ todo \in [Writers -> SUBSET Fields]
    /\ persists \in 0 .. MaxPersists /\ faults \in 0 .. MaxFaults
    /\ filed \in [Ids -> Seq(Records)]
    /\ cut \in SUBSET (Ids \X Fields \X Values)
    /\ overlapped \in BOOLEAN

Init ==
    /\ made = 0
    /\ key = [e \in Ids |-> NoKey]
    /\ url = [e \in Ids |-> NoKey]
    /\ name = [e \in Ids |-> NoKey]
    /\ data = [e \in Ids |-> Blank]
    /\ evidence = [e \in Ids |-> [f \in Fields |-> <<>>]]
    /\ pc = [w \in Writers |-> "idle"]
    /\ rec = [w \in Writers |-> CHOOSE r \in Records : TRUE]
    /\ target = [w \in Writers |-> 0]
    /\ seen = [w \in Writers |-> Blank]
    /\ change = [w \in Writers |-> {}]
    /\ todo = [w \in Writers |-> {}]
    /\ persists = 0 /\ faults = 0
    /\ filed = [e \in Ids |-> <<>>]
    /\ cut = {}
    /\ overlapped = FALSE

entity == <<made, key, url, name, data>>
history == <<filed, cut, overlapped>>
local == <<rec, target, seen, change, todo>>

Goto(w, label) == pc' = [pc EXCEPT ![w] = label]
EvidenceNext(fs) == IF fs = {} THEN "idle" ELSE "evidence"

-----------------------------------------------------------------------------
(* persist(): the decision, resolve().                                     *)

Persist(w, r) ==
    /\ pc[w] = "idle"
    /\ persists < MaxPersists
    /\ persists' = persists + 1
    /\ rec' = [rec EXCEPT ![w] = r]
    /\ target' = [target EXCEPT ![w] = 0]
    /\ seen' = [seen EXCEPT ![w] = Blank]
    /\ change' = [change EXCEPT ![w] = {}]
    /\ Goto(w, "key")
    /\ overlapped' = (overlapped \/ \E v \in Writers : pc[v] # "idle")
    /\ UNCHANGED <<entity, evidence, todo, faults, filed, cut>>

\* one of the entities found, if any, is merged into; else the next signal is tried
Decide(w, found, otherwise) ==
    /\ \/ \E e \in found :
             /\ target' = [target EXCEPT ![w] = e]
             /\ Goto(w, "read")
       \/ found = {} /\ Goto(w, otherwise) /\ UNCHANGED target
    /\ UNCHANGED <<entity, evidence, rec, seen, change, todo, persists, faults, history>>

\* mutant: the fingerprint is computed and never looked up
MatchKeyNever(w) ==
    /\ pc[w] = "key"
    /\ Decide(w, {}, "url")

\* find_by_fingerprint()
MatchKey(w) ==
    /\ pc[w] = "key"
    /\ Decide(w, {e \in Made : key[e] = Fingerprint(rec[w])}, "url")

\* find_by_canonical_url()
MatchUrl(w) ==
    /\ pc[w] = "url"
    /\ Decide(w, {e \in Made : url[e] = Url[rec[w]]}, "name")

\* mutant: the same name is as good as the same URL
MatchNameMerges(w) ==
    /\ pc[w] = "name"
    /\ Decide(w, {e \in Made : Name[rec[w]] # NoKey /\ name[e] = Name[rec[w]]}, "create")

\* An entity of the same name: a human decides, whatever else agrees or conflicts.
MatchName(w) ==
    /\ pc[w] = "name"
    /\ Goto(w, IF \E e \in Made : Name[rec[w]] # NoKey /\ name[e] = Name[rec[w]]
               THEN "idle" ELSE "create")
    /\ UNCHANGED <<entity, evidence, local, persists, faults, history>>

-----------------------------------------------------------------------------
(* Creating and merging.                                                   *)

\* mutant: one INSERT makes two entities
CreateAgain(w) ==
    /\ pc[w] = "create"
    /\ made' = made + 2
    /\ Goto(w, "idle")
    /\ UNCHANGED <<key, url, name, data, evidence, local, persists, faults, history>>

\* entities.create(). The bound is never in the way: a call creates one entity at most.
Create(w) ==
    /\ pc[w] = "create"
    /\ made < MaxPersists
    /\ LET e == made + 1  r == rec[w] IN
       /\ made' = e
       /\ key' = [key EXCEPT ![e] = Fingerprint(r)]
       /\ url' = [url EXCEPT ![e] = Url[r]]
       /\ name' = [name EXCEPT ![e] = Name[r]]
       /\ data' = [data EXCEPT ![e] = Content[r]]
       /\ filed' = [filed EXCEPT ![e] = <<r>>]
       /\ target' = [target EXCEPT ![w] = e]
       /\ todo' = [todo EXCEPT ![w] = Present(r)]
       /\ Goto(w, EvidenceNext(Present(r)))
    /\ UNCHANGED <<evidence, rec, seen, change, persists, faults, cut, overlapped>>

\* merge_data(): get() ...
ReadData(w) ==
    /\ pc[w] = "read"
    /\ seen' = [seen EXCEPT ![w] = data[target[w]]]
    /\ Goto(w, "write")
    /\ UNCHANGED <<entity, evidence, rec, target, change, todo, persists, faults, history>>

\* mutant: what the entity has already is kept
MergedKeeping(new, old) == [f \in Fields |-> IF old[f] = Absent THEN new[f] ELSE old[f]]

\* merged.update(new_data)
Merged(new, old) == [f \in Fields |-> IF new[f] = Absent THEN old[f] ELSE new[f]]

\* mutant: evidence for the fields the entity did not have
WriteDataOfNewFields(w) ==
    /\ pc[w] = "write"
    /\ data' = [data EXCEPT ![target[w]] = Merged(Content[rec[w]], seen[w])]
    /\ filed' = [filed EXCEPT ![target[w]] = Append(@, rec[w])]
    /\ todo' = [todo EXCEPT ![w] = {f \in Present(rec[w]) : seen[w][f] = Absent}]
    /\ Goto(w, "common")
    /\ UNCHANGED <<made, key, url, name, evidence, rec, target, seen, change, persists,
                   faults, cut, overlapped>>

\* ... and update()
WriteData(w) ==
    /\ pc[w] = "write"
    /\ data' = [data EXCEPT ![target[w]] = Merged(Content[rec[w]], seen[w])]
    /\ filed' = [filed EXCEPT ![target[w]] = Append(@, rec[w])]
    /\ todo' = [todo EXCEPT ![w] = Present(rec[w])]
    /\ Goto(w, "common")
    /\ UNCHANGED <<made, key, url, name, evidence, rec, target, seen, change, persists,
                   faults, cut, overlapped>>

\* _update_common_fields(): get(); a value that is missing never replaces one ...
ReadCommon(w) ==
    /\ pc[w] = "common"
    /\ LET e == target[w]  r == rec[w]
           differ == {c \in {"url", "name"} :
                         \/ c = "url" /\ url[e] # Url[r]
                         \/ c = "name" /\ Name[r] # NoKey /\ name[e] # Name[r]}
       IN /\ change' = [change EXCEPT ![w] = differ]
          /\ Goto(w, IF differ = {} THEN EvidenceNext(todo[w]) ELSE "update")
    /\ UNCHANGED <<entity, evidence, rec, target, seen, todo, persists, faults, history>>

\* ... and update(); the fingerprint stays that of the first record
WriteCommon(w) ==
    /\ pc[w] = "update"
    /\ LET e == target[w]  r == rec[w] IN
       /\ url' = [url EXCEPT ![e] = IF "url" \in change[w] THEN Url[r] ELSE @]
       /\ name' = [name EXCEPT ![e] = IF "name" \in change[w] THEN Name[r] ELSE @]
    /\ Goto(w, EvidenceNext(todo[w]))
    /\ UNCHANGED <<made, key, data, evidence, local, persists, faults, history>>

\* record_many(), one record() after the other
RecordEvidence(w) ==
    /\ pc[w] = "evidence"
    /\ \E f \in todo[w] :
          /\ evidence' = [evidence EXCEPT ![target[w]][f] = Append(@, Content[rec[w]][f])]
          /\ todo' = [todo EXCEPT ![w] = @ \ {f}]
          /\ Goto(w, EvidenceNext(todo[w] \ {f}))
    /\ UNCHANGED <<entity, rec, target, seen, change, persists, faults, history>>

\* A crash, or an exception that fails the run. The page is done, so the record is not
\* persisted again until its page has changed.
CutOff(w) ==
    /\ pc[w] # "idle"
    /\ faults < MaxFaults
    /\ faults' = faults + 1
    /\ Goto(w, "idle")
    /\ cut' = cut \cup {<<target[w], f, Content[rec[w]][f]>> : f \in todo[w]}
    /\ todo' = [todo EXCEPT ![w] = {}]
    /\ UNCHANGED <<entity, evidence, rec, target, seen, change, persists, filed, overlapped>>

-----------------------------------------------------------------------------
Step(w) ==
    \/ MatchKey(w) \/ MatchUrl(w) \/ MatchName(w)
    \/ Create(w) \/ ReadData(w) \/ WriteData(w) \/ ReadCommon(w) \/ WriteCommon(w)
    \/ RecordEvidence(w)

Next == \E w \in Writers : Step(w) \/ CutOff(w) \/ \E r \in Records : Persist(w, r)

Spec == Init /\ [][Next]_vars

-----------------------------------------------------------------------------
(* Properties.                                                             *)

\* some writer is about to record where v comes from
InHand(e, f, v) ==
    \E w \in Writers : target[w] = e /\ f \in todo[w] /\ Content[rec[w]][f] = v

Backed(e, f, v) ==
    \/ \E i \in DOMAIN evidence[e][f] : evidence[e][f][i] = v
    \/ InHand(e, f, v)
    \/ <<e, f, v>> \in cut

\* Whatever a field of an entity holds has an evidence row of that value, unless the
\* call that wrote it was cut off (docs/architecture.md:85) -- also when runs overlap.
Provenance ==
    \A e \in Made, f \in Fields : data[e][f] # Absent => Backed(e, f, data[e][f])

\* the newest evidence row of f, if any, is the one of its value
Newest(e, f) ==
    IF data[e][f] = Absent THEN evidence[e][f] = <<>>
    ELSE \/ evidence[e][f] # <<>> /\ evidence[e][f][Len(evidence[e][f])] = data[e][f]
         \/ InHand(e, f, data[e][f])
         \/ <<e, f, data[e][f]>> \in cut

\* While calls do not overlap, evidence and value do not drift apart: the newest row of
\* a field is the one of its value, and no field with evidence is missing.
LatestEvidence == ~overlapped => \A e \in Made, f \in Fields : Newest(e, f)

\* While calls do not overlap, no two entities have one fingerprint.
OneEntityPerKey ==
    ~overlapped => \A e, d \in Made : key[e] = key[d] => e = d

Alike(r, q) ==
    Url[r] = Url[q] \/ (ExternalId[r] # NoKey /\ ExternalId[r] = ExternalId[q])

\* "Anything only partially matching is never merged automatically"
\* (deduplication/matcher.py:3): a record joins an entity only if it has the URL or the
\* external_id of one that joined before, over any number of merges that change both.
MergedOnSharedKey ==
    \A e \in Made : \A i \in 2 .. Len(filed[e]) :
        \E j \in 1 .. (i - 1) : Alike(filed[e][i], filed[e][j])
=============================================================================
