---------------------------- MODULE MCEntityStore ----------------------------
(***************************************************************************)
(* EntityStore for TLC: records of one product under two URLs, one with    *)
(* and one without its external_id, and of one that shares its name only.  *)
(***************************************************************************)
EXTENDS EntityStore, TLC

Symmetry == Permutations(Writers)

MCRecords == {"old", "full", "moved", "other"}
MCUrl == [old |-> "u1", full |-> "u1", moved |-> "u2", other |-> "u3"]
MCExternalId == [old |-> NoKey, full |-> "x", moved |-> "x", other |-> NoKey]
MCName == [old |-> "n", full |-> "n", moved |-> NoKey, other |-> "n"]
MCContent ==
    [old   |-> "f" :> 1 @@ "g" :> Absent,
     full  |-> "f" :> 2 @@ "g" :> 1,
     moved |-> "f" :> Absent @@ "g" :> 2,
     other |-> "f" :> 1 @@ "g" :> 2]
=============================================================================
