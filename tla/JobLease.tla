------------------------------ MODULE JobLease ------------------------------
(***************************************************************************)
(* What the `jobs` table promises the code that runs inside a job: a lease *)
(* per job. A process may enter a job nobody is in; it may join a process  *)
(* that is in it only after the lease was revoked. The revocation is       *)
(* forgotten when the last process has left. JobLifecycle implements this. *)
(***************************************************************************)
CONSTANTS
    Jobs,   \* the leased resources
    Procs   \* those that may hold a lease

VARIABLES
    runners,  \* the processes in each job
    revoked   \* jobs whose lease was revoked while a process was in them

vars == <<runners, revoked>>

TypeOK ==
    /\ runners \in [Jobs -> SUBSET Procs]
    /\ revoked \in SUBSET Jobs

Init ==
    /\ runners = [j \in Jobs |-> {}]
    /\ revoked = {}

Idle(p) == \A j \in Jobs : p \notin runners[j]

Enter(p, j) ==
    /\ Idle(p)
    /\ runners[j] = {} \/ j \in revoked
    /\ runners' = [runners EXCEPT ![j] = @ \cup {p}]
    /\ UNCHANGED revoked

Leave(p, j) ==
    /\ p \in runners[j]
    /\ runners' = [runners EXCEPT ![j] = @ \ {p}]
    /\ revoked' = IF runners[j] = {p} THEN revoked \ {j} ELSE revoked

Revoke(j) ==
    /\ runners[j] # {}
    /\ revoked' = revoked \cup {j}
    /\ UNCHANGED runners

Next ==
    \E j \in Jobs : Revoke(j) \/ \E p \in Procs : Enter(p, j) \/ Leave(p, j)

Spec == Init /\ [][Next]_vars
=============================================================================
