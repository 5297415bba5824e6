------------------------------- MODULE Startup -------------------------------
(***************************************************************************)
(* Processes that open the database of DB Collector OS: each brings its    *)
(* schema up to date first, by apply_migrations() (database.py), and they  *)
(* all start at once when a new release is installed (systemd/*.service).  *)
(*                                                                         *)
(* A migration's script is run statement by statement, each committed by   *)
(* itself; the lock around it keeps threads apart, not processes. One      *)
(* action is one statement. A process may die anywhere and is started      *)
(* again (Restart=on-failure).                                             *)
(***************************************************************************)
EXTENDS Integers

CONSTANTS
    Processes,   \* scheduler, workers, admin
    Last,        \* migrations there are, in the order of their file names
    Statements,  \* statements in the script of each
    MaxCrashes   \* bound on crashes and failing statements

ASSUME LastAssumption == Last \in Nat /\ MaxCrashes \in Nat
ASSUME StatementsAssumption == Statements \in [1 .. Last -> Nat \ {0}]

Versions == 1 .. Last

\* everything that a migration makes
Whole(v) == {v} \X (1 .. Statements[v])

VARIABLES
    effective,  \* <<version, statement>> whose table or index there is
    recorded,   \* schema_migrations
    pc,         \* where each process is
    applied,    \* versions it read from schema_migrations
    version,    \* the migration it looks at, Last + 1 after the last one
    stmt,       \* the statement of its script it executes next
    crashes     \* crashes so far

vars == <<effective, recorded, pc, applied, version, stmt, crashes>>

TypeOK ==
    /\ effective \subseteq UNION {Whole(v) : v \in Versions}
    /\ recorded \subseteq Versions
    /\ pc \in [Processes -> {"down", "read", "next", "script", "insert", "open"}]
    /\ applied \in [Processes -> SUBSET Versions]
    /\ version \in [Processes -> 1 .. Last + 1]
    /\ stmt \in [Processes -> Nat \ {0}]
    /\ crashes \in Nat
    /\ \A p \in Processes : pc[p] \in {"script", "insert"} => version[p] \in Versions
    /\ \A p \in Processes : pc[p] = "script" => stmt[p] <= Statements[version[p]]

\* a database that has been through the first n migrations
Init ==
    /\ \E n \in 0 .. Last :
        recorded = 1 .. n /\ effective = UNION {Whole(v) : v \in 1 .. n}
    /\ pc = [p \in Processes |-> "down"]
    /\ applied = [p \in Processes |-> {}]
    /\ version = [p \in Processes |-> 1]
    /\ stmt = [p \in Processes |-> 1]
    /\ crashes = 0

Goto(p, label) == pc' = [pc EXCEPT ![p] = label]

Start(p) ==
    /\ pc[p] = "down"
    /\ Goto(p, "read")
    /\ UNCHANGED <<effective, recorded, applied, version, stmt, crashes>>

\* once, before any lock is taken
ReadApplied(p) ==
    /\ pc[p] = "read"
    /\ applied' = [applied EXCEPT ![p] = recorded]
    /\ version' = [version EXCEPT ![p] = 1]
    /\ Goto(p, "next")
    /\ UNCHANGED <<effective, recorded, stmt, crashes>>

\* mutant: a migration is applied if its first table is there
FirstTableThere(p, v) == <<v, 1>> \in effective

IsApplied(p, v) == v \in applied[p]

NextFile(p) ==
    /\ pc[p] = "next"
    /\ stmt' = [stmt EXCEPT ![p] = 1]
    /\ IF version[p] > Last THEN Goto(p, "open") /\ UNCHANGED version
       ELSE IF IsApplied(p, version[p])
            THEN version' = [version EXCEPT ![p] = @ + 1] /\ UNCHANGED pc
            ELSE Goto(p, "script") /\ UNCHANGED version
    /\ UNCHANGED <<effective, recorded, applied, crashes>>

\* mutant: without IF NOT EXISTS, what is there already makes the script fail
ExecuteNew(p) ==
    /\ pc[p] = "script"
    /\ IF <<version[p], stmt[p]>> \in effective
       THEN Goto(p, "down") /\ UNCHANGED stmt
       ELSE /\ Goto(p, IF stmt[p] = Statements[version[p]] THEN "insert" ELSE "script")
            /\ stmt' = [stmt EXCEPT ![p] = @ + 1]
    /\ effective' = effective \cup {<<version[p], stmt[p]>>}
    /\ UNCHANGED <<recorded, applied, version, crashes>>

\* executescript(): every statement says IF NOT EXISTS
Execute(p) ==
    /\ pc[p] = "script"
    /\ effective' = effective \cup {<<version[p], stmt[p]>>}
    /\ stmt' = [stmt EXCEPT ![p] = @ + 1]
    /\ Goto(p, IF stmt[p] = Statements[version[p]] THEN "insert" ELSE "script")
    /\ UNCHANGED <<recorded, applied, version, crashes>>

\* version is the PRIMARY KEY: the second process to insert it fails, and is over
Insert(p) ==
    /\ pc[p] = "insert"
    /\ IF version[p] \in recorded
       THEN Goto(p, "down") /\ UNCHANGED <<recorded, version>>
       ELSE /\ recorded' = recorded \cup {version[p]}
            /\ version' = [version EXCEPT ![p] = @ + 1]
            /\ Goto(p, "next")
    /\ UNCHANGED <<effective, applied, stmt, crashes>>

\* killed, or a statement raises (the database is locked for too long)
Crash(p) ==
    /\ pc[p] # "down"
    /\ crashes < MaxCrashes
    /\ crashes' = crashes + 1
    /\ Goto(p, "down")
    /\ UNCHANGED <<effective, recorded, applied, version, stmt>>

Step(p) == Start(p) \/ ReadApplied(p) \/ NextFile(p) \/ Execute(p) \/ Insert(p)

Next == \E p \in Processes : Step(p) \/ Crash(p)

Spec == Init /\ [][Next]_vars

\* a service that has failed is started again, and a process that runs goes on
FairSpec == Spec /\ \A p \in Processes : WF_vars(Step(p))

-----------------------------------------------------------------------------
(* Properties.                                                             *)

\* However many processes run the same scripts at once, and wherever they die: what is
\* recorded as applied is there as a whole, no script is begun before those it builds on
\* are through, and a process that has the database open sees the whole schema.
OnWholeSchema ==
    /\ \A v \in recorded : Whole(v) \subseteq effective
    /\ \A e \in effective : \A v \in 1 .. e[1] - 1 : Whole(v) \subseteq effective
    /\ \A p \in Processes : pc[p] = "open" => \A v \in Versions : Whole(v) \subseteq effective

\* Every process gets the database open in the end, although it may lose the race for
\* schema_migrations to another one and fail.
EveryProcessOpens == \A p \in Processes : <>[](pc[p] = "open")

\* Why: how far each process has got.
Progress(p) ==
    /\ pc[p] \in {"next", "script", "insert", "open"} =>
           /\ applied[p] \subseteq recorded
           /\ \A v \in 1 .. version[p] - 1 : Whole(v) \subseteq effective
    /\ pc[p] = "script" => {version[p]} \X (1 .. stmt[p] - 1) \subseteq effective
    /\ pc[p] = "insert" => Whole(version[p]) \subseteq effective
    /\ pc[p] = "open" => version[p] = Last + 1

AllProgress == \A p \in Processes : Progress(p)
=============================================================================
