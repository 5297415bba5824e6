---------------------------- MODULE PhaseProgress ----------------------------
(***************************************************************************)
(* How a job gets from bootstrap to incremental: the phases, the discovery *)
(* statistics each run leaves behind (discovery_runs), and the streak of   *)
(* low-yield runs in its checkpoint, on which _advance_phase()             *)
(* (collectors/pipeline.py), is_saturated() (discovery/saturation.py) and  *)
(* phase1_conditions_met() (collectors/phase_manager.py) decide. Runs of a *)
(* job come one after the other, but any of them may be cut off between    *)
(* two of its commits. Crawling itself is one step with an arbitrary       *)
(* outcome; FetchQueue and PageFlow look inside it.                        *)
(***************************************************************************)
EXTENDS Integers, Sequences

CONSTANTS
    Window,      \* SaturationConfig.window_runs
    MinRuns,     \* SaturationConfig.min_runs_before_check
    LowShare,    \* 1 / new_rate_threshold: a yield of 1 in LowShare is still low
    Required,    \* phase1_conditions.consecutive_low_discovery_runs
    NeedEmpty,   \* phase1_conditions.queue_empty
    NeedQuiet,   \* phase1_conditions.require_discovery_saturation
    MaxTotal,    \* bound on the candidates there are to discover
    MaxFaults    \* bound on runs that are cut off

ASSUME WindowAssumption ==
    /\ Window \in Nat /\ MinRuns \in 1 .. Window
    /\ LowShare \in Nat \ {0} /\ Required \in Nat
ASSUME ConditionAssumption == NeedEmpty \in BOOLEAN /\ NeedQuiet \in BOOLEAN
ASSUME BoundAssumption == MaxTotal \in Nat /\ MaxFaults \in Nat

VARIABLES
    phase,    \* jobs.phase
    streak,   \* low_discovery_streak in the checkpoint, up to Required
    log,      \* the last Window rows of discovery_runs, oldest first
    total,    \* candidates.total_count()
    rowHigh,  \* the newest run_history row has an error rate above max_error_rate
    pc,       \* where the run is: idle, or about to bootstrap, enter discovery, crawl,
              \* record its statistics, advance the phase, save its checkpoint
    found,    \* outcome.discovered
    high,     \* this run's own error rate is above max_error_rate
    queued,   \* is_empty() says no
    met,      \* enough entities, and not too many open reviews
    counted,  \* the streak about to be saved
    faults,   \* runs cut off so far
    quiet,    \* history: rows recorded since the last one of high yield, up to Window
    best      \* history: the most `quiet` has been

vars == <<phase, streak, log, total, rowHigh, pc, found, high, queued, met, counted,
          faults, quiet, best>>

Rank == [bootstrap |-> 0, discovery |-> 1, collect |-> 2, validation |-> 3,
         phase1_complete |-> 4, incremental |-> 5]
Rows == [new : 0 .. MaxTotal, total : 0 .. MaxTotal]

TypeOK ==
    /\ phase \in DOMAIN Rank
    /\ streak \in 0 .. Required /\ counted \in 0 .. Required
    /\ log \in Seq(Rows) /\ Len(log) <= Window
    /\ total \in 0 .. MaxTotal /\ found \in 0 .. total
    /\ rowHigh \in BOOLEAN /\ high \in BOOLEAN /\ queued \in BOOLEAN /\ met \in BOOLEAN
    /\ pc \in {"idle", "bootstrap", "enter", "crawl", "record", "advance", "save"}
    /\ faults \in 0 .. MaxFaults
    /\ quiet \in 0 .. Window /\ best \in 0 .. Window

Init ==
    /\ phase = "bootstrap"
    /\ streak = 0 /\ counted = 0
    /\ log = <<>>
    /\ total = 0 /\ found = 0
    /\ rowHigh = FALSE /\ high = FALSE
    /\ queued = FALSE /\ met = FALSE
    /\ pc = "idle"
    /\ faults = 0
    /\ quiet = 0 /\ best = 0

-----------------------------------------------------------------------------
(* run_once(), up to its statistics.                                       *)

\* a new run_history row, or the resumed one: in both the counters are still 0
Begin ==
    /\ pc = "idle"
    /\ pc' = IF phase = "bootstrap" THEN "bootstrap" ELSE "crawl"
    /\ found' = 0
    /\ rowHigh' = FALSE
    /\ UNCHANGED <<phase, streak, log, total, high, queued, met, counted, faults, quiet, best>>

\* _bootstrap(): what it finds is in the total, but in no run's outcome.discovered
Bootstrap ==
    /\ pc = "bootstrap"
    /\ pc' = "enter"
    /\ total' \in total .. MaxTotal
    /\ UNCHANGED <<phase, streak, log, rowHigh, found, high, queued, met, counted, faults, quiet, best>>

EnterDiscovery ==
    /\ pc = "enter"
    /\ pc' = "crawl"
    /\ phase' = "discovery"
    /\ UNCHANGED <<streak, log, total, rowHigh, found, high, queued, met, counted, faults, quiet, best>>

\* seed discovery, promotion and the drain, whatever they come to
Crawl ==
    /\ pc = "crawl"
    /\ pc' = "record"
    /\ total' \in total .. MaxTotal
    /\ found' = total' - total
    /\ high' \in BOOLEAN /\ queued' \in BOOLEAN /\ met' \in BOOLEAN
    /\ UNCHANGED <<phase, streak, log, rowHigh, counted, faults, quiet, best>>

Low(r) == r.new * LowShare <= r.total

Row == [new |-> found, total |-> total]

\* mutant: is_saturated() looks at every row there is
RecordAll ==
    /\ pc = "record"
    /\ pc' = "advance"
    /\ log' = Append(log, Row)
    /\ quiet' = IF ~Low(Row) THEN 0 ELSE IF quiet < Window THEN quiet + 1 ELSE quiet
    /\ best' = IF best < quiet' THEN quiet' ELSE best
    /\ UNCHANGED <<phase, streak, total, rowHigh, found, high, queued, met, counted, faults>>

\* record_discovery_stats()
Record ==
    /\ pc = "record"
    /\ pc' = "advance"
    /\ log' = Append(IF Len(log) < Window THEN log ELSE Tail(log), Row)
    /\ quiet' = IF ~Low(Row) THEN 0 ELSE IF quiet < Window THEN quiet + 1 ELSE quiet
    /\ best' = IF best < quiet' THEN quiet' ELSE best
    /\ UNCHANGED <<phase, streak, total, rowHigh, found, high, queued, met, counted, faults>>

-----------------------------------------------------------------------------
(* _advance_phase().                                                       *)

\* mutant: 0 new of 0 known counts as a low yield
SaturatedFromNothing ==
    /\ Len(log) >= MinRuns
    /\ \A i \in 1 .. Len(log) : Low(log[i])

\* is_saturated(): no verdict before MinRuns runs, nor before anything was found
Saturated ==
    /\ Len(log) >= MinRuns
    /\ \A i \in 1 .. Len(log) : log[i].total # 0 /\ Low(log[i])

\* low_run_streak; at 0 of 0 the rate is 0.0
Streak ==
    IF ~Low(log[Len(log)]) THEN 0 ELSE IF streak < Required THEN streak + 1 ELSE streak

\* phase1_conditions_met(). The error rate is that of for_job(limit=1).
ConditionsMet ==
    /\ NeedEmpty => ~queued
    /\ met
    /\ ~rowHigh
    /\ NeedQuiet => Saturated
    /\ Streak >= Required

\* mutant: a queue with rows sends any phase back to collecting
NextPhaseBack ==
    CASE phase # "incremental" /\ queued -> "collect"
      [] phase \in {"discovery", "collect"} /\ ~queued /\ Saturated ->
             IF phase = "collect" THEN "validation" ELSE "collect"
      [] phase = "validation" /\ ~queued /\ ConditionsMet -> "phase1_complete"
      [] phase = "phase1_complete" /\ ~queued -> "incremental"
      [] OTHER -> phase

NextPhase ==
    IF phase \in {"discovery", "collect"} THEN
        IF queued THEN "collect"
        ELSE IF ~Saturated THEN phase
        ELSE IF phase = "collect" THEN "validation" ELSE "collect"
    ELSE IF phase = "validation" /\ ConditionsMet THEN "phase1_complete"
    ELSE IF phase = "phase1_complete" THEN "incremental"
    ELSE phase

\* set_phase(); in the incremental phase nothing is counted any more
Advance ==
    /\ pc = "advance"
    /\ pc' = "save"
    /\ phase' = NextPhase
    /\ counted' = IF phase = "incremental" THEN streak ELSE Streak
    /\ UNCHANGED <<streak, log, total, rowHigh, found, high, queued, met, faults, quiet, best>>

\* mutant: the streak never gets into the checkpoint
SaveWithoutStreak ==
    /\ pc = "save"
    /\ pc' = "idle"
    /\ rowHigh' = high
    /\ UNCHANGED <<phase, streak, log, total, found, high, queued, met, counted, faults, quiet, best>>

\* the checkpoint, and with finish() the counters of the run_history row
Save ==
    /\ pc = "save"
    /\ pc' = "idle"
    /\ streak' = counted
    /\ rowHigh' = high
    /\ UNCHANGED <<phase, log, total, found, high, queued, met, counted, faults, quiet, best>>

\* A crash, or an exception that leaves run_once(). A failed run's row has fetched no
\* page, a dead run's row no counters.
CutOff ==
    /\ pc # "idle"
    /\ faults < MaxFaults
    /\ faults' = faults + 1
    /\ pc' = "idle"
    /\ rowHigh' = FALSE
    /\ UNCHANGED <<phase, streak, log, total, found, high, queued, met, counted, quiet, best>>

-----------------------------------------------------------------------------
Next ==
    \/ Begin \/ Bootstrap \/ EnterDiscovery \/ Crawl \/ Record \/ Advance \/ Save
    \/ CutOff

Spec == Init /\ [][Next]_vars

\* Runs are started over and over and come to an end; every so often one finds the
\* queue drained, the entities in and the reviews done. Whether there is anything left
\* to discover is up to the site, and bounded by MaxTotal.
Fairness ==
    /\ WF_vars(Begin) /\ WF_vars(Bootstrap) /\ WF_vars(EnterDiscovery)
    /\ WF_vars(Record) /\ WF_vars(Advance) /\ WF_vars(Save)
    /\ SF_vars(Crawl /\ ~queued' /\ met')

FairSpec == Spec /\ Fairness

-----------------------------------------------------------------------------
(* Properties.                                                             *)

\* Phase 1 is never left because discovery has not been tried: a job that got as far as
\* validation knows candidates, and at some time MinRuns recorded runs in a row had a
\* low yield -- whatever its conditions are configured to, and whichever runs died
\* (tests/test_phase1_completion_gating.py).
CompletionEarned ==
    Rank[phase] >= Rank["validation"] => total > 0 /\ best >= MinRuns

\* The phase moves one step at a time and never back, also when a run that has moved it
\* dies before its checkpoint is saved.
PhaseForward == [][Rank[phase'] \in {Rank[phase], Rank[phase] + 1}]_vars

\* docs/architecture.md:81 "so Phase 1 doesn't crawl forever": once there is a candidate
\* the job becomes incremental, although runs may die and take their streak with them.
PhaseOneEnds == total > 0 ~> phase = "incremental"

\* Why CompletionEarned: rows of low yield at the end of the window have been counted.
QuietCounted ==
    /\ \A k \in 1 .. Len(log) :
          (\A i \in k .. Len(log) : Low(log[i])) => quiet >= Len(log) - k + 1
    /\ best >= quiet
    /\ \A i \in 1 .. Len(log) : log[i].total <= total
    /\ pc \in {"bootstrap", "enter"} => phase = "bootstrap"
    /\ pc \in {"crawl", "record", "advance"} => phase # "bootstrap"

-----------------------------------------------------------------------------
(* What the documentation promises and the code does not keep.             *)

\* docs/architecture.md:72-73: phase 1 is complete on conditions, `max_error_rate`
\* among them, so no job completes it in a run whose error rate is above the limit.
ErrorRateHeeded ==
    [][phase = "validation" /\ phase' = "phase1_complete" => ~high]_vars
=============================================================================
