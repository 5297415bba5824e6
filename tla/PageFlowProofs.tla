--------------------------- MODULE PageFlowProofs ---------------------------
(***************************************************************************)
(* What holds of FetchQueue for every set of URLs and shells, every        *)
(* priority, and every attempt, page and fault limit, and of PageFlow for  *)
(* every link structure besides. The run that PageFlow describes is a run  *)
(* of FetchQueue, so what is proved of the queue holds of it too.          *)
(***************************************************************************)
EXTENDS PageFlow, FiniteSetTheorems, TLAPS

-----------------------------------------------------------------------------
(* The queue.                                                              *)

QueueInv == TypeOK /\ InHandIsFetching /\ GivenUpAtLimit

LEMMA InitEstablishes == Init => QueueInv
<1> SUFFICES ASSUME Init PROVE QueueInv
  OBVIOUS
<1>1. TypeOK
  BY LimitAssumption DEF Init, TypeOK, RowStatus, Settled, Verdicts, Phases
<1>2. InHandIsFetching /\ GivenUpAtLimit
  BY NoUrlAssumption, LimitAssumption DEF Init, InHandIsFetching, GivenUpAtLimit
<1>3. QED
  BY <1>1, <1>2 DEF QueueInv

\* The type, the row in hand and the attempt budget depend on each other: a row in
\* hand is not given up, so counting one more attempt stays within the budget.
LEMMA QueueInductive == QueueInv /\ [Next]_vars => QueueInv'
<1> SUFFICES ASSUME QueueInv, [Next]_vars PROVE QueueInv'
  OBVIOUS
<1> USE LimitAssumption, NoUrlAssumption
    DEF QueueInv, TypeOK, InHandIsFetching, GivenUpAtLimit, RowStatus, Settled,
        Verdicts, Phases, queue, run, Enqueuers, Run
<1>1. ASSUME NEW e \in Enqueuers, Insert(e) PROVE QueueInv'
  BY <1>1 DEF Insert
<1>2. ASSUME NEW e \in Enqueuers, NEW u \in Urls, Look(e, u) PROVE QueueInv'
  BY <1>2 DEF Look
<1>3. ASSUME NEW s \in Shells, ReseedFails(s) PROVE QueueInv'
  BY <1>3 DEF ReseedFails
<1>4. CASE Begin
  BY <1>4 DEF Begin
<1>5. CASE Revalidate \/ StartDrain
  BY <1>5 DEF Revalidate, StartDrain, Revalidated
<1>6. CASE EndRun
  BY <1>6 DEF EndRun, NextPhase
<1>7. CASE Raise
  <2>1. faults' \in 0 .. MaxFaults /\ phase' \in Phases
    BY <1>7 DEF Raise, NextPhase
  <2>2. QED
    BY <1>7, <2>1 DEF Raise
<1>8. CASE Crash
  BY <1>8 DEF Crash, NextPhase
<1>9. CASE Tick
  BY <1>9 DEF Tick
<1>10. ASSUME NEW u \in Urls, Claim(u) PROVE QueueInv'
  BY <1>10 DEF Claim, Claimable, Ready
<1>11. CASE MarkDone \/ MarkSkipped
  BY <1>11 DEF MarkDone, MarkSkipped, Settle
<1>12. CASE MarkFailed
  <2>1. /\ item \in Urls /\ row[item] = "fetching"
        /\ attempts[item] + 1 <= MaxAttempts
        /\ attempts' = [attempts EXCEPT ![item] = attempts[item] + 1]
        /\ item' = NoUrl /\ pc' = "drain" /\ pc = "fetch"
        /\ UNCHANGED <<aged, phase, saw, pages, verdict, faults>>
    BY <1>12 DEF MarkFailed
  <2>2. CASE attempts[item] + 1 >= MaxAttempts
    <3>1. row' = [row EXCEPT ![item] = "failed"] /\ retryIn' = retryIn
      BY <1>12, <2>2 DEF MarkFailed
    <3>2. QED
      BY <2>1, <2>2, <3>1
  <2>3. CASE ~(attempts[item] + 1 >= MaxAttempts)
    <3>1. /\ row' = [row EXCEPT ![item] = "queued"]
          /\ retryIn' \in [Urls -> 0 .. MaxBackoff]
      BY <1>12, <2>3 DEF MarkFailed
    <3>2. QED
      BY <2>1, <2>3, <3>1
  <2>4. QED
    BY <2>2, <2>3
<1>13. CASE UNCHANGED vars
  BY <1>13 DEF vars
<1>14. QED
  BY <1>1, <1>2, <1>3, <1>4, <1>5, <1>6, <1>7, <1>8, <1>9, <1>10, <1>11, <1>12,
     <1>13, Zenon DEF Next, Answer

LEMMA QueueInvariant == Spec => []QueueInv
BY InitEstablishes, QueueInductive, PTL DEF Spec

\* Every variable of the queue and of the run keeps its type.
THEOREM TypeCorrect == Spec => []TypeOK
BY QueueInvariant, PTL DEF QueueInv

\* The row a run has in hand is `fetching`, and while it drains no other row is.
THEOREM InHandAlwaysFetching == Spec => []InHandIsFetching
BY QueueInvariant, PTL DEF QueueInv

\* A URL is given up exactly at its last attempt.
THEOREM BudgetKept == Spec => []GivenUpAtLimit
BY QueueInvariant, PTL DEF QueueInv

\* A run that reports its job completed leaves no URL unfinished.
THEOREM CompletionIsHonest == Spec => CompletedMeansSettled
<1>1. QueueInv /\ [Next]_vars =>
          [EndRun /\ verdict' = "completed" /\ phase' # "incremental"
              => \A u \in Urls : row[u] \in Settled \cup {"absent"}]_vars
  <2> SUFFICES ASSUME QueueInv, EndRun, verdict' = "completed", phase' # "incremental",
                      NEW u \in Urls
               PROVE  row[u] \in Settled \cup {"absent"}
    OBVIOUS
  <2>1. row[u] # "queued"
    BY DEF EndRun, HasWork, Queued
  <2>2. row[u] # "fetching"
    BY NoUrlAssumption DEF EndRun, QueueInv, InHandIsFetching
  <2>3. QED
    BY <2>1, <2>2 DEF QueueInv, TypeOK, RowStatus
<1>2. QED
  BY <1>1, QueueInvariant, PTL DEF Spec, CompletedMeansSettled

-----------------------------------------------------------------------------
(* The page flow.                                                          *)

\* Every step of the page flow is a step of the queue or leaves the queue alone.
LEMMA FlowStepSimulated == [FlowNext]_allVars => [Next]_vars
<1> SUFFICES ASSUME [FlowNext]_allVars PROVE [Next]_vars
  OBVIOUS
<1>1. CASE FlowBegin
  BY <1>1 DEF FlowBegin, Next
<1>2. ASSUME NEW u \in Urls, EnqueueLook(u) PROVE [Next]_vars
  BY <1>2 DEF EnqueueLook, Next, Enqueuers
<1>3. CASE EnqueueInsert
  BY <1>3 DEF EnqueueInsert, Next, Enqueuers
<1>4. CASE SeedsQueued \/ Promoted
  BY <1>4 DEF SeedsQueued, Promoted, Next
<1>5. CASE item \notin Poison /\ (Refused \/ NotModified \/ \E n \in 0 .. MaxRecords : Extract(n))
  BY <1>5 DEF Refused, NotModified, Extract, Next, Answer
<1>6. CASE FlowEndRun
  BY <1>6 DEF FlowEndRun, Next
<1>7. CASE CutOff
  BY <1>7 DEF CutOff, Next
<1>8. CASE Elsewhere
  BY <1>8, FlowAssumption DEF Elsewhere, Next, Enqueuers
<1>9. ASSUME NEW u \in Urls, FlowClaim(u) PROVE [Next]_vars
  BY <1>9 DEF FlowClaim, Next
<1>10. CASE Promote \/ Parse \/ Persist \/ Rule
  BY <1>10 DEF Promote, Parse, Persist, Rule
<1>11. ASSUME NEW f \in Findings, Discover(f) PROVE [Next]_vars
  BY <1>11 DEF Discover
<1>12. CASE UNCHANGED allVars
  BY <1>12 DEF allVars
<1>13. QED
  BY <1>1, <1>2, <1>3, <1>4, <1>5, <1>6, <1>7, <1>8, <1>9, <1>10, <1>11, <1>12, Zenon
     DEF FlowNext, Proceed

\* The page flow implements the queue, whatever the pages hold and link to.
THEOREM FlowImplementsQueue == FlowSpec => ImplementsQueue
<1>1. FlowInit => Init
  BY DEF FlowInit
<1>2. QED
  BY <1>1, FlowStepSimulated, PTL DEF FlowSpec, ImplementsQueue, Spec

LEMMA FlowQueueInvariant == FlowSpec => []QueueInv
BY FlowImplementsQueue, QueueInvariant, PTL DEF ImplementsQueue

-----------------------------------------------------------------------------
(* Types and stages.                                                       *)

FlowShape == FlowTypeOK /\ StageFits /\ CandidatesFit

LEMMA FlowShapeInductive ==
    ASSUME QueueInv, FlowShape, [FlowNext]_allVars PROVE FlowShape'
<1> USE FlowAssumption, RulingsAssumption, NoUrlAssumption
    DEF FlowShape, FlowTypeOK, StageFits, CandidatesFit, CandStatus, Stages, Decided,
        candidates, Enqueuing, Discovering
<1>a. item \in Urls \cup {NoUrl} /\ (pc = "fetch" => item \in Urls)
  BY DEF QueueInv, TypeOK, InHandIsFetching
<1>1. CASE FlowBegin
  BY <1>1 DEF FlowBegin, Begin
<1>2. ASSUME NEW u \in Urls, EnqueueLook(u) PROVE FlowShape'
  BY <1>2 DEF EnqueueLook, Look, run, vars
<1>3. CASE EnqueueInsert
  BY <1>3 DEF EnqueueInsert, Insert, run
<1>4. CASE SeedsQueued
  <2>1. PICK findings \in SUBSET Findings : Discovering(findings)
    BY <1>4 DEF SeedsQueued
  <2>2. QED
    BY <1>4, <2>1 DEF SeedsQueued, Revalidate
<1>5. ASSUME NEW f \in Findings, Discover(f) PROVE FlowShape'
  <2>1. cand' \in [Findings -> CandStatus] /\ grew' \in BOOLEAN /\ found' \in SUBSET Findings
    BY <1>5 DEF Discover
  <2>2. latest' \in [Urls -> SUBSET Findings] /\ \A u \in Urls : \A g \in latest'[u] : g.url = u
    <3>1. CASE UNCHANGED latest
      BY <3>1
    <3>2. ASSUME NEW earlier \in {{}, latest[f.url]},
                 latest' = [latest EXCEPT ![f.url] = earlier \cup {f}]
          PROVE  latest' \in [Urls -> SUBSET Findings]
                 /\ \A u \in Urls : \A g \in latest'[u] : g.url = u
      <4>1. f.url \in Urls /\ earlier \subseteq latest[f.url]
        BY <3>2
      <4>2. latest' \in [Urls -> SUBSET Findings]
        BY <3>2, <4>1
      <4>3. ASSUME NEW u \in Urls, NEW g \in latest'[u] PROVE g.url = u
        BY <3>2, <4>1, <4>3
      <4>4. QED
        BY <4>2, <4>3
    <3>3. QED
      BY <1>5, <3>1, <3>2 DEF Discover
  <2>3. UNCHANGED <<pc, page, chosen, left, ruling, stage, etagged, todo, handled, cut>>
    BY <1>5 DEF Discover, run, vars
  <2>4. QED
    BY <2>1, <2>2, <2>3
<1>6. CASE Promote
  <2>1. Promoting => todo' \in SUBSET Urls /\ found' = found /\ stage' = "promote"
    BY DEF Promoting, Batches, New
  <2>2. QED
    BY <1>6, <2>1 DEF Promote, run, vars
<1>7. CASE Promoted
  BY <1>7 DEF Promoted, StartDrain, run, vars
<1>8. ASSUME NEW u \in Urls, FlowClaim(u) PROVE FlowShape'
  BY <1>8 DEF FlowClaim, Claim, flow
<1>9. CASE Refused
  BY <1>9 DEF Refused, MarkSkipped, MarkFailed, Settle, flow
<1>10. CASE NotModified
  BY <1>10 DEF NotModified, MarkDone, Settle, flow
<1>11. CASE Parse
  BY <1>11, <1>a DEF Parse, run, vars
<1>12. ASSUME NEW n \in 0 .. MaxRecords, Extract(n) PROVE FlowShape'
  BY <1>12, <1>a DEF Extract, CandidatesOf, MarkDone, Settle
<1>13. CASE Persist
  BY <1>13 DEF Persist, run, vars
<1>14. CASE Rule
  BY <1>14 DEF Rule, run, vars
<1>15. CASE FlowEndRun
  BY <1>15 DEF FlowEndRun, EndRun, flow
<1>16. CASE CutOff
  <2>1. StageFits'
    BY <1>16 DEF CutOff, Raise, Crash
  <2>2. cut' \in SUBSET Urls
    BY <1>16 DEF CutOff
  <2>3. left' \in 0 .. MaxRecords
    BY <1>16 DEF CutOff
  <2>4. UNCHANGED <<cand, latest, etagged, handled>> /\ todo' = {} /\ found' = {}
        /\ page' = NoUrl /\ chosen' = {}
        /\ stage' = "none" /\ ruling' = "none" /\ grew' = FALSE
    BY <1>16 DEF CutOff
  <2>5. QED
    BY <2>1, <2>2, <2>3, <2>4
<1>17. CASE Elsewhere
  BY <1>17 DEF Elsewhere, Tick, ReseedFails, Insert, Look, run, flow
<1>18. CASE UNCHANGED allVars
  BY <1>18 DEF allVars, vars, flow
<1>19. QED
  BY <1>1, <1>2, <1>3, <1>4, <1>5, <1>6, <1>7, <1>8, <1>9, <1>10, <1>11, <1>12, <1>13,
     <1>14, <1>15, <1>16, <1>17, <1>18, Zenon DEF FlowNext, Proceed

LEMMA FlowShapeInvariant == FlowSpec => []FlowShape
<1>1. ASSUME FlowInit PROVE FlowTypeOK
  <2>1. left \in 0 .. MaxRecords
    BY <1>1, FlowAssumption DEF FlowInit
  <2>2. cand \in [Findings -> CandStatus]
    BY <1>1 DEF FlowInit, CandStatus
  <2>3. QED
    BY <1>1, <2>1, <2>2 DEF FlowInit, FlowTypeOK, Stages
<1>2. FlowInit => StageFits /\ CandidatesFit
  BY DEF FlowInit, Init, StageFits, CandidatesFit
<1>3. QED
  BY <1>1, <1>2, FlowShapeInductive, FlowQueueInvariant, PTL DEF FlowSpec, FlowShape

\* Every variable of the page flow keeps its type.
THEOREM FlowTypeCorrect == FlowSpec => []FlowTypeOK
BY FlowShapeInvariant, PTL DEF FlowShape

-----------------------------------------------------------------------------
(* No page is lost but by a cut between mark_done() and the last record.   *)

Accounted == DoneIsAccountedFor /\ DecidedByItsPage /\ ValidatorsEarned

LEMMA AccountedInductive ==
    ASSUME QueueInv, FlowShape, Accounted, [FlowNext]_allVars PROVE Accounted'
<1> USE NoUrlAssumption
    DEF Accounted, DoneIsAccountedFor, DecidedByItsPage, ValidatorsEarned,
        FlowShape, FlowTypeOK, StageFits, CandidatesFit, candidates
<1>a. /\ row \in [Urls -> RowStatus]
      /\ item \in Urls \cup {NoUrl} /\ (pc = "fetch" => item \in Urls)
      /\ \A e \in Enqueuers : saw[e] \in Urls \cup {NoUrl}
  BY DEF QueueInv, TypeOK, InHandIsFetching
<1>1. CASE FlowBegin
  BY <1>1, <1>a DEF FlowBegin, Begin
<1>2. ASSUME NEW u \in Urls, EnqueueLook(u) PROVE Accounted'
  BY <1>2 DEF EnqueueLook, Look, queue, vars
<1>3. ASSUME NEW e \in Enqueuers, Insert(e), UNCHANGED <<cand, etagged, handled, cut, page>>
      PROVE  Accounted'
  BY <1>3, <1>a DEF Insert
<1>4. CASE Promote \/ Parse \/ Persist
  BY <1>4 DEF Promote, Parse, Persist, queue, vars
<1>5. ASSUME NEW f \in Findings, Discover(f) PROVE Accounted'
  BY <1>5 DEF Discover, Decided, CandStatus, queue, vars
<1>6. CASE SeedsQueued \/ Promoted
  BY <1>6, <1>a DEF SeedsQueued, Promoted, Revalidate, Revalidated, StartDrain, queue, vars
<1>7. ASSUME NEW u \in Urls, FlowClaim(u) PROVE Accounted'
  BY <1>7, <1>a DEF FlowClaim, Claim, flow
<1>8. CASE Refused
  BY <1>8, <1>a DEF Refused, MarkSkipped, MarkFailed, Settle, flow
<1>9. CASE NotModified
  BY <1>9, <1>a DEF NotModified, MarkDone, Settle, flow
<1>10. ASSUME NEW n \in 0 .. MaxRecords, Extract(n) PROVE Accounted'
  <2>1. /\ item \in handled' \cup {page'} /\ page = NoUrl /\ item \in Urls
        /\ handled' \cup {item} = handled \cup {item} /\ cut' = cut \ {item}
        /\ row' = [row EXCEPT ![item] = "done"] /\ etagged' \subseteq etagged \cup {item}
        /\ UNCHANGED cand
    BY <1>10, <1>a DEF Extract, MarkDone, Settle, candidates
  <2>2. ASSUME NEW u \in Urls, u \in handled \cup cut \cup {page, item}
        PROVE  u \in handled' \cup cut' \cup {page'}
    BY <2>1, <2>2
  <2>3. DecidedByItsPage'
    BY <2>1, <2>2, FlowAssumption
  <2>4. DoneIsAccountedFor' /\ ValidatorsEarned'
    BY <2>1, <2>2, <1>a
  <2>5. QED
    BY <2>3, <2>4
<1>11. CASE Rule
  <2>1. page' \in {page, NoUrl} /\ (page' = page \/ page \in handled')
        /\ handled \subseteq handled' /\ UNCHANGED <<cut, etagged, row>>
    BY <1>11 DEF Rule, queue, vars
  <2>2. ASSUME NEW f \in Findings, cand'[f] \in Decided
        PROVE  f.url \in handled' \cup cut' \cup {page'}
    <3>1. f \in chosen \/ cand[f] \in Decided
      BY <1>11, <2>2 DEF Rule
    <3>2. QED
      BY <2>1, <3>1
  <2>3. DoneIsAccountedFor' /\ ValidatorsEarned'
    BY <2>1
  <2>4. QED
    BY <2>2, <2>3
<1>12. CASE FlowEndRun
  BY <1>12 DEF FlowEndRun, EndRun, queue, flow
<1>13. CASE CutOff
  BY <1>13 DEF CutOff, Raise, Crash, queue
<1>14. CASE Elsewhere
  BY <1>14, <1>a, FlowAssumption DEF Elsewhere, Tick, ReseedFails, Insert, Look, queue, flow, Enqueuers
<1>15. CASE UNCHANGED allVars
  BY <1>15 DEF allVars, vars, queue, flow
<1>16. CASE EnqueueInsert
  BY <1>16, <1>3 DEF EnqueueInsert, Enqueuers
<1>17. QED
  BY <1>1, <1>2, <1>4, <1>5, <1>6, <1>7, <1>8, <1>9, <1>10, <1>11, <1>12, <1>13, <1>14,
     <1>15, <1>16, Zenon DEF FlowNext, Proceed

LEMMA AccountedInvariant == FlowSpec => []Accounted
<1>1. FlowInit => Accounted
  BY DEF FlowInit, Init, Accounted, DoneIsAccountedFor, DecidedByItsPage,
         ValidatorsEarned, Decided
<1>2. QED
  BY <1>1, AccountedInductive, FlowShapeInvariant, FlowQueueInvariant, PTL DEF FlowSpec

\* A page marked done was persisted, is being persisted, or was cut off in between.
THEOREM DoneAccountedFor == FlowSpec => []DoneIsAccountedFor
BY AccountedInvariant, PTL DEF Accounted

\* A candidate is decided by the extraction of its own page only.
THEOREM DecidedOnlyByItsPage == FlowSpec => []DecidedByItsPage
BY AccountedInvariant, PTL DEF Accounted

-----------------------------------------------------------------------------
(* Promotion.                                                              *)

\* A batch that may hold every candidate holds every new one.
LEMMA BatchIsEverything ==
    ASSUME BatchHoldsAll, NEW S \in Batches PROVE S = New
<1>1. IsFiniteSet(Rows) /\ New \subseteq Rows
  BY FlowAssumption, FS_Subset DEF New, Rows
<1>2. /\ IsFiniteSet(New) /\ Cardinality(New) \in Nat /\ Cardinality(Rows) \in Nat
      /\ Cardinality(New) <= Cardinality(Rows) /\ Limit \in Nat
  BY <1>1, FlowAssumption, FS_Subset, FS_CardinalityType
<1>3. S \subseteq New /\ Cardinality(S) = Cardinality(New)
  BY <1>2 DEF Batches, BatchHoldsAll
<1>4. QED
  BY <1>2, <1>3, FS_Subset

\* Rows are never deleted: a batch that can hold all candidates could do so before.
LEMMA RowsStay ==
    ASSUME FlowShape, [FlowNext]_allVars, BatchHoldsAll' PROVE BatchHoldsAll
<1>1. Rows \subseteq Rows'
  <2> SUFFICES ASSUME NEW g \in Findings, cand[g] # "none" PROVE cand'[g] # "none"
    BY DEF Rows
  <2> USE DEF FlowShape, FlowTypeOK, candidates, flow, allVars
  <2>1. ASSUME NEW f \in Findings, Discover(f) PROVE cand'[g] # "none"
    BY <2>1 DEF Discover
  <2>2. CASE Rule
    BY <2>2, RulingsAssumption DEF Rule, Decided
  <2>3. CASE \/ FlowBegin \/ EnqueueInsert \/ SeedsQueued \/ Promote \/ Promoted \/ Refused
             \/ NotModified \/ Parse \/ Persist \/ FlowEndRun \/ CutOff \/ Elsewhere
             \/ \E u \in Urls : EnqueueLook(u) \/ FlowClaim(u)
             \/ \E n \in 0 .. MaxRecords : Extract(n)
             \/ UNCHANGED allVars
    <3>1. UNCHANGED cand
      BY <2>3 DEF FlowBegin, EnqueueInsert, SeedsQueued, Promote, Promoted, Refused,
             NotModified, Parse, Persist, FlowEndRun, CutOff, Elsewhere, EnqueueLook,
             FlowClaim, Extract
    <3>2. QED
      BY <3>1
  <2>4. QED
    BY <2>1, <2>2, <2>3, Zenon DEF FlowNext, Proceed
<1>2. IsFiniteSet(Rows)
  BY FlowAssumption, FS_Subset DEF Rows
<1>3. IsFiniteSet(Rows')
  BY FlowAssumption, FS_Subset DEF Rows
<1>4. Cardinality(Rows) \in Nat /\ Cardinality(Rows') \in Nat /\ Limit \in Nat
  BY <1>2, <1>3, FlowAssumption, FS_CardinalityType
<1>5. Cardinality(Rows) <= Cardinality(Rows')
  BY <1>1, <1>3, FS_Subset
<1>6. QED
  BY <1>4, <1>5 DEF BatchHoldsAll

LEMMA PromotionInductive ==
    ASSUME QueueInv, FlowShape, PromotionKept, [FlowNext]_allVars PROVE PromotionKept'
<1> SUFFICES ASSUME BatchHoldsAll', NEW v \in Findings, Waiting(v)'
             PROVE  \/ pc' \in {"idle", "seed"}
                    \/ pc' = "fill" /\ stage' = "discover"
                    \/ stage' = "discover" /\ grew'
                    \/ stage' = "promote" /\ v.url \in todo'
  BY DEF PromotionKept
<1>b. BatchHoldsAll /\ v.url \in Urls
  BY RowsStay, FlowAssumption
<1> USE <1>b, NoUrlAssumption
    DEF PromotionKept, Waiting, New, FlowShape, FlowTypeOK, StageFits, CandidatesFit,
        candidates, Enqueuing, Discovering
<1>a. /\ row \in [Urls -> RowStatus]
      /\ item \in Urls \cup {NoUrl} /\ (pc = "fetch" => item \in Urls)
      /\ \A e \in Enqueuers : saw[e] \in Urls \cup {NoUrl}
      /\ Run \in Enqueuers
  BY DEF QueueInv, TypeOK, InHandIsFetching, Enqueuers
<1> DEFINE Goal == \/ pc' \in {"idle", "seed"}
                   \/ pc' = "fill" /\ stage' = "discover"
                   \/ stage' = "discover" /\ grew'
                   \/ stage' = "promote" /\ v.url \in todo'
<1>1. CASE FlowBegin
  BY <1>1 DEF FlowBegin, Begin
<1>2. ASSUME NEW u \in Urls, EnqueueLook(u) PROVE Goal
  BY <1>2 DEF EnqueueLook, Look, queue, run, vars
<1>3. CASE EnqueueInsert
  BY <1>3, <1>a DEF EnqueueInsert, Insert, run
<1>4. CASE SeedsQueued
  BY <1>4, <1>a DEF SeedsQueued, Revalidate
<1>5. ASSUME NEW f \in Findings, Discover(f) PROVE Goal
  BY <1>5 DEF Discover, queue, run, vars
<1>6. CASE Promote
  <2>1. CASE pc = "fill" \/ grew
    BY <1>6, <2>1, BatchIsEverything DEF Promote, Promoting, queue, run, vars
  <2>2. CASE ~(pc = "fill" \/ grew)
    BY <1>6, <2>2 DEF Promote, Promoting, queue, run, vars
  <2>3. QED
    BY <2>1, <2>2
<1>7. CASE Promoted
  BY <1>7, <1>a DEF Promoted, StartDrain, queue, run, vars
<1>8. ASSUME NEW u \in Urls, FlowClaim(u) PROVE Goal
  BY <1>8, <1>a DEF FlowClaim, Claim, flow
<1>9. CASE Refused
  BY <1>9, <1>a DEF Refused, MarkSkipped, MarkFailed, Settle, flow
<1>10. CASE NotModified
  BY <1>10, <1>a DEF NotModified, MarkDone, Settle, flow
<1>11. CASE Parse
  BY <1>11 DEF Parse, queue, run, vars
<1>12. ASSUME NEW n \in 0 .. MaxRecords, Extract(n) PROVE Goal
  BY <1>12, <1>a DEF Extract, MarkDone, Settle
<1>13. CASE Persist
  BY <1>13 DEF Persist, queue, run, vars
<1>14. CASE Rule
  BY <1>14, RulingsAssumption DEF Rule, Decided, CandStatus, queue, run, vars
<1>15. CASE FlowEndRun
  BY <1>15 DEF FlowEndRun, EndRun
<1>16. CASE CutOff
  BY <1>16 DEF CutOff, Raise, Crash
<1>17. CASE Elsewhere
  BY <1>17, <1>a, FlowAssumption DEF Elsewhere, Tick, ReseedFails, Insert, Look, queue, run, flow, Enqueuers
<1>18. CASE UNCHANGED allVars
  BY <1>18 DEF allVars, vars, flow
<1>19. QED
  BY <1>1, <1>2, <1>3, <1>4, <1>5, <1>6, <1>7, <1>8, <1>9, <1>10, <1>11, <1>12, <1>13,
     <1>14, <1>15, <1>16, <1>17, <1>18, Zenon DEF FlowNext, Proceed

LEMMA PromotionInvariant == FlowSpec => []PromotionKept
<1>1. FlowInit => PromotionKept
  BY DEF FlowInit, Init, PromotionKept
<1>2. QED
  BY <1>1, PromotionInductive, FlowShapeInvariant, FlowQueueInvariant, PTL DEF FlowSpec

\* Nothing is fetched while a known candidate is missing from the queue.
THEOREM PromotedBeforeAnyFetch == FlowSpec => []PromotedBeforeFetch
<1>1. PromotionKept => PromotedBeforeFetch
  BY DEF PromotionKept, PromotedBeforeFetch, Waiting, New
<1>2. QED
  BY <1>1, PromotionInvariant, PTL
=============================================================================
