------------------------------ MODULE PageFlow ------------------------------
(***************************************************************************)
(* What a run does with its pages (BaseCollector in collectors/pipeline.py):*)
(* it queues the seeds, discovers candidates (discovery/engine.py,         *)
(* candidates.py), promotes them into the fetch queue, and takes every     *)
(* fetched page through discovery, promotion, extraction, mark_done() and  *)
(* the persistence of its records. The queue itself, the run's claims, its *)
(* failures and the fetches are those of FetchQueue, which this refines.   *)
(***************************************************************************)
EXTENDS FetchQueue

CONSTANTS
    Seeds,       \* config_json.seed_urls
    Findings,    \* what a discovery method may come back with: a URL, its fingerprint
                 \* -- the stable_id of an internal link, else the URL -- and a confidence
    Found,       \* the findings of run_seed_discovery()
    Links,       \* the findings of discover_from_page() on each page
    Limit,       \* limit of list_new() in _promote_new_candidates()
    MaxRecords,  \* bound on the records one page yields
    Rulings      \* the statuses that what persist() decides comes down to

ASSUME FlowAssumption ==
    /\ IsFiniteSet(Urls)
    /\ Seeds \subseteq Urls
    /\ IsFiniteSet(Findings)
    /\ \A f \in Findings : f.url \in Urls /\ f.confidence \in Nat
    /\ Found \subseteq Findings
    /\ Links \in [Urls -> SUBSET Findings]
    /\ Limit \in Nat \ {0} /\ MaxRecords \in Nat \ {0}

Decided == {"accepted", "duplicate", "rejected", "review"}
ASSUME RulingsAssumption == Rulings \subseteq Decided

VARIABLES
    cand,    \* entity_candidates.status of the row a finding made, "none" if it made none
    latest,  \* the rows of a URL with the latest discovered_at, a whole second
    etagged, \* rows with a stored validator: they may be answered 304
    stage,   \* what the run is doing inside pc = "fill", "fetch" and "drain"
    todo,    \* URLs still to be enqueued in this stage
    found,   \* findings still to be added as candidates
    grew,    \* discover_from_page() added a candidate
    page,    \* the page whose records are being persisted
    chosen,  \* its candidate, as get_by_url() returned it, if any
    left,    \* how many of them are still to come
    ruling,  \* the status its candidate is about to be given
    handled, \* history: pages whose latest content was persisted completely
    cut      \* history: pages whose records were cut off by the end of the run

candidates == <<cand, latest>>
flow == <<candidates, etagged, stage, todo, found, grew, page, chosen, left, ruling, handled, cut>>
allVars == <<vars, flow>>

CandStatus == Decided \cup {"none", "new"}
Stages == {"none", "seed", "discover", "promote", "extract", "persist"}

FlowTypeOK ==
    /\ cand \in [Findings -> CandStatus]
    /\ latest \in [Urls -> SUBSET Findings]
    /\ etagged \in SUBSET Urls
    /\ stage \in Stages
    /\ todo \in SUBSET Urls
    /\ found \in SUBSET Findings
    /\ grew \in BOOLEAN
    /\ page \in Urls \cup {NoUrl}
    /\ chosen \in SUBSET Findings
    /\ left \in 0 .. MaxRecords
    /\ ruling \in Rulings \cup {"none"}
    /\ handled \in SUBSET Urls
    /\ cut \in SUBSET Urls

FlowInit ==
    /\ Init
    /\ cand = [f \in Findings |-> "none"]
    /\ latest = [u \in Urls |-> {}]
    /\ etagged = {}
    /\ stage = "none"
    /\ todo = {}
    /\ found = {}
    /\ grew = FALSE
    /\ page = NoUrl
    /\ chosen = {}
    /\ left = 0
    /\ ruling = "none"
    /\ handled = {}
    /\ cut = {}

Enqueuing(label, urls) == stage' = label /\ todo' = urls /\ UNCHANGED found
Discovering(findings) == stage' = "discover" /\ found' = findings /\ UNCHANGED todo

Rows == {f \in Findings : cand[f] # "none"}
New == {f \in Findings : cand[f] = "new"}

-----------------------------------------------------------------------------
(* The head of run_once(): requeue, seeds, revalidation, discovery,        *)
(* promotion.                                                              *)

FlowBegin ==
    /\ Begin
    /\ Enqueuing("seed", Seeds)
    /\ UNCHANGED <<candidates, etagged, grew, page, chosen, left, ruling, handled, cut>>

\* enqueue() of one URL of the stage: a row that exists already is left alone
EnqueueLook(u) ==
    /\ stage \in {"seed", "promote"}
    /\ u \in todo
    /\ \/ Look(Run, u) /\ UNCHANGED todo
       \/ row[u] # "absent" /\ saw[Run] = NoUrl /\ todo' = todo \ {u} /\ UNCHANGED vars
    /\ UNCHANGED <<candidates, etagged, stage, found, grew, page, chosen, left, ruling,
                   handled, cut>>

EnqueueInsert ==
    /\ Insert(Run)
    /\ todo' = todo \ {saw[Run]}
    /\ UNCHANGED <<candidates, etagged, stage, found, grew, page, chosen, left, ruling,
                   handled, cut>>

\* Each discovery method may fail by itself; phases validation and phase1_complete
\* do not discover at all.
SeedsQueued ==
    /\ stage = "seed" /\ todo = {}
    /\ Revalidate
    /\ \E findings \in IF phase = "phase1_complete" THEN {{}} ELSE SUBSET Found :
          Discovering(findings)
    /\ UNCHANGED <<candidates, etagged, grew, page, chosen, left, ruling, handled, cut>>

\* CandidateStore.add(): a candidate of the same fingerprint makes it a no-op. Nothing
\* compares URLs: a seed method and an internal link give one URL two candidates.
Known(f) == \E g \in Rows : g.fingerprint = f.fingerprint

\* mutant: a candidate starts out as `queued`
DiscoverAsQueued(f) ==
    /\ stage = "discover"
    /\ f \in found
    /\ found' = found \ {f}
    /\ IF Known(f) THEN UNCHANGED <<candidates, grew>>
       ELSE cand' = [cand EXCEPT ![f] = "queued"] /\ grew' = TRUE /\ UNCHANGED latest
    /\ UNCHANGED <<vars, etagged, stage, todo, page, chosen, left, ruling, handled, cut>>

\* added within the same second as the last candidate of the URL, or later
Discover(f) ==
    /\ stage = "discover"
    /\ f \in found
    /\ found' = found \ {f}
    /\ IF Known(f) THEN UNCHANGED <<candidates, grew>>
       ELSE /\ cand' = [cand EXCEPT ![f] = "new"]
            /\ \E earlier \in {{}, latest[f.url]} :
                  latest' = [latest EXCEPT ![f.url] = earlier \cup {f}]
            /\ grew' = TRUE
    /\ UNCHANGED <<vars, etagged, stage, todo, page, chosen, left, ruling, handled, cut>>

\* list_new(): the `Limit` new candidates of highest confidence, fetched or not
Batches ==
    {S \in SUBSET New :
        /\ Cardinality(S) = IF Cardinality(New) < Limit THEN Cardinality(New) ELSE Limit
        /\ \A f \in S, g \in New \ S : f.confidence >= g.confidence}

Promoting == \E S \in Batches : Enqueuing("promote", {f.url : f \in S})

\* mutants: promotion at the head of a run only; promotion only if something is new
PromoteAtHeadOnly ==
    /\ stage = "discover" /\ found = {}
    /\ IF pc = "fill"
       THEN Promoting
       ELSE Enqueuing("extract", {})
    /\ UNCHANGED <<vars, candidates, etagged, grew, page, chosen, left, ruling, handled, cut>>

PromoteIfGrew ==
    /\ stage = "discover" /\ found = {}
    /\ IF grew
       THEN Promoting
       ELSE Enqueuing(IF pc = "fill" THEN "promote" ELSE "extract", {})
    /\ UNCHANGED <<vars, candidates, etagged, grew, page, chosen, left, ruling, handled, cut>>

\* at the head of a run always, over a page only if it led to a new candidate
Promote ==
    /\ stage = "discover" /\ found = {}
    /\ IF pc = "fill" \/ grew
       THEN Promoting
       ELSE Enqueuing("extract", {})
    /\ UNCHANGED <<vars, candidates, etagged, grew, page, chosen, left, ruling, handled, cut>>

Promoted ==
    /\ stage = "promote" /\ todo = {} /\ saw[Run] = NoUrl
    /\ IF pc = "fill" THEN StartDrain /\ stage' = "none"
                      ELSE UNCHANGED vars /\ stage' = "extract"
    /\ UNCHANGED <<candidates, etagged, todo, found, grew, page, chosen, left, ruling,
                   handled, cut>>

-----------------------------------------------------------------------------
(* _process_queue_item(): one page.                                        *)

FlowClaim(u) ==
    /\ stage = "none"
    /\ Claim(u)
    /\ UNCHANGED flow

\* mutant: a blocked page rejects its candidate
RefusedRejects ==
    /\ stage = "none"
    /\ \/ MarkSkipped /\ cand' = [f \in Findings |->
                            IF f \in latest[item] THEN "rejected" ELSE cand[f]]
       \/ MarkFailed /\ UNCHANGED cand
    /\ UNCHANGED <<latest, etagged, stage, todo, found, grew, page, chosen, left, ruling,
                   handled, cut>>

\* blocked, or failed: the candidate keeps its status
Refused ==
    /\ stage = "none"
    /\ MarkSkipped \/ MarkFailed
    /\ UNCHANGED flow

NotModified ==
    /\ stage = "none"
    /\ item \in etagged
    /\ MarkDone
    /\ UNCHANGED flow

\* mutant: mark_done() as soon as the page has arrived
ParseAndMarkDone ==
    /\ stage = "none"
    /\ MarkDone
    /\ Discovering(Links[item])
    /\ grew' = FALSE
    /\ UNCHANGED <<candidates, etagged, page, chosen, left, ruling, handled, cut>>

\* 200: discover_from_page() looks at the links first
Parse ==
    /\ stage = "none"
    /\ pc = "fetch"
    /\ Discovering(Links[item])
    /\ grew' = FALSE
    /\ UNCHANGED <<vars, candidates, etagged, page, chosen, left, ruling, handled, cut>>

\* get_by_url(): a latest candidate of the page, be it the one that led to it or not
CandidatesOf(u) == IF latest[u] = {} THEN {{}} ELSE {{f} : f \in latest[u]}

\* adapter.extract() returned: mark_done(), and with it the page's new validator
Extract(n) ==
    /\ stage = "extract"
    /\ MarkDone
    /\ left' = n
    /\ stage' = IF n = 0 THEN "none" ELSE "persist"
    /\ page' = IF n = 0 THEN NoUrl ELSE item
    /\ chosen' \in IF n = 0 THEN {{}} ELSE CandidatesOf(item)
    /\ handled' = IF n = 0 THEN handled \cup {item} ELSE handled \ {item}
    /\ cut' = cut \ {item}
    /\ etagged' \in {etagged \cup {item}, etagged \ {item}}
    /\ UNCHANGED <<candidates, todo, found, grew, ruling>>

\* PersistenceService.persist() of the next record, whatever it decides
Persist ==
    /\ stage = "persist" /\ ruling = "none"
    /\ ruling' \in Rulings
    /\ UNCHANGED <<vars, candidates, etagged, stage, todo, found, grew, page, chosen, left,
                   handled, cut>>

\* candidates.set_status() of the page's candidate, if it has one
Rule ==
    /\ ruling # "none"
    /\ cand' = [f \in Findings |-> IF f \in chosen THEN ruling ELSE cand[f]]
    /\ ruling' = "none"
    /\ left' = left - 1
    /\ IF left = 1
       THEN handled' = handled \cup {page} /\ page' = NoUrl /\ chosen' = {} /\ stage' = "none"
       ELSE UNCHANGED <<handled, page, chosen, stage>>
    /\ UNCHANGED <<vars, latest, etagged, todo, found, grew, cut>>

-----------------------------------------------------------------------------
(* The end of the run, by itself or by a failure.                          *)

\* mutant: `completed` as soon as no page of this run is left
FlowEndRunCompleted ==
    /\ stage = "none"
    /\ pc = "drain"
    /\ pc' = "idle"
    /\ verdict' = "completed"
    /\ UNCHANGED <<queue, phase, saw, item, pages, faults, flow>>

FlowEndRun ==
    /\ stage = "none"
    /\ EndRun
    /\ UNCHANGED flow

\* Whatever the run still had to do with its page is forgotten.
CutOff ==
    /\ Raise \/ Crash
    /\ cut' = IF stage = "persist" THEN cut \cup {page} ELSE cut
    /\ stage' = "none"
    /\ todo' = {} /\ found' = {}
    /\ grew' = FALSE
    /\ page' = NoUrl
    /\ chosen' = {}
    /\ left' = 0
    /\ ruling' = "none"
    /\ UNCHANGED <<candidates, etagged, handled>>

\* what goes on next to the run; `jobs reseed` enqueues the seeds and nothing else
Elsewhere ==
    /\ \/ Tick
       \/ \E s \in Shells : ReseedFails(s) \/ Insert(s) \/ \E u \in Seeds : Look(s, u)
    /\ UNCHANGED flow

-----------------------------------------------------------------------------
\* the next thing the run does when nothing goes wrong
Proceed ==
    \/ FlowBegin \/ EnqueueInsert \/ SeedsQueued \/ Promote \/ Promoted
    \/ \E u \in Urls : EnqueueLook(u)
    \/ \E f \in Findings : Discover(f)
    \/ item \notin Poison /\ (Refused \/ NotModified \/ \E n \in 0 .. MaxRecords : Extract(n))
    \/ Parse \/ Persist \/ Rule \/ FlowEndRun

FlowNext == Proceed \/ CutOff \/ Elsewhere \/ \E u \in Urls : FlowClaim(u)

FlowSpec == FlowInit /\ [][FlowNext]_allVars

\* as in FetchQueue: runs are started over and over, and come to an end
FlowFairSpec ==
    /\ FlowSpec
    /\ WF_allVars(Proceed) /\ WF_allVars(CutOff /\ (InsertRefused(Run) \/ item \in Poison))

-----------------------------------------------------------------------------
(* Properties.                                                             *)

\* The run as the queue sees it: FetchQueue with what it leaves open filled in.
ImplementsQueue == Spec

\* A row marked done is one whose page was persisted completely, or is being
\* persisted, or whose records were cut off between mark_done() and the last
\* set_status() -- an exception before that, a 304, a requeue loses nothing. (Records
\* that were cut off are lost, as the page's new ETag is on record already.)
DoneIsAccountedFor ==
    \A u \in Urls : row[u] = "done" => u \in handled \cup cut \cup {page}

\* A candidate is decided because its own page was extracted: being blocked, failing,
\* or sharing a page or a fingerprint with another URL decides nothing. (Which of the
\* candidates of one URL is decided is chance: the others stay `new` for good.)
DecidedByItsPage ==
    \A f \in Findings : cand[f] \in Decided => f.url \in handled \cup cut \cup {page}

\* list_new() can return every candidate the job has: decided ones, those that can no
\* longer be decided, and both candidates of a URL that was found twice are counted.
BatchHoldsAll == Cardinality(Rows) <= Limit

\* As long as it can, no page is fetched while the URL of a candidate known to the run
\* is missing from the queue -- also after a run that was cut off between discovery
\* and promotion, and next to shells that reseed.
PromotedBeforeFetch ==
    BatchHoldsAll /\ stage = "none" /\ pc = "drain" => \A f \in New : row[f.url] # "absent"

\* ... and so every candidate gets its turn in the queue, unless the job comes to have
\* more candidates than that.
EveryCandidateQueued ==
    \A u \in Urls : (\E f \in New : f.url = u) ~> row[u] # "absent" \/ ~BatchHoldsAll

\* Why: which stages each part of the run goes through, and what it has in hand there.
StageFits ==
    /\ pc = "idle" => stage = "none"
    /\ pc = "seed" => stage = "seed"
    /\ pc = "fill" => stage \in {"discover", "promote"}
    /\ pc = "drain" => stage \in {"none", "persist"}
    /\ pc = "fetch" => stage \in {"none", "discover", "promote", "extract"}
    /\ stage = "persist" <=> page # NoUrl
    /\ stage = "persist" <=> left # 0
    /\ ruling # "none" => stage = "persist"
    /\ chosen # {} => stage = "persist"

\* ... candidates are of the URL they are looked up by ...
CandidatesFit ==
    /\ \A u \in Urls : \A f \in latest[u] : f.url = u
    /\ \A f \in chosen : f.url = page

\* ... a row that may be answered 304 has been extracted before ...
ValidatorsEarned == etagged \subseteq handled \cup cut \cup {page}

\* ... and how far the promotion of what is new has got.
Waiting(f) == f \in New /\ row[f.url] = "absent"
PromotionKept ==
    BatchHoldsAll => \A f \in Findings : Waiting(f) =>
        \/ pc \in {"idle", "seed"}
        \/ pc = "fill" /\ stage = "discover"
        \/ stage = "discover" /\ grew
        \/ stage = "promote" /\ f.url \in todo

=============================================================================
