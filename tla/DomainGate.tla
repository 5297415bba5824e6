----------------------------- MODULE DomainGate -----------------------------
(***************************************************************************)
(* The per-domain rate limit of DB Collector OS: the rows of               *)
(* domain_rate_limits (fetching/rate_limiter.py), which all processes      *)
(* share, and the loop that drains a fetch queue past them                 *)
(* (collectors/pipeline.py), one job per worker.                           *)
(*                                                                         *)
(* One action is one SQL statement or one request. The clock runs in ticks *)
(* of which SecondTicks make a second; the columns hold whole seconds      *)
(* (now_iso()), so every stored time is cut off. Times are kept relative   *)
(* to now: ages grow to Far ("long ago", and NULL), waits shrink to 0.     *)
(* The queue is reduced to how many rows of a domain are ready or back     *)
(* off; error_count, which nothing reads, is left out.                     *)
(***************************************************************************)
EXTENDS Integers

CONSTANTS
    Domains,      \* domains that URLs are on
    Workers,      \* worker processes
    RateLimit,    \* jobs.rate_limit of the job each worker runs, in ticks
    MaxPages,     \* jobs.max_pages of that job
    Budget,       \* its config max_drain_wait_seconds, in ticks
    SecondTicks,  \* ticks in a second
    Far,          \* bound: ages are not told apart from here on
    Queues,       \* what may be queued when a run starts: [Domains -> Nat]
    Responses,    \* what a site may answer (see Succeeds)
    NoDomain      \* "no row claimed"

ASSUME DomainsAssumption == NoDomain \notin Domains
ASSUME RateAssumption ==
    /\ SecondTicks \in Nat \ {0} /\ Far \in Nat
    /\ RateLimit \in [Workers -> 0 .. Far]
ASSUME RunAssumption ==
    /\ MaxPages \in [Workers -> Nat] /\ Budget \in [Workers -> Nat]
    /\ Queues \subseteq [Domains -> Nat]
ASSUME ResponsesAssumption ==
    Responses \subseteq [fault : {"none", "unsafe", "robots", "timeout", "error", "redirects"},
                         status : Nat, retryAfter : Int,
                         form : {"none", "number", "date", "junk"},
                         body : {"page", "type", "captcha"}]

VARIABLES
    frac,       \* the part of a second that now is past a whole one
    delay,      \* domain_rate_limits.delay_seconds; Far + 1 while there is no row
    sinceLast,  \* now - last_request_at
    blockLeft,  \* blocked_until - now, 0 once it has passed or when NULL
    sentAge,    \* history: time since the page last really requested was put on record
    askedLeft,  \* history: what is left of the newest Retry-After on record
    pc,         \* where each worker is in _drain_fetch_queue()
    toCheck,    \* domains _ready_domains() has still to look at
    ready,      \* domains it found ready, as long as the worker acts on it
    minWait,    \* the shortest wait it found, 0 for None
    inHand,     \* the domain of the claimed row
    wait,       \* ticks still to sleep, or the Retry-After to be stored
    late,       \* history: time since the record_request() of the row in hand
    waited,     \* waited_total
    attempts,
    fetched,    \* outcome.fetched
    pending,    \* rows that claim_next() would return, by domain
    resting,    \* domains with rows that back off
    crossed,    \* history: domains another worker has used since they were looked at
    smooth      \* history: this run met no failure and no other worker

table == <<delay, sinceLast, blockLeft>>
history == <<sentAge, late, askedLeft, crossed, smooth>>
run == <<toCheck, ready, minWait, inHand, wait, waited, attempts, fetched, pending, resting>>
vars == <<frac, table, history, pc, run>>

NoRow == Far + 1
Ages == 0 .. Far
PCs == {"idle", "head", "look", "sleep", "request", "robots", "fetch", "block", "clear", "done"}

AtMost(a, b) == IF a < b THEN a ELSE b
Positive(a) == IF a > 0 THEN a ELSE 0

\* mutant: as many attempts as pages, so that waiting uses up the pages
AttemptsAsPages(w) == MaxPages[w]

MaxAttempts(w) == 3 * MaxPages[w]

TypeOK ==
    /\ frac \in 0 .. (SecondTicks - 1)
    /\ delay \in [Domains -> 0 .. NoRow]
    /\ sinceLast \in [Domains -> Ages] /\ sentAge \in [Domains -> Ages]
    /\ late \in [Workers -> Ages]
    /\ blockLeft \in [Domains -> Nat] /\ askedLeft \in [Domains -> Nat]
    /\ pc \in [Workers -> PCs]
    /\ toCheck \in [Workers -> SUBSET Domains] /\ ready \in [Workers -> SUBSET Domains]
    /\ minWait \in [Workers -> Nat] /\ wait \in [Workers -> Int]
    /\ inHand \in [Workers -> Domains \cup {NoDomain}]
    /\ \A w \in Workers : pc[w] \in {"request", "robots", "fetch", "block", "clear"} => inHand[w] \in ready[w]
    /\ \A w \in Workers : \A d \in ready[w] : delay[d] # NoRow
    /\ waited \in [Workers -> Nat] /\ attempts \in [Workers -> Nat] /\ fetched \in [Workers -> Nat]
    /\ \A w \in Workers : /\ waited[w] <= Budget[w]
                          /\ attempts[w] <= MaxAttempts(w)
                          /\ fetched[w] <= MaxPages[w]
    /\ pending \in [Workers -> [Domains -> Nat]] /\ resting \in [Workers -> SUBSET Domains]
    /\ crossed \in [Workers -> SUBSET Domains] /\ smooth \in [Workers -> BOOLEAN]

Init ==
    /\ frac = 0
    /\ delay = [d \in Domains |-> NoRow]
    /\ sinceLast = [d \in Domains |-> Far] /\ sentAge = [d \in Domains |-> Far]
    /\ late = [w \in Workers |-> 0]
    /\ blockLeft = [d \in Domains |-> 0] /\ askedLeft = [d \in Domains |-> 0]
    /\ pc = [w \in Workers |-> "idle"]
    /\ toCheck = [w \in Workers |-> {}] /\ ready = [w \in Workers |-> {}]
    /\ minWait = [w \in Workers |-> 0] /\ wait = [w \in Workers |-> 0]
    /\ inHand = [w \in Workers |-> NoDomain]
    /\ waited = [w \in Workers |-> 0]
    /\ attempts = [w \in Workers |-> 0] /\ fetched = [w \in Workers |-> 0]
    /\ pending = [w \in Workers |-> [d \in Domains |-> 0]]
    /\ resting = [w \in Workers |-> {}]
    /\ crossed = [w \in Workers |-> {}] /\ smooth = [w \in Workers |-> FALSE]

Goto(w, label) == pc' = [pc EXCEPT ![w] = label]

\* what a worker knows of a domain lasts for one turn of the loop
Forget(w) ==
    /\ ready' = [ready EXCEPT ![w] = {}]
    /\ crossed' = [crossed EXCEPT ![w] = {}]
    /\ minWait' = [minWait EXCEPT ![w] = 0]
    /\ inHand' = [inHand EXCEPT ![w] = NoDomain]
    /\ wait' = [wait EXCEPT ![w] = 0]

-----------------------------------------------------------------------------
(* The head of the loop, and _ready_domains().                             *)

\* a run starts; what is queued is an input
BeginRun(w, queue) ==
    /\ pc[w] = "idle"
    /\ Goto(w, "head")
    /\ pending' = [pending EXCEPT ![w] = queue]
    /\ smooth' = [smooth EXCEPT ![w] = \A d \in Domains : blockLeft[d] = 0]
    /\ UNCHANGED <<frac, table, sentAge, late, askedLeft, crossed, toCheck, ready, minWait,
                   inHand, wait, waited, attempts, fetched, resting>>

Queued(w) == {d \in Domains : pending[w][d] > 0 \/ d \in resting[w]}

Head(w) ==
    /\ pc[w] = "head"
    /\ Forget(w)
    /\ IF fetched[w] < MaxPages[w] /\ attempts[w] < MaxAttempts(w)
       THEN /\ Goto(w, "look")
            /\ attempts' = [attempts EXCEPT ![w] = @ + 1]
            /\ toCheck' = [toCheck EXCEPT ![w] = Queued(w)]
       ELSE Goto(w, "done") /\ UNCHANGED <<attempts, toCheck>>
    /\ UNCHANGED <<frac, table, sentAge, late, askedLeft, smooth, waited, fetched, pending,
                   resting>>

\* _get_or_create(): the first job to meet a domain sets its delay for good
CreateRow(w, d) ==
    /\ pc[w] = "look"
    /\ d \in toCheck[w]
    /\ delay[d] = NoRow
    /\ delay' = [delay EXCEPT ![d] = RateLimit[w]]
    /\ UNCHANGED <<frac, sinceLast, blockLeft, history, pc, run>>

\* mutant: every job keeps to its own limit
OwnDelay(w, d) == RateLimit[w]

RowDelay(w, d) == IF delay[d] = 0 THEN RateLimit[w] ELSE delay[d]

\* mutant: a stored block is not looked at
WaitForPacing(w, d) == Positive(RowDelay(w, d) - sinceLast[d])

\* is_allowed(): 0 if allowed, else the seconds to wait; a block comes first
WaitFor(w, d) ==
    IF blockLeft[d] > 0 THEN blockLeft[d] ELSE Positive(RowDelay(w, d) - sinceLast[d])

Look(w, d) ==
    /\ pc[w] = "look"
    /\ d \in toCheck[w]
    /\ delay[d] # NoRow
    /\ toCheck' = [toCheck EXCEPT ![w] = @ \ {d}]
    /\ IF WaitFor(w, d) = 0
       THEN ready' = [ready EXCEPT ![w] = @ \cup {d}] /\ UNCHANGED minWait
       ELSE /\ minWait' = [minWait EXCEPT ![w] =
                              IF @ = 0 THEN WaitFor(w, d) ELSE AtMost(@, WaitFor(w, d))]
            /\ UNCHANGED ready
    /\ UNCHANGED <<frac, table, history, pc, inHand, wait, waited, attempts, fetched,
                   pending, resting>>

-----------------------------------------------------------------------------
(* claim_next() among the ready domains, or waiting for one.               *)

Claim(w, d) ==
    /\ pc[w] = "look"
    /\ toCheck[w] = {}
    /\ d \in ready[w]
    /\ pending[w][d] > 0
    /\ pending' = [pending EXCEPT ![w][d] = @ - 1]
    /\ inHand' = [inHand EXCEPT ![w] = d]
    /\ Goto(w, "request")
    /\ UNCHANGED <<frac, table, history, toCheck, ready, minWait, wait, waited, attempts,
                   fetched, resting>>

\* mutant: the budget is looked at before the wait is added to it
CouldAfford(w) == minWait[w] > 0 /\ waited[w] < Budget[w]

CanAfford(w) == minWait[w] > 0 /\ Budget[w] > 0 /\ waited[w] + minWait[w] <= Budget[w]

\* nothing to claim: sleep through the shortest wait, if the budget allows it
Sleep(w) ==
    /\ pc[w] = "look"
    /\ toCheck[w] = {}
    /\ \A d \in ready[w] : pending[w][d] = 0
    /\ IF CanAfford(w)
       THEN /\ Goto(w, "sleep")
            /\ wait' = [wait EXCEPT ![w] = minWait[w]]
            /\ waited' = [waited EXCEPT ![w] = @ + minWait[w]]
       ELSE Goto(w, "done") /\ UNCHANGED <<wait, waited>>
    /\ UNCHANGED <<frac, table, history, toCheck, ready, minWait, inHand, attempts, fetched,
                   pending, resting>>

Wake(w) ==
    /\ pc[w] = "sleep"
    /\ wait[w] <= 0
    /\ Goto(w, "head")
    /\ UNCHANGED <<frac, table, history, run>>

-----------------------------------------------------------------------------
(* _process_queue_item(): record_request(), the fetch, and what the row    *)
(* learns of its answer.                                                   *)

\* another worker that has looked at d acts on what is no longer so
Cross(w, d) ==
    crossed' = [v \in Workers |-> IF v # w /\ d \in ready[v] THEN crossed[v] \cup {d}
                                                             ELSE crossed[v]]

\* record_request(): the time, cut off to a whole second
Request(w) ==
    /\ pc[w] = "request"
    /\ sinceLast' = [sinceLast EXCEPT ![inHand[w]] = AtMost(frac, Far)]
    /\ late' = [late EXCEPT ![w] = 0]
    /\ Cross(w, inHand[w])
    /\ smooth' = [v \in Workers |-> smooth[v] /\ v = w]
    /\ Goto(w, "robots")
    /\ UNCHANGED <<frac, delay, blockLeft, sentAge, askedLeft, run>>

\* robots.can_fetch() has come back, after a request of its own if this process did not
\* have the site's robots.txt: only now the page itself is requested
Send(w) ==
    /\ pc[w] = "robots"
    /\ sentAge' = [sentAge EXCEPT ![inHand[w]] = late[w]]
    /\ late' = [late EXCEPT ![w] = 0]
    /\ Goto(w, "fetch")
    /\ UNCHANGED <<frac, table, askedLeft, crossed, smooth, run>>

\* what fetch() refuses before it requests anything
Unsent(r) == r.fault \in {"unsafe", "robots"}

\* a 304, or a page: any other status below 500 counts as one, a 410 as well
Succeeds(r) ==
    /\ r.fault = "none"
    /\ \/ r.status = 304
       \/ r.status < 500 /\ r.status \notin {403, 404, 429} /\ r.body = "page"

\* to be reviewed: forbidden, or a page that looks like a CAPTCHA
Blocked(r) ==
    /\ r.fault = "none"
    /\ \/ r.status = 403
       \/ r.status < 500 /\ r.status \notin {304, 404, 429} /\ r.body = "captcha"

\* _parse_retry_after(), of a 429 only: seconds or a date; 0 stands for None as well
RetryAfter(r) ==
    IF r.fault # "none" \/ r.status # 429 \/ r.form \in {"none", "junk"} THEN 0
    ELSE IF r.form = "date" THEN Positive(r.retryAfter) ELSE r.retryAfter

\* the row goes to done or skipped, or -- unless it has used up its attempts -- rests
Answer(w, r, retried) ==
    /\ pc[w] = IF Unsent(r) THEN "robots" ELSE "fetch"
    /\ late' = [late EXCEPT ![w] = 0]
    /\ fetched' = [fetched EXCEPT ![w] = @ + 1]
    /\ retried => ~Succeeds(r) /\ ~Blocked(r)
    /\ resting' = IF retried THEN [resting EXCEPT ![w] = @ \cup {inHand[w]}] ELSE resting
    /\ smooth' = [smooth EXCEPT ![w] = @ /\ Succeeds(r)]
    /\ wait' = [wait EXCEPT ![w] = RetryAfter(r)]
    /\ Goto(w, IF Succeeds(r) THEN "clear" ELSE IF RetryAfter(r) # 0 THEN "block" ELSE "head")
    /\ UNCHANGED <<frac, table, sentAge, askedLeft, crossed, toCheck, ready, minWait,
                   inHand, waited, attempts, pending>>

\* blocked_until is cut off to a whole second, too
BlockFor(secs) == Positive(secs - ((frac + secs) % SecondTicks))

\* record_error(block_seconds), its second statement
StoreBlock(w) ==
    /\ pc[w] = "block"
    /\ blockLeft' = [blockLeft EXCEPT ![inHand[w]] = BlockFor(wait[w])]
    /\ askedLeft' = [askedLeft EXCEPT ![inHand[w]] = Positive(wait[w])]
    /\ Cross(w, inHand[w])
    /\ smooth' = [v \in Workers |-> smooth[v] /\ v = w]
    /\ Goto(w, "head")
    /\ UNCHANGED <<frac, delay, sinceLast, sentAge, late, run>>

\* record_success() lifts whatever block is on record
RecordSuccess(w) ==
    /\ pc[w] = "clear"
    /\ blockLeft' = [blockLeft EXCEPT ![inHand[w]] = 0]
    /\ askedLeft' = IF inHand[w] \in crossed[w]
                    THEN [askedLeft EXCEPT ![inHand[w]] = 0] ELSE askedLeft
    /\ Goto(w, "head")
    /\ UNCHANGED <<frac, delay, sinceLast, sentAge, late, crossed, smooth, run>>

-----------------------------------------------------------------------------
\* a row has backed off long enough
Rested(w, d) ==
    /\ pc[w] # "done"
    /\ d \in resting[w]
    /\ resting' = [resting EXCEPT ![w] = @ \ {d}]
    /\ pending' = [pending EXCEPT ![w][d] = @ + 1]
    /\ UNCHANGED <<frac, table, history, pc, toCheck, ready, minWait, inHand, wait, waited,
                   attempts, fetched>>

\* the run returns, raises, or dies with its process: the table alone remains
Leave(w) ==
    /\ pc[w] # "idle"
    /\ Goto(w, "idle")
    /\ Forget(w)
    /\ toCheck' = [toCheck EXCEPT ![w] = {}]
    /\ waited' = [waited EXCEPT ![w] = 0]
    /\ attempts' = [attempts EXCEPT ![w] = 0]
    /\ fetched' = [fetched EXCEPT ![w] = 0]
    /\ pending' = [pending EXCEPT ![w] = [d \in Domains |-> 0]]
    /\ resting' = [resting EXCEPT ![w] = {}]
    /\ smooth' = [smooth EXCEPT ![w] = FALSE]
    /\ late' = [late EXCEPT ![w] = 0]
    /\ UNCHANGED <<frac, table, sentAge, askedLeft>>

Older(ages) == [d \in Domains |-> AtMost(ages[d] + 1, Far)]
Shorter(waits) == [d \in Domains |-> Positive(waits[d] - 1)]

Tick ==
    /\ frac' = (frac + 1) % SecondTicks
    /\ sinceLast' = Older(sinceLast) /\ sentAge' = Older(sentAge)
    /\ blockLeft' = Shorter(blockLeft) /\ askedLeft' = Shorter(askedLeft)
    /\ wait' = [w \in Workers |-> IF pc[w] = "sleep" THEN Positive(wait[w] - 1) ELSE wait[w]]
    /\ late' = [w \in Workers |-> IF pc[w] = "robots" THEN AtMost(late[w] + 1, Far) ELSE late[w]]
    /\ UNCHANGED <<delay, crossed, smooth, pc, toCheck, ready, minWait, inHand, waited,
                   attempts, fetched, pending, resting>>

Step(w) ==
    \/ Head(w) \/ Sleep(w) \/ Wake(w) \/ Request(w) \/ Send(w)
    \/ StoreBlock(w) \/ RecordSuccess(w)
    \/ \E d \in Domains : CreateRow(w, d) \/ Look(w, d) \/ Claim(w, d)
    \/ \E r \in Responses, retried \in BOOLEAN : Answer(w, r, retried)

Next ==
    \/ \E w \in Workers :
        \/ Step(w) \/ Leave(w)
        \/ \E queue \in Queues : BeginRun(w, queue)
        \/ \E d \in Domains : Rested(w, d)
    \/ Tick

Spec == Init /\ [][Next]_vars

-----------------------------------------------------------------------------
(* Properties.                                                             *)

\* When a worker is about to request a page of a domain that no other worker has put a
\* request on record for since it was looked at, the page last requested was put on
\* record more than the row's delay less one second ago. That is what is left of "still
\* exactly `rate_limit` seconds between requests" (docs/first_production_db.md:496): the
\* times stored are whole seconds, and stored before robots.txt is asked for, so that
\* the two pages are closer by as long as the earlier one waited for that.
SpacingKept ==
    \A w \in Workers :
        pc[w] = "robots" /\ inHand[w] \notin crossed[w]
            => sentAge[inHand[w]] > delay[inHand[w]] - SecondTicks

\* Nobody requests a page more than a second before the newest Retry-After on record is
\* over, but workers that had already looked at the domain when it was stored; only the
\* success of such a worker may lift it early (rate_limiter.py:67).
RetryAfterHonoured ==
    \A w \in Workers :
        pc[w] \in {"request", "robots", "clear"} /\ inHand[w] \notin crossed[w]
            => askedLeft[inHand[w]] < SecondTicks

\* the waiting budget is a delay per page, of whichever domain
Covers(w) ==
    \A d \in Domains : delay[d] # NoRow => MaxPages[w] * RowDelay(w, d) <= Budget[w]

\* A run whose waiting budget covers a delay per page, and that meets no failure and no
\* other worker, leaves nothing queued short of its page limit
\* (config/jobs/prod_figure_official_site.yaml:79 "180s covers max_pages=30").
BudgetCovers ==
    \A w \in Workers :
        pc[w] = "done" /\ smooth[w] /\ Covers(w)
            => fetched[w] = MaxPages[w] \/ \A d \in Domains : pending[w][d] = 0
=============================================================================
