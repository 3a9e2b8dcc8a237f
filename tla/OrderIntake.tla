----------------------------- MODULE OrderIntake -----------------------------
(***************************************************************************)
(* How an order enters and when it expires: the submit and cancel handlers *)
(* of the API with their idempotency keys, the scheduled-jobs queue with   *)
(* its daily market-close job and one delayed order-expiry job per limit   *)
(* order, its worker, and the cleanup that settlements start.  One action  *)
(* is one round trip; an API request may die between any two of its own.   *)
(*                                                                         *)
(* Time is counted in half days from a Sunday on: 2d is the part of day d  *)
(* before 10:00 UTC, 2d + 1 the part from then on, when the market has     *)
(* closed if d is a weekday.                                               *)
(***************************************************************************)
EXTENDS Ledger

CONSTANTS
    Requests,       \* POST /api/orders requests, retries included
    Body,           \* of each: its user, idempotency key and order
    StartClock, MaxClock,   \* bounds of the time modelled
    MaxAttempts,    \* attempts of a scheduled job: 3 in the code
    MaxFaults       \* bound: runs of scheduled jobs that fail or stall

ASSUME IntakeAssumption ==
    /\ StartClock \in Nat /\ MaxClock \in Nat
    /\ MaxAttempts \in Nat \ {0} /\ MaxFaults \in Nat
    /\ "close" \notin OrderIds /\ "none" \notin OrderIds

ASSUME BodyAssumption ==
    \A r \in Requests :
        /\ Body[r].user \in Users /\ Body[r].symbol \in Symbols
        /\ Body[r].side \in Sides /\ Body[r].quantity \in Quantities
        /\ Body[r].type # "market" => Body[r].mills \in PriceMills

VARIABLES
    keyOf,      \* orders.idempotency_key
    placed,     \* history: the time of each order's INSERT
    stage,      \* of each request: the next thing its handler does
    held,       \* of each request: the order it inserted or found
    answer,     \* of each request: the status code it was answered with
    queued,     \* orders whose match-<id> job was added
    timer,      \* order-expiry-<id> jobs
    tracked,    \* order_expiry_jobs
    cleanup,    \* of each order: where its cancelOrderExpiryJob call is
    closeJob,   \* the market-close job of the last close
    doing,      \* what the scheduler worker runs: an order, "close" or "none"
    clock, faults

requestVars == <<keyOf, placed, stage, held, answer>>
schedulerVars == <<timer, tracked, cleanup, closeJob, doing>>
intakeVars == <<ledgerVars, requestVars, queued, schedulerVars, clock, faults>>

NoTimer == [state |-> "none", due |-> 0, attempts |-> 0]
NoCloseJob == [state |-> "none", attempts |-> 0]

IntakeInit ==
    /\ LedgerInit
    /\ keyOf = [o \in {} |-> 0]
    /\ placed = [o \in {} |-> 0]
    /\ stage = [r \in Requests |-> "insert"]
    /\ held = [r \in Requests |-> "none"]
    /\ answer = [r \in Requests |-> 0]
    /\ queued = {}
    /\ timer = [o \in OrderIds |-> NoTimer]
    /\ tracked = {}
    /\ cleanup = [o \in OrderIds |-> "idle"]
    /\ closeJob = NoCloseJob
    /\ doing = "none"
    /\ clock = StartClock
    /\ faults = 0

-----------------------------------------------------------------------------
(* The calendar.                                                           *)

Day(time) == time \div 2
IsWeekday(time) == Day(time) % 7 \in 1 .. 5

(* The cron pattern of market-close, "0 10 * * 1-5".                       *)
CronFires(time) == time % 2 = 1 /\ IsWeekday(time)

CloseIn(now, days) == 2 * (Day(now) + days) + 1

(* Mutant: today's close is never taken.                                   *)
CloseAfterToday(now) ==
    LET ahead == {d \in 1 .. 3 : IsWeekday(CloseIn(now, d))}
    IN  CloseIn(now, CHOOSE d \in ahead : \A e \in ahead : d <= e)

(* nextMarketCloseUTC walks day by day, from today on, to the first close  *)
(* that is in the future and on a weekday: on a Friday evening, three days.*)
NextMarketClose(now) ==
    LET ahead == {d \in 0 .. 3 : CloseIn(now, d) > now /\ IsWeekday(CloseIn(now, d))}
    IN  CloseIn(now, CHOOSE d \in ahead : \A e \in ahead : d <= e)

-----------------------------------------------------------------------------
(* POST /api/orders.                                                       *)

(* Mutant: no UNIQUE (user_id, idempotency_key).                           *)
NeverTaken(r) == {}

WithKey(r) ==
    {o \in DOMAIN orders : orders[o].user = Body[r].user /\ keyOf[o] = Body[r].key}

Goes(r, label) == stage' = [stage EXCEPT ![r] = label]
Answer(r, code) == Goes(r, "end") /\ answer' = [answer EXCEPT ![r] = code]

InsertOrder(r) ==
    /\ stage[r] = "insert"
    /\ WithKey(r) = {}
    /\ \E o \in OrderIds :
          /\ IF Body[r].type = "market"
             THEN InsertMarket(o, Body[r].user, Body[r].symbol, Body[r].side, Body[r].quantity)
             ELSE InsertLimit(o, Body[r].user, Body[r].symbol, Body[r].side,
                              Body[r].mills, Body[r].quantity)
          /\ keyOf' = [x \in DOMAIN keyOf \cup {o} |-> IF x = o THEN Body[r].key ELSE keyOf[x]]
          /\ placed' = [x \in DOMAIN placed \cup {o} |-> IF x = o THEN clock ELSE placed[x]]
          /\ held' = [held EXCEPT ![r] = o]
    /\ Goes(r, "enqueue")
    /\ UNCHANGED <<answer, queued, schedulerVars, clock, faults>>

(* ON CONFLICT DO NOTHING returns no row, and the handler looks up the     *)
(* order that has the key.  Neither query writes, and no row goes away in  *)
(* between, so they are one action.                                        *)
Replay(r) ==
    /\ stage[r] = "insert"
    /\ \E o \in WithKey(r) : held' = [held EXCEPT ![r] = o]
    /\ Answer(r, 200)
    /\ UNCHANGED <<ledgerVars, keyOf, placed, queued, schedulerVars, clock, faults>>

(* Mutant: the order is never handed to the matcher.                       *)
EnqueueNothing(r) ==
    /\ stage[r] = "enqueue"
    /\ IF IsLimit(orders[held[r]])
       THEN Goes(r, "schedule") /\ UNCHANGED answer
       ELSE Answer(r, 201)
    /\ UNCHANGED <<ledgerVars, keyOf, placed, held, queued, schedulerVars, clock, faults>>

EnqueueOrder(r) ==
    LET o == held[r] IN
    /\ stage[r] = "enqueue"
    /\ queued' = queued \cup {o}
    /\ IF IsLimit(orders[o])
       THEN Goes(r, "schedule") /\ UNCHANGED answer
       ELSE Answer(r, 201)
    /\ UNCHANGED <<ledgerVars, keyOf, placed, held, schedulerVars, clock, faults>>

(* scheduleOrderExpiry: the delayed job, then its row.                     *)
ScheduleExpiry(r) ==
    LET o == held[r] IN
    /\ stage[r] = "schedule"
    /\ timer' = [timer EXCEPT ![o] =
          [state |-> "delayed", due |-> NextMarketClose(clock), attempts |-> 0]]
    /\ Goes(r, "track")
    /\ UNCHANGED <<ledgerVars, keyOf, placed, held, answer, queued, tracked, cleanup,
                   closeJob, doing, clock, faults>>

TrackExpiry(r) ==
    /\ stage[r] = "track"
    /\ tracked' = tracked \cup {held[r]}
    /\ Answer(r, 201)
    /\ UNCHANGED <<ledgerVars, keyOf, placed, held, queued, timer, cleanup,
                   closeJob, doing, clock, faults>>

(* A call of the handler throws or the process dies: what is done stays.   *)
(* A request that fails before its INSERT has done nothing, and may as     *)
(* well not have come.                                                     *)
RequestFails(r) ==
    /\ stage[r] \in {"enqueue", "schedule", "track"}
    /\ Answer(r, 500)
    /\ UNCHANGED <<ledgerVars, keyOf, placed, held, queued, schedulerVars, clock, faults>>

(* DELETE /api/orders/:id throws after its UPDATE (see MatchingEngine), so *)
(* the expiry job stays.                                                   *)
CancelByUser(o) ==
    /\ CancelOpen(o)
    /\ UNCHANGED <<requestVars, queued, schedulerVars, clock, faults>>

-----------------------------------------------------------------------------
(* What the matching engine does to orders, and the cleanup it starts.     *)

(* Mutant: the expiry of both orders is cancelled, whatever their status.  *)
BothOrders(i, r) == {i, r}

(* After a trade, the orders it closed.                                    *)
ClosedBy(i, r) == {o \in {i, r} : orders'[o].status \notin OpenStatuses}

EngineTrades(i, r) ==
    /\ {i, r} \subseteq queued
    /\ SettleTrade(i, r)
    /\ cleanup' = [o \in OrderIds |-> IF o \in ClosedBy(i, r) THEN "lookup" ELSE cleanup[o]]
    /\ UNCHANGED <<requestVars, queued, timer, tracked, closeJob, doing, clock, faults>>

(* The unfillable side is closed without a cleanup.                        *)
EngineGivesUp(i, r) ==
    /\ {i, r} \subseteq queued
    /\ SettleUnfillable(i, r)
    /\ UNCHANGED <<requestVars, queued, schedulerVars, clock, faults>>

EngineCancels(o) ==
    /\ o \in queued /\ ~IsLimit(orders[o])
    /\ CancelOpen(o)
    /\ UNCHANGED <<requestVars, queued, schedulerVars, clock, faults>>

(* cancelOrderExpiryJob, which nobody awaits: find the row, remove the job *)
(* unless the worker is at it, delete the row.                             *)
CleanupStep(o) ==
    /\ \/ /\ cleanup[o] = "lookup"
          /\ cleanup' = [cleanup EXCEPT ![o] = IF o \in tracked THEN "remove" ELSE "idle"]
          /\ UNCHANGED <<timer, tracked>>
       \/ /\ cleanup[o] = "remove"
          /\ timer' = [timer EXCEPT ![o] = IF @.state = "active" THEN @ ELSE NoTimer]
          /\ cleanup' = [cleanup EXCEPT ![o] = "forget"]
          /\ UNCHANGED tracked
       \/ /\ cleanup[o] = "forget"
          /\ tracked' = tracked \ {o}
          /\ cleanup' = [cleanup EXCEPT ![o] = "idle"]
          /\ UNCHANGED timer
    /\ UNCHANGED <<ledgerVars, requestVars, queued, closeJob, doing, clock, faults>>

-----------------------------------------------------------------------------
(* The scheduled-jobs queue and its worker, one job at a time.             *)

(* Time passes; the worker is done with a close before half a day is over. *)
Tick ==
    /\ clock < MaxClock
    /\ closeJob.state \notin {"waiting", "active", "closed"}
    /\ clock' = clock + 1
    /\ closeJob' = IF CronFires(clock + 1) THEN [state |-> "waiting", attempts |-> 0]
                   ELSE closeJob
    /\ UNCHANGED <<ledgerVars, requestVars, queued, timer, tracked, cleanup, doing, faults>>

StartClose ==
    /\ doing = "none" /\ closeJob.state = "waiting"
    /\ doing' = "close"
    /\ closeJob' = [closeJob EXCEPT !.state = "active"]
    /\ UNCHANGED <<ledgerVars, requestVars, queued, timer, tracked, cleanup, clock, faults>>

(* The first step of handleMarketClose.                                    *)
CloseOrders ==
    /\ doing = "close" /\ closeJob.state = "active"
    /\ MarketClose
    /\ closeJob' = [closeJob EXCEPT !.state = "closed"]
    /\ UNCHANGED <<requestVars, queued, timer, tracked, cleanup, doing, clock, faults>>

(* The other two, publishing the close and queueing the summaries.         *)
AnnounceClose ==
    /\ doing = "close" /\ closeJob.state = "closed"
    /\ doing' = "none"
    /\ closeJob' = [closeJob EXCEPT !.state = "done"]
    /\ UNCHANGED <<ledgerVars, requestVars, queued, timer, tracked, cleanup, clock, faults>>

StartExpiry(o) ==
    /\ doing = "none"
    /\ timer[o].state = "delayed" /\ timer[o].due <= clock
    /\ doing' = o
    /\ timer' = [timer EXCEPT ![o].state = "active"]
    /\ UNCHANGED <<ledgerVars, requestVars, queued, tracked, cleanup, closeJob, clock, faults>>

ExpireOrder(o) ==
    /\ doing = o
    /\ IF HasOpenStatus(o) /\ IsLimit(orders[o]) THEN ExpireLimit(o) ELSE UNCHANGED ledgerVars
    /\ doing' = "none"
    /\ timer' = [timer EXCEPT ![o].state = "done"]
    /\ UNCHANGED <<requestVars, queued, tracked, cleanup, closeJob, clock, faults>>

(* Mutant: a failed run is not repeated.                                   *)
NeverAgain(j, again) == [j EXCEPT !.attempts = @ + 1, !.state = "failed"]

Retried(j, again) ==
    [j EXCEPT !.attempts = @ + 1,
              !.state = IF j.attempts + 1 < MaxAttempts THEN again ELSE "failed"]

(* A run throws, or stalls because the process dies: the job runs again    *)
(* from its start.                                                         *)
JobFails ==
    /\ doing # "none"
    /\ faults < MaxFaults
    /\ faults' = faults + 1
    /\ doing' = "none"
    /\ IF doing = "close"
       THEN closeJob' = Retried(closeJob, "waiting") /\ UNCHANGED timer
       ELSE timer' = [timer EXCEPT ![doing] = Retried(@, "delayed")] /\ UNCHANGED closeJob
    /\ UNCHANGED <<ledgerVars, requestVars, queued, tracked, cleanup, clock>>

-----------------------------------------------------------------------------
Handle(r) ==
    \/ InsertOrder(r) \/ Replay(r) \/ EnqueueOrder(r)
    \/ ScheduleExpiry(r) \/ TrackExpiry(r) \/ RequestFails(r)

SchedulerRuns ==
    \/ StartClose \/ CloseOrders \/ AnnounceClose
    \/ \E o \in OrderIds : StartExpiry(o) \/ ExpireOrder(o)

IntakeNext ==
    \/ \E r \in Requests : Handle(r)
    \/ \E o \in OrderIds : CancelByUser(o) \/ EngineCancels(o) \/ CleanupStep(o)
    \/ \E i, r \in OrderIds : EngineTrades(i, r) \/ EngineGivesUp(i, r)
    \/ Tick \/ SchedulerRuns \/ JobFails

IntakeSpec == IntakeInit /\ [][IntakeNext]_intakeVars

(* Time passes and the scheduler worker keeps working; clients, requests,  *)
(* trades and cleanups owe nothing.                                        *)
FairIntakeSpec ==
    IntakeSpec /\ WF_intakeVars(Tick) /\ WF_intakeVars(SchedulerRuns)

-----------------------------------------------------------------------------
(* Type invariant.                                                         *)

IntakeTypeOK ==
    /\ LedgerTypeOK
    /\ DOMAIN keyOf = issued /\ DOMAIN placed = issued
    /\ stage \in [Requests -> {"insert", "enqueue", "schedule", "track", "end"}]
    /\ held \in [Requests -> issued \cup {"none"}]
    /\ answer \in [Requests -> {0, 200, 201, 500}]
    /\ queued \subseteq issued /\ tracked \subseteq queued
    /\ timer \in [OrderIds -> [state : {"none", "delayed", "active", "done", "failed"},
                              due : Nat, attempts : 0 .. MaxAttempts]]
    /\ cleanup \in [OrderIds -> {"idle", "lookup", "remove", "forget"}]
    /\ closeJob \in [state : {"none", "waiting", "active", "closed", "done", "failed"},
                     attempts : 0 .. MaxAttempts]
    /\ doing \in OrderIds \cup {"none", "close"}
    /\ clock \in Nat /\ faults \in 0 .. MaxFaults

-----------------------------------------------------------------------------
(* Safety.                                                                 *)

(* An idempotency key buys one order: however a client repeats a request,  *)
(* at the same time or after one that died, no second order has the key,   *)
(* and all its successful answers name the one that has.                   *)
Succeeded(r) == answer[r] \in {200, 201}

OneOrderPerKey ==
    /\ \A o, x \in DOMAIN orders :
          orders[o].user = orders[x].user /\ keyOf[o] = keyOf[x] => o = x
    /\ \A r, t \in Requests :
          /\ Succeeded(r) /\ Succeeded(t)
          /\ Body[r].user = Body[t].user /\ Body[r].key = Body[t].key
          => held[r] = held[t]

ClosesBetween(a, b) == {c \in a + 1 .. b - 1 : CronFires(c)}

(* An accepted limit order is never forgotten: while it is open, its match *)
(* job was added, and its expiry job is still to run, at a close after it  *)
(* was placed; no cleanup of a partial fill and no failed run loses it,    *)
(* and the timer of a coming close is due at the very next one.            *)
AcceptedHasTimer ==
    \A r \in Requests :
        LET o == held[r] IN
        answer[r] = 201 /\ IsLimit(orders[o]) /\ HasOpenStatus(o) =>
            /\ o \in queued
            /\ timer[o].state \in {"delayed", "active"}
            /\ CronFires(timer[o].due) /\ timer[o].due > placed[o]
            /\ ClosesBetween(clock, timer[o].due) = {}

(* No limit order outlives the close after it was placed, once the close   *)
(* is done.                                                                *)
NoneOpenPastClose ==
    closeJob.state = "done" =>
        \A o \in DOMAIN orders :
            IsLimit(orders[o]) /\ (\E c \in placed[o] + 1 .. clock : CronFires(c))
                => orders[o].status \notin OpenStatuses

(* Liveness: every limit order that a close modelled is still ahead of is  *)
(* closed in the end, even when the request that placed it died before its *)
(* expiry was scheduled, or a run of the scheduler fails.                  *)
LimitOrdersEnd ==
    \A o \in OrderIds :
        /\ o \in DOMAIN orders /\ IsLimit(orders[o])
        /\ \E c \in clock + 1 .. MaxClock : CronFires(c)
        ~> ~HasOpenStatus(o)
=============================================================================
