----------------------------- MODULE IntakeProofs -----------------------------
(***************************************************************************)
(* Proofs about OrderIntake, for any numbers of requests, orders, users,   *)
(* faults and half days.                                                   *)
(***************************************************************************)
EXTENDS OrderIntake, LedgerProofs

-----------------------------------------------------------------------------
(* The submit, cancel and expiry handlers change the tables only by the    *)
(* transactions of the ledger, whatever dies, repeats or overlaps.         *)

LEMMA InsertStep ==
    ASSUME NEW r \in Requests, InsertOrder(r)
    PROVE  LedgerNext
  <1> PICK o \in OrderIds :
          IF Body[r].type = "market"
          THEN InsertMarket(o, Body[r].user, Body[r].symbol, Body[r].side, Body[r].quantity)
          ELSE InsertLimit(o, Body[r].user, Body[r].symbol, Body[r].side,
                           Body[r].mills, Body[r].quantity)
    BY DEF InsertOrder
  <1>1. Submit(o)
    BY BodyAssumption DEF Submit
  <1> QED BY <1>1 DEF LedgerNext

LEMMA HandleStep ==
    ASSUME NEW r \in Requests, Handle(r)
    PROVE  [LedgerNext]_ledgerVars
  <1>1. CASE InsertOrder(r)
    BY <1>1, InsertStep
  <1>2. CASE Replay(r) \/ EnqueueOrder(r) \/ ScheduleExpiry(r) \/ TrackExpiry(r) \/ RequestFails(r)
    BY <1>2 DEF Replay, EnqueueOrder, ScheduleExpiry, TrackExpiry, RequestFails
  <1> QED BY <1>1, <1>2 DEF Handle

LEMMA SchedulerStep ==
    ASSUME SchedulerRuns
    PROVE  [LedgerNext]_ledgerVars
  <1>1. CASE StartClose \/ AnnounceClose
    BY <1>1 DEF StartClose, AnnounceClose
  <1>2. CASE CloseOrders
    BY <1>2 DEF CloseOrders, LedgerNext
  <1>3. ASSUME NEW o \in OrderIds, StartExpiry(o) PROVE UNCHANGED ledgerVars
    BY <1>3 DEF StartExpiry
  <1>4. ASSUME NEW o \in OrderIds, ExpireOrder(o) PROVE [LedgerNext]_ledgerVars
    BY <1>4 DEF ExpireOrder, LedgerNext
  <1> QED BY <1>1, <1>2, <1>3, <1>4 DEF SchedulerRuns

LEMMA IntakeStep == [IntakeNext]_intakeVars => [LedgerNext]_ledgerVars
  <1> SUFFICES ASSUME [IntakeNext]_intakeVars PROVE [LedgerNext]_ledgerVars
    OBVIOUS
  <1>1. ASSUME NEW r \in Requests, Handle(r) PROVE [LedgerNext]_ledgerVars
    BY <1>1, HandleStep
  <1>2. ASSUME NEW o \in OrderIds, CancelByUser(o) \/ EngineCancels(o) PROVE LedgerNext
    BY <1>2 DEF CancelByUser, EngineCancels, LedgerNext
  <1>3. ASSUME NEW o \in OrderIds, CleanupStep(o) PROVE UNCHANGED ledgerVars
    BY <1>3 DEF CleanupStep
  <1>4. ASSUME NEW i \in OrderIds, NEW r \in OrderIds, EngineTrades(i, r) \/ EngineGivesUp(i, r)
        PROVE  LedgerNext
    BY <1>4 DEF EngineTrades, EngineGivesUp, LedgerNext, Settle
  <1>5. CASE Tick \/ JobFails
    BY <1>5 DEF Tick, JobFails
  <1>6. CASE SchedulerRuns
    BY <1>6, SchedulerStep
  <1>7. CASE UNCHANGED intakeVars
    BY <1>7 DEF intakeVars
  <1> QED BY <1>1, <1>2, <1>3, <1>4, <1>5, <1>6, <1>7 DEF IntakeNext

(* The intake implements the ledger.                                       *)
THEOREM IntakeImplementsLedger == IntakeSpec => LedgerSpec
  <1>1. IntakeInit => LedgerInit
    BY DEF IntakeInit
  <1>2. [IntakeNext]_intakeVars => [LedgerNext]_ledgerVars
    BY IntakeStep
  <1> QED BY <1>1, <1>2, PTL DEF IntakeSpec, LedgerSpec

(* No cancel, no expiry and no repeated close touches a closed order.      *)
THEOREM IntakeKeepsClosedOrders == IntakeSpec => ClosedIsFinal
  BY IntakeImplementsLedger, ClosedOrdersFinal

-----------------------------------------------------------------------------
(* The UNIQUE constraint: a request that succeeded, or that is past its    *)
(* INSERT, holds the order of its user and key; no two orders share both.  *)

Holds(r) ==
    /\ held[r] \in DOMAIN orders
    /\ orders[held[r]].user = Body[r].user /\ keyOf[held[r]] = Body[r].key

KeyInv ==
    /\ DOMAIN orders \subseteq DOMAIN keyOf
    /\ DOMAIN held = Requests /\ DOMAIN stage = Requests /\ DOMAIN answer = Requests
    /\ \A o, x \in DOMAIN orders :
          orders[o].user = orders[x].user /\ keyOf[o] = keyOf[x] => o = x
    /\ \A r \in Requests :
          Succeeded(r) \/ stage[r] \in {"enqueue", "schedule", "track"} => Holds(r)

(* No transaction but the INSERT changes which orders there are, or whose, *)
(* or of which type.                                                       *)
OwnersKept ==
    /\ DOMAIN orders' = DOMAIN orders
    /\ \A o \in DOMAIN orders :
          orders'[o].user = orders[o].user /\ orders'[o].type = orders[o].type

LEMMA CancelKeepsOwners ==
    ASSUME LedgerInv, NEW o \in OrderIds, CancelOpen(o)
    PROVE  OwnersKept
  BY CancelledRow DEF OwnersKept, CancelOpen, HasOpenStatus, LedgerInv, LedgerTypeOK

LEMMA CloseKeepsOwners ==
    ASSUME LedgerInv, MarketClose
    PROVE  OwnersKept
  BY CancelledRow DEF OwnersKept, MarketClose, LedgerInv, LedgerTypeOK

LEMMA AfterFillOwner ==
    ASSUME NEW row \in OrderRow, NEW q, NEW c
    PROVE  AfterFill(row, q, c).user = row.user /\ AfterFill(row, q, c).type = row.type
  BY DEF AfterFill, OrderRow

LEMMA SettleKeepsOwners ==
    ASSUME LedgerInv, NEW i \in OrderIds, NEW r \in OrderIds, Settle(i, r)
    PROVE  OwnersKept
  <1>1. \A x \in DOMAIN orders : orders[x] \in OrderRow
    BY DEF LedgerInv, LedgerTypeOK
  <1>2. CASE SettleTrade(i, r)
    <2>1. BuyId(i, r) # SellId(i, r)
      BY <1>2 DEF SettleTrade, Settleable, BuyId, SellId
    <2>2. \E b, s, q, c, d :
             /\ b # s
             /\ orders' = [orders EXCEPT ![b] = AfterFill(@, q, c), ![s] = AfterFill(@, q, d)]
      BY <1>2, <2>1 DEF SettleTrade
    <2> QED BY <1>1, <2>2, AfterFillOwner DEF OwnersKept
  <1>3. CASE SettleUnfillable(i, r)
    <2>1. PICK b, q, c : orders' = [orders EXCEPT ![b] = AfterFill(@, q, c)]
      BY <1>3 DEF SettleUnfillable
    <2>2. DOMAIN orders' = DOMAIN orders
      BY <2>1
    <2>3. \A o \in DOMAIN orders : orders'[o] \in {orders[o], AfterFill(orders[o], q, c)}
      BY <2>1
    <2> QED BY <1>1, <2>2, <2>3, AfterFillOwner DEF OwnersKept
  <1> QED BY <1>2, <1>3 DEF Settle

(* Whatever keeps owners, keys and requests keeps the invariant.           *)
LEMMA OwnersKeepKeys ==
    ASSUME KeyInv, OwnersKept, UNCHANGED requestVars
    PROVE  KeyInv'
  BY DEF KeyInv, OwnersKept, Holds, Succeeded, requestVars

LEMMA InsertKeepsKeys ==
    ASSUME LedgerInv, KeyInv, NEW r \in Requests, InsertOrder(r)
    PROVE  KeyInv'
  <1>1. PICK o, row :
          /\ o \in OrderIds \ issued
          /\ row.user = Body[r].user
          /\ orders' = [x \in DOMAIN orders \cup {o} |-> IF x = o THEN row ELSE orders[x]]
          /\ keyOf' = [x \in DOMAIN keyOf \cup {o} |-> IF x = o THEN Body[r].key ELSE keyOf[x]]
          /\ held' = [held EXCEPT ![r] = o]
    BY DEF InsertOrder, InsertMarket, InsertLimit, InsertRow, NewRow
  <1>2. o \notin DOMAIN orders
    BY <1>1 DEF LedgerInv, LedgerTypeOK
  <1>3. /\ DOMAIN orders' = DOMAIN orders \cup {o}
        /\ orders'[o].user = Body[r].user /\ keyOf'[o] = Body[r].key
        /\ \A x \in DOMAIN orders : orders'[x] = orders[x] /\ keyOf'[x] = keyOf[x]
        /\ DOMAIN orders' \subseteq DOMAIN keyOf'
    BY <1>1, <1>2 DEF KeyInv
  <1>4. stage' = [stage EXCEPT ![r] = "enqueue"] /\ answer' = answer /\ stage[r] = "insert"
    BY DEF InsertOrder, Goes
  <1>5. \A x \in DOMAIN orders : ~(orders[x].user = Body[r].user /\ keyOf[x] = Body[r].key)
    BY DEF InsertOrder, WithKey
  <1>6. \A p, x \in DOMAIN orders' :
          orders'[p].user = orders'[x].user /\ keyOf'[p] = keyOf'[x] => p = x
    BY <1>3, <1>5 DEF KeyInv
  <1>7. DOMAIN held' = Requests /\ DOMAIN stage' = Requests /\ DOMAIN answer' = Requests
    BY <1>1, <1>4 DEF KeyInv
  <1>8. ASSUME NEW t \in Requests,
               Succeeded(t)' \/ stage'[t] \in {"enqueue", "schedule", "track"}
        PROVE  Holds(t)'
    <2>1. CASE t = r
      BY <1>1, <1>3, <2>1 DEF Holds, KeyInv
    <2>2. CASE t # r
      <3>1. held'[t] = held[t] /\ stage'[t] = stage[t] /\ answer'[t] = answer[t]
        BY <1>1, <1>4, <2>2 DEF KeyInv
      <3>2. Holds(t)
        BY <1>8, <3>1 DEF KeyInv, Succeeded
      <3> QED BY <1>3, <3>1, <3>2 DEF Holds
    <2> QED BY <2>1, <2>2
  <1> QED BY <1>3, <1>6, <1>7, <1>8 DEF KeyInv

LEMMA ReplayKeepsKeys ==
    ASSUME KeyInv, NEW r \in Requests, Replay(r)
    PROVE  KeyInv'
  <1>1. PICK o \in WithKey(r) : held' = [held EXCEPT ![r] = o]
    BY DEF Replay
  <1>2. /\ stage' = [stage EXCEPT ![r] = "end"] /\ answer' = [answer EXCEPT ![r] = 200]
        /\ orders' = orders /\ keyOf' = keyOf
    BY DEF Replay, Answer, Goes, ledgerVars
  <1>3. Holds(r)'
    BY <1>1, <1>2 DEF Holds, WithKey, KeyInv
  <1>4. ASSUME NEW t \in Requests, t # r,
               Succeeded(t)' \/ stage'[t] \in {"enqueue", "schedule", "track"}
        PROVE  Holds(t)'
    BY <1>1, <1>2, <1>4 DEF Holds, KeyInv, Succeeded
  <1> QED BY <1>1, <1>2, <1>3, <1>4 DEF KeyInv

(* The steps after the INSERT leave a request the order it holds.          *)
LEMMA LaterStepsKeepKeys ==
    ASSUME KeyInv, NEW r \in Requests,
           \/ EnqueueOrder(r) \/ ScheduleExpiry(r) \/ TrackExpiry(r) \/ RequestFails(r)
    PROVE  KeyInv'
  <1>1. /\ orders' = orders /\ keyOf' = keyOf /\ held' = held
        /\ stage[r] \in {"enqueue", "schedule", "track"}
        /\ \E label : stage' = [stage EXCEPT ![r] = label]
        /\ answer' = answer \/ \E code : answer' = [answer EXCEPT ![r] = code]
    BY DEF EnqueueOrder, ScheduleExpiry, TrackExpiry, RequestFails, Answer, Goes, ledgerVars
  <1>2. Holds(r)
    BY <1>1 DEF KeyInv
  <1>3. ASSUME NEW t \in Requests,
               Succeeded(t)' \/ stage'[t] \in {"enqueue", "schedule", "track"}
        PROVE  Holds(t)'
    BY <1>1, <1>2, <1>3 DEF Holds, KeyInv, Succeeded
  <1> QED BY <1>1, <1>3 DEF KeyInv

LEMMA KeyStep == LedgerInv /\ KeyInv /\ [IntakeNext]_intakeVars => KeyInv'
  <1> SUFFICES ASSUME LedgerInv, KeyInv, [IntakeNext]_intakeVars PROVE KeyInv'
    OBVIOUS
  <1>1. ASSUME NEW r \in Requests, Handle(r) PROVE KeyInv'
    BY <1>1, InsertKeepsKeys, ReplayKeepsKeys, LaterStepsKeepKeys DEF Handle
  <1>2. ASSUME NEW o \in OrderIds, CancelByUser(o) \/ EngineCancels(o) PROVE KeyInv'
    <2>1. CancelOpen(o) /\ UNCHANGED requestVars
      BY <1>2 DEF CancelByUser, EngineCancels
    <2> QED BY <2>1, CancelKeepsOwners, OwnersKeepKeys
  <1>3. ASSUME NEW i \in OrderIds, NEW r \in OrderIds, EngineTrades(i, r) \/ EngineGivesUp(i, r)
        PROVE  KeyInv'
    <2>1. Settle(i, r) /\ UNCHANGED requestVars
      BY <1>3 DEF EngineTrades, EngineGivesUp, Settle
    <2> QED BY <2>1, SettleKeepsOwners, OwnersKeepKeys
  <1>4. CASE CloseOrders
    BY <1>4, CloseKeepsOwners, OwnersKeepKeys DEF CloseOrders
  <1>5. ASSUME NEW o \in OrderIds, ExpireOrder(o) PROVE KeyInv'
    <2>1. CASE ExpireLimit(o)
      BY <1>5, <2>1, CancelKeepsOwners, OwnersKeepKeys DEF ExpireLimit, ExpireOrder
    <2>2. CASE UNCHANGED ledgerVars
      BY <1>5, <2>2, OwnersKeepKeys DEF ExpireOrder, OwnersKept, ledgerVars
    <2> QED BY <1>5, <2>1, <2>2 DEF ExpireOrder
  <1>6. ASSUME \/ Tick \/ JobFails \/ StartClose \/ AnnounceClose \/ UNCHANGED intakeVars
               \/ \E o \in OrderIds : StartExpiry(o) \/ CleanupStep(o)
        PROVE  KeyInv'
    <2>1. UNCHANGED <<ledgerVars, requestVars>>
      BY <1>6 DEF Tick, JobFails, StartClose, AnnounceClose, StartExpiry, CleanupStep, intakeVars
    <2> QED BY <2>1, OwnersKeepKeys DEF OwnersKept, ledgerVars
  <1> QED BY <1>1, <1>2, <1>3, <1>4, <1>5, <1>6 DEF IntakeNext, SchedulerRuns

(* An idempotency key buys one order, however many requests with it        *)
(* overlap, fail, or are repeated after a failure.                         *)
THEOREM KeysBuyOneOrder == IntakeSpec => []OneOrderPerKey
  <1>1. IntakeInit => KeyInv
    BY DEF IntakeInit, LedgerInit, KeyInv, Succeeded
  <1>2. IntakeSpec => []LedgerInv
    BY IntakeImplementsLedger, LedgerInvariant
  <1>3. LedgerInv /\ KeyInv /\ [IntakeNext]_intakeVars => KeyInv'
    BY KeyStep
  <1>4. KeyInv => OneOrderPerKey
    BY DEF KeyInv, OneOrderPerKey, Holds
  <1> QED BY <1>1, <1>2, <1>3, <1>4, PTL DEF IntakeSpec

-----------------------------------------------------------------------------
(* The close: unless it is still to run, or has failed for good, no limit  *)
(* order is open that was placed before it.                                *)

PastDue(o) == \E c \in placed[o] + 1 .. clock : CronFires(c)

CloseJob ==
    [state : {"none", "waiting", "active", "closed", "done", "failed"}, attempts : Nat]

CloseInv ==
    /\ clock \in Nat /\ closeJob \in CloseJob
    /\ DOMAIN orders \subseteq DOMAIN placed
    /\ \/ closeJob.state \in {"waiting", "active", "failed"}
       \/ \A o \in DOMAIN orders :
             IsLimit(orders[o]) /\ PastDue(o) => orders[o].status \notin OpenStatuses

LEMMA NotReopened ==
    ASSUME LedgerInv, [LedgerNext]_ledgerVars, OwnersKept,
           NEW o \in DOMAIN orders, orders[o].status \notin OpenStatuses
    PROVE  orders'[o].status \notin OpenStatuses
  <1>1. orders[o].status \in {"filled", "cancelled"}
    BY DEF LedgerInv, LedgerTypeOK, OrderRow, Statuses, OpenStatuses
  <1>2. CASE UNCHANGED ledgerVars
    BY <1>2 DEF ledgerVars
  <1> QED BY <1>1, <1>2, ClosedRowsKept DEF OwnersKept

(* A step that neither inserts nor lets time pass, nor ends a close.       *)
LEMMA CloseStays ==
    ASSUME LedgerInv, CloseInv, [LedgerNext]_ledgerVars, OwnersKept,
           UNCHANGED <<placed, clock>>, closeJob' \in CloseJob,
           \/ closeJob'.state \in {"waiting", "active", "failed"}
           \/ closeJob.state \notin {"waiting", "active", "failed"}
    PROVE  CloseInv'
  <1>1. \A o \in DOMAIN orders : PastDue(o)' = PastDue(o)
    BY DEF PastDue
  <1>2. CASE closeJob'.state \in {"waiting", "active", "failed"}
    BY <1>2 DEF CloseInv, OwnersKept
  <1>3. CASE closeJob.state \notin {"waiting", "active", "failed"}
    <2>1. ASSUME NEW o \in DOMAIN orders', IsLimit(orders'[o]), PastDue(o)'
          PROVE  orders'[o].status \notin OpenStatuses
      <3>1. o \in DOMAIN orders /\ IsLimit(orders[o]) /\ PastDue(o)
        BY <1>1, <2>1 DEF OwnersKept, IsLimit
      <3>2. orders[o].status \notin OpenStatuses
        BY <1>3, <3>1 DEF CloseInv
      <3> QED BY <3>1, <3>2, NotReopened
    <2> QED BY <2>1 DEF CloseInv, OwnersKept
  <1> QED BY <1>2, <1>3

LEMMA InsertKeepsClose ==
    ASSUME LedgerInv, CloseInv, NEW r \in Requests, InsertOrder(r)
    PROVE  CloseInv'
  <1>1. PICK o, row :
          /\ o \in OrderIds \ issued
          /\ orders' = [x \in DOMAIN orders \cup {o} |-> IF x = o THEN row ELSE orders[x]]
          /\ placed' = [x \in DOMAIN placed \cup {o} |-> IF x = o THEN clock ELSE placed[x]]
          /\ UNCHANGED <<clock, closeJob>>
    BY DEF InsertOrder, InsertMarket, InsertLimit, InsertRow, schedulerVars
  <1>2. ~PastDue(o)'
    BY <1>1 DEF PastDue, CloseInv
  <1>3. \A x \in DOMAIN orders \ {o} : orders'[x] = orders[x] /\ (PastDue(x)' = PastDue(x))
    BY <1>1 DEF PastDue, CloseInv
  <1> QED BY <1>1, <1>2, <1>3 DEF CloseInv

LEMMA TickKeepsClose ==
    ASSUME CloseInv, Tick
    PROVE  CloseInv'
  <1>1. clock' = clock + 1 /\ UNCHANGED <<orders, placed>>
    BY DEF Tick, ledgerVars, requestVars
  <1>2. CASE CronFires(clock + 1)
    BY <1>1, <1>2 DEF Tick, CloseInv, CloseJob
  <1>3. CASE ~CronFires(clock + 1)
    <2>1. \A o \in DOMAIN orders : PastDue(o)' => PastDue(o)
      <3> SUFFICES ASSUME NEW o \in DOMAIN orders, PastDue(o)' PROVE PastDue(o)
        OBVIOUS
      <3>1. PICK c \in placed[o] + 1 .. clock + 1 : CronFires(c)
        BY <1>1 DEF PastDue
      <3>2. c # clock + 1
        BY <1>3, <3>1
      <3>3. c \in placed[o] + 1 .. clock
        BY <3>1, <3>2 DEF CloseInv
      <3> QED BY <3>1, <3>3 DEF PastDue
    <2>2. closeJob' = closeJob
      BY <1>3 DEF Tick
    <2> QED BY <1>1, <2>1, <2>2 DEF CloseInv
  <1> QED BY <1>2, <1>3

LEMMA CloseOrdersKeepsClose ==
    ASSUME LedgerInv, CloseInv, CloseOrders
    PROVE  CloseInv'
  <1>1. MarketClose /\ UNCHANGED <<placed, clock>>
    BY DEF CloseOrders, requestVars
  <1>2. ASSUME NEW o \in DOMAIN orders', IsLimit(orders'[o])
        PROVE  orders'[o].status \notin OpenStatuses
    <2>1. orders[o] \in OrderRow /\ o \in DOMAIN orders
      BY <1>1 DEF MarketClose, LedgerInv, LedgerTypeOK
    <2>2. CASE HasOpenStatus(o) /\ IsLimit(orders[o])
      BY <1>1, <2>1, <2>2, CancelledRow DEF MarketClose, OpenStatuses
    <2>3. CASE ~(HasOpenStatus(o) /\ IsLimit(orders[o]))
      BY <1>1, <1>2, <2>1, <2>3 DEF MarketClose, HasOpenStatus
    <2> QED BY <2>2, <2>3
  <1>3. closeJob' \in CloseJob
    BY DEF CloseOrders, CloseInv, CloseJob
  <1> QED BY <1>1, <1>2, <1>3 DEF CloseInv, MarketClose

LEMMA CloseStep == LedgerInv /\ CloseInv /\ [IntakeNext]_intakeVars => CloseInv'
  <1> SUFFICES ASSUME LedgerInv, CloseInv, [IntakeNext]_intakeVars PROVE CloseInv'
    OBVIOUS
  <1>0. [LedgerNext]_ledgerVars /\ closeJob \in CloseJob
    BY IntakeStep DEF CloseInv
  <1>1. ASSUME NEW r \in Requests, Handle(r) PROVE CloseInv'
    <2>1. CASE InsertOrder(r)
      BY <2>1, InsertKeepsClose
    <2>2. CASE ~InsertOrder(r)
      <3>1. UNCHANGED <<ledgerVars, placed, closeJob, clock>>
        BY <1>1, <2>2 DEF Handle, Replay, EnqueueOrder, ScheduleExpiry, TrackExpiry,
                          RequestFails, schedulerVars
      <3> QED BY <1>0, <3>1, CloseStays DEF OwnersKept, ledgerVars
    <2> QED BY <2>1, <2>2
  <1>2. ASSUME NEW o \in OrderIds, CancelByUser(o) \/ EngineCancels(o) PROVE CloseInv'
    <2>1. CancelOpen(o) /\ UNCHANGED <<placed, closeJob, clock>>
      BY <1>2 DEF CancelByUser, EngineCancels, requestVars, schedulerVars
    <2> QED BY <1>0, <2>1, CancelKeepsOwners, CloseStays
  <1>3. ASSUME NEW i \in OrderIds, NEW r \in OrderIds, EngineTrades(i, r) \/ EngineGivesUp(i, r)
        PROVE  CloseInv'
    <2>1. Settle(i, r) /\ UNCHANGED <<placed, closeJob, clock>>
      BY <1>3 DEF EngineTrades, EngineGivesUp, Settle, requestVars, schedulerVars
    <2> QED BY <1>0, <2>1, SettleKeepsOwners, CloseStays
  <1>4. ASSUME NEW o \in OrderIds, ExpireOrder(o) PROVE CloseInv'
    <2>1. UNCHANGED <<placed, closeJob, clock>>
      BY <1>4 DEF ExpireOrder, requestVars
    <2>2. CASE ExpireLimit(o)
      BY <1>0, <2>1, <2>2, CancelKeepsOwners, CloseStays DEF ExpireLimit
    <2>3. CASE UNCHANGED ledgerVars
      BY <1>0, <2>1, <2>3, CloseStays DEF OwnersKept, ledgerVars
    <2> QED BY <1>4, <2>2, <2>3 DEF ExpireOrder
  <1>5. ASSUME \/ JobFails \/ StartClose \/ AnnounceClose \/ UNCHANGED intakeVars
               \/ \E o \in OrderIds : StartExpiry(o) \/ CleanupStep(o)
        PROVE  CloseInv'
    <2>1. UNCHANGED <<ledgerVars, placed, clock>>
      BY <1>5 DEF JobFails, StartClose, AnnounceClose, StartExpiry, CleanupStep, intakeVars,
                  requestVars
    <2>2. /\ closeJob' \in CloseJob
          /\ \/ closeJob'.state \in {"waiting", "active", "failed"}
             \/ closeJob.state \notin {"waiting", "active", "failed"}
      <3>1. CASE UNCHANGED closeJob
        BY <1>0, <3>1
      <3>2. CASE JobFails /\ closeJob' = Retried(closeJob, "waiting")
        <4>1. PICK state \in {"waiting", "failed"} :
                closeJob' = [closeJob EXCEPT !.attempts = @ + 1, !.state = state]
          BY <3>2 DEF Retried
        <4>2. closeJob' = [state |-> state, attempts |-> closeJob.attempts + 1]
          BY <1>0, <4>1 DEF CloseJob
        <4>3. closeJob.attempts + 1 \in Nat
          BY <1>0 DEF CloseJob
        <4> QED BY <4>2, <4>3 DEF CloseJob
      <3>3. CASE StartClose \/ AnnounceClose
        BY <1>0, <3>3 DEF CloseJob, StartClose, AnnounceClose
      <3> QED BY <1>5, <3>1, <3>2, <3>3
              DEF JobFails, StartExpiry, CleanupStep, intakeVars, schedulerVars
    <2> QED BY <1>0, <2>1, <2>2, CloseStays DEF OwnersKept, ledgerVars
  <1> QED BY <1>1, <1>2, <1>3, <1>4, <1>5, TickKeepsClose, CloseOrdersKeepsClose
          DEF IntakeNext, SchedulerRuns

(* Once the close is done no limit order placed before it is open, however *)
(* submissions, fills, repeated runs and expiries overlap with it.         *)
THEOREM NothingOutlivesTheClose == IntakeSpec => []NoneOpenPastClose
  <1>1. IntakeInit => CloseInv
    BY IntakeAssumption DEF IntakeInit, LedgerInit, CloseInv, CloseJob, NoCloseJob
  <1>2. IntakeSpec => []LedgerInv
    BY IntakeImplementsLedger, LedgerInvariant
  <1>3. LedgerInv /\ CloseInv /\ [IntakeNext]_intakeVars => CloseInv'
    BY CloseStep
  <1>4. CloseInv => NoneOpenPastClose
    BY DEF CloseInv, NoneOpenPastClose, PastDue
  <1> QED BY <1>1, <1>2, <1>3, <1>4, PTL DEF IntakeSpec

(* Every fill, balance and average price the intake leads to is what the   *)
(* trades on record make it, whatever closes, expires or repeats.          *)
THEOREM IntakeKeepsBooks ==
    IntakeSpec => [](FillsMatchTrades /\ BooksBalance /\ CostBasisBounded)
  BY IntakeImplementsLedger, FillsAudited, BooksAlwaysBalance, CostBasisSound, PTL

-----------------------------------------------------------------------------
(* Types.  What makes them inductive: a job that may still run has an      *)
(* attempt left, and an order is queued before its expiry is scheduled.    *)

TimerType ==
    [state : {"none", "delayed", "active", "done", "failed"}, due : Nat,
     attempts : 0 .. MaxAttempts]
CloseJobType ==
    [state : {"none", "waiting", "active", "closed", "done", "failed"},
     attempts : 0 .. MaxAttempts]
Stages == {"insert", "enqueue", "schedule", "track", "end"}

RequestsTyped ==
    /\ DOMAIN keyOf = issued /\ DOMAIN placed = issued
    /\ stage \in [Requests -> Stages]
    /\ held \in [Requests -> issued \cup {"none"}]
    /\ answer \in [Requests -> {0, 200, 201, 500}]
    /\ queued \subseteq issued /\ tracked \subseteq queued
    /\ \A r \in Requests :
          /\ stage[r] \in {"enqueue", "schedule", "track"} => held[r] \in issued
          /\ stage[r] \in {"schedule", "track"} => held[r] \in queued

SchedulerTyped ==
    /\ timer \in [OrderIds -> TimerType]
    /\ cleanup \in [OrderIds -> {"idle", "lookup", "remove", "forget"}]
    /\ closeJob \in CloseJobType
    /\ doing \in OrderIds \cup {"none", "close"}
    /\ clock \in Nat /\ faults \in 0 .. MaxFaults
    /\ \A o \in OrderIds : timer[o].state \in {"none", "delayed"} \/ doing = o =>
          timer[o].attempts < MaxAttempts
    /\ closeJob.state = "waiting" \/ doing = "close" => closeJob.attempts < MaxAttempts

LEMMA CloseInTyped == \A now \in Nat, d \in Nat : CloseIn(now, d) \in Nat
  BY DEF CloseIn, Day

(* A close comes within three days.                                        *)
LEMMA CloseComes ==
    ASSUME NEW now \in Nat
    PROVE  \E d \in 0 .. 3 :
              /\ NextMarketClose(now) = CloseIn(now, d)
              /\ CloseIn(now, d) > now /\ IsWeekday(CloseIn(now, d))
              /\ \A e \in 0 .. 3 : CloseIn(now, e) > now /\ IsWeekday(CloseIn(now, e)) => d <= e
  <1> DEFINE Right(d) == CloseIn(now, d) > now /\ IsWeekday(CloseIn(now, d))
  <1> DEFINE ahead == {d \in 0 .. 3 : Right(d)}
  <1> PICK D \in Nat : D = Day(now)
    BY DEF Day
  <1>1. \A d \in 0 .. 3 : CloseIn(now, d) = 2 * (D + d) + 1 /\ Day(CloseIn(now, d)) = D + d
    BY DEF CloseIn, Day
  <1>2. now = 2 * D \/ now = 2 * D + 1
    BY DEF Day
  <1>3. \A d \in 1 .. 3 : CloseIn(now, d) > now
    BY <1>1, <1>2
  <1>4. \E d \in 1 .. 3 : (D + d) % 7 \in 1 .. 5
    OBVIOUS
  <1>5. ahead # {}
    BY <1>1, <1>3, <1>4 DEF IsWeekday
  <1>6. \E d \in ahead : \A e \in ahead : d <= e
    <2>1. \A d \in ahead : d \in {0, 1, 2, 3}
      OBVIOUS
    <2> HIDE DEF ahead
    <2> QED BY <1>5, <2>1
  <1>7. PICK d : d = CHOOSE x \in ahead : \A e \in ahead : x <= e
    OBVIOUS
  <1>8. d \in ahead /\ \A e \in ahead : d <= e
    BY <1>6, <1>7
  <1>9. NextMarketClose(now) = CloseIn(now, d)
    BY <1>7 DEF NextMarketClose
  <1> QED BY <1>8, <1>9

(* The times of the two: nextMarketCloseUTC names the very next time the   *)
(* cron pattern fires.                                                     *)
LEMMA NextCloseIsCron ==
    ASSUME NEW now \in Nat
    PROVE  /\ NextMarketClose(now) \in Nat /\ NextMarketClose(now) > now
           /\ CronFires(NextMarketClose(now))
           /\ \A c \in now + 1 .. NextMarketClose(now) - 1 : ~CronFires(c)
  <1> PICK d \in 0 .. 3 :
           /\ NextMarketClose(now) = CloseIn(now, d)
           /\ CloseIn(now, d) > now /\ IsWeekday(CloseIn(now, d))
           /\ \A e \in 0 .. 3 : CloseIn(now, e) > now /\ IsWeekday(CloseIn(now, e)) => d <= e
    BY CloseComes
  <1> PICK D \in Nat : D = Day(now)
    BY DEF Day
  <1>1. \A e \in 0 .. 3 : CloseIn(now, e) = 2 * (D + e) + 1
    BY DEF CloseIn
  <1>2. now = 2 * D \/ now = 2 * D + 1
    BY DEF Day
  <1>3. ASSUME NEW c \in now + 1 .. CloseIn(now, d) - 1, CronFires(c) PROVE FALSE
    <2>1. c \in Nat /\ c % 2 = 1 /\ IsWeekday(c)
      BY <1>1, <1>3 DEF CronFires
    <2>2. PICK e \in Nat : c = 2 * e + 1
      <3>1. c = 2 * (c \div 2) + 1 /\ c \div 2 \in Nat
        BY <2>1
      <3> QED BY <3>1
    <2>3. e \in D .. D + d - 1
      BY <1>1, <1>2, <1>3, <2>2
    <2>4. e - D \in 0 .. 3 /\ c = CloseIn(now, e - D)
      BY <1>1, <2>2, <2>3
    <2>5. d <= e - D
      BY <1>3, <2>1, <2>4
    <2> QED BY <2>3, <2>5
  <1>4. CloseIn(now, d) \in Nat /\ CronFires(CloseIn(now, d))
    BY <1>1 DEF CronFires
  <1> QED BY <1>3, <1>4

LEMMA InsertTyped ==
    ASSUME RequestsTyped, NEW r \in Requests, InsertOrder(r)
    PROVE  RequestsTyped'
  <1>1. PICK o, row :
          /\ o \in OrderIds \ issued /\ issued' = issued \cup {o}
          /\ keyOf' = [x \in DOMAIN keyOf \cup {o} |-> IF x = o THEN Body[r].key ELSE keyOf[x]]
          /\ placed' = [x \in DOMAIN placed \cup {o} |-> IF x = o THEN clock ELSE placed[x]]
          /\ held' = [held EXCEPT ![r] = o]
    BY DEF InsertOrder, InsertMarket, InsertLimit, InsertRow
  <1>2. stage' = [stage EXCEPT ![r] = "enqueue"] /\ UNCHANGED <<answer, queued, tracked>>
    BY DEF InsertOrder, Goes, schedulerVars
  <1>3. DOMAIN keyOf' = issued' /\ DOMAIN placed' = issued'
    BY <1>1 DEF RequestsTyped
  <1>4. stage' \in [Requests -> Stages] /\ held' \in [Requests -> issued' \cup {"none"}]
    BY <1>1, <1>2 DEF RequestsTyped, Stages
  <1>5. ASSUME NEW t \in Requests
        PROVE  /\ stage'[t] \in {"enqueue", "schedule", "track"} => held'[t] \in issued'
               /\ stage'[t] \in {"schedule", "track"} => held'[t] \in queued'
    <2>1. CASE t = r
      BY <1>1, <1>2, <2>1 DEF RequestsTyped
    <2>2. CASE t # r
      <3>1. held'[t] = held[t] /\ stage'[t] = stage[t]
        BY <1>1, <1>2, <2>2 DEF RequestsTyped
      <3> QED BY <1>1, <1>2, <3>1 DEF RequestsTyped
    <2> QED BY <2>1, <2>2
  <1>6. /\ queued' \subseteq issued' /\ tracked' \subseteq queued'
        /\ answer' \in [Requests -> {0, 200, 201, 500}]
    BY <1>1, <1>2 DEF RequestsTyped
  <1> QED BY <1>3, <1>4, <1>5, <1>6 DEF RequestsTyped

LEMMA ReplayTyped ==
    ASSUME LedgerInv, RequestsTyped, NEW r \in Requests, Replay(r)
    PROVE  RequestsTyped'
  <1>1. PICK o \in WithKey(r) : held' = [held EXCEPT ![r] = o]
    BY DEF Replay
  <1>2. /\ stage' = [stage EXCEPT ![r] = "end"] /\ answer' = [answer EXCEPT ![r] = 200]
        /\ UNCHANGED <<keyOf, placed, issued, queued, tracked>>
    BY DEF Replay, Answer, Goes, ledgerVars, schedulerVars
  <1>3. o \in issued
    BY DEF WithKey, LedgerInv, LedgerTypeOK
  <1>4. /\ stage' \in [Requests -> Stages] /\ held' \in [Requests -> issued' \cup {"none"}]
        /\ answer' \in [Requests -> {0, 200, 201, 500}]
    BY <1>1, <1>2, <1>3 DEF RequestsTyped, Stages
  <1>5. ASSUME NEW t \in Requests, stage'[t] \in {"enqueue", "schedule", "track"}
        PROVE  t # r /\ held'[t] = held[t] /\ stage'[t] = stage[t]
    BY <1>1, <1>2, <1>5 DEF RequestsTyped
  <1>6. ASSUME NEW t \in Requests
        PROVE  /\ stage'[t] \in {"enqueue", "schedule", "track"} => held'[t] \in issued'
               /\ stage'[t] \in {"schedule", "track"} => held'[t] \in queued'
    BY <1>2, <1>5 DEF RequestsTyped
  <1> QED BY <1>2, <1>4, <1>6 DEF RequestsTyped

LEMMA LaterTyped ==
    ASSUME RequestsTyped, NEW r \in Requests,
           \/ EnqueueOrder(r) \/ ScheduleExpiry(r) \/ TrackExpiry(r) \/ RequestFails(r)
    PROVE  RequestsTyped'
  <1>1. /\ UNCHANGED <<keyOf, placed, issued, held>>
        /\ stage[r] \in {"enqueue", "schedule", "track"}
        /\ \E label \in {"schedule", "track", "end"} : stage' = [stage EXCEPT ![r] = label]
        /\ answer' = answer \/ \E code \in {201, 500} : answer' = [answer EXCEPT ![r] = code]
        /\ queued \subseteq queued' /\ queued' \subseteq queued \cup {held[r]}
    BY DEF EnqueueOrder, ScheduleExpiry, TrackExpiry, RequestFails, Answer, Goes, ledgerVars
  <1>2. /\ stage' \in [Requests -> Stages]
        /\ answer' \in [Requests -> {0, 200, 201, 500}]
    BY <1>1 DEF RequestsTyped, Stages
  <1>3. queued' \subseteq issued'
    BY <1>1 DEF RequestsTyped
  <1>4. tracked' \subseteq queued'
    <2>1. CASE TrackExpiry(r)
      BY <1>1, <2>1 DEF TrackExpiry, RequestsTyped
    <2>2. CASE ~TrackExpiry(r)
      <3>1. tracked' = tracked
        BY <2>2 DEF EnqueueOrder, ScheduleExpiry, RequestFails, schedulerVars
      <3> QED BY <1>1, <3>1 DEF RequestsTyped
    <2> QED BY <2>1, <2>2
  <1>5. stage'[r] \in {"schedule", "track"} => held[r] \in queued'
    <2>1. CASE EnqueueOrder(r)
      BY <2>1 DEF EnqueueOrder
    <2>2. CASE ScheduleExpiry(r)
      BY <1>1, <2>2 DEF ScheduleExpiry, RequestsTyped
    <2>3. CASE TrackExpiry(r) \/ RequestFails(r)
      BY <2>3 DEF TrackExpiry, RequestFails, Answer, Goes, RequestsTyped
    <2> QED BY <2>1, <2>2, <2>3
  <1>6. ASSUME NEW t \in Requests
        PROVE  /\ stage'[t] \in {"enqueue", "schedule", "track"} => held'[t] \in issued'
               /\ stage'[t] \in {"schedule", "track"} => held'[t] \in queued'
    <2>1. CASE t = r
      BY <1>1, <1>5, <2>1 DEF RequestsTyped
    <2>2. CASE t # r
      <3>1. stage'[t] = stage[t]
        BY <1>1, <2>2 DEF RequestsTyped
      <3> QED BY <1>1, <3>1 DEF RequestsTyped
    <2> QED BY <2>1, <2>2
  <1> QED BY <1>1, <1>2, <1>3, <1>4, <1>6 DEF RequestsTyped

LEMMA RequestsStayTyped ==
    ASSUME RequestsTyped, UNCHANGED <<requestVars, issued, queued>>, tracked' \subseteq tracked
    PROVE  RequestsTyped'
  BY DEF RequestsTyped, requestVars

LEMMA NextRequestsTyped == LedgerInv /\ RequestsTyped /\ [IntakeNext]_intakeVars => RequestsTyped'
  <1> SUFFICES ASSUME LedgerInv, RequestsTyped, [IntakeNext]_intakeVars PROVE RequestsTyped'
    OBVIOUS
  <1>1. ASSUME NEW r \in Requests, Handle(r) PROVE RequestsTyped'
    BY <1>1, InsertTyped, ReplayTyped, LaterTyped DEF Handle
  <1>2. ASSUME NEW o \in OrderIds, CancelByUser(o) \/ EngineCancels(o) PROVE RequestsTyped'
    BY <1>2, RequestsStayTyped DEF CancelByUser, EngineCancels, CancelOpen, schedulerVars
  <1>3. ASSUME NEW o \in OrderIds, CleanupStep(o) PROVE RequestsTyped'
    BY <1>3, RequestsStayTyped DEF CleanupStep, ledgerVars
  <1>4. ASSUME NEW i \in OrderIds, NEW r \in OrderIds, EngineTrades(i, r) \/ EngineGivesUp(i, r)
        PROVE  RequestsTyped'
    BY <1>4, RequestsStayTyped
       DEF EngineTrades, EngineGivesUp, SettleTrade, SettleUnfillable, schedulerVars
  <1>5. CASE Tick \/ JobFails \/ StartClose \/ CloseOrders \/ AnnounceClose
    BY <1>5, RequestsStayTyped
       DEF Tick, JobFails, StartClose, CloseOrders, AnnounceClose, MarketClose, ledgerVars
  <1>6. ASSUME NEW o \in OrderIds, StartExpiry(o) \/ ExpireOrder(o) PROVE RequestsTyped'
    BY <1>6, RequestsStayTyped DEF StartExpiry, ExpireOrder, ExpireLimit, CancelOpen, ledgerVars
  <1>7. CASE UNCHANGED intakeVars
    BY <1>7, RequestsStayTyped DEF intakeVars, schedulerVars, ledgerVars
  <1> QED BY <1>1, <1>2, <1>3, <1>4, <1>5, <1>6, <1>7 DEF IntakeNext, SchedulerRuns

LEMMA SchedulerStays ==
    SchedulerTyped /\ UNCHANGED <<schedulerVars, clock, faults>> => SchedulerTyped'
  BY DEF SchedulerTyped, schedulerVars

(* One timer changes, to one that has an attempt left if it may still run. *)
LEMMA TimerTyped ==
    ASSUME SchedulerTyped, NEW o \in OrderIds, NEW new \in TimerType,
           timer' = [timer EXCEPT ![o] = new], doing' \in {doing, o, "none"},
           new.state \in {"none", "delayed"} \/ doing' = o => new.attempts < MaxAttempts,
           cleanup' \in [OrderIds -> {"idle", "lookup", "remove", "forget"}],
           UNCHANGED <<closeJob, clock>>, faults' \in 0 .. MaxFaults
    PROVE  SchedulerTyped'
  <1>1. timer' \in [OrderIds -> TimerType] /\ timer'[o] = new
    BY DEF SchedulerTyped
  <1>2. \A x \in OrderIds : x # o => timer'[x] = timer[x]
    BY DEF SchedulerTyped
  <1>3. doing' \in OrderIds \cup {"none", "close"}
    BY DEF SchedulerTyped
  <1>4. ASSUME NEW x \in OrderIds, timer'[x].state \in {"none", "delayed"} \/ doing' = x
        PROVE  timer'[x].attempts < MaxAttempts
    <2>1. x # "none"
      BY IntakeAssumption
    <2> QED BY <1>1, <1>2, <1>4, <2>1 DEF SchedulerTyped
  <1>5. doing' = "close" => doing = "close"
    BY IntakeAssumption
  <1> QED BY <1>1, <1>3, <1>4, <1>5 DEF SchedulerTyped

LEMMA CloseJobTyped ==
    ASSUME SchedulerTyped, closeJob' \in CloseJobType, doing' \in {doing, "close", "none"},
           closeJob'.state = "waiting" \/ doing' = "close" => closeJob'.attempts < MaxAttempts,
           UNCHANGED <<timer, cleanup>>, clock' \in Nat, faults' \in 0 .. MaxFaults
    PROVE  SchedulerTyped'
  <1>1. doing' \in OrderIds \cup {"none", "close"}
    BY DEF SchedulerTyped
  <1>2. \A o \in OrderIds : doing' = o => doing = o
    BY IntakeAssumption
  <1> QED BY <1>1, <1>2 DEF SchedulerTyped

LEMMA NoTimerTyped == NoTimer \in TimerType /\ NoTimer.attempts < MaxAttempts
  BY IntakeAssumption DEF NoTimer, TimerType

LEMMA RetriedTyped ==
    ASSUME SchedulerTyped, JobFails
    PROVE  SchedulerTyped'
  <1>1. MaxAttempts \in Nat /\ faults' \in 0 .. MaxFaults /\ doing' = "none" /\ cleanup' = cleanup
        /\ UNCHANGED clock
    BY IntakeAssumption DEF JobFails, SchedulerTyped
  <1>2. CASE doing = "close"
    <2>1. closeJob' = Retried(closeJob, "waiting") /\ UNCHANGED timer
      BY <1>2 DEF JobFails
    <2> PICK a \in 0 .. MaxAttempts : a = closeJob.attempts
      BY DEF SchedulerTyped, CloseJobType
    <2>2. a < MaxAttempts
      BY <1>2 DEF SchedulerTyped
    <2>3. closeJob' = [state |-> IF a + 1 < MaxAttempts THEN "waiting" ELSE "failed",
                       attempts |-> a + 1]
      BY <2>1 DEF Retried, SchedulerTyped, CloseJobType
    <2>4. closeJob' \in CloseJobType
      BY <1>1, <2>2, <2>3 DEF CloseJobType
    <2>5. closeJob'.state = "waiting" => closeJob'.attempts < MaxAttempts
      BY <2>3
    <2> QED BY <1>1, <2>1, <2>4, <2>5, CloseJobTyped DEF SchedulerTyped
  <1>3. CASE doing # "close"
    <2> PICK o \in OrderIds : o = doing
      BY <1>3 DEF JobFails, SchedulerTyped
    <2> PICK a \in 0 .. MaxAttempts, due \in Nat :
             a = timer[o].attempts /\ due = timer[o].due
      BY DEF SchedulerTyped, TimerType
    <2> PICK new : new = Retried(timer[o], "delayed")
      OBVIOUS
    <2>1. timer' = [timer EXCEPT ![o] = new] /\ UNCHANGED closeJob
      BY <1>3 DEF JobFails
    <2>2. a < MaxAttempts
      BY DEF SchedulerTyped
    <2>3. new = [state |-> IF a + 1 < MaxAttempts THEN "delayed" ELSE "failed",
                 due |-> due, attempts |-> a + 1]
      BY DEF Retried, SchedulerTyped, TimerType
    <2>4. new \in TimerType
      BY <1>1, <2>2, <2>3 DEF TimerType
    <2>5. new.state \in {"none", "delayed"} => new.attempts < MaxAttempts
      BY <2>3
    <2>6. doing' # o /\ cleanup' \in [OrderIds -> {"idle", "lookup", "remove", "forget"}]
      BY <1>1, IntakeAssumption DEF SchedulerTyped
    <2> QED BY <1>1, <2>1, <2>4, <2>5, <2>6, TimerTyped
  <1> QED BY <1>2, <1>3

LEMMA NextSchedulerTyped ==
    LedgerInv /\ RequestsTyped /\ SchedulerTyped /\ [IntakeNext]_intakeVars => SchedulerTyped'
  <1> SUFFICES ASSUME LedgerInv, RequestsTyped, SchedulerTyped, [IntakeNext]_intakeVars
               PROVE  SchedulerTyped'
    OBVIOUS
  <1>0. /\ faults \in 0 .. MaxFaults /\ MaxAttempts \in Nat \ {0} /\ clock \in Nat
        /\ cleanup \in [OrderIds -> {"idle", "lookup", "remove", "forget"}]
        /\ closeJob \in CloseJobType
    BY IntakeAssumption DEF SchedulerTyped
  <1>1. ASSUME NEW r \in Requests, Handle(r) PROVE SchedulerTyped'
    <2>1. CASE ScheduleExpiry(r)
      <3> PICK o : o = held[r]
        OBVIOUS
      <3>1. o \in OrderIds
        BY <2>1 DEF ScheduleExpiry, RequestsTyped, LedgerInv, LedgerTypeOK
      <3> PICK new : new = [state |-> "delayed", due |-> NextMarketClose(clock), attempts |-> 0]
        OBVIOUS
      <3>2. new \in TimerType /\ new.attempts < MaxAttempts
        BY <1>0, NextCloseIsCron DEF TimerType
      <3>3. /\ timer' = [timer EXCEPT ![o] = new]
            /\ UNCHANGED <<cleanup, closeJob, doing, clock, faults>>
        BY <2>1 DEF ScheduleExpiry
      <3> QED BY <1>0, <3>1, <3>2, <3>3, TimerTyped
    <2>2. CASE ~ScheduleExpiry(r)
      <3>1. UNCHANGED <<timer, cleanup, closeJob, doing, clock, faults>>
        BY <1>1, <2>2 DEF Handle, InsertOrder, Replay, EnqueueOrder, TrackExpiry, RequestFails,
           schedulerVars
      <3> QED BY <3>1 DEF SchedulerTyped
    <2> QED BY <2>1, <2>2
  <1>2. ASSUME NEW o \in OrderIds, CancelByUser(o) \/ EngineCancels(o) PROVE SchedulerTyped'
    BY <1>2, SchedulerStays DEF CancelByUser, EngineCancels
  <1>3. ASSUME NEW o \in OrderIds, CleanupStep(o) PROVE SchedulerTyped'
    <2>1. /\ cleanup' \in [OrderIds -> {"idle", "lookup", "remove", "forget"}]
          /\ UNCHANGED <<closeJob, doing, clock, faults>>
      BY <1>0, <1>3 DEF CleanupStep
    <2>2. CASE timer' = timer
      BY <2>1, <2>2 DEF SchedulerTyped
    <2>3. CASE timer' # timer
      <3> PICK new : new = IF timer[o].state = "active" THEN timer[o] ELSE NoTimer
        OBVIOUS
      <3>1. timer' = [timer EXCEPT ![o] = new]
        BY <1>3, <2>3 DEF CleanupStep
      <3>2. new \in TimerType
        BY NoTimerTyped DEF SchedulerTyped
      <3>3. new.state \in {"none", "delayed"} \/ doing' = o => new.attempts < MaxAttempts
        BY <2>1, NoTimerTyped DEF SchedulerTyped
      <3> QED BY <1>0, <2>1, <3>1, <3>2, <3>3, TimerTyped
    <2> QED BY <2>2, <2>3
  <1>4. ASSUME NEW i \in OrderIds, NEW r \in OrderIds, EngineTrades(i, r) \/ EngineGivesUp(i, r)
        PROVE  SchedulerTyped'
    <2>1. CASE EngineTrades(i, r)
      <3>1. /\ cleanup' \in [OrderIds -> {"idle", "lookup", "remove", "forget"}]
            /\ UNCHANGED <<timer, closeJob, doing, clock, faults>>
        BY <1>0, <2>1 DEF EngineTrades
      <3> QED BY <3>1 DEF SchedulerTyped
    <2>2. CASE EngineGivesUp(i, r)
      BY <2>2, SchedulerStays DEF EngineGivesUp
    <2> QED BY <1>4, <2>1, <2>2
  <1>5. CASE Tick
    <2>1. /\ clock' \in Nat /\ UNCHANGED <<timer, cleanup, doing, faults>>
          /\ closeJob' = [state |-> "waiting", attempts |-> 0] \/ closeJob' = closeJob
      BY <1>0, <1>5 DEF Tick
    <2>2. CASE closeJob' = closeJob
      BY <2>1, <2>2 DEF SchedulerTyped
    <2>3. CASE closeJob' = [state |-> "waiting", attempts |-> 0]
      <3>1. closeJob' \in CloseJobType /\ closeJob'.attempts < MaxAttempts
        BY <1>0, <2>3 DEF CloseJobType
      <3> QED BY <1>0, <2>1, <3>1, CloseJobTyped
    <2> QED BY <2>1, <2>2, <2>3
  <1>6. CASE StartClose \/ CloseOrders \/ AnnounceClose
    <2>1. PICK state \in {"active", "closed", "done"} :
             closeJob' = [closeJob EXCEPT !.state = state]
      BY <1>6 DEF StartClose, CloseOrders, AnnounceClose
    <2>2. /\ closeJob' \in CloseJobType /\ closeJob'.state = state
          /\ closeJob'.attempts = closeJob.attempts
      BY <1>0, <2>1 DEF CloseJobType
    <2>3. closeJob.state = "waiting" \/ doing = "close"
      BY <1>6 DEF StartClose, CloseOrders, AnnounceClose
    <2>4. /\ UNCHANGED <<timer, cleanup, clock, faults>> /\ doing' \in {doing, "close", "none"}
      BY <1>6 DEF StartClose, CloseOrders, AnnounceClose
    <2>5. closeJob'.attempts < MaxAttempts
      BY <2>2, <2>3 DEF SchedulerTyped
    <2> QED BY <1>0, <2>2, <2>4, <2>5, CloseJobTyped
  <1>7. ASSUME NEW o \in OrderIds, StartExpiry(o) \/ ExpireOrder(o) PROVE SchedulerTyped'
    <2>1. PICK state \in {"active", "done"} : timer' = [timer EXCEPT ![o].state = state]
      BY <1>7 DEF StartExpiry, ExpireOrder
    <2> PICK new : new = [timer[o] EXCEPT !.state = state]
      OBVIOUS
    <2>2. timer' = [timer EXCEPT ![o] = new]
      BY <2>1 DEF SchedulerTyped
    <2>3. new \in TimerType /\ new.state = state /\ new.attempts = timer[o].attempts
      BY DEF SchedulerTyped, TimerType
    <2>4. timer[o].attempts < MaxAttempts
      BY <1>7 DEF StartExpiry, ExpireOrder, SchedulerTyped
    <2>5. /\ UNCHANGED <<cleanup, closeJob, clock, faults>> /\ doing' \in {doing, o, "none"}
      BY <1>7 DEF StartExpiry, ExpireOrder
    <2> QED BY <1>0, <2>2, <2>3, <2>4, <2>5, TimerTyped
  <1>8. CASE JobFails
    BY <1>8, RetriedTyped
  <1>9. CASE UNCHANGED intakeVars
    BY <1>9, SchedulerStays DEF intakeVars
  <1> QED BY <1>1, <1>2, <1>3, <1>4, <1>5, <1>6, <1>7, <1>8, <1>9 DEF IntakeNext, SchedulerRuns

LEMMA InitIntakeTyped == IntakeInit => RequestsTyped /\ SchedulerTyped
  BY IntakeAssumption, NoTimerTyped
     DEF IntakeInit, LedgerInit, RequestsTyped, SchedulerTyped, Stages, NoTimer, TimerType,
         NoCloseJob, CloseJobType

LEMMA IntakeTyped == IntakeSpec => [](LedgerInv /\ KeyInv /\ RequestsTyped /\ SchedulerTyped)
  <1>1. IntakeInit => KeyInv
    BY DEF IntakeInit, LedgerInit, KeyInv, Succeeded
  <1>2. IntakeSpec => []LedgerInv
    BY IntakeImplementsLedger, LedgerInvariant
  <1> QED BY <1>1, <1>2, InitIntakeTyped, KeyStep, NextRequestsTyped, NextSchedulerTyped, PTL
          DEF IntakeSpec

(* Every request, job and timer keeps its type; in particular no job is    *)
(* tried more often than its attempts allow, and an order's expiry is      *)
(* tracked only once its match job was added.                              *)
THEOREM IntakeTypeCorrect == IntakeSpec => []IntakeTypeOK
  <1>1. LedgerInv /\ RequestsTyped /\ SchedulerTyped => IntakeTypeOK
    BY DEF LedgerInv, RequestsTyped, SchedulerTyped, IntakeTypeOK, Stages, TimerType, CloseJobType
  <1> QED BY <1>1, IntakeTyped, PTL

-----------------------------------------------------------------------------
(* The expiry of an accepted order: a timer is at the next close, and only *)
(* the end of the order, or of more runs than may fail, takes it away.     *)

Waits(o) ==
    /\ timer[o].state \in {"delayed", "active"}
    /\ CronFires(timer[o].due) /\ timer[o].due > placed[o]
    /\ ClosesBetween(clock, timer[o].due) = {}

Expires(o) == IsLimit(orders[o]) /\ HasOpenStatus(o)

(* The order of the request has its timer, or the request is answered.     *)
Accepted(r) == answer[r] = 201 \/ stage[r] = "track"

TimerInv ==
    /\ \A o \in issued : placed[o] \in Nat /\ placed[o] <= clock
    /\ \A o \in OrderIds : timer[o].attempts <= faults
    /\ \A o \in OrderIds : cleanup[o] # "idle" =>
          o \in DOMAIN orders /\ orders[o].status \notin OpenStatuses
    /\ \A r \in Requests :
          /\ answer[r] # 0 => stage[r] = "end"
          /\ answer[r] = 201 => held[r] \in queued
          /\ Accepted(r) /\ Expires(held[r]) => Waits(held[r])

AllTyped == LedgerInv /\ KeyInv /\ RequestsTyped /\ SchedulerTyped

LEMMA AcceptedHeld ==
    ASSUME AllTyped, NEW r \in Requests, Accepted(r)
    PROVE  held[r] \in DOMAIN orders /\ held[r] \in issued /\ held[r] \in OrderIds
  <1>1. held[r] \in DOMAIN orders
    BY DEF AllTyped, KeyInv, Holds, Accepted, Succeeded
  <1> QED BY <1>1 DEF AllTyped, LedgerInv, LedgerTypeOK

(* A step of anyone but a request.                                         *)
LEMMA OthersKeepTimers ==
    ASSUME AllTyped, TimerInv, [LedgerNext]_ledgerVars, OwnersKept,
           UNCHANGED <<requestVars, queued, issued>>, clock <= clock', clock' \in Nat,
           \A o \in OrderIds : timer'[o].attempts <= faults',
           \A o \in OrderIds : cleanup'[o] # "idle" =>
              \/ cleanup[o] # "idle"
              \/ o \in DOMAIN orders /\ orders'[o].status \notin OpenStatuses,
           \A o \in DOMAIN orders : Expires(o)' /\ Waits(o) => Waits(o)'
    PROVE  TimerInv'
  <1>1. \A o \in issued' : placed'[o] \in Nat /\ placed'[o] <= clock'
    BY DEF TimerInv, requestVars, AllTyped, SchedulerTyped
  <1>2. ASSUME NEW o \in OrderIds, cleanup'[o] # "idle"
        PROVE  o \in DOMAIN orders' /\ orders'[o].status \notin OpenStatuses
    <2>1. CASE cleanup[o] # "idle"
      <3>1. o \in DOMAIN orders /\ orders[o].status \notin OpenStatuses
        BY <2>1 DEF TimerInv
      <3> QED BY <3>1, NotReopened DEF AllTyped, OwnersKept
    <2>2. CASE cleanup[o] = "idle"
      BY <1>2, <2>2 DEF OwnersKept
    <2> QED BY <2>1, <2>2
  <1>3. ASSUME NEW o \in DOMAIN orders, Expires(o)' PROVE Expires(o)
    <2>1. IsLimit(orders[o])
      BY <1>3 DEF Expires, OwnersKept, IsLimit
    <2>2. orders[o].status \in OpenStatuses
      BY <1>3, NotReopened DEF AllTyped, Expires, HasOpenStatus
    <2> QED BY <2>1, <2>2 DEF Expires, HasOpenStatus
  <1>4. ASSUME NEW r \in Requests
        PROVE  /\ answer'[r] # 0 => stage'[r] = "end"
               /\ answer'[r] = 201 => held'[r] \in queued'
               /\ Accepted(r)' /\ Expires(held[r])' => Waits(held[r])'
    <2> PICK o : o = held[r]
      OBVIOUS
    <2>1. o = held'[r] /\ answer'[r] = answer[r] /\ stage'[r] = stage[r] /\ queued' = queued
      BY DEF requestVars
    <2>2. Accepted(r)' /\ Expires(o)' => Waits(o)'
      <3> SUFFICES ASSUME Accepted(r)', Expires(o)' PROVE Waits(o)'
        OBVIOUS
      <3>0. Accepted(r)
        BY <2>1 DEF Accepted
      <3>1. Accepted(r) /\ o \in DOMAIN orders
        BY <3>0, AcceptedHeld
      <3>2. Expires(o)
        BY <1>3, <3>1
      <3>3. Waits(o)
        BY <3>1, <3>2 DEF TimerInv
      <3> QED BY <3>1, <3>3
    <2>3. /\ answer'[r] # 0 => stage'[r] = "end"
          /\ answer'[r] = 201 => held'[r] \in queued'
      <3>1. (answer[r] # 0 => stage[r] = "end") /\ (answer[r] = 201 => o \in queued)
        BY DEF TimerInv
      <3> QED BY <2>1, <3>1
    <2>4. Accepted(r)' /\ Expires(held[r])' => Waits(held[r])'
      BY <2>1, <2>2 DEF Expires, HasOpenStatus, Waits
    <2> QED BY <2>3, <2>4
  <1> QED BY <1>1, <1>2, <1>4 DEF TimerInv

(* A step of a request that leaves the rows it does not insert.            *)
LEMMA RequestKeepsTimers ==
    ASSUME AllTyped, TimerInv, NEW r \in Requests,
           issued \subseteq issued', DOMAIN orders \subseteq DOMAIN orders',
           \A o \in DOMAIN orders : orders'[o] = orders[o],
           \A o \in issued : placed'[o] = placed[o],
           \A o \in issued' \ issued : placed'[o] = clock,
           \A t \in Requests \ {r} :
              held'[t] = held[t] /\ stage'[t] = stage[t] /\ answer'[t] = answer[t],
           queued \subseteq queued', UNCHANGED <<cleanup, clock, faults>>,
           \A o \in OrderIds : timer'[o].attempts <= faults,
           \A o \in DOMAIN orders : Waits(o) => Waits(o)',
           answer'[r] # 0 => stage'[r] = "end",
           answer'[r] = 201 => held'[r] \in queued',
           NEW h, h = held'[r], Accepted(r)' /\ Expires(h)' => Waits(h)'
    PROVE  TimerInv'
  <1>1. \A o \in issued' : placed'[o] \in Nat /\ placed'[o] <= clock'
    BY DEF TimerInv, AllTyped, SchedulerTyped
  <1>2. ASSUME NEW o \in OrderIds, cleanup'[o] # "idle"
        PROVE  o \in DOMAIN orders' /\ orders'[o].status \notin OpenStatuses
    BY <1>2 DEF TimerInv
  <1>3. ASSUME NEW t \in Requests
        PROVE  /\ answer'[t] # 0 => stage'[t] = "end"
               /\ answer'[t] = 201 => held'[t] \in queued'
               /\ Accepted(t)' /\ Expires(held[t])' => Waits(held[t])'
    <2>1. CASE t = r
      BY <2>1
    <2>2. CASE t # r
      <3> PICK o : o = held[t]
        OBVIOUS
      <3>1. o = held'[t] /\ answer'[t] = answer[t] /\ stage'[t] = stage[t]
        BY <2>2
      <3>2. Accepted(t)' /\ Expires(o)' => Waits(o)'
        <4> SUFFICES ASSUME Accepted(t)', Expires(o)' PROVE Waits(o)'
          OBVIOUS
        <4>1. Accepted(t) /\ o \in DOMAIN orders
          BY <3>1, AcceptedHeld DEF Accepted
        <4>2. Expires(o)
          BY <4>1 DEF Expires, HasOpenStatus
        <4>3. Waits(o)
          BY <4>1, <4>2 DEF TimerInv
        <4> QED BY <4>1, <4>3
      <3>3. /\ answer'[t] # 0 => stage'[t] = "end"
            /\ answer'[t] = 201 => held'[t] \in queued'
        BY <3>1 DEF TimerInv
      <3>4. Accepted(t)' /\ Expires(held[t])' => Waits(held[t])'
        BY <3>1, <3>2 DEF Expires, HasOpenStatus, Waits
      <3> QED BY <3>3, <3>4
    <2> QED BY <2>1, <2>2
  <1> QED BY <1>1, <1>2, <1>3 DEF TimerInv

LEMMA HandleKeepsTimers ==
    ASSUME AllTyped, TimerInv, NEW r \in Requests, Handle(r)
    PROVE  TimerInv'
  <1>0. /\ stage \in [Requests -> Stages] /\ answer \in [Requests -> {0, 200, 201, 500}]
        /\ held \in [Requests -> issued \cup {"none"}]
        /\ DOMAIN keyOf = issued /\ DOMAIN placed = issued /\ DOMAIN orders \subseteq issued
    BY DEF AllTyped, RequestsTyped, LedgerInv, LedgerTypeOK
  <1>1. CASE InsertOrder(r)
    <2>1. PICK o, row :
          /\ o \in OrderIds \ issued /\ issued' = issued \cup {o}
          /\ orders' = [x \in DOMAIN orders \cup {o} |-> IF x = o THEN row ELSE orders[x]]
          /\ placed' = [x \in DOMAIN placed \cup {o} |-> IF x = o THEN clock ELSE placed[x]]
          /\ held' = [held EXCEPT ![r] = o]
      BY <1>1 DEF InsertOrder, InsertMarket, InsertLimit, InsertRow
    <2>2. /\ stage' = [stage EXCEPT ![r] = "enqueue"] /\ stage[r] = "insert"
          /\ UNCHANGED <<answer, queued, cleanup, timer, clock, faults>>
      BY <1>1 DEF InsertOrder, Goes, schedulerVars
    <2>3. ~Accepted(r)' /\ answer'[r] = 0
      BY <1>0, <2>2 DEF Accepted, TimerInv
    <2>4. \A x \in DOMAIN orders : Waits(x) => Waits(x)'
      BY <1>0, <2>1, <2>2 DEF Waits, ClosesBetween
    <2>5. \A x \in issued : placed'[x] = placed[x]
      BY <1>0, <2>1
    <2>6. \A x \in issued' \ issued : placed'[x] = clock
      BY <1>0, <2>1
    <2>7. /\ issued \subseteq issued' /\ DOMAIN orders \subseteq DOMAIN orders'
          /\ \A x \in DOMAIN orders : orders'[x] = orders[x]
      BY <1>0, <2>1
    <2>8. \A t \in Requests \ {r} :
             held'[t] = held[t] /\ stage'[t] = stage[t] /\ answer'[t] = answer[t]
      BY <1>0, <2>1, <2>2
    <2>9. \A x \in OrderIds : timer'[x].attempts <= faults
      BY <2>2 DEF TimerInv
    <2> QED BY <2>2, <2>3, <2>4, <2>5, <2>6, <2>7, <2>8, <2>9, RequestKeepsTimers
  <1>2. CASE ~InsertOrder(r)
    <2>1. /\ UNCHANGED <<orders, issued, placed, cleanup, clock, faults>>
          /\ \E label : stage' = [stage EXCEPT ![r] = label]
          /\ \E code : answer' = [answer EXCEPT ![r] = code]
          /\ \E o : held' = [held EXCEPT ![r] = o]
          /\ queued \subseteq queued'
      <3>1. answer = [answer EXCEPT ![r] = answer[r]] /\ held = [held EXCEPT ![r] = held[r]]
        BY <1>0
      <3> QED BY <1>2, <3>1 DEF Handle, Replay, EnqueueOrder, ScheduleExpiry, TrackExpiry,
                 RequestFails, Answer, Goes, ledgerVars, schedulerVars
    <2>2. \A t \in Requests \ {r} :
             held'[t] = held[t] /\ stage'[t] = stage[t] /\ answer'[t] = answer[t]
      BY <1>0, <2>1
    <2>3. CASE ScheduleExpiry(r)
      <3> PICK o : o = held[r]
        OBVIOUS
      <3> PICK due : due = NextMarketClose(clock)
        OBVIOUS
      <3>1. /\ timer' = [timer EXCEPT ![o] = [state |-> "delayed", due |-> due, attempts |-> 0]]
            /\ stage'[r] = "track" /\ answer' = answer /\ held' = held /\ stage[r] = "schedule"
        BY <1>0, <2>3 DEF ScheduleExpiry, Goes
      <3>2. o \in issued /\ o \in OrderIds /\ placed[o] \in Nat /\ placed[o] <= clock
            /\ clock \in Nat /\ faults \in Nat
        BY <3>1 DEF AllTyped, RequestsTyped, LedgerInv, LedgerTypeOK, TimerInv, SchedulerTyped
      <3>3. /\ CronFires(due) /\ due > clock /\ due \in Nat
            /\ ClosesBetween(clock, due) = {}
        BY <3>2, NextCloseIsCron DEF ClosesBetween
      <3>4. timer'[o] = [state |-> "delayed", due |-> due, attempts |-> 0]
            /\ \A x \in OrderIds : x # o => timer'[x] = timer[x]
        BY <3>1, <3>2 DEF AllTyped, SchedulerTyped
      <3>5. Waits(o)'
        <4>1. ClosesBetween(clock', due) = {}
          BY <2>1, <3>3
        <4>2. due > placed'[o]
          BY <2>1, <3>2, <3>3
        <4> QED BY <3>3, <3>4, <4>1, <4>2 DEF Waits
      <3>6. \A x \in DOMAIN orders : Waits(x) => Waits(x)'
        <4> SUFFICES ASSUME NEW x \in DOMAIN orders, Waits(x) PROVE Waits(x)'
          OBVIOUS
        <4>1. CASE x = o
          BY <3>5, <4>1
        <4>2. CASE x # o
          <5>1. timer'[x] = timer[x]
            BY <3>4, <4>2 DEF AllTyped, LedgerInv, LedgerTypeOK
          <5> QED BY <2>1, <5>1 DEF Waits, ClosesBetween
        <4> QED BY <4>1, <4>2
      <3>7. \A x \in OrderIds : timer'[x].attempts <= faults
        BY <3>2, <3>4 DEF TimerInv
      <3>8. answer'[r] = 0
        BY <3>1 DEF TimerInv
      <3>9. o = held'[r]
        BY <3>1
      <3> QED BY <2>1, <2>2, <3>5, <3>6, <3>7, <3>8, <3>9, RequestKeepsTimers
    <2>4. CASE ~ScheduleExpiry(r)
      <3>1. timer' = timer
        BY <1>2, <2>4 DEF Handle, Replay, EnqueueOrder, TrackExpiry, RequestFails, schedulerVars
      <3>2. \A x \in DOMAIN orders : Waits(x) => Waits(x)'
        BY <2>1, <3>1 DEF Waits, ClosesBetween
      <3>3. \A x \in OrderIds : timer'[x].attempts <= faults
        BY <3>1 DEF TimerInv
      <3> PICK h : h = held'[r]
        OBVIOUS
      <3>4. /\ answer'[r] # 0 => stage'[r] = "end"
            /\ answer'[r] = 201 => h \in queued'
            /\ Accepted(r)' /\ Expires(h)' => Waits(h)'
        <4>1. CASE Replay(r) \/ RequestFails(r)
          BY <1>0, <4>1 DEF Replay, RequestFails, Answer, Goes, Accepted
        <4>2. CASE EnqueueOrder(r)
          <5>1. held' = held /\ stage[r] = "enqueue" /\ h \in queued' /\ orders' = orders
            BY <4>2 DEF EnqueueOrder, ledgerVars
          <5>2. answer[r] = 0
            BY <5>1 DEF TimerInv
          <5>3. CASE IsLimit(orders[h])
            BY <1>0, <4>2, <5>1, <5>2, <5>3 DEF EnqueueOrder, Goes, Accepted
          <5>4. CASE ~IsLimit(orders[h])
            BY <1>0, <4>2, <5>1, <5>2, <5>4 DEF EnqueueOrder, Goes, Answer, Accepted, Expires
          <5> QED BY <5>3, <5>4
        <4>3. CASE TrackExpiry(r)
          <5>1. /\ held' = held /\ stage[r] = "track" /\ answer'[r] = 201 /\ stage'[r] = "end"
                /\ orders' = orders /\ queued' = queued
            BY <1>0, <4>3 DEF TrackExpiry, Answer, Goes, ledgerVars
          <5>2. h \in queued' /\ Accepted(r) /\ h \in DOMAIN orders
            BY <5>1, AcceptedHeld DEF AllTyped, RequestsTyped, Accepted
          <5>3. Expires(h)' => Expires(h)
            BY <5>1 DEF Expires, HasOpenStatus
          <5>4. Expires(h) => Waits(h)
            BY <5>1, <5>2 DEF TimerInv
          <5> QED BY <3>2, <5>1, <5>2, <5>3, <5>4
        <4> QED BY <1>2, <2>4, <4>1, <4>2, <4>3 DEF Handle
      <3>5. /\ answer'[r] = 201 => held'[r] \in queued'
        BY <3>4
      <3> QED BY <2>1, <2>2, <3>2, <3>3, <3>4, <3>5, RequestKeepsTimers
    <2> QED BY <2>3, <2>4
  <1> QED BY <1>1, <1>2

(* Nothing happens but to the rows of open orders, which it may close.     *)
LEMMA QuietKeepsTimers ==
    ASSUME AllTyped, TimerInv, [LedgerNext]_ledgerVars, OwnersKept,
           UNCHANGED <<requestVars, queued, issued, timer, clock, faults>>,
           \A o \in OrderIds : cleanup'[o] # "idle" =>
              \/ cleanup[o] # "idle"
              \/ o \in DOMAIN orders /\ orders'[o].status \notin OpenStatuses
    PROVE  TimerInv'
  <1>1. clock <= clock' /\ clock' \in Nat
    BY DEF AllTyped, SchedulerTyped
  <1>2. \A o \in OrderIds : timer'[o].attempts <= faults'
    BY DEF TimerInv
  <1>3. placed' = placed
    BY DEF requestVars
  <1>4. \A o \in DOMAIN orders : Expires(o)' /\ Waits(o) => Waits(o)'
    BY <1>3 DEF Waits, ClosesBetween
  <1> QED BY <1>1, <1>2, <1>4, OthersKeepTimers

(* The worker: the timer of one order changes, which still waits unless    *)
(* the order has ended.                                                    *)
LEMMA WorkerKeepsTimers ==
    ASSUME AllTyped, TimerInv, [LedgerNext]_ledgerVars, OwnersKept,
           UNCHANGED <<requestVars, queued, issued, cleanup, clock>>,
           NEW o \in OrderIds, NEW new, timer' = [timer EXCEPT ![o] = new],
           new.due = timer[o].due, new.attempts <= faults', faults <= faults',
           faults' \in Nat,
           Expires(o)' =>
              (timer[o].state \in {"delayed", "active"} => new.state \in {"delayed", "active"})
    PROVE  TimerInv'
  <1>1. clock <= clock' /\ clock' \in Nat /\ faults \in Nat /\ timer \in [OrderIds -> TimerType]
        /\ DOMAIN orders \subseteq OrderIds
    BY DEF AllTyped, SchedulerTyped, LedgerInv, LedgerTypeOK
  <1>2. timer'[o] = new /\ \A x \in OrderIds : x # o => timer'[x] = timer[x]
    BY <1>1
  <1>3. ASSUME NEW x \in OrderIds PROVE timer'[x].attempts <= faults'
    <2>1. CASE x = o
      BY <1>2, <2>1
    <2>2. CASE x # o
      <3>1. timer[x].attempts <= faults /\ timer[x].attempts \in Nat
        BY <1>1, IntakeAssumption DEF TimerInv, TimerType
      <3> QED BY <1>1, <1>2, <2>2, <3>1
    <2> QED BY <2>1, <2>2
  <1>4. placed' = placed /\ clock' = clock
    BY DEF requestVars
  <1>5. ASSUME NEW x \in DOMAIN orders, Expires(x)', Waits(x) PROVE Waits(x)'
    <2>1. CASE x = o
      BY <1>2, <1>4, <1>5, <2>1 DEF Waits, ClosesBetween
    <2>2. CASE x # o
      <3>1. timer'[x] = timer[x]
        BY <1>1, <1>2, <2>2
      <3> QED BY <1>4, <1>5, <3>1 DEF Waits, ClosesBetween
    <2> QED BY <2>1, <2>2
  <1>6. \A x \in OrderIds : cleanup'[x] # "idle" => cleanup[x] # "idle"
    OBVIOUS
  <1> QED BY <1>1, <1>3, <1>5, <1>6, OthersKeepTimers

LEMMA SameRows ==
    ASSUME UNCHANGED ledgerVars
    PROVE  [LedgerNext]_ledgerVars /\ OwnersKept /\ UNCHANGED <<orders, issued>>
  BY DEF OwnersKept, ledgerVars

LEMMA CleanupKeepsTimers ==
    ASSUME AllTyped, TimerInv, NEW o \in OrderIds, CleanupStep(o)
    PROVE  TimerInv'
  <1>1. /\ UNCHANGED <<ledgerVars, requestVars, queued, clock, faults>>
        /\ [LedgerNext]_ledgerVars /\ OwnersKept /\ UNCHANGED <<orders, issued, placed>>
    BY SameRows DEF CleanupStep, requestVars
  <1>2. /\ o \in DOMAIN orders /\ orders[o].status \notin OpenStatuses
        /\ cleanup[o] # "idle"
    BY DEF CleanupStep, TimerInv
  <1>3. \A x \in OrderIds : x # o => cleanup'[x] = cleanup[x] /\ timer'[x] = timer[x]
    BY DEF CleanupStep, AllTyped, SchedulerTyped
  <1>4. timer'[o] = timer[o] \/ timer'[o] = NoTimer
    BY DEF CleanupStep, AllTyped, SchedulerTyped
  <1>5. clock <= clock' /\ clock' \in Nat /\ faults \in Nat /\ faults' = faults
        /\ DOMAIN orders \subseteq OrderIds
    BY <1>1 DEF AllTyped, SchedulerTyped, LedgerInv, LedgerTypeOK
  <1>6. \A x \in OrderIds : timer'[x].attempts <= faults'
    <2>1. NoTimer.attempts <= faults
      BY <1>5 DEF NoTimer
    <2> QED BY <1>3, <1>4, <1>5, <2>1 DEF TimerInv
  <1>7. \A x \in OrderIds : cleanup'[x] # "idle" => cleanup[x] # "idle"
    BY <1>2, <1>3
  <1>8. ASSUME NEW x \in DOMAIN orders, Expires(x)', Waits(x) PROVE Waits(x)'
    <2>1. x # o
      BY <1>1, <1>2, <1>8 DEF Expires, HasOpenStatus
    <2>2. timer'[x] = timer[x]
      BY <1>3, <1>5, <2>1
    <2> QED BY <1>1, <1>8, <2>2 DEF Waits, ClosesBetween
  <1> QED BY <1>1, <1>5, <1>6, <1>7, <1>8, OthersKeepTimers

LEMMA TickKeepsTimers ==
    ASSUME AllTyped, TimerInv, Tick
    PROVE  TimerInv'
  <1>1. /\ UNCHANGED <<ledgerVars, requestVars, queued, faults, timer, cleanup>>
        /\ [LedgerNext]_ledgerVars /\ OwnersKept /\ UNCHANGED <<orders, issued, placed>>
    BY SameRows DEF Tick, requestVars
  <1>2. clock \in Nat /\ clock' = clock + 1
    BY DEF Tick, AllTyped, SchedulerTyped
  <1>3. \A x \in OrderIds : timer'[x].attempts <= faults'
    BY <1>1 DEF TimerInv
  <1>4. ASSUME NEW x \in DOMAIN orders, Waits(x) PROVE Waits(x)'
    <2> PICK due : due = timer[x].due
      OBVIOUS
    <2>1. due \in Nat
      BY DEF AllTyped, SchedulerTyped, TimerType, LedgerInv, LedgerTypeOK
    <2>2. ClosesBetween(clock', due) \subseteq ClosesBetween(clock, due)
      BY <1>2, <2>1 DEF ClosesBetween
    <2>3. ClosesBetween(clock', due) = {} /\ timer' = timer /\ placed' = placed
      BY <1>1, <1>4, <2>2 DEF Waits
    <2> QED BY <1>4, <2>3 DEF Waits
  <1>5. clock <= clock' /\ clock' \in Nat
    BY <1>2
  <1> QED BY <1>1, <1>3, <1>4, <1>5, OthersKeepTimers

LEMMA FailureKeepsTimers ==
    ASSUME MaxFaults < MaxAttempts, AllTyped, TimerInv, JobFails
    PROVE  TimerInv'
  <1>1. /\ UNCHANGED <<ledgerVars, requestVars, queued, clock, cleanup>>
        /\ [LedgerNext]_ledgerVars /\ OwnersKept /\ UNCHANGED <<orders, issued, placed>>
    BY SameRows DEF JobFails, requestVars
  <1>2. faults \in Nat /\ faults' = faults + 1 /\ faults' \in Nat /\ faults < MaxFaults
        /\ MaxFaults \in Nat /\ MaxAttempts \in Nat /\ clock' \in Nat /\ clock <= clock'
    BY <1>1, IntakeAssumption DEF JobFails, AllTyped, SchedulerTyped
  <1>3. CASE doing = "close"
    <2>1. timer' = timer
      BY <1>3 DEF JobFails
    <2>2. ASSUME NEW x \in OrderIds PROVE timer'[x].attempts <= faults'
      <3>1. timer[x].attempts <= faults /\ timer[x].attempts \in Nat
        BY IntakeAssumption DEF TimerInv, AllTyped, SchedulerTyped, TimerType
      <3> QED BY <1>2, <2>1, <3>1
    <2>3. \A x \in DOMAIN orders : Waits(x) => Waits(x)'
      BY <1>1, <2>1 DEF Waits, ClosesBetween
    <2> QED BY <1>1, <1>2, <2>2, <2>3, OthersKeepTimers
  <1>4. CASE doing # "close"
    <2> PICK o \in OrderIds : o = doing
      BY <1>4 DEF JobFails, AllTyped, SchedulerTyped
    <2> PICK new : new = Retried(timer[o], "delayed")
      OBVIOUS
    <2> PICK a \in Nat : a = timer[o].attempts
      BY IntakeAssumption DEF AllTyped, SchedulerTyped, TimerType
    <2>1. timer' = [timer EXCEPT ![o] = new]
      BY <1>4 DEF JobFails
    <2>2. a <= faults
      BY DEF TimerInv
    <2>3. /\ new.attempts = a + 1 /\ new.due = timer[o].due
          /\ new.state = IF a + 1 < MaxAttempts THEN "delayed" ELSE "failed"
      BY DEF Retried, AllTyped, SchedulerTyped, TimerType
    <2>4. new.attempts <= faults' /\ new.state = "delayed" /\ faults <= faults'
      BY <1>2, <2>2, <2>3
    <2> QED BY <1>1, <1>2, <2>1, <2>3, <2>4, WorkerKeepsTimers
  <1> QED BY <1>3, <1>4

LEMMA ExpiryKeepsTimers ==
    ASSUME AllTyped, TimerInv, NEW o \in OrderIds, StartExpiry(o) \/ ExpireOrder(o)
    PROVE  TimerInv'
  <1>0. /\ faults' = faults /\ faults \in Nat /\ timer \in [OrderIds -> TimerType]
        /\ timer[o].attempts \in Nat /\ timer[o].attempts <= faults'
        /\ faults <= faults' /\ faults' \in Nat
    BY IntakeAssumption
       DEF TimerInv, AllTyped, SchedulerTyped, TimerType, StartExpiry, ExpireOrder
  <1>1. CASE StartExpiry(o)
    <2> PICK new : new = [timer[o] EXCEPT !.state = "active"]
      OBVIOUS
    <2>1. timer' = [timer EXCEPT ![o] = new]
      BY <1>0, <1>1 DEF StartExpiry
    <2>2. /\ new.due = timer[o].due /\ new.attempts <= faults'
          /\ new.state \in {"delayed", "active"}
      BY <1>0 DEF TimerType
    <2>3. /\ UNCHANGED <<ledgerVars, requestVars, queued, clock, cleanup>>
          /\ [LedgerNext]_ledgerVars /\ OwnersKept /\ UNCHANGED <<orders, issued, placed>>
      BY <1>1, SameRows DEF StartExpiry, requestVars
    <2> QED BY <1>0, <2>1, <2>2, <2>3, WorkerKeepsTimers
  <1>2. CASE ExpireOrder(o)
    <2> PICK new : new = [timer[o] EXCEPT !.state = "done"]
      OBVIOUS
    <2>1. timer' = [timer EXCEPT ![o] = new]
      BY <1>0, <1>2 DEF ExpireOrder
    <2>2. new.due = timer[o].due /\ new.attempts <= faults'
      BY <1>0 DEF TimerType
    <2>3. UNCHANGED <<requestVars, queued, clock, cleanup>>
      BY <1>2 DEF ExpireOrder
    <2>4. CASE HasOpenStatus(o) /\ IsLimit(orders[o])
      <3>1. ExpireLimit(o) /\ CancelOpen(o)
        BY <1>2, <2>4 DEF ExpireOrder, ExpireLimit
      <3>2. [LedgerNext]_ledgerVars /\ OwnersKept /\ issued' = issued
        BY <3>1, CancelKeepsOwners DEF AllTyped, LedgerNext, CancelOpen
      <3>3. ~Expires(o)'
        <4>1. o \in DOMAIN orders /\ orders[o] \in OrderRow
          BY <2>4 DEF HasOpenStatus, AllTyped, LedgerInv, LedgerTypeOK
        <4>2. orders'[o].status = "cancelled"
          BY <3>1, <4>1, CancelledRow DEF CancelOpen
        <4> QED BY <4>2 DEF Expires, HasOpenStatus, OpenStatuses
      <3> QED BY <1>0, <2>1, <2>2, <2>3, <3>2, <3>3, WorkerKeepsTimers
    <2>5. CASE ~(HasOpenStatus(o) /\ IsLimit(orders[o]))
      <3>1. UNCHANGED ledgerVars
        BY <1>2, <2>5 DEF ExpireOrder
      <3>2. [LedgerNext]_ledgerVars /\ OwnersKept /\ UNCHANGED <<orders, issued>>
        BY <3>1, SameRows
      <3>3. ~Expires(o)'
        BY <2>5, <3>2 DEF Expires, HasOpenStatus
      <3> QED BY <1>0, <2>1, <2>2, <2>3, <3>2, <3>3, WorkerKeepsTimers
    <2> QED BY <2>4, <2>5
  <1> QED BY <1>1, <1>2

LEMMA NextTimers ==
    ASSUME MaxFaults < MaxAttempts
    PROVE  AllTyped /\ TimerInv /\ [IntakeNext]_intakeVars => TimerInv'
  <1> SUFFICES ASSUME AllTyped, TimerInv, [IntakeNext]_intakeVars PROVE TimerInv'
    OBVIOUS
  <1>0. [LedgerNext]_ledgerVars /\ LedgerInv
    BY IntakeStep DEF AllTyped
  <1>1. ASSUME NEW r \in Requests, Handle(r) PROVE TimerInv'
    BY <1>1, HandleKeepsTimers
  <1>2. ASSUME NEW o \in OrderIds, CancelByUser(o) \/ EngineCancels(o) PROVE TimerInv'
    <2>1. CancelOpen(o) /\ UNCHANGED <<requestVars, queued, issued, timer, cleanup, clock, faults>>
      BY <1>2 DEF CancelByUser, EngineCancels, CancelOpen, schedulerVars
    <2> QED BY <1>0, <2>1, CancelKeepsOwners, QuietKeepsTimers
  <1>3. ASSUME NEW o \in OrderIds, CleanupStep(o) PROVE TimerInv'
    BY <1>3, CleanupKeepsTimers
  <1>4. ASSUME NEW i \in OrderIds, NEW r \in OrderIds, EngineTrades(i, r) PROVE TimerInv'
    <2>1. /\ Settle(i, r) /\ UNCHANGED <<requestVars, queued, issued, timer, clock, faults>>
          /\ i \in DOMAIN orders /\ r \in DOMAIN orders
      BY <1>4 DEF EngineTrades, Settle, SettleTrade, Settleable
    <2>2. \A o \in OrderIds : cleanup'[o] # "idle" =>
             \/ cleanup[o] # "idle"
             \/ o \in DOMAIN orders /\ orders'[o].status \notin OpenStatuses
      BY <1>4, <2>1 DEF EngineTrades, ClosedBy
    <2> QED BY <1>0, <2>1, <2>2, SettleKeepsOwners, QuietKeepsTimers
  <1>5. ASSUME NEW i \in OrderIds, NEW r \in OrderIds, EngineGivesUp(i, r) PROVE TimerInv'
    <2>1. Settle(i, r) /\ UNCHANGED <<requestVars, queued, issued, timer, cleanup, clock, faults>>
      BY <1>5 DEF EngineGivesUp, Settle, SettleUnfillable, schedulerVars
    <2> QED BY <1>0, <2>1, SettleKeepsOwners, QuietKeepsTimers
  <1>6. CASE Tick
    BY <1>6, TickKeepsTimers
  <1>7. CASE CloseOrders
    <2>1. MarketClose /\ UNCHANGED <<requestVars, queued, issued, timer, cleanup, clock, faults>>
      BY <1>7 DEF CloseOrders, MarketClose
    <2> QED BY <1>0, <2>1, CloseKeepsOwners, QuietKeepsTimers
  <1>8. CASE StartClose \/ AnnounceClose \/ UNCHANGED intakeVars
    <2>1. UNCHANGED <<ledgerVars, requestVars, queued, timer, cleanup, clock, faults>>
      BY <1>8 DEF StartClose, AnnounceClose, intakeVars, schedulerVars
    <2>2. OwnersKept /\ issued' = issued
      BY <2>1, SameRows
    <2> QED BY <1>0, <2>1, <2>2, QuietKeepsTimers
  <1>9. ASSUME NEW o \in OrderIds, StartExpiry(o) \/ ExpireOrder(o) PROVE TimerInv'
    BY <1>9, ExpiryKeepsTimers
  <1>10. CASE JobFails
    BY <1>10, FailureKeepsTimers
  <1> QED BY <1>1, <1>2, <1>3, <1>4, <1>5, <1>6, <1>7, <1>8, <1>9, <1>10
          DEF IntakeNext, SchedulerRuns

(* An accepted limit order is never forgotten, for as long as fewer runs   *)
(* of the scheduler fail than a job has attempts: while it is open, its    *)
(* match job was added and its expiry is still to run, at a close after it *)
(* was placed, and the very next one while that is to come.                *)
THEOREM AcceptedExpires == MaxFaults < MaxAttempts => (IntakeSpec => []AcceptedHasTimer)
  <1> SUFFICES ASSUME MaxFaults < MaxAttempts PROVE IntakeSpec => []AcceptedHasTimer
    OBVIOUS
  <1>1. IntakeInit => TimerInv
    BY IntakeAssumption
       DEF IntakeInit, LedgerInit, TimerInv, Accepted, NoTimer
  <1>2. AllTyped /\ TimerInv /\ [IntakeNext]_intakeVars => TimerInv'
    BY NextTimers
  <1>3. IntakeSpec => []AllTyped
    BY IntakeTyped, PTL DEF AllTyped
  <1>4. TimerInv => AcceptedHasTimer
    BY DEF TimerInv, AcceptedHasTimer, Accepted, Expires, Waits
  <1> QED BY <1>1, <1>2, <1>3, <1>4, PTL DEF IntakeSpec
=============================================================================
