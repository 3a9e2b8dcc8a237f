---------------------------- MODULE EngineProofs ----------------------------
(***************************************************************************)
(* Proofs about MatchingEngine, for any numbers of workers, orders, users, *)
(* symbols, faults and crashes.                                            *)
(***************************************************************************)
EXTENDS MatchingEngine, LedgerProofs

-----------------------------------------------------------------------------
(* The engine implements the ledger: whatever its workers believe about    *)
(* the book, and whatever fails, the tables change only by the ledger's    *)
(* transactions.                                                           *)

LEMMA SubmitStep ==
    ASSUME NEW o \in OrderIds, SubmitOrder(o)
    PROVE  LedgerNext
  <1> PICK in \in Inputs :
          IF in.type = "market"
          THEN InsertMarket(o, in.user, in.symbol, in.side, in.quantity)
          ELSE InsertLimit(o, in.user, in.symbol, in.side, in.mills, in.quantity)
    BY DEF SubmitOrder
  <1>1. Submit(o)
    BY InputsAssumption DEF Submit
  <1> QED BY <1>1 DEF LedgerNext

LEMMA WorkStep ==
    ASSUME LedgerInv, NEW w \in Workers, Work(w)
    PROVE  [LedgerNext]_ledgerVars
  <1>1. DOMAIN orders \subseteq OrderIds
    BY DEF LedgerInv, LedgerTypeOK
  <1>2. CASE TradePair(w)
    <2>1. SettleTrade(job[w], local[w].resting)
      BY <1>2 DEF TradePair
    <2>2. job[w] \in OrderIds /\ local[w].resting \in OrderIds
      BY Zenon, <1>1, <2>1 DEF SettleTrade, Settleable
    <2> QED BY <2>1, <2>2 DEF LedgerNext, Settle
  <1>3. CASE CloseUnfillable(w)
    <2>1. SettleUnfillable(job[w], local[w].resting)
      BY <1>3 DEF CloseUnfillable
    <2>2. job[w] \in OrderIds /\ local[w].resting \in OrderIds
      BY <1>1, <2>1 DEF SettleUnfillable, Settleable
    <2> QED BY <2>1, <2>2 DEF LedgerNext, Settle
  <1>4. CASE CancelRemainder(w)
    <2>1. CASE CancelOpen(job[w])
      <3>1. job[w] \in OrderIds
        BY <1>1, <2>1 DEF CancelOpen, HasOpenStatus
      <3> QED BY <2>1, <3>1 DEF LedgerNext
    <2>2. CASE UNCHANGED ledgerVars
      BY <2>2
    <2> QED BY <1>4, <2>1, <2>2 DEF CancelRemainder
  <1>5. CASE AcquireLock(w) \/ Reload(w) \/ ReadBook(w) \/ SettleMissing(w) \/ SettleRefused(w)
    BY <1>5 DEF AcquireLock, Reload, ReadBook, SettleMissing, SettleRefused
  <1>6. CASE Scan(w)
    BY Zenon, <1>6 DEF Scan, DropMissingEntry, SyncClosedEntry, SkipOwnEntry, ChooseEntry, ScanExhausted
  <1>7. CASE Announce(w) \/ SyncRead(w) \/ SyncWrite(w) \/ RestInBook(w)
    BY Zenon, <1>7 DEF Announce, SyncRead, SyncWrite, RestInBook
  <1>8. CASE ReleaseLock(w) \/ CompleteJob(w) \/ FailJob(w)
    BY <1>8 DEF ReleaseLock, CompleteJob, FailJob
  <1> QED BY <1>2, <1>3, <1>4, <1>5, <1>6, <1>7, <1>8 DEF Work, Settlement

LEMMA EngineStep == LedgerInv /\ [Next]_vars => [LedgerNext]_ledgerVars
  <1> SUFFICES ASSUME LedgerInv, [Next]_vars PROVE [LedgerNext]_ledgerVars
    OBVIOUS
  <1>1. ASSUME NEW o \in OrderIds, SubmitOrder(o) PROVE LedgerNext
    BY <1>1, SubmitStep
  <1>2. ASSUME NEW o \in OrderIds, CancelByUser(o) \/ Expire(o) \/ Delete(o) PROVE LedgerNext
    BY <1>2 DEF CancelByUser, Expire, Delete, LedgerNext
  <1>3. ASSUME NEW o \in OrderIds, EnqueueMatch(o) \/ RecoverStalled(o)
        PROVE  UNCHANGED ledgerVars
    BY <1>3 DEF EnqueueMatch, RecoverStalled
  <1>4. CASE CloseMarket
    BY <1>4 DEF CloseMarket, LedgerNext
  <1>5. ASSUME NEW w \in Workers, Work(w) PROVE [LedgerNext]_ledgerVars
    BY <1>5, WorkStep
  <1>6. ASSUME NEW w \in Workers, Trouble(w) PROVE UNCHANGED ledgerVars
    BY <1>6 DEF Trouble, LockTimeout, Throw, Crash
  <1>7. ASSUME NEW w \in Workers, NEW o \in OrderIds, TakeJob(w, o) PROVE UNCHANGED ledgerVars
    BY <1>7 DEF TakeJob
  <1>8. ASSUME NEW s \in Symbols, DeadLockExpires(s) \/ LiveLockExpires(s)
        PROVE  UNCHANGED ledgerVars
    BY <1>8 DEF DeadLockExpires, LiveLockExpires
  <1>9. CASE UNCHANGED vars
    BY <1>9 DEF vars
  <1> QED BY <1>1, <1>2, <1>3, <1>4, <1>5, <1>6, <1>7, <1>8, <1>9 DEF Next

LEMMA EngineLedgerInv == Spec => []LedgerInv
  <1>1. Init => LedgerInv
    BY InitInv DEF Init
  <1>2. LedgerInv /\ [Next]_vars => LedgerInv'
    BY EngineStep, NextInv
  <1> QED BY <1>1, <1>2, PTL DEF Spec

(* Every behaviour of the engine is one of the ledger, even when locks     *)
(* expire under a running worker, calls throw and workers crash: so what   *)
(* is proved of the ledger holds of the whole engine.                      *)
THEOREM EngineImplementsLedger == Spec => LedgerSpec
  <1>1. Init => LedgerInit
    BY DEF Init
  <1>2. LedgerInv /\ [Next]_vars => [LedgerNext]_ledgerVars
    BY EngineStep
  <1>3. Spec => []LedgerInv
    BY EngineLedgerInv
  <1> QED BY <1>1, <1>2, <1>3, PTL DEF Spec, LedgerSpec

(* With concurrent workers, stale reads and lost locks a cancelled or      *)
(* filled order stays as it is, and its status agrees with its fill.       *)
THEOREM EngineKeepsClosedOrders == Spec => ClosedIsFinal /\ []StatusAgreesWithFill
  BY EngineImplementsLedger, ClosedOrdersFinal, StatusCorrect, PTL

(* The books of account balance however matching went: every fill is the   *)
(* sum of its trades, money and shares are where the trades put them, and  *)
(* no cost basis outgrows what was paid.                                   *)
THEOREM EngineKeepsBooks == Spec => [](FillsMatchTrades /\ BooksBalance /\ CostBasisBounded)
  BY EngineImplementsLedger, FillsAudited, BooksAlwaysBalance, CostBasisSound, PTL

-----------------------------------------------------------------------------
(* Mutual exclusion.                                                       *)

(* Whoever is between acquireStockLock and releaseStockLock holds the lock *)
(* of its symbol.                                                          *)
LockInv ==
    /\ DOMAIN pc = Workers /\ DOMAIN sym = Workers /\ DOMAIN lock = Symbols
    /\ \A w \in Workers :
          /\ pc[w] = "lock" \/ Critical(w) => sym[w] \in Symbols
          /\ Critical(w) => lock[sym[w]] = w

(* A step of w alone that starts inside the critical section and touches   *)
(* neither the locks nor the symbols.                                      *)
LEMMA MoveKeepsLock ==
    ASSUME LockInv, NEW w \in Workers, Critical(w), NEW label,
           GoTo(w, label), UNCHANGED <<sym, lock>>
    PROVE  LockInv'
  BY DEF LockInv, GoTo, Critical

LEMMA SyncMoves ==
    ASSUME NEW w, NEW tasks, NEW next, NEW changes, SyncThen(w, tasks, next, changes)
    PROVE  \E label : GoTo(w, label)
  BY DEF SyncThen

LEMMA InsideKeepsLock ==
    ASSUME LockInv, NEW w \in Workers,
           \/ Reload(w) \/ ReadBook(w) \/ Scan(w) \/ Settlement(w) \/ Announce(w)
           \/ SyncRead(w) \/ SyncWrite(w) \/ CancelRemainder(w) \/ RestInBook(w)
    PROVE  LockInv'
  <1>1. Critical(w) /\ UNCHANGED <<sym, lock>>
    BY Zenon DEF Critical, Reload, ReadBook, Scan, DropMissingEntry, SyncClosedEntry, SkipOwnEntry,
           ChooseEntry, ScanExhausted, AtEntry, Settlement, TradePair, CloseUnfillable,
           SettleMissing, SettleRefused, Announce, SyncRead, SyncWrite, CancelRemainder,
           RestInBook, redisVars
  <1>2. CASE UNCHANGED pc
    BY <1>1, <1>2 DEF LockInv, Critical
  <1>3. (\E label : GoTo(w, label)) \/ UNCHANGED pc
    <2>1. CASE Reload(w) \/ SyncWrite(w) \/ RestInBook(w)
      BY Zenon, <2>1, SyncMoves DEF Reload, SyncWrite, RestInBook
    <2>2. CASE Settlement(w)
      BY <2>2, SyncMoves
         DEF Settlement, TradePair, CloseUnfillable, SettleMissing, SettleRefused
    <2>3. CASE Scan(w)
      BY Zenon, <2>3, SyncMoves DEF Scan, DropMissingEntry, SyncClosedEntry, SkipOwnEntry,
                             ChooseEntry, ScanExhausted
    <2>4. CASE ReadBook(w) \/ Announce(w) \/ SyncRead(w)
      BY Zenon, <2>4 DEF ReadBook, Announce, SyncRead
    <2>5. CASE CancelRemainder(w)
      BY <2>5, SyncMoves DEF CancelRemainder
    <2> QED BY <2>1, <2>2, <2>3, <2>4, <2>5
  <1> QED BY <1>1, <1>2, <1>3, MoveKeepsLock

LEMMA WorkKeepsLock ==
    ASSUME LockInv, NEW w \in Workers, Work(w)
    PROVE  LockInv'
  <1>1. CASE AcquireLock(w)
    BY <1>1, EngineAssumption DEF AcquireLock, LockInv, Critical, GoTo
  <1>2. CASE ReleaseLock(w)
    BY <1>2 DEF ReleaseLock, LockInv, Critical, GoTo
  <1>3. CASE CompleteJob(w) \/ FailJob(w)
    BY <1>3 DEF CompleteJob, FailJob, GoIdle, LockInv, Critical, GoTo, redisVars
  <1> QED BY <1>1, <1>2, <1>3, InsideKeepsLock DEF Work

LEMMA TroubleKeepsLock ==
    ASSUME LockInv, NEW w \in Workers, Trouble(w)
    PROVE  LockInv'
  <1>1. CASE LockTimeout(w)
    BY <1>1 DEF LockTimeout, LockInv, Critical, GoTo, redisVars
  <1>2. CASE Throw(w)
    <2>1. CASE pc[w] \in {"lock", "release"}
      BY <1>2, <2>1 DEF Throw, LockInv, Critical, GoTo, LoseLock
    <2>2. CASE pc[w] \notin {"lock", "release"}
      <3>1. Critical(w) /\ GoTo(w, "release") /\ UNCHANGED <<sym, lock>>
        BY <1>2, <2>2 DEF Throw, Critical
      <3> QED BY <3>1, MoveKeepsLock
    <2> QED BY <2>1, <2>2
  <1>3. CASE Crash(w)
    BY <1>3 DEF Crash, LockInv, Critical, GoIdle, GoTo, LoseLock
  <1> QED BY <1>1, <1>2, <1>3 DEF Trouble

LEMMA TakeKeepsLock ==
    ASSUME LedgerInv, LockInv, NEW w \in Workers, NEW o \in OrderIds, TakeJob(w, o)
    PROVE  LockInv'
  <1>1. CASE RowOpen(o)
    <2>1. orders[o].symbol \in Symbols
      BY <1>1 DEF RowOpen, LedgerInv, LedgerTypeOK, OrderRow
    <2> QED BY <1>1, <2>1 DEF TakeJob, LockInv, Critical, GoTo, redisVars
  <1>2. CASE ~RowOpen(o)
    BY <1>2 DEF TakeJob, LockInv, Critical, GoTo, redisVars
  <1> QED BY <1>1, <1>2

LEMMA NextKeepsLock ==
    ~LockMayExpire /\ LedgerInv /\ LockInv /\ [Next]_vars => LockInv'
  <1> SUFFICES ASSUME ~LockMayExpire, LedgerInv, LockInv, [Next]_vars PROVE LockInv'
    OBVIOUS
  <1>1. CASE \E o \in OrderIds :
               \/ SubmitOrder(o) \/ EnqueueMatch(o) \/ CancelByUser(o) \/ Expire(o)
               \/ Delete(o) \/ RecoverStalled(o)
    BY <1>1 DEF SubmitOrder, EnqueueMatch, CancelByUser, Expire, Delete, RecoverStalled, LockInv, Critical,
                engineVars, redisVars, workerVars
  <1>2. CASE CloseMarket \/ UNCHANGED vars
    BY <1>2 DEF CloseMarket, vars, LockInv, Critical, engineVars, redisVars, workerVars
  <1>3. ASSUME NEW w \in Workers, Work(w) PROVE LockInv'
    BY <1>3, WorkKeepsLock
  <1>4. ASSUME NEW w \in Workers, Trouble(w) PROVE LockInv'
    BY <1>4, TroubleKeepsLock
  <1>5. ASSUME NEW w \in Workers, NEW o \in OrderIds, TakeJob(w, o) PROVE LockInv'
    BY <1>5, TakeKeepsLock
  <1>6. ASSUME NEW s \in Symbols, DeadLockExpires(s) PROVE LockInv'
    BY <1>6, EngineAssumption DEF DeadLockExpires, LockInv, Critical, workerVars
  <1>7. ASSUME NEW s \in Symbols, LiveLockExpires(s) PROVE FALSE
    BY <1>7 DEF LiveLockExpires
  <1> QED BY <1>1, <1>2, <1>3, <1>4, <1>5, <1>6, <1>7 DEF Next

(* As long as no run outlives the TTL of its lock, MATCH_LOCK serializes   *)
(* the work on a symbol: whatever crashes, whichever calls throw and       *)
(* however many workers there are.                                         *)
THEOREM LockExcludes == ~LockMayExpire => (Spec => []OneRunPerSymbol)
  <1> SUFFICES ASSUME ~LockMayExpire PROVE Spec => []OneRunPerSymbol
    OBVIOUS
  <1>1. Init => LockInv
    BY DEF Init, LockInv, Critical
  <1>2. LedgerInv /\ LockInv /\ [Next]_vars => LockInv'
    BY NextKeepsLock
  <1>3. LockInv => OneRunPerSymbol
    BY DEF LockInv, OneRunPerSymbol
  <1> QED BY <1>1, <1>2, <1>3, EngineLedgerInv, PTL DEF Spec

-----------------------------------------------------------------------------
(* What the variables of a run hold, and the turns a run takes.            *)

EntryType == [id : OrderIds, member : Nat, score : Int]
TaskType == [id : OrderIds, row : OrderRow, keep : BOOLEAN]
RunType ==
    [incoming : OrderRow \cup {NoRow}, scan : SUBSET EntryType,
     resting : OrderIds \cup {NoOrder}, restingRow : OrderRow \cup {NoRow},
     trade : Nat, drop : BOOLEAN, changed : Seq(TaskType), member : Nat,
     next : Labels, failed : BOOLEAN]
HashType == [member : Nat, filled : Nat, status : Statuses]

RedisTyped ==
    /\ book \in [Symbols \X Sides -> SUBSET EntryType]
    /\ shown \in [OrderIds -> HashType]
    /\ sequence \in [Symbols -> Nat]
    /\ lock \in [Symbols -> Workers \cup {Free, Dead}]

(* Between a change of a row and the end of its synchronization, the label *)
(* matchOrder goes on at; otherwise the label it is at.                    *)
Syncing == {"publish", "sync", "write"}
Phase(w) == IF pc[w] \in Syncing THEN local[w].next ELSE pc[w]

(* matchOrder has read its own order and goes on matching it.              *)
Reading == {"range", "scan", "settle", "finish"}

(* What the variables of a run hold at the labels where they are used.     *)
RunShaped(w) ==
    /\ Phase(w) \in Reading => local[w].incoming \in OrderRow
    /\ pc[w] \in Syncing =>
          /\ local[w].changed # <<>>
          /\ local[w].next \in {"reload", "range", "scan", "release"}
    /\ pc[w] = "publish" => local[w].next = "reload" /\ local[w].trade \in DOMAIN trades
    /\ pc[w] = "settle" \/ local[w].drop =>
          local[w].resting \in OrderIds /\ local[w].restingRow \in OrderRow
    /\ pc[w] \notin {"idle", "done", "fail"} => sym[w] \in Symbols
    /\ pc[w] # "idle" => job[w] \in OrderIds

RunsTyped ==
    /\ pc \in [Workers -> Labels]
    /\ job \in [Workers -> OrderIds \cup {NoOrder}]
    /\ sym \in [Workers -> Symbols \cup {NoOrder}]
    /\ local \in [Workers -> RunType]
    /\ \A w \in Workers : RunShaped(w)

(* w goes to `label` with `me` for its variables; the others stay.         *)
LEMMA Turn ==
    ASSUME RunsTyped, NEW w \in Workers, NEW label \in Labels, NEW me \in RunType,
           GoTo(w, label), local' = [local EXCEPT ![w] = me]
    PROVE  /\ pc' \in [Workers -> Labels] /\ local' \in [Workers -> RunType]
           /\ pc'[w] = label /\ local'[w] = me
           /\ \A v \in Workers \ {w} : pc'[v] = pc[v] /\ local'[v] = local[v]
  BY DEF RunsTyped, GoTo

(* The same for a turn that starts syncOrderBook for some tasks.           *)
Queued(me, tasks, next) ==
    IF tasks = <<>> THEN [me EXCEPT !.changed = <<>>, !.next = "idle"]
                    ELSE [me EXCEPT !.changed = tasks, !.next = next]

LEMMA SyncTurn ==
    ASSUME RunsTyped, NEW w \in Workers, NEW tasks \in Seq(TaskType),
           NEW next \in Labels, NEW me \in RunType, SyncThen(w, tasks, next, me)
    PROVE  /\ pc' \in [Workers -> Labels] /\ local' \in [Workers -> RunType]
           /\ pc'[w] = IF tasks = <<>> THEN next ELSE "sync"
           /\ local'[w] = Queued(me, tasks, next)
           /\ local'[w].incoming = me.incoming /\ local'[w].scan = me.scan
           /\ local'[w].resting = me.resting /\ local'[w].restingRow = me.restingRow
           /\ local'[w].trade = me.trade /\ local'[w].drop = me.drop
           /\ local'[w].member = me.member /\ local'[w].failed = me.failed
           /\ local'[w].changed = tasks
           /\ tasks # <<>> => local'[w].next = next
           /\ \A v \in Workers \ {w} : pc'[v] = pc[v] /\ local'[v] = local[v]
  <1>1. CASE tasks = <<>>
    <2> DEFINE new == [me EXCEPT !.changed = <<>>, !.next = "idle"]
    <2>1. new \in RunType
      BY <1>1 DEF RunType, Labels
    <2>2. GoTo(w, next) /\ local' = [local EXCEPT ![w] = new]
      BY <1>1 DEF SyncThen
    <2>3. /\ pc' \in [Workers -> Labels] /\ local' \in [Workers -> RunType]
          /\ pc'[w] = next /\ local'[w] = new
          /\ \A v \in Workers \ {w} : pc'[v] = pc[v] /\ local'[v] = local[v]
      <3> HIDE DEF new
      <3> QED BY <2>1, <2>2, Turn
    <2>4. /\ new.incoming = me.incoming /\ new.scan = me.scan
          /\ new.resting = me.resting /\ new.restingRow = me.restingRow
          /\ new.trade = me.trade /\ new.drop = me.drop
          /\ new.member = me.member /\ new.failed = me.failed
          /\ new.changed = <<>>
      BY DEF RunType
    <2> QED BY <1>1, <2>3, <2>4 DEF Queued
  <1>2. CASE tasks # <<>>
    <2> DEFINE new == [me EXCEPT !.changed = tasks, !.next = next]
    <2>1. new \in RunType
      BY DEF RunType
    <2>2. GoTo(w, "sync") /\ local' = [local EXCEPT ![w] = new]
      BY <1>2 DEF SyncThen
    <2>3. /\ pc' \in [Workers -> Labels] /\ local' \in [Workers -> RunType]
          /\ pc'[w] = "sync" /\ local'[w] = new
          /\ \A v \in Workers \ {w} : pc'[v] = pc[v] /\ local'[v] = local[v]
      <3> "sync" \in Labels
        BY DEF Labels
      <3> HIDE DEF new
      <3> QED BY <2>1, <2>2, Turn
    <2>4. /\ new.incoming = me.incoming /\ new.scan = me.scan
          /\ new.resting = me.resting /\ new.restingRow = me.restingRow
          /\ new.trade = me.trade /\ new.drop = me.drop
          /\ new.member = me.member /\ new.failed = me.failed
          /\ new.changed = tasks /\ new.next = next
      BY DEF RunType
    <2> QED BY <1>2, <2>3, <2>4 DEF Queued
  <1> QED BY <1>1, <1>2

-----------------------------------------------------------------------------
(* Types: starting to match and scanning the book.                         *)

EngineTyped == LedgerInv /\ RedisTyped /\ RunsTyped

(* The step is w's: the other workers stay where they are.                 *)
Alone(w) ==
    \A v \in Workers \ {w} :
        pc'[v] = pc[v] /\ local'[v] = local[v] /\ job'[v] = job[v] /\ sym'[v] = sym[v]

LEMMA TurnTyped ==
    ASSUME RunsTyped, NEW w \in Workers, Alone(w),
           pc' \in [Workers -> Labels], local' \in [Workers -> RunType],
           job' \in [Workers -> OrderIds \cup {NoOrder}],
           sym' \in [Workers -> Symbols \cup {NoOrder}],
           DOMAIN trades \subseteq DOMAIN trades', RunShaped(w)'
    PROVE  RunsTyped'
  <1>1. ASSUME NEW v \in Workers \ {w} PROVE RunShaped(v)'
    BY DEF RunsTyped, Alone, RunShaped, Phase
  <1> QED BY <1>1 DEF RunsTyped

(* A turn in which w keeps its job.                                        *)
LEMMA OwnTurn ==
    ASSUME RunsTyped, NEW w \in Workers, NEW label \in Labels, NEW me \in RunType,
           GoTo(w, label), local' = [local EXCEPT ![w] = me], UNCHANGED <<job, sym>>
    PROVE  /\ pc' \in [Workers -> Labels] /\ local' \in [Workers -> RunType]
           /\ job' \in [Workers -> OrderIds \cup {NoOrder}]
           /\ sym' \in [Workers -> Symbols \cup {NoOrder}]
           /\ pc'[w] = label /\ local'[w] = me
           /\ Alone(w)
  BY Turn DEF RunsTyped, Alone

LEMMA OwnSync ==
    ASSUME RunsTyped, NEW w \in Workers, NEW tasks \in Seq(TaskType),
           NEW next \in Labels, NEW me \in RunType, SyncThen(w, tasks, next, me),
           UNCHANGED <<job, sym>>
    PROVE  /\ pc' \in [Workers -> Labels] /\ local' \in [Workers -> RunType]
           /\ job' \in [Workers -> OrderIds \cup {NoOrder}]
           /\ sym' \in [Workers -> Symbols \cup {NoOrder}]
           /\ pc'[w] = IF tasks = <<>> THEN next ELSE "sync"
           /\ local'[w].incoming = me.incoming /\ local'[w].scan = me.scan
           /\ local'[w].resting = me.resting /\ local'[w].restingRow = me.restingRow
           /\ local'[w].trade = me.trade /\ local'[w].drop = me.drop
           /\ local'[w].member = me.member /\ local'[w].failed = me.failed
           /\ local'[w].changed = tasks
           /\ tasks # <<>> => local'[w].next = next
           /\ Alone(w)
  BY SyncTurn DEF RunsTyped, Alone

LEMMA TaskTyped ==
    ASSUME NEW o \in OrderIds, NEW row \in OrderRow
    PROVE  Task(o, row) \in TaskType /\ RemoveTask(o, row) \in TaskType
  BY DEF Task, RemoveTask, TaskType, BelongsInBook, IsOpen, IsLimit

LEMMA RowTyped ==
    ASSUME LedgerInv, NEW o \in DOMAIN orders
    PROVE  o \in OrderIds /\ orders[o] \in OrderRow
  BY DEF LedgerInv, LedgerTypeOK

(* Redis keeps its types when a step leaves it alone.                      *)
LEMMA RedisStands == RedisTyped /\ UNCHANGED redisVars => RedisTyped'
  BY DEF RedisTyped, redisVars

LEMMA ReloadTyped ==
    ASSUME EngineTyped, NEW w \in Workers, Reload(w)
    PROVE  RunsTyped'
  <1> DEFINE me == local[w]
             tasks == IF me.drop THEN <<RemoveTask(me.resting, me.restingRow)>> ELSE <<>>
             next == IF RowOpen(job[w]) THEN "range" ELSE "release"
             new == [me EXCEPT !.incoming = RowOf(job[w]), !.resting = NoOrder,
                               !.restingRow = NoRow, !.drop = FALSE]
  <1>1. me \in RunType /\ RunShaped(w) /\ pc[w] = "reload" /\ UNCHANGED <<job, sym>>
    BY DEF EngineTyped, RunsTyped, Reload
  <1>2. RowOf(job[w]) \in OrderRow \cup {NoRow} /\ (RowOpen(job[w]) => RowOf(job[w]) \in OrderRow)
    BY RowTyped DEF RowOf, RowOpen, EngineTyped
  <1>3. new \in RunType
    BY <1>1, <1>2 DEF RunType
  <1>4. tasks \in Seq(TaskType)
    <2>1. CASE me.drop
      BY <1>1, <2>1, TaskTyped DEF RunShaped
    <2>2. CASE ~me.drop
      BY <2>2
    <2> QED BY <2>1, <2>2
  <1>5. next \in Labels
    BY DEF Labels
  <1>6. SyncThen(w, tasks, next, new)
    BY DEF Reload
  <1>7. new.incoming = RowOf(job[w]) /\ new.drop = FALSE
    BY <1>1 DEF RunType
  <1> HIDE DEF tasks, new
  <1>8. RunShaped(w)' /\ Alone(w) /\ pc' \in [Workers -> Labels] /\ local' \in [Workers -> RunType]
        /\ job' \in [Workers -> OrderIds \cup {NoOrder}]
        /\ sym' \in [Workers -> Symbols \cup {NoOrder}]
    <2>1. RunsTyped
      BY DEF EngineTyped
    <2>2. /\ pc' \in [Workers -> Labels] /\ local' \in [Workers -> RunType]
          /\ job' \in [Workers -> OrderIds \cup {NoOrder}]
          /\ sym' \in [Workers -> Symbols \cup {NoOrder}]
          /\ pc'[w] = IF tasks = <<>> THEN next ELSE "sync"
          /\ local'[w].incoming = new.incoming
          /\ local'[w].drop = new.drop
          /\ local'[w].changed = tasks
          /\ tasks # <<>> => local'[w].next = next
          /\ Alone(w)
      BY <1>1, <1>3, <1>4, <1>5, <1>6, <2>1, OwnSync
    <2>3. RunShaped(w)'
      BY <1>1, <1>2, <1>7, <2>2 DEF RunShaped, Phase, Syncing, Reading
    <2> QED BY <2>2, <2>3
  <1>9. DOMAIN trades' = DOMAIN trades
    BY DEF Reload, ledgerVars
  <1> QED BY <1>8, <1>9, TurnTyped DEF EngineTyped

LEMMA ScoreTyped ==
    ASSUME NEW o \in OrderIds, NEW m \in Nat, NEW row \in OrderRow
    PROVE  Entry(o, m, row) \in EntryType
  BY DEF Entry, EntryType, Score, OrderRow

(* One ZRANGE and the entries it returns.                                  *)
LEMMA ScanTyped ==
    ASSUME EngineTyped, NEW w \in Workers, ReadBook(w) \/ Scan(w)
    PROVE  RedisTyped' /\ RunsTyped'
  <1> DEFINE me == local[w]
  <1>1. me \in RunType /\ RunShaped(w) /\ RunsTyped /\ RedisTyped /\ LedgerInv
    BY DEF EngineTyped, RunsTyped
  <1>2. UNCHANGED <<job, sym, trades, shown, sequence, lock>>
    BY Zenon DEF ReadBook, Scan, DropMissingEntry, SyncClosedEntry, SkipOwnEntry, ChooseEntry,
           ScanExhausted, ledgerVars, redisVars
  <1>3. CASE ReadBook(w)
    <2> DEFINE all == FirstEntries(sym[w], Opposite(me.incoming.side))
    <2>1. sym[w] \in Symbols /\ me.incoming.side \in Sides
      BY <1>1, <1>3 DEF ReadBook, RunShaped, Phase, Syncing, Reading, OrderRow
    <2>2. all \subseteq EntryType
      BY <1>1, <2>1 DEF FirstEntries, RedisTyped, Opposite, Sides
    <2> HIDE DEF all
    <2>3. [me EXCEPT !.scan = all] \in RunType /\ "scan" \in Labels
      BY <1>1, <2>2 DEF RunType, Labels
    <2>4. GoTo(w, "scan") /\ local' = [local EXCEPT ![w] = [me EXCEPT !.scan = all]]
      BY <1>3 DEF ReadBook, all
    <2>5. /\ pc' \in [Workers -> Labels] /\ local' \in [Workers -> RunType]
          /\ job' \in [Workers -> OrderIds \cup {NoOrder}]
          /\ sym' \in [Workers -> Symbols \cup {NoOrder}]
          /\ pc'[w] = "scan" /\ local'[w] = [me EXCEPT !.scan = all] /\ Alone(w)
      BY <1>1, <1>2, <2>3, <2>4, OwnTurn
    <2>6. pc[w] = "range"
      BY <1>3 DEF ReadBook
    <2>7. RunShaped(w)'
      BY <1>1, <1>2, <2>5, <2>6 DEF RunShaped, Phase, Syncing, Reading, RunType
    <2> QED BY <1>1, <1>2, <1>3, <2>5, <2>7, TurnTyped, RedisStands DEF ReadBook
  <1>4. CASE DropMissingEntry(w) \/ SkipOwnEntry(w)
    <2>1. PICK e \in me.scan : local' = [local EXCEPT ![w].scan = @ \ {e}]
      BY <1>4 DEF DropMissingEntry, SkipOwnEntry
    <2> DEFINE new == [me EXCEPT !.scan = @ \ {e}]
    <2>2. new \in RunType
      BY <1>1 DEF RunType
    <2>3. pc[w] \in Labels /\ GoTo(w, pc[w]) /\ pc[w] = "scan"
      BY <1>1, <1>4 DEF RunsTyped, GoTo, DropMissingEntry, SkipOwnEntry, AtEntry
    <2>4. local' = [local EXCEPT ![w] = new]
      BY <2>1
    <2>5. new.incoming = me.incoming /\ new.drop = me.drop
          /\ new.resting = me.resting /\ new.restingRow = me.restingRow
      BY <1>1 DEF RunType
    <2> HIDE DEF new
    <2>6. /\ pc' \in [Workers -> Labels] /\ local' \in [Workers -> RunType]
          /\ job' \in [Workers -> OrderIds \cup {NoOrder}]
          /\ sym' \in [Workers -> Symbols \cup {NoOrder}]
          /\ pc'[w] = pc[w] /\ local'[w] = new /\ Alone(w)
      BY <1>1, <1>2, <2>2, <2>3, <2>4, OwnTurn
    <2>7. RunShaped(w)'
      BY <1>1, <1>2, <2>3, <2>5, <2>6 DEF RunShaped, Phase, Syncing, Reading
    <2>8. RedisTyped'
      BY <1>1, <1>2, <1>4 DEF DropMissingEntry, SkipOwnEntry, RedisTyped, redisVars
    <2> QED BY <1>1, <1>2, <2>6, <2>7, <2>8, TurnTyped
  <1>5. CASE SyncClosedEntry(w)
    <2>1. PICK e \in me.scan :
             /\ AtEntry(w, e) /\ e.id \in DOMAIN orders
             /\ SyncThen(w, <<Task(e.id, orders[e.id])>>, "scan", [me EXCEPT !.scan = @ \ {e}])
      BY <1>5 DEF SyncClosedEntry
    <2> DEFINE new == [me EXCEPT !.scan = @ \ {e}]
               tasks == <<Task(e.id, orders[e.id])>>
    <2>2. new \in RunType /\ tasks \in Seq(TaskType) /\ tasks # <<>> /\ "scan" \in Labels
      <3>1. Task(e.id, orders[e.id]) \in TaskType
        BY <1>1, <2>1, RowTyped, TaskTyped
      <3>2. new \in RunType
        BY <1>1 DEF RunType
      <3> QED BY <3>1, <3>2 DEF Labels
    <2>3. new.incoming = me.incoming /\ new.drop = me.drop
          /\ new.resting = me.resting /\ new.restingRow = me.restingRow
      BY <1>1 DEF RunType
    <2>4. SyncThen(w, tasks, "scan", new) /\ pc[w] = "scan"
      BY <2>1 DEF AtEntry
    <2> HIDE DEF new, tasks
    <2>5. /\ pc' \in [Workers -> Labels] /\ local' \in [Workers -> RunType]
          /\ job' \in [Workers -> OrderIds \cup {NoOrder}]
          /\ sym' \in [Workers -> Symbols \cup {NoOrder}]
          /\ pc'[w] = "sync" /\ local'[w].incoming = new.incoming
          /\ local'[w].resting = new.resting /\ local'[w].restingRow = new.restingRow
          /\ local'[w].drop = new.drop /\ local'[w].changed = tasks
          /\ local'[w].next = "scan" /\ Alone(w)
      BY <1>1, <1>2, <2>2, <2>4, OwnSync
    <2>6. RunShaped(w)'
      BY <1>1, <1>2, <2>2, <2>3, <2>4, <2>5 DEF RunShaped, Phase, Syncing, Reading
    <2> QED BY <1>1, <1>2, <1>5, <2>5, <2>6, TurnTyped, RedisStands DEF SyncClosedEntry
  <1>6. CASE ChooseEntry(w)
    <2>1. PICK e \in me.scan :
             /\ AtEntry(w, e) /\ RowOpen(e.id)
             /\ IF CanMatch(me.incoming, orders[e.id])
                THEN /\ GoTo(w, "settle")
                     /\ local' = [local EXCEPT ![w].resting = e.id,
                                      ![w].restingRow = orders[e.id], ![w].scan = {}]
                ELSE GoTo(w, "finish") /\ local' = [local EXCEPT ![w].scan = {}]
      BY Zenon, <1>6 DEF ChooseEntry
    <2>2. e.id \in OrderIds /\ orders[e.id] \in OrderRow
      BY <1>1, <2>1, RowTyped DEF RowOpen
    <2>3. PICK label \in {"settle", "finish"}, new \in RunType :
             /\ GoTo(w, label) /\ local' = [local EXCEPT ![w] = new]
             /\ new.incoming = me.incoming /\ new.drop = me.drop
             /\ label = "settle" => new.resting \in OrderIds /\ new.restingRow \in OrderRow
             /\ label = "finish" => new.resting = me.resting /\ new.restingRow = me.restingRow
             /\ new.drop => new.resting \in OrderIds /\ new.restingRow \in OrderRow
      <3>1. CASE CanMatch(me.incoming, orders[e.id])
        <4> DEFINE new == [me EXCEPT !.resting = e.id, !.restingRow = orders[e.id], !.scan = {}]
        <4>1. /\ new \in RunType /\ new.incoming = me.incoming /\ new.drop = me.drop
              /\ new.resting \in OrderIds /\ new.restingRow \in OrderRow
          BY <1>1, <2>2 DEF RunType
        <4>2. GoTo(w, "settle") /\ local' = [local EXCEPT ![w] = new]
          BY <1>1, <2>1, <3>1 DEF RunsTyped
        <4> HIDE DEF new
        <4> QED BY <4>1, <4>2
      <3>2. CASE ~CanMatch(me.incoming, orders[e.id])
        <4> DEFINE new == [me EXCEPT !.scan = {}]
        <4>1. /\ new \in RunType /\ new.incoming = me.incoming /\ new.drop = me.drop
              /\ new.resting = me.resting /\ new.restingRow = me.restingRow
          BY <1>1 DEF RunType
        <4>2. GoTo(w, "finish") /\ local' = [local EXCEPT ![w] = new]
          BY <2>1, <3>2
        <4> HIDE DEF new
        <4> QED BY <1>1, <4>1, <4>2 DEF RunShaped
      <3> QED BY <3>1, <3>2
    <2>4. pc[w] = "scan" /\ label \in Labels
      BY <2>1 DEF AtEntry, Labels
    <2>5. /\ pc' \in [Workers -> Labels] /\ local' \in [Workers -> RunType]
          /\ job' \in [Workers -> OrderIds \cup {NoOrder}]
          /\ sym' \in [Workers -> Symbols \cup {NoOrder}]
          /\ pc'[w] = label /\ local'[w] = new /\ Alone(w)
      BY <1>1, <1>2, <2>3, <2>4, OwnTurn
    <2>6. RunShaped(w)'
      BY <1>1, <1>2, <2>3, <2>4, <2>5 DEF RunShaped, Phase, Syncing, Reading
    <2> QED BY <1>1, <1>2, <1>6, <2>5, <2>6, TurnTyped, RedisStands DEF ChooseEntry
  <1>7. CASE ScanExhausted(w)
    <2>1. GoTo(w, "finish") /\ local' = [local EXCEPT ![w] = me] /\ pc[w] = "scan"
      BY <1>1, <1>7 DEF ScanExhausted, RunsTyped
    <2>2. /\ pc' \in [Workers -> Labels] /\ local' \in [Workers -> RunType]
          /\ job' \in [Workers -> OrderIds \cup {NoOrder}]
          /\ sym' \in [Workers -> Symbols \cup {NoOrder}]
          /\ pc'[w] = "finish" /\ local'[w] = me /\ Alone(w)
      <3> "finish" \in Labels
        BY DEF Labels
      <3> QED BY <1>1, <1>2, <2>1, OwnTurn
    <2>3. RunShaped(w)'
      BY <1>1, <1>2, <2>1, <2>2 DEF RunShaped, Phase, Syncing, Reading
    <2> QED BY <1>1, <1>2, <1>7, <2>2, <2>3, TurnTyped, RedisStands DEF ScanExhausted
  <1> QED BY <1>3, <1>4, <1>5, <1>6, <1>7 DEF Scan

-----------------------------------------------------------------------------
(* Types: settlement and syncOrderBook.                                    *)

(* What a ledger step leaves of the tables when nothing is deleted or not. *)
LEMMA TradesOnlyGrow ==
    LedgerInv /\ [LedgerNext]_ledgerVars => DOMAIN trades \subseteq DOMAIN trades'
  <1> SUFFICES ASSUME LedgerInv, [LedgerNext]_ledgerVars
               PROVE  DOMAIN trades \subseteq DOMAIN trades'
    OBVIOUS
  <1>1. CASE UNCHANGED trades
    BY <1>1
  <1>2. CASE \E i, r \in OrderIds : SettleTrade(i, r)
    <2>1. PICK i \in OrderIds, r \in OrderIds : SettleTrade(i, r)
      BY <1>2
    <2>2. DOMAIN trades = 1 .. Len(trades) /\ Len(trades) \in Nat
          /\ DOMAIN trades' = 1 .. Len(trades) + 1
      BY <2>1, RecordFacts, Zenon
    <2> QED BY <2>2
  <1>3. UNCHANGED trades \/ \E i, r \in OrderIds : SettleTrade(i, r)
    BY Zenon DEF LedgerNext, ledgerVars, Submit, InsertMarket, InsertLimit, InsertRow, CancelOpen,
           ExpireLimit, DeleteOrder, Settle, SettleUnfillable, MarketClose
  <1> QED BY <1>1, <1>2, <1>3

(* The two transactions of settle() that write.                            *)
LEMMA SettleTyped ==
    ASSUME EngineTyped, LedgerInv', NEW w \in Workers, TradePair(w) \/ CloseUnfillable(w)
    PROVE  RedisTyped' /\ RunsTyped'
  <1> DEFINE me == local[w]
             i == job[w]
             r == me.resting
  <1>1. me \in RunType /\ RunShaped(w) /\ RunsTyped /\ RedisTyped /\ LedgerInv
    BY DEF EngineTyped, RunsTyped
  <1>2. pc[w] = "settle" /\ UNCHANGED <<job, sym>> /\ UNCHANGED redisVars
    BY DEF TradePair, CloseUnfillable
  <1>3. Settleable(i, r) /\ i \in OrderIds /\ r \in OrderIds
    <2>1. Settleable(i, r)
      BY Zenon DEF TradePair, CloseUnfillable, SettleTrade, SettleUnfillable
    <2> QED BY <1>1, <2>1, RowTyped DEF Settleable
  <1>4. Settle(i, r)
    BY DEF TradePair, CloseUnfillable, Settle
  <1>5. DOMAIN trades \subseteq DOMAIN trades' /\ DOMAIN orders' = DOMAIN orders
    <2>1. DOMAIN orders' = DOMAIN orders
      BY <1>1, <1>3, <1>4, TradeFacts DEF Settle, SettleUnfillable
    <2> QED BY <1>1, <1>3, <1>4, <2>1, TradesOnlyGrow DEF LedgerNext
  <1>6. \A o \in {i, r} :
           /\ o \in OrderIds /\ orders[o] \in OrderRow /\ orders'[o] \in OrderRow
           /\ o \in DOMAIN orders
    <2>1. i \in DOMAIN orders /\ r \in DOMAIN orders
      BY <1>3 DEF Settleable
    <2> QED BY <1>1, <1>5, <2>1 DEF LedgerInv, LedgerTypeOK
  <1>7. CASE TradePair(w)
    <2> DEFINE tasks == TradedTasks(orders', i, r)
               new == [me EXCEPT !.trade = Len(trades'), !.next = "reload", !.changed = tasks]
    <2>1. tasks \in Seq(TaskType) /\ tasks # <<>>
      <3>1. BuyId(i, r) \in {i, r} /\ SellId(i, r) \in {i, r}
        BY DEF BuyId, SellId
      <3> QED BY <1>6, <3>1, TaskTyped DEF TradedTasks
    <2>2. Len(trades') \in Nat /\ Len(trades') \in DOMAIN trades'
      <3>1. SettleTrade(i, r)
        BY <1>7 DEF TradePair
      <3>2. trades' \in Seq(Trade) /\ Len(trades) \in Nat /\ DOMAIN trades' = 1 .. Len(trades) + 1
        BY <1>1, <1>3, <3>1, RecordFacts
      <3> QED BY <3>2
    <2>3. local' = [local EXCEPT ![w] = new] /\ GoTo(w, "publish")
      BY <1>1, <1>7 DEF TradePair, RunsTyped
    <2> HIDE DEF tasks
    <2>4. /\ new \in RunType /\ new.incoming = me.incoming /\ new.drop = me.drop
          /\ new.resting = me.resting /\ new.restingRow = me.restingRow
          /\ new.changed = tasks /\ new.next = "reload" /\ new.trade \in DOMAIN trades'
      BY <1>1, <2>1, <2>2 DEF RunType, Labels
    <2> HIDE DEF new
    <2>5. "publish" \in Labels
      BY DEF Labels
    <2>6. /\ pc' \in [Workers -> Labels] /\ local' \in [Workers -> RunType]
          /\ job' \in [Workers -> OrderIds \cup {NoOrder}]
          /\ sym' \in [Workers -> Symbols \cup {NoOrder}]
          /\ pc'[w] = "publish" /\ local'[w] = new /\ Alone(w)
      BY <1>1, <1>2, <2>3, <2>4, <2>5, OwnTurn
    <2>7. RunShaped(w)'
      BY <1>1, <1>2, <2>1, <2>4, <2>6 DEF RunShaped, Phase, Syncing, Reading
    <2> QED BY <1>1, <1>2, <1>5, <2>6, <2>7, TurnTyped, RedisStands
  <1>8. CASE CloseUnfillable(w)
    <2> DEFINE blamed == IF orders'[i] # orders[i] THEN i ELSE r
               other == IF blamed = i THEN r ELSE i
               tasks == <<Task(blamed, orders'[blamed]), Task(other, orders[other])>>
    <2>1. tasks \in Seq(TaskType) /\ tasks # <<>>
      BY <1>6, TaskTyped
    <2>2. SyncThen(w, tasks, "reload", me)
      BY <1>8 DEF CloseUnfillable
    <2> HIDE DEF tasks
    <2>3. "reload" \in Labels
      BY DEF Labels
    <2>4. /\ pc' \in [Workers -> Labels] /\ local' \in [Workers -> RunType]
          /\ job' \in [Workers -> OrderIds \cup {NoOrder}]
          /\ sym' \in [Workers -> Symbols \cup {NoOrder}]
          /\ pc'[w] = "sync" /\ local'[w].incoming = me.incoming
          /\ local'[w].resting = me.resting /\ local'[w].restingRow = me.restingRow
          /\ local'[w].drop = me.drop /\ local'[w].changed = tasks
          /\ local'[w].next = "reload" /\ Alone(w)
      BY <1>1, <1>2, <2>1, <2>2, <2>3, OwnSync
    <2>5. RunShaped(w)'
      BY <1>1, <1>2, <2>1, <2>4 DEF RunShaped, Phase, Syncing, Reading
    <2> QED BY <1>1, <1>2, <1>5, <2>4, <2>5, TurnTyped, RedisStands
  <1> QED BY <1>7, <1>8

LEMMA TaskList ==
    \A a, b \in TaskType :
        /\ <<a>> \in Seq(TaskType) /\ <<a, b>> \in Seq(TaskType)
        /\ <<a>> # <<>> /\ <<a, b>> # <<>>
  OBVIOUS

(* The ways a settlement writes nothing.                                   *)
LEMMA RefusalTyped ==
    ASSUME EngineTyped, NEW w \in Workers, SettleMissing(w) \/ SettleRefused(w)
    PROVE  RedisTyped' /\ RunsTyped'
  <1> DEFINE me == local[w]
             i == job[w]
             r == me.resting
  <1>1. me \in RunType /\ RunShaped(w) /\ RunsTyped /\ RedisTyped /\ LedgerInv
    BY DEF EngineTyped, RunsTyped
  <1>2. pc[w] = "settle" /\ UNCHANGED <<job, sym, trades>> /\ UNCHANGED redisVars
    BY DEF SettleMissing, SettleRefused, ledgerVars
  <1>3. CASE (\E label \in {"reload", "release"} : GoTo(w, label))
             /\ (\/ local' = [local EXCEPT ![w].drop = TRUE]
                 \/ local' = [local EXCEPT ![w].failed = TRUE])
    <2>1. PICK label \in {"reload", "release"}, new \in RunType :
             /\ GoTo(w, label) /\ local' = [local EXCEPT ![w] = new]
             /\ new.resting = me.resting /\ new.restingRow = me.restingRow
      <3>1. CASE local' = [local EXCEPT ![w].drop = TRUE]
        <4>1. [me EXCEPT !.drop = TRUE] \in RunType
          BY <1>1 DEF RunType
        <4> QED BY <1>1, <1>3, <3>1, <4>1 DEF RunType
      <3>2. CASE local' = [local EXCEPT ![w].failed = TRUE]
        <4>1. [me EXCEPT !.failed = TRUE] \in RunType
          BY <1>1 DEF RunType
        <4> QED BY <1>1, <1>3, <3>2, <4>1 DEF RunType
      <3> QED BY <1>3, <3>1, <3>2
    <2>2. label \in Labels
      BY DEF Labels
    <2>3. /\ pc' \in [Workers -> Labels] /\ local' \in [Workers -> RunType]
          /\ job' \in [Workers -> OrderIds \cup {NoOrder}]
          /\ sym' \in [Workers -> Symbols \cup {NoOrder}]
          /\ pc'[w] = label /\ local'[w] = new /\ Alone(w)
      BY <1>1, <1>2, <2>1, <2>2, OwnTurn
    <2>4. RunShaped(w)'
      BY <1>1, <1>2, <2>1, <2>3 DEF RunShaped, Phase, Syncing, Reading
    <2> QED BY <1>1, <1>2, <2>3, <2>4, TurnTyped, RedisStands
  <1>4. CASE \E tasks \in {<<Task(i, orders[i]), Task(r, orders[r])>>, <<Task(i, orders[i])>>} :
                SyncThen(w, tasks, "reload", me) /\ {i, r} \subseteq DOMAIN orders
    <2>1. PICK tasks \in {<<Task(i, orders[i]), Task(r, orders[r])>>, <<Task(i, orders[i])>>} :
             SyncThen(w, tasks, "reload", me) /\ {i, r} \subseteq DOMAIN orders
      BY <1>4
    <2>2. tasks \in Seq(TaskType) /\ tasks # <<>> /\ "reload" \in Labels
      <3>1. Task(i, orders[i]) \in TaskType /\ Task(r, orders[r]) \in TaskType
        BY <1>1, <2>1, RowTyped, TaskTyped
      <3>2. "reload" \in Labels
        BY DEF Labels
      <3> QED BY <2>1, <3>1, <3>2, TaskList, Zenon
    <2>3. /\ pc' \in [Workers -> Labels] /\ local' \in [Workers -> RunType]
          /\ job' \in [Workers -> OrderIds \cup {NoOrder}]
          /\ sym' \in [Workers -> Symbols \cup {NoOrder}]
          /\ pc'[w] = "sync" /\ local'[w].incoming = me.incoming
          /\ local'[w].resting = me.resting /\ local'[w].restingRow = me.restingRow
          /\ local'[w].drop = me.drop /\ local'[w].changed = tasks
          /\ local'[w].next = "reload" /\ Alone(w)
      BY <1>1, <1>2, <2>1, <2>2, OwnSync
    <2>4. RunShaped(w)'
      BY <1>1, <1>2, <2>2, <2>3 DEF RunShaped, Phase, Syncing, Reading
    <2> QED BY <1>1, <1>2, <2>3, <2>4, TurnTyped, RedisStands
  <1> QED BY <1>3, <1>4 DEF SettleMissing, SettleRefused

LEMMA AnnounceTyped ==
    ASSUME EngineTyped, NEW w \in Workers, Announce(w)
    PROVE  RedisTyped' /\ RunsTyped'
  <1> DEFINE me == local[w]
             new == [me EXCEPT !.trade = 0]
  <1>1. me \in RunType /\ RunShaped(w) /\ RunsTyped /\ RedisTyped
    BY DEF EngineTyped, RunsTyped
  <1>2. /\ pc[w] = "publish" /\ UNCHANGED <<job, sym, trades>> /\ UNCHANGED redisVars
        /\ GoTo(w, "sync") /\ local' = [local EXCEPT ![w] = new]
    BY <1>1 DEF Announce, ledgerVars, RunsTyped
  <1>3. /\ new \in RunType /\ new.incoming = me.incoming /\ new.drop = me.drop
        /\ new.resting = me.resting /\ new.restingRow = me.restingRow
        /\ new.changed = me.changed /\ new.next = me.next
    BY <1>1 DEF RunType
  <1> HIDE DEF new
  <1>4. "sync" \in Labels
    BY DEF Labels
  <1>5. /\ pc' \in [Workers -> Labels] /\ local' \in [Workers -> RunType]
        /\ job' \in [Workers -> OrderIds \cup {NoOrder}]
        /\ sym' \in [Workers -> Symbols \cup {NoOrder}]
        /\ pc'[w] = "sync" /\ local'[w] = new /\ Alone(w)
    BY <1>1, <1>2, <1>3, <1>4, OwnTurn
  <1>6. RunShaped(w)'
    BY <1>1, <1>2, <1>3, <1>5 DEF RunShaped, Phase, Syncing, Reading
  <1> QED BY <1>1, <1>2, <1>5, <1>6, TurnTyped, RedisStands

(* syncOrderBook.                                                          *)
LEMMA FirstTask ==
    ASSUME NEW tasks \in Seq(TaskType), tasks # <<>>
    PROVE  Head(tasks) \in TaskType /\ Tail(tasks) \in Seq(TaskType)
  OBVIOUS

LEMMA SyncReadTyped ==
    ASSUME EngineTyped, NEW w \in Workers, SyncRead(w)
    PROVE  RedisTyped' /\ RunsTyped'
  <1> DEFINE me == local[w]
             task == Head(me.changed)
             draw == NeedsMember(task)
             s == task.row.symbol
             m == IF draw THEN sequence[s] + 1 ELSE shown[task.id].member
             new == [me EXCEPT !.member = m]
  <1>1. me \in RunType /\ RunShaped(w) /\ RunsTyped /\ RedisTyped
    BY DEF EngineTyped, RunsTyped
  <1>2. /\ pc[w] = "sync" /\ UNCHANGED <<job, sym, trades, book, shown, lock>>
        /\ GoTo(w, "write") /\ local' = [local EXCEPT ![w] = new]
        /\ sequence' = IF draw THEN [sequence EXCEPT ![s] = @ + 1] ELSE sequence
    BY <1>1 DEF SyncRead, ledgerVars, RunsTyped
  <1>3. task \in TaskType
    BY <1>1, <1>2, FirstTask DEF RunShaped, Syncing, RunType
  <1>4. task.id \in OrderIds /\ s \in Symbols
    BY <1>3 DEF TaskType, OrderRow
  <1>5. m \in Nat
    BY <1>1, <1>4 DEF RedisTyped, HashType
  <1> HIDE DEF m, task, draw, s
  <1>6. RedisTyped'
    BY <1>1, <1>2, <1>4 DEF RedisTyped
  <1>7. /\ new \in RunType /\ new.incoming = me.incoming /\ new.drop = me.drop
        /\ new.resting = me.resting /\ new.restingRow = me.restingRow
        /\ new.changed = me.changed /\ new.next = me.next
    BY <1>1, <1>5 DEF RunType
  <1> HIDE DEF new
  <1>8. "write" \in Labels
    BY DEF Labels
  <1>9. /\ pc' \in [Workers -> Labels] /\ local' \in [Workers -> RunType]
        /\ job' \in [Workers -> OrderIds \cup {NoOrder}]
        /\ sym' \in [Workers -> Symbols \cup {NoOrder}]
        /\ pc'[w] = "write" /\ local'[w] = new /\ Alone(w)
    BY <1>1, <1>2, <1>7, <1>8, OwnTurn
  <1>10. RunShaped(w)'
    BY <1>1, <1>2, <1>7, <1>9 DEF RunShaped, Phase, Syncing, Reading
  <1> QED BY <1>1, <1>2, <1>6, <1>9, <1>10, TurnTyped

LEMMA SyncWriteTyped ==
    ASSUME EngineTyped, NEW w \in Workers, SyncWrite(w)
    PROVE  RedisTyped' /\ RunsTyped'
  <1> DEFINE me == local[w]
             task == Head(me.changed)
             row == task.row
             k == <<row.symbol, row.side>>
             put == IF task.keep THEN {Entry(task.id, me.member, row)} ELSE {}
             new == [me EXCEPT !.member = 0]
  <1>1. me \in RunType /\ RunShaped(w) /\ RunsTyped /\ RedisTyped
    BY DEF EngineTyped, RunsTyped
  <1>2. /\ pc[w] = "write" /\ UNCHANGED <<job, sym, trades, sequence, lock>>
        /\ SyncThen(w, Tail(me.changed), me.next, new)
    BY DEF SyncWrite, ledgerVars
  <1>3. task \in TaskType /\ Tail(me.changed) \in Seq(TaskType) /\ me.next \in Labels
        /\ me.next \in {"reload", "range", "scan", "release"}
    BY <1>1, <1>2, FirstTask DEF RunShaped, Syncing, RunType
  <1>4. task.id \in OrderIds /\ row \in OrderRow /\ me.member \in Nat /\ task.keep \in BOOLEAN
    BY <1>1, <1>3 DEF TaskType, RunType
  <1>5. put \subseteq EntryType
    BY <1>4, ScoreTyped
  <1>6. PICK others \in SUBSET book[k] : book' = [book EXCEPT ![k] = others \cup put]
    BY Zenon DEF SyncWrite
  <1>7. PICK hash : shown' = [shown EXCEPT ![task.id] = hash] /\ hash \in HashType
    <2>1. [member |-> me.member, filled |-> row.filled, status |-> row.status] \in HashType
      BY <1>4 DEF OrderRow, HashType
    <2>2. NoHash \in HashType
      BY DEF NoHash, HashType, Statuses, OpenStatuses
    <2> QED BY Zenon, <2>1, <2>2 DEF SyncWrite
  <1>8. k \in Symbols \X Sides
    BY <1>4 DEF OrderRow
  <1> HIDE DEF task, row, k, put
  <1>9. RedisTyped'
    <2>1. book[k] \subseteq EntryType
      BY <1>1, <1>8 DEF RedisTyped
    <2>2. book' \in [Symbols \X Sides -> SUBSET EntryType]
      BY <1>1, <1>5, <1>6, <2>1 DEF RedisTyped
    <2> QED BY <1>1, <1>2, <1>7, <2>2 DEF RedisTyped
  <1>10. /\ new \in RunType /\ new.incoming = me.incoming /\ new.drop = me.drop
         /\ new.resting = me.resting /\ new.restingRow = me.restingRow
    BY <1>1 DEF RunType
  <1> HIDE DEF new
  <1>11. /\ pc' \in [Workers -> Labels] /\ local' \in [Workers -> RunType]
         /\ job' \in [Workers -> OrderIds \cup {NoOrder}]
         /\ sym' \in [Workers -> Symbols \cup {NoOrder}]
         /\ pc'[w] = (IF Tail(me.changed) = <<>> THEN me.next ELSE "sync")
         /\ local'[w].incoming = new.incoming
         /\ local'[w].resting = new.resting /\ local'[w].restingRow = new.restingRow
         /\ local'[w].drop = new.drop /\ local'[w].changed = Tail(me.changed)
         /\ Tail(me.changed) # <<>> => local'[w].next = me.next
         /\ Alone(w)
    <2> DEFINE rest == Tail(me.changed)
    <2>1. SyncThen(w, rest, me.next, new) /\ rest \in Seq(TaskType) /\ me.next \in Labels
      BY <1>2, <1>3
    <2> HIDE DEF rest, me
    <2>2. /\ pc' \in [Workers -> Labels] /\ local' \in [Workers -> RunType]
          /\ job' \in [Workers -> OrderIds \cup {NoOrder}]
          /\ sym' \in [Workers -> Symbols \cup {NoOrder}]
          /\ pc'[w] = (IF rest = <<>> THEN me.next ELSE "sync")
          /\ local'[w].incoming = new.incoming
          /\ local'[w].resting = new.resting /\ local'[w].restingRow = new.restingRow
          /\ local'[w].drop = new.drop /\ local'[w].changed = rest
          /\ rest # <<>> => local'[w].next = me.next
          /\ Alone(w)
      BY <1>1, <1>2, <1>10, <2>1, OwnSync
    <2> QED BY <2>2 DEF rest
  <1>12. RunShaped(w)'
    <2>1. Phase(w)' = Phase(w) /\ Phase(w) = me.next
      BY <1>2, <1>3, <1>11 DEF Phase, Syncing
    <2> QED BY <1>1, <1>2, <1>3, <1>10, <1>11, <2>1 DEF RunShaped, Syncing, Reading
  <1> QED BY <1>1, <1>2, <1>9, <1>11, <1>12, TurnTyped

-----------------------------------------------------------------------------
(* Types: the end of a run, failures and the whole of Next.                *)

(* The end of the matching loop.                                           *)
LEMMA FinishTyped ==
    ASSUME EngineTyped, LedgerInv', NEW w \in Workers, CancelRemainder(w) \/ RestInBook(w)
    PROVE  RedisTyped' /\ RunsTyped'
  <1> DEFINE me == local[w]
             o == job[w]
  <1>1. me \in RunType /\ RunShaped(w) /\ RunsTyped /\ RedisTyped /\ LedgerInv
    BY DEF EngineTyped, RunsTyped
  <1>2. /\ pc[w] = "finish" /\ UNCHANGED <<job, sym, trades>> /\ UNCHANGED redisVars
        /\ o \in OrderIds
    BY <1>1 DEF CancelRemainder, RestInBook, CancelOpen, ledgerVars, RunShaped
  <1>3. "release" \in Labels
    BY DEF Labels
  <1>4. CASE GoTo(w, "release") /\ UNCHANGED local
    <2>1. local' = [local EXCEPT ![w] = me]
      BY <1>1, <1>4 DEF RunsTyped
    <2>2. /\ pc' \in [Workers -> Labels] /\ local' \in [Workers -> RunType]
          /\ job' \in [Workers -> OrderIds \cup {NoOrder}]
          /\ sym' \in [Workers -> Symbols \cup {NoOrder}]
          /\ pc'[w] = "release" /\ local'[w] = me /\ Alone(w)
      BY <1>1, <1>2, <1>3, <1>4, <2>1, OwnTurn
    <2>3. RunShaped(w)'
      BY <1>1, <1>2, <2>2 DEF RunShaped, Phase, Syncing, Reading
    <2> QED BY <1>1, <1>2, <2>2, <2>3, TurnTyped, RedisStands
  <1>5. CASE \E t \in TaskType : SyncThen(w, <<t>>, "release", me)
    <2>1. PICK t \in TaskType : SyncThen(w, <<t>>, "release", me)
      BY <1>5
    <2> DEFINE tasks == <<t>>
    <2>2. tasks \in Seq(TaskType) /\ tasks # <<>>
      BY TaskList
    <2> SyncThen(w, tasks, "release", me)
      BY <2>1
    <2> HIDE DEF tasks, me
    <2>3. /\ pc' \in [Workers -> Labels] /\ local' \in [Workers -> RunType]
          /\ job' \in [Workers -> OrderIds \cup {NoOrder}]
          /\ sym' \in [Workers -> Symbols \cup {NoOrder}]
          /\ pc'[w] = "sync" /\ local'[w].incoming = me.incoming
          /\ local'[w].resting = me.resting /\ local'[w].restingRow = me.restingRow
          /\ local'[w].drop = me.drop /\ local'[w].changed = tasks
          /\ local'[w].next = "release" /\ Alone(w)
      BY <1>1, <1>2, <1>3, <2>1, <2>2, OwnSync
    <2>4. RunShaped(w)'
      BY <1>1, <1>2, <2>2, <2>3 DEF RunShaped, Phase, Syncing, Reading, me
    <2> QED BY <1>1, <1>2, <2>3, <2>4, TurnTyped, RedisStands
  <1>6. CASE CancelRemainder(w)
    <2>1. CASE HasOpenStatus(o)
      <3>1. CancelOpen(o) /\ SyncThen(w, <<Task(o, orders'[o])>>, "release", me)
        BY <1>6, <2>1 DEF CancelRemainder
      <3>2. o \in DOMAIN orders'
        BY <2>1, <3>1 DEF CancelOpen, HasOpenStatus
      <3>3. orders'[o] \in OrderRow
        BY <3>2 DEF LedgerInv, LedgerTypeOK
      <3> QED BY <1>2, <1>5, <3>1, <3>3, TaskTyped
    <2>2. CASE ~HasOpenStatus(o)
      BY <1>4, <1>6, <2>2 DEF CancelRemainder
    <2> QED BY <2>1, <2>2
  <1>7. CASE RestInBook(w)
    <2>1. me.incoming \in OrderRow
      BY <1>1, <1>2 DEF RunShaped, Phase, Syncing, Reading
    <2>2. SyncThen(w, <<Task(o, me.incoming)>>, "release", me)
      BY <1>7 DEF RestInBook
    <2> QED BY <1>2, <1>5, <2>1, <2>2, TaskTyped
  <1> QED BY <1>6, <1>7

(* Steps that only move a run: into and out of the lock, or to its end.    *)
LEMMA MoveTyped ==
    ASSUME RunsTyped, NEW w \in Workers, pc[w] \notin {"idle", "done", "fail"},
           NEW label \in {"reload", "release", "done", "fail"}, GoTo(w, label),
           local' = local \/ local' = [local EXCEPT ![w].failed = TRUE],
           UNCHANGED <<job, sym, trades>>
    PROVE  RunsTyped'
  <1> DEFINE me == local[w]
  <1>1. me \in RunType /\ RunShaped(w)
    BY DEF RunsTyped
  <1>2. PICK new \in RunType :
           /\ local' = [local EXCEPT ![w] = new]
           /\ new.drop = me.drop /\ new.resting = me.resting /\ new.restingRow = me.restingRow
    <2>1. CASE local' = local
      BY <1>1, <2>1 DEF RunsTyped
    <2>2. CASE local' = [local EXCEPT ![w].failed = TRUE]
      <3>1. [me EXCEPT !.failed = TRUE] \in RunType
        BY <1>1 DEF RunType
      <3> QED BY <1>1, <2>2, <3>1 DEF RunType
    <2> QED BY <2>1, <2>2
  <1>3. label \in Labels
    BY DEF Labels
  <1>4. /\ pc' \in [Workers -> Labels] /\ local' \in [Workers -> RunType]
        /\ job' \in [Workers -> OrderIds \cup {NoOrder}]
        /\ sym' \in [Workers -> Symbols \cup {NoOrder}]
        /\ pc'[w] = label /\ local'[w] = new /\ Alone(w)
    BY <1>2, <1>3, OwnTurn
  <1>5. RunShaped(w)'
    BY <1>1, <1>2, <1>4 DEF RunShaped, Phase, Syncing, Reading
  <1> QED BY <1>4, <1>5, TurnTyped

(* A worker that is rid of its job.                                        *)
LEMMA BlankTyped == Blank \in RunType
  BY DEF Blank, RunType, Labels

LEMMA IdleTyped ==
    ASSUME RunsTyped, NEW w \in Workers, GoIdle(w), UNCHANGED trades
    PROVE  /\ RunsTyped' /\ Alone(w)
           /\ pc'[w] = "idle" /\ local'[w] = Blank /\ job'[w] = NoOrder /\ sym'[w] = NoOrder
  <1>1. GoTo(w, "idle") /\ local' = [local EXCEPT ![w] = Blank]
    BY DEF GoIdle
  <1>2. "idle" \in Labels
    BY DEF Labels
  <1>3. /\ pc' \in [Workers -> Labels] /\ local' \in [Workers -> RunType]
        /\ pc'[w] = "idle" /\ local'[w] = Blank
        /\ \A v \in Workers \ {w} : pc'[v] = pc[v] /\ local'[v] = local[v]
    BY <1>1, <1>2, BlankTyped, Turn
  <1>4. /\ job' \in [Workers -> OrderIds \cup {NoOrder}]
        /\ sym' \in [Workers -> Symbols \cup {NoOrder}]
        /\ job'[w] = NoOrder /\ sym'[w] = NoOrder
        /\ \A v \in Workers \ {w} : job'[v] = job[v] /\ sym'[v] = sym[v]
    BY DEF GoIdle, RunsTyped
  <1>5. Alone(w)
    BY <1>3, <1>4 DEF Alone
  <1>6. RunShaped(w)'
    <2>1. local'[w].drop = FALSE /\ local'[w].next = "idle"
      BY <1>3 DEF Blank
    <2> QED BY <1>3, <2>1 DEF RunShaped, Phase, Syncing, Reading
  <1>7. RunsTyped'
    BY <1>3, <1>4, <1>5, <1>6, TurnTyped
  <1> QED BY <1>3, <1>4, <1>5, <1>7

LEMMA TakeTyped ==
    ASSUME EngineTyped, NEW w \in Workers, NEW o \in OrderIds, TakeJob(w, o)
    PROVE  RunsTyped' /\ Alone(w) /\ job'[w] = o /\ local' = local
           /\ pc'[w] = (IF RowOpen(o) THEN "lock" ELSE "done")
           /\ (RowOpen(o) => sym'[w] = orders[o].symbol)
  <1>1. RunsTyped /\ local[w] \in RunType /\ RunShaped(w) /\ pc[w] = "idle"
    BY DEF EngineTyped, RunsTyped, TakeJob
  <1>2. /\ pc' \in [Workers -> Labels] /\ job' \in [Workers -> OrderIds \cup {NoOrder}]
        /\ sym' \in [Workers -> Symbols \cup {NoOrder}]
        /\ local' = local /\ Alone(w) /\ job'[w] = o
        /\ pc'[w] = (IF RowOpen(o) THEN "lock" ELSE "done")
        /\ RowOpen(o) => sym'[w] \in Symbols /\ sym'[w] = orders[o].symbol
    <2>1. CASE RowOpen(o)
      <3>1. orders[o].symbol \in Symbols
        BY <2>1, RowTyped DEF EngineTyped, RowOpen, OrderRow
      <3> QED BY <1>1, <2>1, <3>1 DEF TakeJob, RunsTyped, GoTo, Alone, Labels
    <2>2. CASE ~RowOpen(o)
      BY <1>1, <2>2 DEF TakeJob, RunsTyped, GoTo, Alone, Labels
    <2> QED BY <2>1, <2>2
  <1>3. RunShaped(w)'
    BY <1>1, <1>2 DEF RunShaped, Phase, Syncing, Reading
  <1>4. DOMAIN trades' = DOMAIN trades
    BY DEF TakeJob, ledgerVars
  <1> QED BY <1>1, <1>2, <1>3, <1>4, TurnTyped DEF RunsTyped

LEMMA LoseLockTyped == RedisTyped /\ UNCHANGED <<book, shown, sequence>> =>
                          \A w \in Workers : LoseLock(w) => RedisTyped'
  BY DEF RedisTyped, LoseLock

LEMMA TroubleTyped ==
    ASSUME EngineTyped, NEW w \in Workers, Trouble(w)
    PROVE  RedisTyped' /\ RunsTyped'
  <1>1. RunsTyped /\ RedisTyped
    BY DEF EngineTyped
  <1>2. CASE LockTimeout(w)
    BY <1>1, <1>2, MoveTyped, RedisStands DEF LockTimeout, ledgerVars
  <1>3. CASE Throw(w)
    <2>1. /\ pc[w] \notin {"idle", "done", "fail"} /\ UNCHANGED <<job, sym, trades>>
          /\ UNCHANGED <<book, shown, sequence>>
      BY <1>3 DEF Throw, ledgerVars
    <2>2. CASE pc[w] \in {"lock", "release"}
      <3>1. GoTo(w, "fail") /\ LoseLock(w) /\ local' = local
        BY <1>3, <2>2 DEF Throw
      <3> QED BY <1>1, <2>1, <3>1, MoveTyped, LoseLockTyped
    <2>3. CASE pc[w] \notin {"lock", "release"}
      <3>1. GoTo(w, "release") /\ local' = [local EXCEPT ![w].failed = TRUE] /\ UNCHANGED lock
        BY <1>3, <2>3 DEF Throw
      <3> QED BY <1>1, <2>1, <3>1, MoveTyped, RedisStands DEF redisVars
    <2> QED BY <2>2, <2>3
  <1>4. CASE Crash(w)
    BY <1>1, <1>4, IdleTyped, LoseLockTyped DEF Crash, ledgerVars
  <1> QED BY <1>2, <1>3, <1>4 DEF Trouble

LEMMA LockTyped ==
    ASSUME EngineTyped, NEW w \in Workers, AcquireLock(w) \/ ReleaseLock(w)
    PROVE  RedisTyped' /\ RunsTyped'
  <1>1. RunsTyped /\ RedisTyped
    BY DEF EngineTyped
  <1>2. CASE AcquireLock(w)
    <2>1. RedisTyped'
      BY <1>1, <1>2 DEF AcquireLock, RedisTyped
    <2> QED BY <1>1, <1>2, <2>1, MoveTyped DEF AcquireLock, ledgerVars
  <1>3. CASE ReleaseLock(w)
    <2>1. RedisTyped'
      BY <1>1, <1>3 DEF ReleaseLock, RedisTyped
    <2>2. RunsTyped'
      <3>1. PICK label \in {"done", "fail"} : GoTo(w, label)
        BY <1>3 DEF ReleaseLock
      <3> QED BY <1>1, <1>3, <3>1, MoveTyped DEF ReleaseLock, ledgerVars
    <2> QED BY <2>1, <2>2
  <1> QED BY <1>2, <1>3

LEMMA WorkTyped ==
    ASSUME EngineTyped, LedgerInv', NEW w \in Workers, Work(w)
    PROVE  RedisTyped' /\ RunsTyped'
  <1>1. RunsTyped /\ RedisTyped
    BY DEF EngineTyped
  <1>2. CASE Reload(w)
    BY Zenon, <1>1, <1>2, ReloadTyped, RedisStands DEF Reload
  <1>3. CASE CompleteJob(w) \/ FailJob(w)
    BY <1>1, <1>3, IdleTyped, RedisStands DEF CompleteJob, FailJob, ledgerVars
  <1>4. CASE ReadBook(w) \/ Scan(w)
    BY <1>4, ScanTyped
  <1>5. CASE Settlement(w)
    BY <1>5, SettleTyped, RefusalTyped DEF Settlement
  <1>6. CASE Announce(w) \/ SyncRead(w) \/ SyncWrite(w)
    BY <1>6, AnnounceTyped, SyncReadTyped, SyncWriteTyped
  <1>7. CASE CancelRemainder(w) \/ RestInBook(w)
    BY <1>7, FinishTyped
  <1>8. CASE AcquireLock(w) \/ ReleaseLock(w)
    BY <1>8, LockTyped
  <1> QED BY <1>2, <1>3, <1>4, <1>5, <1>6, <1>7, <1>8 DEF Work

LEMMA StandsTyped ==
    ASSUME RunsTyped, UNCHANGED workerVars, DOMAIN trades \subseteq DOMAIN trades'
    PROVE  RunsTyped'
  BY DEF RunsTyped, workerVars, RunShaped, Phase

LEMMA NextTyped == EngineTyped /\ [Next]_vars => EngineTyped'
  <1> SUFFICES ASSUME EngineTyped, [Next]_vars PROVE EngineTyped'
    OBVIOUS
  <1>1. LedgerInv /\ RedisTyped /\ RunsTyped
    BY DEF EngineTyped
  <1>2. LedgerInv' /\ [LedgerNext]_ledgerVars
    BY <1>1, EngineStep, NextInv
  <1>3. DOMAIN trades \subseteq DOMAIN trades'
    BY <1>1, <1>2, TradesOnlyGrow
  <1> SUFFICES RedisTyped' /\ RunsTyped'
    BY <1>2 DEF EngineTyped
  <1>4. ASSUME UNCHANGED <<redisVars, workerVars>> PROVE RedisTyped' /\ RunsTyped'
    BY <1>1, <1>3, <1>4, RedisStands, StandsTyped
  <1>5. CASE \E o \in OrderIds :
               \/ SubmitOrder(o) \/ EnqueueMatch(o) \/ CancelByUser(o) \/ Expire(o)
               \/ Delete(o) \/ RecoverStalled(o)
    BY <1>4, <1>5 DEF SubmitOrder, EnqueueMatch, CancelByUser, Expire, Delete, RecoverStalled,
                      engineVars
  <1>6. CASE CloseMarket \/ UNCHANGED vars
    BY <1>4, <1>6 DEF CloseMarket, vars, engineVars
  <1>7. ASSUME NEW w \in Workers, Work(w) PROVE RedisTyped' /\ RunsTyped'
    BY <1>2, <1>7, WorkTyped
  <1>8. ASSUME NEW w \in Workers, Trouble(w) PROVE RedisTyped' /\ RunsTyped'
    BY <1>8, TroubleTyped
  <1>9. ASSUME NEW w \in Workers, NEW o \in OrderIds, TakeJob(w, o) PROVE RedisTyped' /\ RunsTyped'
    BY <1>1, <1>9, TakeTyped, RedisStands DEF TakeJob
  <1>10. ASSUME NEW s \in Symbols, DeadLockExpires(s) \/ LiveLockExpires(s)
         PROVE  RedisTyped' /\ RunsTyped'
    <2>1. RedisTyped'
      BY <1>1, <1>10 DEF DeadLockExpires, LiveLockExpires, RedisTyped
    <2> QED BY <1>1, <1>3, <1>10, <2>1, StandsTyped DEF DeadLockExpires, LiveLockExpires
  <1> QED BY <1>5, <1>6, <1>7, <1>8, <1>9, <1>10 DEF Next

LEMMA InitTyped == Init => EngineTyped
  <1> SUFFICES ASSUME Init PROVE EngineTyped
    OBVIOUS
  <1>1. LedgerInv
    BY InitInv DEF Init
  <1>2. RedisTyped
    BY DEF Init, RedisTyped, NoHash, HashType, Statuses, OpenStatuses
  <1>3. RunsTyped
    <2>1. \A w \in Workers : pc[w] = "idle" /\ local[w] = Blank
      BY DEF Init
    <2>2. Blank.drop = FALSE
      BY DEF Blank
    <2>3. \A w \in Workers : RunShaped(w)
      BY <2>1, <2>2 DEF RunShaped, Phase, Syncing, Reading
    <2> QED BY <2>3, BlankTyped DEF Init, RunsTyped, Labels
  <1> QED BY <1>1, <1>2, <1>3 DEF EngineTyped

-----------------------------------------------------------------------------
(* A step of w inside its job: it stays with the job and its symbol, and   *)
(* no other worker is concerned.                                           *)
Goes(w, labels) ==
    /\ \E label \in labels : GoTo(w, label)
    /\ \E me : local' = [local EXCEPT ![w] = me]
    /\ UNCHANGED <<jobs, job, sym>>

LEMMA SyncGoes ==
    ASSUME NEW w, NEW tasks, NEW next, NEW me, SyncThen(w, tasks, next, me)
    PROVE  /\ \E label \in {next, "sync"} : GoTo(w, label)
           /\ \E x : local' = [local EXCEPT ![w] = x]
  BY DEF SyncThen

InsideLabels == Labels \ {"idle"}

LEMMA WorkGoes ==
    ASSUME EngineTyped, NEW w \in Workers, Work(w), ~CompleteJob(w), ~FailJob(w)
    PROVE  Goes(w, InsideLabels) /\ pc[w] \notin {"idle", "done", "fail"}
  <1> USE DEF InsideLabels
  <1>1. /\ RunShaped(w) /\ pc \in [Workers -> Labels] /\ local \in [Workers -> RunType]
        /\ pc' = pc => GoTo(w, pc[w])
    BY DEF EngineTyped, RunsTyped, GoTo
  <1>2. \E x : local = [local EXCEPT ![w] = x]
    BY <1>1
  <1>3. CASE AcquireLock(w) \/ ReleaseLock(w)
    BY <1>2, <1>3 DEF AcquireLock, ReleaseLock, Goes, Labels, queueVars
  <1>4. CASE Reload(w)
    BY <1>4, SyncGoes DEF Reload, Goes, Labels, queueVars
  <1>5. CASE ReadBook(w) \/ Scan(w)
    <2>1. CASE ReadBook(w)
      BY <2>1 DEF ReadBook, Goes, Labels, queueVars
    <2>2. CASE DropMissingEntry(w) \/ SkipOwnEntry(w)
      <3>1. pc[w] = "scan" /\ pc' = pc /\ UNCHANGED <<jobs, job, sym>>
        BY <2>2 DEF DropMissingEntry, SkipOwnEntry, AtEntry, queueVars
      <3>2. \E x : local' = [local EXCEPT ![w] = x]
        <4>1. PICK e : local' = [local EXCEPT ![w].scan = @ \ {e}]
          BY <2>2 DEF DropMissingEntry, SkipOwnEntry
        <4>2. local' = [local EXCEPT ![w] = [local[w] EXCEPT !.scan = @ \ {e}]]
          BY <1>1, <4>1
        <4> QED BY <4>2
      <3> QED BY <1>1, <3>1, <3>2 DEF Goes, Labels
    <2>3. CASE SyncClosedEntry(w)
      BY <2>3, SyncGoes DEF SyncClosedEntry, AtEntry, Goes, Labels, queueVars
    <2>4. CASE ChooseEntry(w)
      <3>1. pc[w] = "scan" /\ UNCHANGED <<jobs, job, sym>>
        BY <2>4 DEF ChooseEntry, AtEntry, queueVars
      <3>2. \E label \in {"settle", "finish"} : GoTo(w, label)
        BY <2>4 DEF ChooseEntry
      <3>3. \E x : local' = [local EXCEPT ![w] = x]
        <4>1. PICK e \in local[w].scan :
                 \/ local' = [local EXCEPT ![w].resting = e.id,
                                 ![w].restingRow = orders[e.id], ![w].scan = {}]
                 \/ local' = [local EXCEPT ![w].scan = {}]
          BY Zenon, <2>4 DEF ChooseEntry
        <4>2. CASE local' = [local EXCEPT ![w].resting = e.id,
                                 ![w].restingRow = orders[e.id], ![w].scan = {}]
          <5>1. local' = [local EXCEPT ![w] = [local[w] EXCEPT !.resting = e.id,
                                 !.restingRow = orders[e.id], !.scan = {}]]
            BY <1>1, <4>2
          <5> QED BY <5>1
        <4> QED BY <4>1, <4>2
      <3> QED BY <3>1, <3>2, <3>3 DEF Goes, Labels
    <2>5. CASE ScanExhausted(w)
      BY <1>2, <2>5 DEF ScanExhausted, Goes, Labels, queueVars
    <2> QED BY <1>5, <2>1, <2>2, <2>3, <2>4, <2>5 DEF Scan
  <1>6. CASE Settlement(w)
    <2>1. CASE TradePair(w)
      <3>1. local' = [local EXCEPT ![w] = [local[w] EXCEPT !.trade = Len(trades'),
               !.next = "reload", !.changed = TradedTasks(orders', job[w], local[w].resting)]]
        BY <1>1, <2>1 DEF TradePair
      <3> QED BY <2>1, <3>1 DEF TradePair, Goes, Labels, queueVars
    <2>2. CASE CloseUnfillable(w)
      BY <2>2, SyncGoes DEF CloseUnfillable, Goes, Labels, queueVars
    <2>3. CASE SettleMissing(w)
      BY <2>3 DEF SettleMissing, Goes, Labels, queueVars
    <2>4. CASE SettleRefused(w)
      <3>1. pc[w] = "settle" /\ UNCHANGED <<jobs, job, sym>>
        BY <2>4 DEF SettleRefused, queueVars
      <3>2. \/ \E tasks : SyncThen(w, tasks, "reload", local[w])
            \/ GoTo(w, "release") /\ local' = [local EXCEPT ![w].failed = TRUE]
        BY <2>4 DEF SettleRefused
      <3> QED BY <3>1, <3>2, SyncGoes DEF Goes, Labels
    <2> QED BY <1>6, <2>1, <2>2, <2>3, <2>4 DEF Settlement
  <1>7. CASE Announce(w) \/ SyncRead(w)
    BY Zenon, <1>7 DEF Announce, SyncRead, Goes, Labels, queueVars
  <1>8. CASE SyncWrite(w)
    <2>1. pc[w] = "write" /\ local[w].next \in {"reload", "range", "scan", "release"}
      BY <1>1, <1>8 DEF SyncWrite, RunShaped, Syncing
    <2> QED BY <1>8, <2>1, SyncGoes DEF SyncWrite, Goes, Labels, queueVars
  <1>9. CASE CancelRemainder(w) \/ RestInBook(w)
    BY <1>2, <1>9, SyncGoes DEF CancelRemainder, RestInBook, Goes, Labels, queueVars
  <1> QED BY <1>3, <1>4, <1>5, <1>6, <1>7, <1>8, <1>9 DEF Work

LEMMA TroubleGoes ==
    ASSUME EngineTyped, NEW w \in Workers, LockTimeout(w) \/ Throw(w)
    PROVE  Goes(w, {"release", "fail"}) /\ pc[w] \notin {"idle", "done", "fail"}
  <1>1. \E x : local = [local EXCEPT ![w] = x]
    BY DEF EngineTyped, RunsTyped
  <1>2. CASE LockTimeout(w)
    BY <1>1, <1>2 DEF LockTimeout, Goes, queueVars
  <1>3. CASE Throw(w)
    BY <1>1, <1>3 DEF Throw, Goes, queueVars
  <1> QED BY <1>2, <1>3

LEMMA GoesAlone ==
    ASSUME EngineTyped, NEW w \in Workers, NEW labels \in SUBSET Labels, Goes(w, labels)
    PROVE  Alone(w) /\ pc'[w] \in labels
  BY DEF EngineTyped, RunsTyped, Goes, GoTo, Alone

-----------------------------------------------------------------------------
(* Jobs.                                                                   *)

JobType ==
    [state : {"none", "waiting", "active", "completed", "failed"},
     attempts : 0 .. MaxAttempts, stalls : Nat]

Busy(w, o) == pc[w] # "idle" /\ job[w] = o

(* A job that a crash has left without a worker.                           *)
Orphan(o) == jobs[o].state = "active" /\ \A w \in Workers : ~Busy(w, o)

(* A job has one worker at most, an attempt left while it is not over, and *)
(* has lost no more workers than crashed.                                  *)
JobsSound ==
    /\ jobs \in [OrderIds -> JobType]
    /\ faults \in 0 .. MaxFaults /\ crashes \in 0 .. MaxCrashes
    /\ confirmed \subseteq [order : OrderIds, trade : Nat]
    /\ \A w \in Workers : pc[w] # "idle" => jobs[job[w]].state = "active"
    /\ \A v, w \in Workers : v # w /\ pc[v] # "idle" /\ pc[w] # "idle" => job[v] # job[w]
    /\ \A o \in OrderIds :
          /\ jobs[o].state \in {"none", "waiting", "active"} => jobs[o].attempts < MaxAttempts
          /\ jobs[o].stalls <= crashes
          /\ Orphan(o) => jobs[o].stalls < crashes

LEMMA BusyStays ==
    ASSUME EngineTyped, JobsSound, NEW w \in Workers, pc[w] # "idle", pc'[w] # "idle",
           Alone(w), job' = job, jobs' = jobs, faults' \in 0 .. MaxFaults, crashes' = crashes,
           confirmed' \subseteq [order : OrderIds, trade : Nat]
    PROVE  JobsSound'
  <1>1. \A v \in Workers : pc'[v] = "idle" <=> pc[v] = "idle"
    BY DEF Alone
  <1>2. \A v \in Workers, o \in OrderIds : Busy(v, o)' <=> Busy(v, o)
    BY <1>1 DEF Busy
  <1>3. \A o \in OrderIds : Orphan(o)' <=> Orphan(o)
    BY <1>2 DEF Orphan
  <1> QED BY <1>1, <1>3 DEF JobsSound

LEMMA TakeKeepsJobs ==
    ASSUME EngineTyped, JobsSound, NEW w \in Workers, NEW o \in OrderIds, TakeJob(w, o)
    PROVE  JobsSound'
  <1>1. Alone(w) /\ job'[w] = o /\ pc'[w] # "idle" /\ pc[w] = "idle"
    BY TakeTyped DEF TakeJob
  <1>2. /\ jobs[o].state = "waiting" /\ jobs' = [jobs EXCEPT ![o].state = "active"]
        /\ UNCHANGED <<confirmed, faults, crashes>>
    BY DEF TakeJob, budget
  <1>3. jobs' \in [OrderIds -> JobType] /\ jobs'[o].state = "active"
        /\ jobs'[o].attempts = jobs[o].attempts /\ jobs'[o].stalls = jobs[o].stalls
        /\ \A x \in OrderIds \ {o} : jobs'[x] = jobs[x]
    BY <1>2 DEF JobsSound, JobType
  <1>4. \A v \in Workers : v # w /\ pc[v] # "idle" => job[v] # o
    BY <1>2 DEF JobsSound
  <1>5. \A x \in OrderIds : Orphan(x)' => Orphan(x)
    BY <1>1, <1>3 DEF Orphan, Busy, Alone
  <1> QED BY <1>1, <1>2, <1>3, <1>4, <1>5 DEF JobsSound, Alone

LEMMA EndKeepsJobs ==
    ASSUME EngineTyped, JobsSound, NEW w \in Workers, CompleteJob(w) \/ FailJob(w)
    PROVE  JobsSound'
  <1> DEFINE o == job[w]
  <1>1. o \in OrderIds /\ pc[w] # "idle" /\ jobs[o].state = "active"
    BY DEF EngineTyped, RunsTyped, RunShaped, CompleteJob, FailJob, JobsSound
  <1>2. Alone(w) /\ pc'[w] = "idle"
    BY IdleTyped DEF CompleteJob, FailJob, EngineTyped, ledgerVars
  <1>3. UNCHANGED <<confirmed, faults, crashes>>
    BY DEF CompleteJob, FailJob, budget
  <1>4. /\ jobs' \in [OrderIds -> JobType] /\ jobs'[o].state # "active"
        /\ jobs'[o].stalls = jobs[o].stalls
        /\ jobs'[o].state = "waiting" => jobs'[o].attempts < MaxAttempts
        /\ jobs'[o].state # "none"
        /\ \A x \in OrderIds \ {o} : jobs'[x] = jobs[x]
    <2>1. jobs \in [OrderIds -> JobType] /\ jobs[o].attempts < MaxAttempts /\ MaxAttempts \in Nat
      BY <1>1, EngineAssumption DEF JobsSound
    <2>2. CASE CompleteJob(w)
      <3>1. jobs' = [jobs EXCEPT ![o].state = "completed"]
        BY <2>2 DEF CompleteJob
      <3> HIDE DEF o
      <3> QED BY <1>1, <2>1, <3>1 DEF JobType
    <2>3. CASE FailJob(w)
      <3> DEFINE made == jobs[o].attempts + 1
                 next == IF made < MaxAttempts THEN "waiting" ELSE "failed"
      <3>1. jobs' = [jobs EXCEPT ![o] = [jobs[o] EXCEPT !.attempts = made, !.state = next]]
        BY <1>1, <2>1, <2>3 DEF FailJob
      <3>2. jobs[o] \in JobType
        BY <1>1, <2>1
      <3>3. made \in 0 .. MaxAttempts
        BY <1>1, <2>1, <3>2 DEF JobType
      <3>4. next \in {"waiting", "failed"} /\ (next = "waiting" => made < MaxAttempts)
        OBVIOUS
      <3> HIDE DEF o, made, next
      <3> QED BY <1>1, <2>1, <3>1, <3>2, <3>3, <3>4 DEF JobType
    <2> QED BY <2>2, <2>3
  <1> HIDE DEF o
  <1>5. \A x \in OrderIds : Orphan(x)' => Orphan(x)
    <2>1. \A v \in Workers, x \in OrderIds \ {o} : Busy(v, x) => Busy(v, x)'
      BY <1>2 DEF Busy, Alone, o
    <2> QED BY <1>4, <2>1 DEF Orphan
  <1>6. \A v \in Workers \ {w} : pc[v] # "idle" => job[v] # o
    BY <1>1 DEF JobsSound, o
  <1>7. \A x \in OrderIds :
          /\ jobs'[x].state \in {"none", "waiting", "active"} => jobs'[x].attempts < MaxAttempts
          /\ jobs'[x].stalls <= crashes'
          /\ Orphan(x)' => jobs'[x].stalls < crashes'
    BY <1>1, <1>3, <1>4, <1>5 DEF JobsSound
  <1>8. \A v \in Workers : pc'[v] # "idle" => jobs'[job'[v]].state = "active"
    <2> TAKE v \in Workers
    <2>1. CASE v # w /\ pc'[v] # "idle"
      <3>1. job[v] \in OrderIds /\ job'[v] = job[v] /\ pc[v] # "idle"
        BY <1>2, <2>1 DEF Alone, EngineTyped, RunsTyped, RunShaped
      <3> QED BY <1>4, <1>6, <2>1, <3>1 DEF JobsSound
    <2> QED BY <1>2, <2>1
  <1>9. \A u, v \in Workers : u # v /\ pc'[u] # "idle" /\ pc'[v] # "idle" => job'[u] # job'[v]
    BY <1>2 DEF JobsSound, Alone
  <1>10. /\ jobs' \in [OrderIds -> JobType]
         /\ faults' \in 0 .. MaxFaults /\ crashes' \in 0 .. MaxCrashes
         /\ confirmed' \subseteq [order : OrderIds, trade : Nat]
    BY <1>3, <1>4 DEF JobsSound
  <1> QED BY <1>7, <1>8, <1>9, <1>10 DEF JobsSound

LEMMA CrashKeepsJobs ==
    ASSUME EngineTyped, JobsSound, NEW w \in Workers, Crash(w)
    PROVE  JobsSound'
  <1>1. Alone(w) /\ pc'[w] = "idle" /\ pc[w] # "idle" /\ job[w] \in OrderIds
    BY IdleTyped DEF Crash, EngineTyped, RunsTyped, RunShaped, ledgerVars
  <1>2. UNCHANGED <<jobs, confirmed, faults>> /\ crashes' = crashes + 1 /\ crashes < MaxCrashes
    BY DEF Crash, queueVars
  <1>3. crashes \in Nat /\ MaxCrashes \in Nat
    BY EngineAssumption DEF JobsSound
  <1>4. \A x \in OrderIds : jobs'[x].stalls < crashes' /\ jobs[x].stalls \in Nat
    BY <1>2, <1>3 DEF JobsSound, JobType
  <1>5. crashes' \in 0 .. MaxCrashes
    BY <1>2, <1>3
  <1> QED BY <1>1, <1>2, <1>3, <1>4, <1>5 DEF JobsSound, Alone

LEMMA RecoverKeepsJobs ==
    ASSUME EngineTyped, JobsSound, NEW o \in OrderIds, RecoverStalled(o)
    PROVE  JobsSound'
  <1> DEFINE next == IF jobs[o].stalls = 0 THEN "waiting" ELSE "failed"
  <1>1. UNCHANGED <<confirmed, faults, crashes, pc, job>>
    BY DEF RecoverStalled, budget, workerVars
  <1>2. jobs[o].state = "active" /\ Orphan(o) /\ \A w \in Workers : job[w] # o
    BY DEF RecoverStalled, Orphan, Busy
  <1>3. jobs \in [OrderIds -> JobType] /\ jobs[o] \in JobType
    BY DEF JobsSound
  <1>4. jobs' = [jobs EXCEPT ![o] = [jobs[o] EXCEPT !.stalls = @ + 1, !.state = next]]
    BY <1>3 DEF RecoverStalled
  <1>5. next \in {"waiting", "failed"}
    OBVIOUS
  <1> HIDE DEF next
  <1>6. /\ jobs' \in [OrderIds -> JobType]
        /\ jobs'[o].stalls = jobs[o].stalls + 1 /\ jobs'[o].attempts = jobs[o].attempts
        /\ jobs'[o].state \in {"waiting", "failed"}
        /\ \A x \in OrderIds \ {o} : jobs'[x] = jobs[x]
    <2> DEFINE old == jobs[o]
               new == [old EXCEPT !.stalls = @ + 1, !.state = next]
    <2>1. new \in JobType /\ new.stalls = jobs[o].stalls + 1
          /\ new.attempts = jobs[o].attempts /\ new.state = next
      <3>1. old \in JobType
        BY <1>3
      <3> HIDE DEF old
      <3>2. old.stalls + 1 \in Nat
        BY <3>1 DEF JobType
      <3>3. new \in JobType
        BY <1>5, <3>1, <3>2 DEF JobType
      <3>4. new.stalls = old.stalls + 1 /\ new.attempts = old.attempts /\ new.state = next
        BY <3>1 DEF JobType
      <3> QED BY <3>3, <3>4 DEF old
    <2>2. jobs' = [jobs EXCEPT ![o] = new]
      BY <1>4
    <2> HIDE DEF new
    <2> QED BY <1>3, <1>5, <2>1, <2>2
  <1>7. \A x \in OrderIds : Orphan(x)' => Orphan(x) /\ x # o
    BY <1>1, <1>6 DEF Orphan, Busy
  <1>8. \A x \in OrderIds :
          /\ jobs'[x].state \in {"none", "waiting", "active"} => jobs'[x].attempts < MaxAttempts
          /\ jobs'[x].stalls <= crashes'
          /\ Orphan(x)' => jobs'[x].stalls < crashes'
    <2> TAKE x \in OrderIds
    <2>1. CASE x = o
      <3>1. jobs[o].stalls < crashes /\ jobs[o].attempts < MaxAttempts
            /\ jobs[o].stalls \in Nat /\ crashes \in Nat
        BY <1>2, <1>3 DEF JobsSound, JobType
      <3> QED BY <1>1, <1>6, <1>7, <2>1, <3>1
    <2>2. CASE x # o
      BY <1>1, <1>6, <1>7, <2>2 DEF JobsSound
    <2> QED BY <2>1, <2>2
  <1>9. \A w \in Workers : pc'[w] # "idle" => jobs'[job'[w]].state = "active"
    <2> TAKE w \in Workers
    <2>1. pc[w] # "idle" => job[w] \in OrderIds \ {o}
      BY <1>2 DEF EngineTyped, RunsTyped, RunShaped
    <2> QED BY <1>1, <1>6, <2>1 DEF JobsSound
  <1> QED BY <1>1, <1>6, <1>8, <1>9 DEF JobsSound

LEMMA EnqueueKeepsJobs ==
    ASSUME EngineTyped, JobsSound, NEW o \in OrderIds, EnqueueMatch(o)
    PROVE  JobsSound'
  <1>1. UNCHANGED <<confirmed, faults, crashes, pc, job>>
    BY DEF EnqueueMatch, budget, workerVars
  <1>2. jobs[o].state = "none" /\ jobs' = [jobs EXCEPT ![o].state = "waiting"]
    BY DEF EnqueueMatch
  <1>3. /\ jobs' \in [OrderIds -> JobType]
        /\ jobs'[o].stalls = jobs[o].stalls /\ jobs'[o].attempts = jobs[o].attempts
        /\ jobs'[o].state = "waiting"
        /\ \A x \in OrderIds \ {o} : jobs'[x] = jobs[x]
    BY <1>2 DEF JobsSound, JobType
  <1>4. \A x \in OrderIds : Orphan(x)' => Orphan(x)
    BY <1>1, <1>3 DEF Orphan, Busy
  <1>5. \A w \in Workers : pc[w] # "idle" => job[w] \in OrderIds \ {o}
    BY <1>2 DEF EngineTyped, RunsTyped, RunShaped, JobsSound
  <1> QED BY <1>1, <1>2, <1>3, <1>4, <1>5 DEF JobsSound

LEMMA AnnounceConfirms ==
    ASSUME EngineTyped, JobsSound, NEW w \in Workers, Announce(w)
    PROVE  confirmed' \subseteq [order : OrderIds, trade : Nat]
  <1> DEFINE t == local[w].trade
  <1>1. t \in DOMAIN trades /\ trades \in Seq(Trade)
    BY DEF EngineTyped, RunsTyped, RunShaped, Announce, LedgerInv, LedgerTypeOK
  <1>2. trades[t].buy \in OrderIds /\ trades[t].sell \in OrderIds /\ t \in Nat
    <2>1. DOMAIN trades = 1 .. Len(trades) /\ Len(trades) \in Nat
      BY <1>1
    <2>2. trades[t] \in Trade
      BY <1>1, <2>1
    <2> QED BY <1>1, <2>1, <2>2 DEF Trade
  <1> HIDE DEF t
  <1>3. confirmed \subseteq [order : OrderIds, trade : Nat]
    BY DEF JobsSound
  <1> QED BY <1>2, <1>3 DEF Announce, t

LEMMA NextKeepsJobs == EngineTyped /\ JobsSound /\ [Next]_vars => JobsSound'
  <1> SUFFICES ASSUME EngineTyped, JobsSound, [Next]_vars PROVE JobsSound'
    OBVIOUS
  <1>1. ASSUME UNCHANGED <<jobs, confirmed, faults, crashes, pc, job>> PROVE JobsSound'
    BY <1>1 DEF JobsSound, Orphan, Busy
  <1>2. CASE \E o \in OrderIds : SubmitOrder(o) \/ CancelByUser(o) \/ Expire(o) \/ Delete(o)
    BY <1>1, <1>2 DEF SubmitOrder, CancelByUser, Expire, Delete, engineVars, queueVars,
                      workerVars, budget
  <1>3. CASE CloseMarket \/ UNCHANGED vars
    BY <1>1, <1>3 DEF CloseMarket, vars, engineVars, queueVars, workerVars, budget
  <1>4. ASSUME NEW w \in Workers, Work(w) PROVE JobsSound'
    <2>1. CASE ~CompleteJob(w) /\ ~FailJob(w)
      <3>1. Goes(w, InsideLabels) /\ pc[w] # "idle"
        BY <1>4, <2>1, WorkGoes
      <3>2. Alone(w) /\ pc'[w] # "idle" /\ job' = job /\ jobs' = jobs
        <4>1. InsideLabels \in SUBSET Labels /\ "idle" \notin InsideLabels
          BY DEF InsideLabels
        <4>2. Alone(w) /\ pc'[w] \in InsideLabels
          BY <3>1, <4>1, GoesAlone
        <4>3. job' = job /\ jobs' = jobs
          BY <3>1 DEF Goes
        <4> QED BY <4>1, <4>2, <4>3
      <3>3. UNCHANGED <<faults, crashes>>
        BY Zenon, <1>4, <2>1 DEF Work, AcquireLock, Reload, ReadBook, Scan, DropMissingEntry,
              SyncClosedEntry, SkipOwnEntry, ChooseEntry, ScanExhausted, Settlement, TradePair,
              CloseUnfillable, SettleMissing, SettleRefused, Announce, SyncRead, SyncWrite,
              CancelRemainder, RestInBook, ReleaseLock, budget
      <3>4. CASE Announce(w)
        BY <3>1, <3>2, <3>3, <3>4, AnnounceConfirms, BusyStays DEF JobsSound
      <3>5. CASE ~Announce(w)
        <4>1. confirmed' = confirmed
          BY Zenon, <1>4, <2>1, <3>5
             DEF Work, AcquireLock, Reload, ReadBook, Scan, DropMissingEntry,
              SyncClosedEntry, SkipOwnEntry, ChooseEntry, ScanExhausted, Settlement, TradePair,
              CloseUnfillable, SettleMissing, SettleRefused, SyncRead, SyncWrite,
              CancelRemainder, RestInBook, ReleaseLock, queueVars
        <4> QED BY <3>1, <3>2, <3>3, <4>1, BusyStays DEF JobsSound
      <3> QED BY <3>4, <3>5
    <2> QED BY <2>1, EndKeepsJobs
  <1>5. ASSUME NEW w \in Workers, LockTimeout(w) \/ Throw(w) PROVE JobsSound'
    <2>1. Goes(w, {"release", "fail"}) /\ pc[w] # "idle"
      BY <1>5, TroubleGoes
    <2>2. Alone(w) /\ pc'[w] # "idle" /\ job' = job /\ jobs' = jobs
      <3>1. {"release", "fail"} \in SUBSET Labels
        BY DEF Labels
      <3> QED BY <2>1, <3>1, GoesAlone DEF Goes
    <2>3. faults' \in 0 .. MaxFaults /\ UNCHANGED <<crashes, confirmed>>
      BY <1>5, EngineAssumption DEF LockTimeout, Throw, JobsSound, queueVars, budget
    <2> QED BY <2>1, <2>2, <2>3, BusyStays DEF JobsSound
  <1>6. ASSUME NEW s \in Symbols, DeadLockExpires(s) \/ LiveLockExpires(s) PROVE JobsSound'
    BY <1>1, <1>6 DEF DeadLockExpires, LiveLockExpires, queueVars, workerVars, budget
  <1> QED BY <1>2, <1>3, <1>4, <1>5, <1>6, TakeKeepsJobs, CrashKeepsJobs, RecoverKeepsJobs,
             EnqueueKeepsJobs DEF Next, Trouble

LEMMA InitJobs == Init => JobsSound
  <1> SUFFICES ASSUME Init PROVE JobsSound
    OBVIOUS
  <1>1. jobs \in [OrderIds -> JobType]
    BY EngineAssumption DEF Init, JobType
  <1> QED BY <1>1, EngineAssumption DEF Init, JobsSound, Orphan

LEMMA EngineSound == Spec => [](EngineTyped /\ JobsSound)
  <1>1. Init => EngineTyped /\ JobsSound
    BY InitTyped, InitJobs
  <1>2. EngineTyped /\ JobsSound /\ [Next]_vars => (EngineTyped /\ JobsSound)'
    BY NextTyped, NextKeepsJobs
  <1> QED BY <1>1, <1>2, PTL DEF Spec

(* Every variable of the engine keeps its type: in particular a job fails  *)
(* MaxAttempts times at most and stalls no more often than workers crash,  *)
(* and what a run read stays an order, whatever was deleted meanwhile.     *)
THEOREM EngineTypeCorrect == Spec => []EngineTypeOK
  <1>1. EngineTyped /\ JobsSound => EngineTypeOK
    <2> SUFFICES ASSUME EngineTyped, JobsSound PROVE EngineTypeOK
      OBVIOUS
    <2>1. jobs \in [OrderIds -> [state : {"none", "waiting", "active", "completed", "failed"},
                             attempts : 0 .. MaxAttempts, stalls : 0 .. MaxCrashes]]
      <3>1. \A o \in OrderIds : jobs[o].stalls \in 0 .. MaxCrashes
        BY EngineAssumption DEF JobsSound, JobType
      <3> QED BY <3>1 DEF JobsSound, JobType
    <2>2. \A k \in Symbols \X Sides : \A e \in book[k] :
             e.id \in OrderIds /\ e.member \in Nat /\ e.score \in Int
      BY DEF EngineTyped, RedisTyped, EntryType
    <2>3. LedgerTypeOK
      BY DEF EngineTyped, LedgerInv
    <2> QED BY <2>1, <2>2, <2>3
            DEF EngineTypeOK, EngineTyped, RedisTyped, HashType, RunsTyped, JobsSound
  <1> QED BY <1>1, EngineSound, PTL

-----------------------------------------------------------------------------
(* Rows: what a step may change of an order that exists.                   *)

(* What a client fixed when it submitted an order.                         *)
SameOrder(a, b) ==
    /\ a.user = b.user /\ a.symbol = b.symbol /\ a.type = b.type
    /\ a.side = b.side /\ a.price = b.price /\ a.quantity = b.quantity

(* Rows come and stay, and a row that is not open never opens again.       *)
RowsKept ==
    /\ DOMAIN orders \subseteq DOMAIN orders'
    /\ DOMAIN orders = issued => DOMAIN orders' = issued'
    /\ \A o \in DOMAIN orders :
          SameOrder(orders'[o], orders[o]) /\ (IsOpen(orders'[o]) => IsOpen(orders[o]))

(* A row that stays open keeps its fill.                                   *)
OpenUntouched ==
    \A o \in DOMAIN orders : IsOpen(orders'[o]) => orders'[o] = orders[o]

LEMMA StillKept == UNCHANGED <<orders, issued>> => RowsKept /\ OpenUntouched
  BY DEF RowsKept, OpenUntouched, SameOrder

LEMMA InsertKept ==
    ASSUME LedgerInv, NEW o, NEW row, InsertRow(o, row)
    PROVE  RowsKept /\ OpenUntouched
  <1>1. o \notin DOMAIN orders
    BY DEF InsertRow, LedgerInv, LedgerTypeOK
  <1> QED BY <1>1 DEF InsertRow, RowsKept, OpenUntouched, SameOrder

(* Cancelling some open rows.                                              *)
LEMMA CancelledKept ==
    ASSUME LedgerInv, UNCHANGED issued, DOMAIN orders' = DOMAIN orders,
           \A o \in DOMAIN orders :
              \/ orders'[o] = orders[o]
              \/ orders'[o] = Cancelled(orders[o]) /\ HasOpenStatus(o)
    PROVE  RowsKept /\ OpenUntouched
  <1>1. ASSUME NEW o \in DOMAIN orders
        PROVE  /\ SameOrder(orders'[o], orders[o])
               /\ IsOpen(orders'[o]) => IsOpen(orders[o]) /\ orders'[o] = orders[o]
    <2>1. orders[o] \in OrderRow
      BY RowTyped
    <2>2. CASE orders'[o] = orders[o]
      BY <2>2 DEF SameOrder
    <2>3. CASE orders'[o] = Cancelled(orders[o])
      BY <2>1, <2>3, CancelledRow DEF SameOrder, IsOpen, OpenStatuses
    <2> QED BY <2>2, <2>3
  <1> QED BY <1>1 DEF RowsKept, OpenUntouched

LEMMA CancelKept ==
    ASSUME LedgerInv, NEW o, CancelOpen(o)
    PROVE  /\ RowsKept /\ OpenUntouched
           /\ o \in DOMAIN orders' /\ orders'[o] \in OrderRow /\ ~IsOpen(orders'[o])
  <1>1. o \in DOMAIN orders /\ HasOpenStatus(o) /\ UNCHANGED issued
    BY DEF CancelOpen, HasOpenStatus
  <1>2. DOMAIN orders' = DOMAIN orders /\ orders'[o] = Cancelled(orders[o])
        /\ \A x \in DOMAIN orders \ {o} : orders'[x] = orders[x]
    BY <1>1 DEF CancelOpen
  <1>3. RowsKept /\ OpenUntouched
    BY <1>1, <1>2, CancelledKept
  <1>4. orders'[o] \in OrderRow /\ orders'[o].status = "cancelled"
    BY <1>1, <1>2, RowTyped, CancelledRow
  <1> QED BY <1>1, <1>2, <1>3, <1>4 DEF IsOpen, OpenStatuses

LEMMA CloseKept ==
    ASSUME LedgerInv, MarketClose
    PROVE  RowsKept /\ OpenUntouched
  BY CancelledKept DEF MarketClose

LEMMA TradeKept ==
    ASSUME LedgerInv, NEW i \in OrderIds, NEW r \in OrderIds, SettleTrade(i, r)
    PROVE  /\ RowsKept
           /\ \A x \in DOMAIN orders \ {i, r} : orders'[x] = orders[x]
           /\ DOMAIN orders' = DOMAIN orders
           /\ ~(IsOpen(orders'[i]) /\ IsOpen(orders'[r]))
  <1> DEFINE b == BuyId(i, r)
             s == SellId(i, r)
  <1>1. Settleable(i, r) /\ UNCHANGED issued
    BY DEF SettleTrade
  <1>2. {b, s} = {i, r} /\ IsOpen(orders[b]) /\ IsOpen(orders[s])
    BY <1>1, SettleableFacts
  <1>3. /\ DOMAIN orders' = DOMAIN orders
        /\ \A x \in DOMAIN orders \ {b, s} : orders'[x] = orders[x]
        /\ \A x \in {b, s} :
              /\ orders'[x].user = orders[x].user
              /\ orders'[x].symbol = orders[x].symbol
              /\ orders'[x].type = orders[x].type
              /\ orders'[x].side = orders[x].side
              /\ orders'[x].price = orders[x].price
              /\ orders'[x].quantity = orders[x].quantity
        /\ ~(orders'[b].status \in OpenStatuses /\ orders'[s].status \in OpenStatuses)
    BY TradeFacts, SMTT(30)
  <1> HIDE DEF b, s
  <1>4. \A x \in {b, s} : SameOrder(orders'[x], orders[x]) /\ IsOpen(orders[x])
    BY <1>2, <1>3 DEF SameOrder
  <1>5. RowsKept
    BY <1>1, <1>3, <1>4 DEF RowsKept, SameOrder
  <1>6. ~(IsOpen(orders'[b]) /\ IsOpen(orders'[s]))
    BY <1>3 DEF IsOpen
  <1> QED BY <1>2, <1>3, <1>5, <1>6

LEMMA UnfillableKept ==
    ASSUME LedgerInv, NEW i \in OrderIds, NEW r \in OrderIds, SettleUnfillable(i, r)
    PROVE  /\ RowsKept /\ OpenUntouched /\ DOMAIN orders' = DOMAIN orders
           /\ \E x \in {i, r} : ~IsOpen(orders'[x]) /\ IsOpen(orders[x])
                               /\ \A y \in DOMAIN orders \ {x} : orders'[y] = orders[y]
  <1> DEFINE x == IF SellerHas(i, r) <= 0 THEN SellId(i, r) ELSE BuyId(i, r)
  <1>1. Settleable(i, r) /\ UNCHANGED issued /\ x \in {i, r}
    BY DEF SettleUnfillable, BuyId, SellId
  <1>2. x \in DOMAIN orders /\ IsOpen(orders[x]) /\ orders[x] \in OrderRow
    BY <1>1, RowTyped DEF Settleable
  <1>3. orders' = [orders EXCEPT ![x] = AfterFill(@, 0, TRUE)]
    BY DEF SettleUnfillable
  <1> HIDE DEF x
  <1>4. /\ DOMAIN orders' = DOMAIN orders /\ orders'[x] = Cancelled(orders[x])
        /\ \A y \in DOMAIN orders \ {x} : orders'[y] = orders[y]
    BY <1>2, <1>3, EmptyFillCancels
  <1>5. HasOpenStatus(x)
    BY <1>2 DEF HasOpenStatus, IsOpen
  <1>6. RowsKept /\ OpenUntouched
    BY <1>1, <1>2, <1>4, <1>5, CancelledKept
  <1>7. orders'[x].status = "cancelled"
    BY <1>2, <1>4, CancelledRow
  <1> QED BY <1>1, <1>2, <1>4, <1>6, <1>7 DEF IsOpen, OpenStatuses

LEMMA SettleIds ==
    ASSUME LedgerInv, NEW w \in Workers, TradePair(w) \/ CloseUnfillable(w)
    PROVE  /\ job[w] \in OrderIds /\ local[w].resting \in OrderIds
           /\ Settleable(job[w], local[w].resting)
  <1>1. Settleable(job[w], local[w].resting)
    BY Zenon DEF TradePair, CloseUnfillable, SettleTrade, SettleUnfillable
  <1> QED BY <1>1, RowTyped DEF Settleable

LEMMA WorkKept ==
    ASSUME LedgerInv, NEW w \in Workers, Work(w), ~TradePair(w)
    PROVE  RowsKept /\ OpenUntouched
  <1>1. CASE CloseUnfillable(w)
    BY <1>1, SettleIds, UnfillableKept DEF CloseUnfillable
  <1>2. CASE CancelRemainder(w)
    BY <1>2, CancelKept, StillKept DEF CancelRemainder, ledgerVars
  <1>3. CASE AcquireLock(w) \/ Reload(w) \/ ReadBook(w) \/ SettleMissing(w) \/ SettleRefused(w)
    BY <1>3, StillKept DEF AcquireLock, Reload, ReadBook, SettleMissing, SettleRefused, ledgerVars
  <1>4. CASE Scan(w)
    BY Zenon, <1>4, StillKept DEF Scan, DropMissingEntry, SyncClosedEntry, SkipOwnEntry, ChooseEntry,
                           ScanExhausted, ledgerVars
  <1>5. CASE Announce(w) \/ SyncRead(w) \/ SyncWrite(w) \/ RestInBook(w)
    BY Zenon, <1>5, StillKept DEF Announce, SyncRead, SyncWrite, RestInBook, ledgerVars
  <1>6. CASE ReleaseLock(w) \/ CompleteJob(w) \/ FailJob(w)
    BY <1>6, StillKept DEF ReleaseLock, CompleteJob, FailJob, ledgerVars
  <1> QED BY <1>1, <1>2, <1>3, <1>4, <1>5, <1>6 DEF Work, Settlement

(* Everything but a settlement that trades leaves open rows as they are.   *)
LEMMA NextUntouched ==
    ASSUME LedgerInv, Deletable = {}, [Next]_vars, \A w \in Workers : ~TradePair(w)
    PROVE  RowsKept /\ OpenUntouched
  <1>1. ASSUME NEW o \in OrderIds, SubmitOrder(o) PROVE RowsKept /\ OpenUntouched
    BY <1>1, InsertKept DEF SubmitOrder, InsertMarket, InsertLimit
  <1>2. ASSUME NEW o \in OrderIds, CancelByUser(o) \/ Expire(o) \/ Delete(o)
        PROVE  RowsKept /\ OpenUntouched
    BY <1>2, CancelKept DEF CancelByUser, Expire, ExpireLimit, Delete
  <1>3. ASSUME NEW o \in OrderIds, EnqueueMatch(o) \/ RecoverStalled(o)
        PROVE  RowsKept /\ OpenUntouched
    BY <1>3, StillKept DEF EnqueueMatch, RecoverStalled, ledgerVars
  <1>4. CASE CloseMarket
    BY <1>4, CloseKept DEF CloseMarket
  <1>5. ASSUME NEW w \in Workers, Work(w) PROVE RowsKept /\ OpenUntouched
    BY <1>5, WorkKept
  <1>6. ASSUME NEW w \in Workers, Trouble(w) PROVE RowsKept /\ OpenUntouched
    BY <1>6, StillKept DEF Trouble, LockTimeout, Throw, Crash, ledgerVars
  <1>7. ASSUME NEW w \in Workers, NEW o \in OrderIds, TakeJob(w, o)
        PROVE  RowsKept /\ OpenUntouched
    BY <1>7, StillKept DEF TakeJob, ledgerVars
  <1>8. ASSUME NEW s \in Symbols, DeadLockExpires(s) \/ LiveLockExpires(s)
        PROVE  RowsKept /\ OpenUntouched
    BY <1>8, StillKept DEF DeadLockExpires, LiveLockExpires, ledgerVars
  <1>9. CASE UNCHANGED vars
    BY <1>9, StillKept DEF vars, ledgerVars
  <1> QED BY <1>1, <1>2, <1>3, <1>4, <1>5, <1>6, <1>7, <1>8, <1>9 DEF Next

LEMMA NextKept ==
    ASSUME LedgerInv, Deletable = {}, [Next]_vars
    PROVE  RowsKept
  <1>1. ASSUME NEW w \in Workers, TradePair(w) PROVE RowsKept
    BY Zenon, <1>1, SettleIds, TradeKept DEF TradePair
  <1> QED BY <1>1, NextUntouched

-----------------------------------------------------------------------------
(* What each step of a run does to the run.                                *)

Fields == DOMAIN Blank

LEMMA RunFields == \A me \in RunType : DOMAIN me = Fields
  BY DEF RunType, Fields, Blank

LEMMA SyncEffect ==
    ASSUME RunsTyped, NEW w \in Workers, NEW tasks, NEW next, NEW me, DOMAIN me = Fields,
           SyncThen(w, tasks, next, me), UNCHANGED <<job, sym>>
    PROVE  /\ pc'[w] = (IF tasks = <<>> THEN next ELSE "sync")
           /\ local'[w].incoming = me.incoming /\ local'[w].scan = me.scan
           /\ local'[w].resting = me.resting /\ local'[w].restingRow = me.restingRow
           /\ local'[w].trade = me.trade /\ local'[w].drop = me.drop
           /\ local'[w].member = me.member /\ local'[w].failed = me.failed
           /\ local'[w].changed = tasks
           /\ tasks # <<>> => local'[w].next = next
           /\ Alone(w) /\ job'[w] = job[w] /\ sym'[w] = sym[w]
  <1> DEFINE x == IF tasks = <<>> THEN <<>> ELSE tasks
             y == IF tasks = <<>> THEN "idle" ELSE next
             new == [me EXCEPT !.changed = x, !.next = y]
             label == IF tasks = <<>> THEN next ELSE "sync"
  <1>1. GoTo(w, label) /\ local' = [local EXCEPT ![w] = new]
    BY DEF SyncThen
  <1>2. DOMAIN me = {"incoming", "scan", "resting", "restingRow", "trade", "drop", "changed",
                     "member", "next", "failed"}
    BY DEF Fields, Blank
  <1>3. /\ new.incoming = me.incoming /\ new.scan = me.scan
        /\ new.resting = me.resting /\ new.restingRow = me.restingRow
        /\ new.trade = me.trade /\ new.drop = me.drop
        /\ new.member = me.member /\ new.failed = me.failed
        /\ new.changed = x /\ new.next = y
    BY <1>2
  <1>4. x = tasks /\ (tasks # <<>> => y = next)
    OBVIOUS
  <1> HIDE DEF x, y, new, label
  <1>5. pc'[w] = label /\ local'[w] = new /\ Alone(w)
    BY <1>1 DEF GoTo, Alone, RunsTyped
  <1> QED BY <1>3, <1>4, <1>5 DEF label

-----------------------------------------------------------------------------
(* What runs know of rows, and entries of orders.                          *)

(* A task names a row, as it was at some time, and is kept out of the book *)
(* only if the order no longer is an open limit order.                     *)
TaskTrue(t) ==
    /\ t.id \in DOMAIN orders /\ SameOrder(t.row, orders[t.id])
    /\ t.keep => IsLimit(t.row)
    /\ ~t.keep => ~(RowOpen(t.id) /\ IsLimit(t.row))

(* What a run believes of rows is true of them, but for fill and status.   *)
RunKnown(w) ==
    /\ pc[w] # "idle" => job[w] \in DOMAIN orders
    /\ pc[w] \in {"idle", "lock"} => local[w] = Blank
    /\ ~local[w].drop
    /\ pc[w] = "lock" \/ Critical(w) => sym[w] = orders[job[w]].symbol
    /\ Phase(w) \in Reading =>
          SameOrder(local[w].incoming, orders[job[w]]) /\ IsOpen(local[w].incoming)
    /\ pc[w] = "settle" =>
          local[w].resting \in DOMAIN orders /\ orders[local[w].resting].symbol = sym[w]
    /\ Critical(w) =>
          /\ \A t \in Range(local[w].changed) : TaskTrue(t) /\ t.row.symbol = sym[w]
          /\ \A e \in local[w].scan : e.id \in DOMAIN orders /\ orders[e.id].symbol = sym[w]

(* Every entry of the book is on its order's side, at its order's price.   *)
Placed(k, e) ==
    /\ e.id \in DOMAIN orders
    /\ k = <<orders[e.id].symbol, orders[e.id].side>>
    /\ IsLimit(orders[e.id])
    /\ e.score = Score(orders[e.id])

BookPlaced == \A k \in Symbols \X Sides : \A e \in book[k] : Placed(k, e)

JobsKnown == \A o \in OrderIds : jobs[o].state # "none" => o \in DOMAIN orders

Known ==
    /\ DOMAIN orders = issued
    /\ JobsKnown
    /\ BookPlaced
    /\ \A w \in Workers : RunKnown(w)

LEMMA RowStands ==
    ASSUME RowsKept, NEW o \in DOMAIN orders
    PROVE  o \in DOMAIN orders' /\ SameOrder(orders'[o], orders[o])
           /\ orders'[o].symbol = orders[o].symbol /\ orders'[o].side = orders[o].side
           /\ (RowOpen(o)' => RowOpen(o)) /\ (IsLimit(orders'[o]) <=> IsLimit(orders[o]))
           /\ orders'[o].user = orders[o].user /\ orders'[o].price = orders[o].price
  BY DEF RowsKept, SameOrder, RowOpen, IsLimit

LEMMA SameTrans ==
    \A a, b, c : SameOrder(a, b) /\ SameOrder(c, b) => SameOrder(a, c)
  BY DEF SameOrder

LEMMA TaskStands == RowsKept => \A t : TaskTrue(t) => TaskTrue(t)'
  BY RowStands, SameTrans DEF TaskTrue

LEMMA PlacedStands == RowsKept => \A k, e : Placed(k, e) => Placed(k, e)'
  BY RowStands DEF Placed, Score, IsLimit

LEMMA RunStands ==
    ASSUME RowsKept, NEW w \in Workers, RunKnown(w), EngineTyped,
           pc'[w] = pc[w], job'[w] = job[w], sym'[w] = sym[w], local'[w] = local[w]
    PROVE  RunKnown(w)'
  <1>1. pc[w] = "lock" \/ Critical(w) \/ Phase(w) \in Reading \/ pc[w] = "settle" => pc[w] # "idle"
    BY DEF Critical, Phase, Syncing, Reading
  <1>2. Critical(w)' = Critical(w) /\ Phase(w)' = Phase(w)
    BY DEF Critical, Phase
  <1>3. pc[w] # "idle" => job[w] \in DOMAIN orders /\ job[w] \in DOMAIN orders'
                          /\ SameOrder(orders'[job[w]], orders[job[w]])
                          /\ orders'[job[w]].symbol = orders[job[w]].symbol
    BY RowStands DEF RunKnown
  <1>4. pc[w] = "settle" => local[w].resting \in DOMAIN orders'
                            /\ orders'[local[w].resting].symbol = sym[w]
    BY RowStands DEF RunKnown
  <1>5. Phase(w) \in Reading => SameOrder(local[w].incoming, orders'[job[w]])
    BY <1>1, <1>3, SameTrans DEF RunKnown
  <1>6. Critical(w) =>
          /\ \A t \in Range(local[w].changed) : TaskTrue(t)' /\ t.row.symbol = sym[w]
          /\ \A e \in local[w].scan : e.id \in DOMAIN orders' /\ orders'[e.id].symbol = sym[w]
    BY TaskStands, RowStands DEF RunKnown
  <1> QED BY <1>1, <1>2, <1>3, <1>4, <1>5, <1>6 DEF RunKnown

LEMMA BookStands == RowsKept /\ BookPlaced /\ book' = book => BookPlaced'
  BY PlacedStands DEF BookPlaced

LEMMA JobsStand ==
    RowsKept /\ JobsKnown
    /\ (\A o \in OrderIds : jobs'[o].state # "none" => jobs[o].state # "none" \/ o \in DOMAIN orders)
    => JobsKnown'
  BY DEF RowsKept, JobsKnown

LEMMA KnownTurn ==
    ASSUME EngineTyped, Known, RowsKept, NEW w \in Workers, Alone(w), RunKnown(w)',
           BookPlaced', JobsKnown'
    PROVE  Known'
  <1>1. ASSUME NEW v \in Workers \ {w} PROVE RunKnown(v)'
    <2>1. pc'[v] = pc[v] /\ job'[v] = job[v] /\ sym'[v] = sym[v] /\ local'[v] = local[v]
      BY DEF Alone
    <2> QED BY <2>1, RunStands DEF Known
  <1>2. DOMAIN orders' = issued'
    BY DEF RowsKept, Known
  <1> QED BY <1>1, <1>2 DEF Known

(* Tasks for rows as they are.                                             *)
Priced(row) == IF IsLimit(row) THEN row.price > 0 ELSE row.price = NoPrice

LEMMA TaskOf ==
    ASSUME NEW o, NEW row \in OrderRow, Priced(row)
    PROVE  /\ Task(o, row).id = o /\ Task(o, row).row = row
           /\ Task(o, row).keep <=> IsOpen(row) /\ IsLimit(row)
  <1>1. Task(o, row).id = o /\ Task(o, row).row = row /\ Task(o, row).keep = BelongsInBook(row)
    BY DEF Task
  <1>2. IsLimit(row) => row.price # NoPrice
    BY DEF Priced, NoPrice, OrderRow
  <1>3. BelongsInBook(row) <=> IsOpen(row) /\ IsLimit(row)
    BY <1>2, Zenon DEF BelongsInBook
  <1> HIDE DEF Task
  <1> QED BY <1>1, <1>3

LEMMA FreshTask ==
    LedgerInv => \A o \in DOMAIN orders : TaskTrue(Task(o, orders[o]))
                    /\ Task(o, orders[o]).row = orders[o] /\ Task(o, orders[o]).id = o
  <1> SUFFICES ASSUME LedgerInv, NEW o \in DOMAIN orders
               PROVE  TaskTrue(Task(o, orders[o])) /\ Task(o, orders[o]).row = orders[o]
                      /\ Task(o, orders[o]).id = o
    OBVIOUS
  <1>1. orders[o] \in OrderRow /\ Priced(orders[o])
    BY RowTyped DEF LedgerInv, RowsPriced, Priced
  <1>2. /\ Task(o, orders[o]).id = o /\ Task(o, orders[o]).row = orders[o]
        /\ Task(o, orders[o]).keep <=> IsOpen(orders[o]) /\ IsLimit(orders[o])
    BY <1>1, TaskOf
  <1> HIDE DEF Task
  <1> QED BY <1>2 DEF TaskTrue, SameOrder, RowOpen

FreshTasks ==
    \A o \in DOMAIN orders : TaskTrue(Task(o, orders[o]))
                    /\ Task(o, orders[o]).row = orders[o] /\ Task(o, orders[o]).id = o

LEMMA FreshTasksNow == LedgerInv => FreshTasks
  BY FreshTask DEF FreshTasks

LEMMA FreshTasksNext == LedgerInv' => FreshTasks'
  BY FreshTasksNow, PTL

LEMMA Ranges ==
    /\ Range(<<>>) = {}
    /\ \A a : Range(<<a>>) = {a}
    /\ \A a, b : Range(<<a, b>>) = {a, b}
  <1>1. DOMAIN <<>> = {}
    OBVIOUS
  <1>2. \A a : DOMAIN <<a>> = {1} /\ <<a>>[1] = a
    OBVIOUS
  <1>3. \A a, b : DOMAIN <<a, b>> = {1, 2} /\ <<a, b>>[1] = a /\ <<a, b>>[2] = b
    OBVIOUS
  <1>4. Range(<<>>) = {}
    BY <1>1 DEF Range
  <1>5. \A a : Range(<<a>>) = {a}
    BY <1>2, Zenon DEF Range
  <1>6. \A a, b : Range(<<a, b>>) = {a, b}
    <2> TAKE a, b
    <2> DEFINE s == <<a, b>>
    <2>1. DOMAIN s = {1, 2} /\ s[1] = a /\ s[2] = b
      BY <1>3
    <2> HIDE DEF s
    <2>2. \A x : x \in {s[n] : n \in DOMAIN s} <=> x \in {a, b}
      BY <2>1
    <2>3. Range(s) = {a, b}
      BY <2>2, Zenon DEF Range
    <2> QED BY <2>3 DEF s
  <1> QED BY <1>4, <1>5, <1>6

LEMMA RangeTail ==
    ASSUME NEW S, NEW s \in Seq(S), s # <<>>
    PROVE  Range(s) = {Head(s)} \cup Range(Tail(s)) /\ Tail(s) \in Seq(S) /\ Head(s) \in S
  <1>1. /\ Tail(s) \in Seq(S) /\ Head(s) = s[1] /\ Len(s) \in Nat \ {0}
        /\ DOMAIN s = 1 .. Len(s) /\ DOMAIN Tail(s) = 1 .. Len(s) - 1
        /\ \A n \in 1 .. Len(s) - 1 : Tail(s)[n] = s[n + 1]
    OBVIOUS
  <1>2. ASSUME NEW x \in Range(s) PROVE x \in {Head(s)} \cup Range(Tail(s))
    <2>1. PICK n \in 1 .. Len(s) : x = s[n]
      BY <1>1 DEF Range
    <2>2. CASE n = 1
      BY <1>1, <2>1, <2>2
    <2>3. CASE n # 1
      <3>1. n - 1 \in 1 .. Len(s) - 1 /\ (n - 1) + 1 = n
        BY <1>1, <2>3
      <3>2. Tail(s)[n - 1] = x
        BY <1>1, <2>1, <3>1
      <3> QED BY <1>1, <3>1, <3>2 DEF Range
    <2> QED BY <2>2, <2>3
  <1>3. ASSUME NEW x \in Range(Tail(s)) PROVE x \in Range(s)
    <2>1. PICK n \in 1 .. Len(s) - 1 : x = Tail(s)[n]
      BY <1>1, <1>3 DEF Range
    <2>2. n + 1 \in 1 .. Len(s) /\ s[n + 1] = x
      BY <1>1, <2>1
    <2> QED BY <1>1, <2>2 DEF Range
  <1>4. Head(s) \in Range(s)
    BY <1>1 DEF Range
  <1> QED BY <1>1, <1>2, <1>3, <1>4

-----------------------------------------------------------------------------
(* Runs know: starting to match and scanning the book.                     *)

LEMMA PlainEffect ==
    ASSUME RunsTyped, NEW w \in Workers, NEW label, NEW me,
           GoTo(w, label), local' = [local EXCEPT ![w] = me], UNCHANGED <<job, sym>>
    PROVE  /\ pc'[w] = label /\ local'[w] = me /\ Alone(w)
           /\ job'[w] = job[w] /\ sym'[w] = sym[w]
  BY DEF RunsTyped, GoTo, Alone

(* A run that goes on knows what it knew, and what it has learned.         *)
LEMMA RunMoves ==
    ASSUME RowsKept, NEW w \in Workers, RunKnown(w), pc[w] = "lock" \/ Critical(w),
           job'[w] = job[w], sym'[w] = sym[w], pc'[w] \notin {"idle", "lock"},
           ~local'[w].drop,
           \A t \in Range(local'[w].changed) : TaskTrue(t)' /\ t.row.symbol = sym[w],
           \A e \in local'[w].scan : e.id \in DOMAIN orders /\ orders[e.id].symbol = sym[w],
           Phase(w)' \in Reading =>
              SameOrder(local'[w].incoming, orders'[job[w]]) /\ IsOpen(local'[w].incoming),
           pc'[w] = "settle" => local'[w].resting \in DOMAIN orders
                                /\ orders[local'[w].resting].symbol = sym[w]
    PROVE  RunKnown(w)'
  <1>1. /\ job[w] \in DOMAIN orders /\ job[w] \in DOMAIN orders'
        /\ sym[w] = orders'[job[w]].symbol
    BY RowStands DEF RunKnown, Critical
  <1>2. \A e \in local'[w].scan : e.id \in DOMAIN orders' /\ orders'[e.id].symbol = sym[w]
    BY RowStands
  <1>3. pc'[w] = "settle" => local'[w].resting \in DOMAIN orders'
                             /\ orders'[local'[w].resting].symbol = sym[w]
    BY RowStands
  <1> QED BY <1>1, <1>2, <1>3 DEF RunKnown

LEMMA StillBelieves ==
    ASSUME RowsKept, NEW w \in Workers, RunKnown(w), Phase(w) \in Reading
    PROVE  /\ job[w] \in DOMAIN orders /\ SameOrder(local[w].incoming, orders[job[w]])
           /\ SameOrder(local[w].incoming, orders'[job[w]]) /\ IsOpen(local[w].incoming)
  <1>1. pc[w] # "idle"
    BY DEF Phase, Reading, Syncing
  <1> QED BY <1>1, RowStands, SameTrans DEF RunKnown

(* The same when it goes on with syncOrderBook.                            *)
LEMMA RunSyncs ==
    ASSUME EngineTyped, RowsKept, NEW w \in Workers, RunKnown(w), Critical(w),
           NEW tasks, NEW next \in {"reload", "release", "scan", "range"}, NEW me,
           DOMAIN me = Fields, SyncThen(w, tasks, next, me), UNCHANGED <<job, sym>>,
           ~me.drop,
           \A t \in Range(tasks) : TaskTrue(t)' /\ t.row.symbol = sym[w],
           me.scan \subseteq local[w].scan,
           next \in Reading =>
              SameOrder(me.incoming, orders'[job[w]]) /\ IsOpen(me.incoming)
    PROVE  RunKnown(w)' /\ Alone(w)
  <1>1. /\ pc'[w] = (IF tasks = <<>> THEN next ELSE "sync")
        /\ local'[w].incoming = me.incoming /\ local'[w].scan = me.scan
        /\ local'[w].drop = me.drop
        /\ local'[w].changed = tasks
        /\ tasks # <<>> => local'[w].next = next
        /\ Alone(w) /\ job'[w] = job[w] /\ sym'[w] = sym[w]
    BY SyncEffect DEF EngineTyped
  <1>2. pc'[w] \in {"reload", "release", "scan", "range", "sync"} /\ Phase(w)' = next
    BY <1>1 DEF Phase, Syncing
  <1>3. \A e \in local'[w].scan : e.id \in DOMAIN orders /\ orders[e.id].symbol = sym[w]
    BY <1>1 DEF RunKnown
  <1>4. Phase(w)' \in Reading =>
              SameOrder(local'[w].incoming, orders'[job[w]]) /\ IsOpen(local'[w].incoming)
    BY <1>1, <1>2
  <1> QED BY <1>1, <1>2, <1>3, <1>4, RunMoves

LEMMA ReloadKnown ==
    ASSUME EngineTyped, Known, NEW w \in Workers, Reload(w)
    PROVE  RunKnown(w)' /\ Alone(w)
  <1> DEFINE me == local[w]
             next == IF RowOpen(job[w]) THEN "range" ELSE "release"
             new == [me EXCEPT !.incoming = RowOf(job[w]), !.resting = NoOrder,
                               !.restingRow = NoRow, !.drop = FALSE]
  <1>1. me \in RunType /\ RunKnown(w) /\ Critical(w) /\ UNCHANGED <<job, sym, orders, issued>>
    BY DEF EngineTyped, RunsTyped, Reload, Known, Critical, ledgerVars
  <1>2. SyncThen(w, <<>>, next, new)
    BY <1>1 DEF Reload, RunKnown
  <1>3. DOMAIN new = Fields /\ new.incoming = RowOf(job[w]) /\ new.drop = FALSE
        /\ new.scan = me.scan
    BY <1>1, RunFields DEF RunType
  <1>4. RowsKept
    BY <1>1, StillKept
  <1>5. next = "range" => SameOrder(new.incoming, orders'[job[w]]) /\ IsOpen(new.incoming)
    BY <1>1, <1>3 DEF RowOpen, RowOf, SameOrder
  <1>6. next \in {"range", "release"} /\ (next \in Reading => next = "range")
    BY DEF Reading
  <1> HIDE DEF next, new
  <1> QED BY <1>1, <1>2, <1>3, <1>4, <1>5, <1>6, Ranges, RunSyncs

LEMMA ScanKnown ==
    ASSUME EngineTyped, Known, NEW w \in Workers, ReadBook(w) \/ Scan(w)
    PROVE  RunKnown(w)' /\ Alone(w) /\ book' = book
  <1> DEFINE me == local[w]
  <1>1. me \in RunType /\ RunKnown(w) /\ Critical(w) /\ UNCHANGED <<job, sym, orders, issued>>
        /\ RunsTyped /\ Phase(w) \in Reading /\ pc[w] \in {"range", "scan"}
    BY Zenon DEF EngineTyped, RunsTyped, ReadBook, Scan, DropMissingEntry, SyncClosedEntry, SkipOwnEntry,
           ChooseEntry, ScanExhausted, AtEntry, Known, Critical, ledgerVars, Phase, Syncing, Reading
  <1>2. RowsKept
    BY <1>1, StillKept
  <1>3. /\ \A t \in Range(me.changed) : TaskTrue(t)' /\ t.row.symbol = sym[w]
        /\ \A e \in me.scan : e.id \in DOMAIN orders /\ orders[e.id].symbol = sym[w]
        /\ ~me.drop
        /\ SameOrder(me.incoming, orders'[job[w]]) /\ IsOpen(me.incoming)
        /\ SameOrder(me.incoming, orders[job[w]])
    BY <1>1, <1>2, TaskStands, StillBelieves DEF RunKnown
  <1>4. CASE ReadBook(w)
    <2> DEFINE all == FirstEntries(sym[w], Opposite(me.incoming.side))
               new == [me EXCEPT !.scan = all]
    <2>1. \A e \in all : e.id \in DOMAIN orders /\ orders[e.id].symbol = sym[w]
      <3>1. sym[w] \in Symbols /\ me.incoming.side \in Sides
        BY <1>1 DEF RunsTyped, RunShaped, OrderRow
      <3>2. <<sym[w], Opposite(me.incoming.side)>> \in Symbols \X Sides
        BY <3>1 DEF Opposite, Sides
      <3> QED BY <3>2 DEF FirstEntries, Known, BookPlaced, Placed
    <2> HIDE DEF all
    <2>2. /\ new.scan = all /\ new.changed = me.changed /\ new.drop = me.drop
          /\ new.incoming = me.incoming
      BY <1>1 DEF RunType
    <2>3. GoTo(w, "scan") /\ local' = [local EXCEPT ![w] = new] /\ book' = book
      BY <1>4 DEF ReadBook, all, redisVars
    <2> HIDE DEF new
    <2>4. pc'[w] = "scan" /\ local'[w] = new /\ Alone(w) /\ job'[w] = job[w] /\ sym'[w] = sym[w]
      BY <1>1, <2>3, PlainEffect
    <2> QED BY <1>1, <1>2, <1>3, <2>1, <2>2, <2>3, <2>4, RunMoves
  <1>5. CASE DropMissingEntry(w)
    BY <1>3, <1>5 DEF DropMissingEntry
  <1>6. CASE SkipOwnEntry(w)
    <2>1. PICK e \in me.scan : local' = [local EXCEPT ![w].scan = @ \ {e}]
      BY <1>6 DEF SkipOwnEntry
    <2> DEFINE new == [me EXCEPT !.scan = @ \ {e}]
    <2>2. /\ new.scan = me.scan \ {e} /\ new.changed = me.changed /\ new.drop = me.drop
          /\ new.incoming = me.incoming
      BY <1>1 DEF RunType
    <2>3. GoTo(w, pc[w]) /\ local' = [local EXCEPT ![w] = new] /\ pc[w] = "scan" /\ book' = book
      BY <1>1, <1>6, <2>1 DEF SkipOwnEntry, AtEntry, GoTo, RunsTyped, redisVars
    <2> HIDE DEF new
    <2>4. pc'[w] = "scan" /\ local'[w] = new /\ Alone(w) /\ job'[w] = job[w] /\ sym'[w] = sym[w]
      BY <1>1, <2>3, PlainEffect
    <2> QED BY <1>1, <1>2, <1>3, <2>2, <2>3, <2>4, RunMoves
  <1>7. CASE SyncClosedEntry(w)
    <2>1. PICK e \in me.scan :
             /\ e.id \in DOMAIN orders
             /\ SyncThen(w, <<Task(e.id, orders[e.id])>>, "scan", [me EXCEPT !.scan = @ \ {e}])
      BY <1>7 DEF SyncClosedEntry
    <2> PICK t : t = Task(e.id, orders[e.id])
      OBVIOUS
    <2> DEFINE new == [me EXCEPT !.scan = @ \ {e}]
    <2>2. new.scan = me.scan \ {e} /\ new.drop = me.drop /\ new.incoming = me.incoming
          /\ DOMAIN new = Fields
      BY <1>1, RunFields DEF RunType
    <2>3. TaskTrue(t) /\ t.row = orders[e.id]
      BY <2>1, FreshTasksNow DEF FreshTasks, EngineTyped
    <2>4. TaskTrue(t)' /\ t.row.symbol = sym[w]
      BY <1>2, <1>3, <2>3, TaskStands
    <2>5. SyncThen(w, <<t>>, "scan", new) /\ book' = book
      BY <1>7, <2>1 DEF SyncClosedEntry, redisVars
    <2> HIDE DEF new
    <2>6. \A u \in Range(<<t>>) : TaskTrue(u)' /\ u.row.symbol = sym[w]
      BY <2>4, Ranges
    <2>7. RunKnown(w)' /\ Alone(w)
      BY <1>1, <1>2, <1>3, <2>2, <2>5, <2>6, RunSyncs
    <2> QED BY <2>5, <2>7
  <1>8. CASE ChooseEntry(w)
    <2>1. PICK e \in me.scan :
             IF CanMatch(me.incoming, orders[e.id])
             THEN /\ GoTo(w, "settle")
                  /\ local' = [local EXCEPT ![w].resting = e.id,
                                   ![w].restingRow = orders[e.id], ![w].scan = {}]
             ELSE GoTo(w, "finish") /\ local' = [local EXCEPT ![w].scan = {}]
      BY Zenon, <1>8 DEF ChooseEntry
    <2>0. PICK label \in {"settle", "finish"} : \E new :
             /\ GoTo(w, label) /\ local' = [local EXCEPT ![w] = new]
             /\ new.scan = {} /\ new.changed = me.changed /\ new.drop = me.drop
             /\ new.incoming = me.incoming
             /\ label = "settle" => new.resting = e.id
      <3>1. CASE CanMatch(me.incoming, orders[e.id])
        <4> DEFINE new == [me EXCEPT !.resting = e.id, !.restingRow = orders[e.id], !.scan = {}]
        <4>1. /\ new.scan = {} /\ new.changed = me.changed /\ new.drop = me.drop
              /\ new.incoming = me.incoming /\ new.resting = e.id
          BY <1>1 DEF RunType
        <4>2. GoTo(w, "settle") /\ local' = [local EXCEPT ![w] = new]
          BY <1>1, <2>1, <3>1 DEF RunsTyped
        <4> HIDE DEF new
        <4> QED BY <4>1, <4>2
      <3>2. CASE ~CanMatch(me.incoming, orders[e.id])
        <4> DEFINE new == [me EXCEPT !.scan = {}]
        <4>1. /\ new.scan = {} /\ new.changed = me.changed /\ new.drop = me.drop
              /\ new.incoming = me.incoming
          BY <1>1 DEF RunType
        <4>2. GoTo(w, "finish") /\ local' = [local EXCEPT ![w] = new]
          BY <2>1, <3>2
        <4> HIDE DEF new
        <4> QED BY <4>1, <4>2
      <3> QED BY <3>1, <3>2
    <2>2. PICK new :
             /\ GoTo(w, label) /\ local' = [local EXCEPT ![w] = new]
             /\ new.scan = {} /\ new.changed = me.changed /\ new.drop = me.drop
             /\ new.incoming = me.incoming
             /\ label = "settle" => new.resting = e.id
      BY <2>0
    <2>3. pc'[w] = label /\ local'[w] = new /\ Alone(w) /\ job'[w] = job[w] /\ sym'[w] = sym[w]
      <3>1. RunsTyped /\ UNCHANGED <<job, sym>>
            /\ GoTo(w, label) /\ local' = [local EXCEPT ![w] = new]
        BY <1>1, <2>2
      <3> QED BY <3>1, PlainEffect
    <2>4. book' = book
      BY <1>8 DEF ChooseEntry, redisVars
    <2> QED BY <1>1, <1>2, <1>3, <2>2, <2>3, <2>4, RunMoves
  <1>9. CASE ScanExhausted(w)
    <2>1. GoTo(w, "finish") /\ local' = [local EXCEPT ![w] = me] /\ book' = book
      BY <1>1, <1>9 DEF ScanExhausted, RunsTyped, redisVars
    <2>2. pc'[w] = "finish" /\ local'[w] = me /\ Alone(w) /\ job'[w] = job[w] /\ sym'[w] = sym[w]
      BY <1>1, <2>1, PlainEffect
    <2> QED BY <1>1, <1>2, <1>3, <2>1, <2>2, RunMoves
  <1> QED BY <1>4, <1>5, <1>6, <1>7, <1>8, <1>9 DEF Scan

-----------------------------------------------------------------------------
(* Runs know: settlement, syncOrderBook, the end of the matching loop.     *)

LEMMA SettleKnown ==
    ASSUME EngineTyped, LedgerInv', Known, RowsKept, NEW w \in Workers, Settlement(w)
    PROVE  RunKnown(w)' /\ Alone(w) /\ ~SettleMissing(w) /\ book' = book /\ DOMAIN orders' = DOMAIN orders
  <1> DEFINE me == local[w]
             i == job[w]
             r == me.resting
  <1>1. me \in RunType /\ RunsTyped /\ RunKnown(w) /\ LedgerInv
    BY DEF EngineTyped, RunsTyped, Known
  <1>2. pc[w] = "settle" /\ Critical(w) /\ UNCHANGED <<job, sym, book>>
    BY DEF Settlement, TradePair, CloseUnfillable, SettleMissing, SettleRefused, Critical, redisVars
  <1>3. \A o \in {i, r} : o \in DOMAIN orders /\ orders[o].symbol = sym[w]
    BY <1>1, <1>2 DEF RunKnown
  <1>4. ~SettleMissing(w)
    BY <1>3 DEF SettleMissing
  <1>5. ~me.drop
    BY <1>1 DEF RunKnown
  <1>6. ASSUME DOMAIN orders' = DOMAIN orders, NEW o \in {i, r}, NEW t,
               (t = Task(o, orders[o]) /\ UNCHANGED orders) \/ t = Task(o, orders'[o])
        PROVE  TaskTrue(t)' /\ t.row.symbol = sym[w]
    <2>1. t = Task(o, orders'[o]) /\ o \in DOMAIN orders'
      BY <1>3, <1>6
    <2>2. TaskTrue(t)' /\ t.row = orders'[o]
      BY <2>1, FreshTasksNext DEF FreshTasks
    <2>3. orders'[o].symbol = orders[o].symbol
      BY <1>3, RowStands
    <2> QED BY <1>3, <2>2, <2>3
  <1>7. CASE TradePair(w)
    <2> PICK t \in {Task(BuyId(i, r), orders'[BuyId(i, r)])},
             u \in {Task(SellId(i, r), orders'[SellId(i, r)])} : TRUE
      OBVIOUS
    <2> DEFINE tasks == <<t, u>>
               new == [me EXCEPT !.trade = Len(trades'), !.next = "reload", !.changed = tasks]
    <2>1. DOMAIN orders' = DOMAIN orders
      BY Zenon, <1>1, <1>7, SettleIds, TradeKept DEF TradePair
    <2>2. BuyId(i, r) \in {i, r} /\ SellId(i, r) \in {i, r}
      BY DEF BuyId, SellId
    <2>3. \A x \in Range(tasks) : TaskTrue(x)' /\ x.row.symbol = sym[w]
      BY <1>6, <2>1, <2>2, Ranges
    <2>4. local' = [local EXCEPT ![w] = new] /\ GoTo(w, "publish")
      BY <1>1, <1>7 DEF TradePair, RunsTyped, TradedTasks
    <2> HIDE DEF tasks
    <2>5. /\ new.drop = me.drop /\ new.scan = me.scan
          /\ new.changed = tasks /\ new.next = "reload"
      BY <1>1 DEF RunType
    <2> HIDE DEF new
    <2>6. pc'[w] = "publish" /\ local'[w] = new /\ Alone(w) /\ job'[w] = job[w] /\ sym'[w] = sym[w]
      BY <1>1, <1>2, <2>4, PlainEffect
    <2>7. Phase(w)' = "reload"
      BY <2>5, <2>6 DEF Phase, Syncing
    <2>8. \A e \in local'[w].scan : e.id \in DOMAIN orders /\ orders[e.id].symbol = sym[w]
      BY <1>1, <1>2, <2>5, <2>6 DEF RunKnown
    <2>9. "reload" \notin Reading
      BY DEF Reading
    <2>10. RunKnown(w)'
      BY <1>1, <1>2, <1>5, <2>3, <2>5, <2>6, <2>7, <2>8, <2>9, RunMoves
    <2> QED BY <1>2, <1>4, <2>1, <2>6, <2>10
  <1>8. CASE \E o, x \in {i, r} : \E tasks \in {<<Task(o, orders'[o])>>, <<Task(o, orders'[o]), Task(x, orders'[x])>>} :
                SyncThen(w, tasks, "reload", me) /\ DOMAIN orders' = DOMAIN orders
    <2>1. PICK o \in {i, r}, x \in {i, r} :
             \E tasks \in {<<Task(o, orders'[o])>>, <<Task(o, orders'[o]), Task(x, orders'[x])>>} :
                SyncThen(w, tasks, "reload", me) /\ DOMAIN orders' = DOMAIN orders
      BY <1>8
    <2> PICK t \in {Task(o, orders'[o])}, u \in {Task(x, orders'[x])} : TRUE
      OBVIOUS
    <2>2. PICK tasks \in {<<t>>, <<t, u>>} :
             SyncThen(w, tasks, "reload", me) /\ DOMAIN orders' = DOMAIN orders
      BY <2>1
    <2>3. \A y \in Range(tasks) : TaskTrue(y)' /\ y.row.symbol = sym[w]
      <3>1. Range(tasks) \subseteq {t, u}
        BY <2>2, Ranges
      <3> QED BY <1>6, <2>2, <3>1
    <2>4. DOMAIN me = Fields
      BY <1>1, RunFields
    <2>5. "reload" \notin Reading
      BY DEF Reading
    <2>6. RunKnown(w)' /\ Alone(w)
      BY <1>1, <1>2, <1>5, <2>2, <2>3, <2>4, <2>5, RunSyncs
    <2> QED BY <1>2, <1>4, <2>2, <2>6
  <1>9. CASE CloseUnfillable(w)
    <2> DEFINE blamed == IF orders'[i] # orders[i] THEN i ELSE r
               other == IF blamed = i THEN r ELSE i
    <2>1. SyncThen(w, <<Task(blamed, orders'[blamed]), Task(other, orders[other])>>, "reload", me)
      BY <1>9 DEF CloseUnfillable
    <2>2. PICK x \in {i, r} : ~IsOpen(orders'[x]) /\ IsOpen(orders[x])
                               /\ \A y \in DOMAIN orders \ {x} : orders'[y] = orders[y]
      BY <1>1, <1>9, SettleIds, UnfillableKept DEF CloseUnfillable
    <2>3. orders'[x] # orders[x]
      BY <2>2
    <2>4. i # r
      BY <1>1, <1>9, SettleIds DEF Settleable
    <2>5. blamed = x /\ orders[other] = orders'[other] /\ other \in {i, r} /\ blamed \in {i, r}
      BY <1>3, <2>2, <2>3, <2>4
    <2>6. DOMAIN orders' = DOMAIN orders
      BY <1>1, <1>9, SettleIds, UnfillableKept DEF CloseUnfillable
    <2> HIDE DEF blamed, other
    <2>7. SyncThen(w, <<Task(blamed, orders'[blamed]), Task(other, orders'[other])>>, "reload", me)
      BY <2>1, <2>5
    <2> QED BY <1>8, <2>5, <2>6, <2>7
  <1>10. CASE SettleRefused(w)
    <2>1. UNCHANGED orders
      BY <1>10 DEF SettleRefused, ledgerVars
    <2>2. CASE GoTo(w, "release") /\ local' = [local EXCEPT ![w].failed = TRUE]
      <3> DEFINE new == [me EXCEPT !.failed = TRUE]
      <3>1. new.drop = me.drop /\ new.scan = me.scan /\ new.changed = me.changed
        BY <1>1 DEF RunType
      <3>2. GoTo(w, "release") /\ local' = [local EXCEPT ![w] = new]
        BY <2>2
      <3> HIDE DEF new
      <3>3. pc'[w] = "release" /\ local'[w] = new /\ Alone(w) /\ job'[w] = job[w] /\ sym'[w] = sym[w]
        BY <1>1, <1>2, <3>2, PlainEffect
      <3>4. Phase(w)' \notin Reading
        BY <3>3 DEF Phase, Syncing, Reading
      <3>5. \A t \in Range(me.changed) : TaskTrue(t)' /\ t.row.symbol = sym[w]
        BY <1>1, <1>2, TaskStands DEF RunKnown
      <3>6. \A e \in me.scan : e.id \in DOMAIN orders /\ orders[e.id].symbol = sym[w]
        BY <1>1, <1>2 DEF RunKnown
      <3>7. RunKnown(w)'
        BY <1>1, <1>2, <1>5, <3>1, <3>3, <3>4, <3>5, <3>6, RunMoves
      <3> QED BY <1>2, <1>4, <2>1, <3>3, <3>7
    <2>3. CASE \/ SyncThen(w, <<Task(i, orders[i]), Task(r, orders[r])>>, "reload", me)
               \/ SyncThen(w, <<Task(i, orders[i])>>, "reload", me)
      BY <1>8, <2>1, <2>3
    <2> QED BY <1>10, <2>2, <2>3 DEF SettleRefused
  <1> QED BY <1>4, <1>7, <1>9, <1>10 DEF Settlement

LEMMA BriefKnown ==
    ASSUME EngineTyped, Known, NEW w \in Workers, Announce(w) \/ SyncRead(w)
    PROVE  RunKnown(w)' /\ Alone(w)
  <1> DEFINE me == local[w]
  <1>1. me \in RunType /\ RunsTyped /\ RunKnown(w) /\ RunShaped(w) /\ Critical(w)
    BY DEF EngineTyped, RunsTyped, Known, Critical, Announce, SyncRead
  <1>2. UNCHANGED <<job, sym, orders, issued>> /\ pc[w] \in {"publish", "sync"}
    BY Zenon DEF Announce, SyncRead, ledgerVars
  <1>3. RowsKept
    BY <1>2, StillKept
  <1>0. PICK label \in {"sync", "write"} : \E new :
           /\ GoTo(w, label) /\ local' = [local EXCEPT ![w] = new]
           /\ new.drop = me.drop /\ new.scan = me.scan /\ new.changed = me.changed
           /\ new.next = me.next /\ new.incoming = me.incoming
    <2>1. CASE Announce(w)
      <3> DEFINE new == [me EXCEPT !.trade = 0]
      <3>1. /\ new.drop = me.drop /\ new.scan = me.scan /\ new.changed = me.changed
            /\ new.next = me.next /\ new.incoming = me.incoming
        BY <1>1 DEF RunType
      <3>2. GoTo(w, "sync") /\ local' = [local EXCEPT ![w] = new]
        BY <2>1 DEF Announce
      <3> HIDE DEF new
      <3> QED BY <3>1, <3>2
    <2>2. CASE SyncRead(w)
      <3>1. PICK m : local' = [local EXCEPT ![w].member = m]
        BY Zenon, <2>2 DEF SyncRead
      <3> DEFINE new == [me EXCEPT !.member = m]
      <3>2. /\ new.drop = me.drop /\ new.scan = me.scan /\ new.changed = me.changed
            /\ new.next = me.next /\ new.incoming = me.incoming
        BY <1>1 DEF RunType
      <3>3. GoTo(w, "write") /\ local' = [local EXCEPT ![w] = new]
        BY Zenon, <2>2, <3>1 DEF SyncRead
      <3> HIDE DEF new
      <3> QED BY <3>2, <3>3
    <2> QED BY <2>1, <2>2
  <1>4. PICK new :
           /\ GoTo(w, label) /\ local' = [local EXCEPT ![w] = new]
           /\ new.drop = me.drop /\ new.scan = me.scan /\ new.changed = me.changed
           /\ new.next = me.next /\ new.incoming = me.incoming
    BY <1>0
  <1>5. pc'[w] = label /\ local'[w] = new /\ Alone(w) /\ job'[w] = job[w] /\ sym'[w] = sym[w]
    <2>1. RunsTyped /\ UNCHANGED <<job, sym>>
          /\ GoTo(w, label) /\ local' = [local EXCEPT ![w] = new]
      BY <1>1, <1>2, <1>4
    <2> QED BY <2>1, PlainEffect
  <1>6. Phase(w)' = Phase(w)
    BY <1>2, <1>4, <1>5 DEF Phase, Syncing
  <1>7. Phase(w)' \in Reading =>
              SameOrder(local'[w].incoming, orders'[job[w]]) /\ IsOpen(local'[w].incoming)
    BY <1>1, <1>3, <1>4, <1>5, <1>6, StillBelieves
  <1>8. \A t \in Range(me.changed) : TaskTrue(t)' /\ t.row.symbol = sym[w]
    BY <1>1, <1>3, TaskStands DEF RunKnown
  <1>9. /\ \A e \in me.scan : e.id \in DOMAIN orders /\ orders[e.id].symbol = sym[w]
        /\ ~me.drop
    BY <1>1 DEF RunKnown
  <1> QED BY <1>1, <1>3, <1>4, <1>5, <1>7, <1>8, <1>9, RunMoves

LEMMA WriteKnown ==
    ASSUME EngineTyped, Known, NEW w \in Workers, SyncWrite(w)
    PROVE  RunKnown(w)' /\ Alone(w) /\ BookPlaced'
  <1> DEFINE me == local[w]
             tail == Tail(me.changed)
             new == [me EXCEPT !.member = 0]
  <1>1. me \in RunType /\ RunsTyped /\ RunKnown(w) /\ RunShaped(w) /\ Critical(w) /\ pc[w] = "write"
    BY DEF EngineTyped, RunsTyped, Known, Critical, SyncWrite
  <1>2. UNCHANGED <<job, sym, orders, issued>>
    BY DEF SyncWrite, ledgerVars
  <1>3. RowsKept
    BY <1>2, StillKept
  <1>4. /\ me.changed \in Seq(TaskType) /\ me.changed # <<>>
        /\ me.next \in {"reload", "release", "scan", "range"} /\ Phase(w) = me.next
    BY <1>1 DEF RunShaped, RunType, Syncing, Phase
  <1> PICK t : t = Head(me.changed)
    OBVIOUS
  <1>5. Range(me.changed) = {t} \cup Range(tail)
    BY <1>4, RangeTail
  <1>6. \A x \in Range(tail) : TaskTrue(x)' /\ x.row.symbol = sym[w]
    BY <1>1, <1>3, <1>5, TaskStands DEF RunKnown
  <1>7. TaskTrue(t)
    BY <1>1, <1>5 DEF RunKnown
  <1>8. SyncThen(w, tail, me.next, new)
    BY DEF SyncWrite
  <1>9. DOMAIN new = Fields /\ new.drop = me.drop /\ new.scan = me.scan /\ new.incoming = me.incoming
    BY <1>1, RunFields DEF RunType
  <1>10. me.next \in Reading => SameOrder(new.incoming, orders'[job[w]]) /\ IsOpen(new.incoming)
    BY <1>1, <1>3, <1>4, <1>9, StillBelieves
  <1>11. ~me.drop
    BY <1>1 DEF RunKnown
  <1>12. RunKnown(w)' /\ Alone(w)
    <2> HIDE DEF new, tail
    <2> QED BY <1>1, <1>2, <1>3, <1>4, <1>6, <1>8, <1>9, <1>10, <1>11, RunSyncs
  <1>13. ASSUME NEW k \in Symbols \X Sides, NEW e \in book'[k] PROVE Placed(k, e)'
    <2> DEFINE k0 == <<t.row.symbol, t.row.side>>
               new0 == Entry(t.id, me.member, t.row)
    <2>1. book \in [Symbols \X Sides -> SUBSET EntryType]
      BY DEF EngineTyped, RedisTyped
    <2>2. e \in book[k] \/ (k = k0 /\ t.keep /\ e = new0)
      BY Zenon, <1>13, <2>1 DEF SyncWrite
    <2>3. CASE e \in book[k]
      BY <1>3, <2>3, PlacedStands DEF Known, BookPlaced
    <2>4. CASE k = k0 /\ t.keep /\ e = new0
      BY Zenon, <1>2, <1>7, <2>4 DEF TaskTrue, SameOrder, Placed, Entry, Score, IsLimit
    <2> QED BY <2>2, <2>3, <2>4
  <1> QED BY <1>12, <1>13 DEF BookPlaced

LEMMA FinishKnown ==
    ASSUME EngineTyped, LedgerInv', Known, RowsKept, NEW w \in Workers,
           CancelRemainder(w) \/ RestInBook(w)
    PROVE  RunKnown(w)' /\ Alone(w) /\ book' = book
  <1> DEFINE me == local[w]
             o == job[w]
  <1>1. me \in RunType /\ RunsTyped /\ RunKnown(w) /\ RunShaped(w) /\ LedgerInv
    BY DEF EngineTyped, RunsTyped, Known
  <1>2. pc[w] = "finish" /\ Critical(w) /\ UNCHANGED <<job, sym, book>> /\ Phase(w) \in Reading
    BY DEF CancelRemainder, RestInBook, Critical, redisVars, Phase, Syncing, Reading
  <1>3. o \in DOMAIN orders /\ orders[o].symbol = sym[w] /\ ~me.drop
        /\ SameOrder(me.incoming, orders[o]) /\ IsOpen(me.incoming) /\ me.incoming \in OrderRow
    BY <1>1, <1>2 DEF RunKnown, RunShaped
  <1>4. "release" \notin Reading /\ DOMAIN me = Fields
    BY <1>1, RunFields DEF Reading
  <1>5. ASSUME NEW t, SyncThen(w, <<t>>, "release", me), TaskTrue(t)', t.row.symbol = sym[w]
        PROVE  RunKnown(w)' /\ Alone(w)
    <2>1. \A u \in Range(<<t>>) : TaskTrue(u)' /\ u.row.symbol = sym[w]
      BY <1>5, Ranges
    <2> QED BY <1>1, <1>2, <1>3, <1>4, <1>5, <2>1, RunSyncs
  <1>6. CASE RestInBook(w)
    <2> PICK t : t = Task(o, me.incoming)
      OBVIOUS
    <2>1. Priced(me.incoming)
      <3>1. Priced(orders[o])
        BY <1>1, <1>3 DEF LedgerInv, RowsPriced, Priced
      <3> QED BY <1>3, <3>1 DEF SameOrder, Priced, IsLimit
    <2>2. t.id = o /\ t.row = me.incoming /\ t.keep
      BY <1>3, <1>6, <2>1, TaskOf DEF RestInBook
    <2>3. TaskTrue(t) /\ t.row.symbol = sym[w]
      BY <1>3, <1>6, <2>2 DEF TaskTrue, SameOrder, RestInBook
    <2>4. TaskTrue(t)' /\ SyncThen(w, <<t>>, "release", me)
      BY <1>6, <2>3, TaskStands DEF RestInBook
    <2> QED BY <1>2, <1>5, <2>3, <2>4
  <1>7. CASE CancelRemainder(w)
    <2>1. CASE HasOpenStatus(o)
      <3> PICK t : t = Task(o, orders'[o])
        OBVIOUS
      <3>1. o \in DOMAIN orders' /\ orders'[o].symbol = sym[w]
        BY <1>3, RowStands
      <3>2. TaskTrue(t)' /\ t.row = orders'[o]
        BY <3>1, FreshTasksNext DEF FreshTasks
      <3>3. SyncThen(w, <<t>>, "release", me)
        BY <1>7, <2>1 DEF CancelRemainder
      <3> QED BY <1>2, <1>5, <3>1, <3>2, <3>3
    <2>2. CASE ~HasOpenStatus(o)
      <3>1. GoTo(w, "release") /\ local' = [local EXCEPT ![w] = me]
        BY <1>1, <1>7, <2>2 DEF CancelRemainder, RunsTyped
      <3>2. pc'[w] = "release" /\ local'[w] = me /\ Alone(w) /\ job'[w] = job[w] /\ sym'[w] = sym[w]
        BY <1>1, <1>2, <3>1, PlainEffect
      <3>3. Phase(w)' \notin Reading
        BY <3>2 DEF Phase, Syncing, Reading
      <3>4. \A t \in Range(me.changed) : TaskTrue(t)' /\ t.row.symbol = sym[w]
        BY <1>1, <1>2, TaskStands DEF RunKnown
      <3>5. \A e \in me.scan : e.id \in DOMAIN orders /\ orders[e.id].symbol = sym[w]
        BY <1>1, <1>2 DEF RunKnown
      <3>6. RunKnown(w)'
        BY <1>1, <1>2, <1>3, <3>2, <3>3, <3>4, <3>5, RunMoves
      <3> QED BY <1>2, <3>2, <3>6
    <2> QED BY <2>1, <2>2
  <1> QED BY <1>6, <1>7

-----------------------------------------------------------------------------
(* Runs know: the whole of Next.                                           *)

(* Into the lock, out of it, and to the end of the job.                    *)
LEMMA MoveKnown ==
    ASSUME EngineTyped, Known, NEW w \in Workers,
           AcquireLock(w) \/ ReleaseLock(w) \/ LockTimeout(w) \/ Throw(w)
    PROVE  RunKnown(w)' /\ Alone(w)
  <1> DEFINE me == local[w]
  <1>1. me \in RunType /\ RunsTyped /\ RunKnown(w)
    BY DEF EngineTyped, RunsTyped, Known
  <1>2. /\ UNCHANGED <<job, sym, orders, issued>> /\ pc[w] \notin {"idle", "done", "fail"}
        /\ (pc[w] = "lock" \/ Critical(w))
    BY DEF AcquireLock, ReleaseLock, LockTimeout, Throw, ledgerVars, Critical
  <1>3. RowsKept
    BY <1>2, StillKept
  <1>0. PICK label \in {"reload", "release", "done", "fail"} : \E new :
           /\ GoTo(w, label) /\ local' = [local EXCEPT ![w] = new]
           /\ new.drop = me.drop /\ new.scan = me.scan /\ new.changed = me.changed
    <2>1. CASE \E label \in {"reload", "release", "done", "fail"} : GoTo(w, label) /\ local' = local
      <3>1. local' = [local EXCEPT ![w] = me]
        BY <1>1, <2>1 DEF RunsTyped
      <3> QED BY <2>1, <3>1
    <2>2. CASE GoTo(w, "release") /\ local' = [local EXCEPT ![w].failed = TRUE]
      <3> DEFINE new == [me EXCEPT !.failed = TRUE]
      <3>1. new.drop = me.drop /\ new.scan = me.scan /\ new.changed = me.changed
        BY <1>1 DEF RunType
      <3>2. GoTo(w, "release") /\ local' = [local EXCEPT ![w] = new]
        BY <2>2
      <3> HIDE DEF new
      <3> QED BY <3>1, <3>2
    <2> QED BY <2>1, <2>2 DEF AcquireLock, ReleaseLock, LockTimeout, Throw
  <1>4. PICK new :
           /\ GoTo(w, label) /\ local' = [local EXCEPT ![w] = new]
           /\ new.drop = me.drop /\ new.scan = me.scan /\ new.changed = me.changed
    BY <1>0
  <1>5. pc'[w] = label /\ local'[w] = new /\ Alone(w) /\ job'[w] = job[w] /\ sym'[w] = sym[w]
    <2>1. RunsTyped /\ UNCHANGED <<job, sym>>
          /\ GoTo(w, label) /\ local' = [local EXCEPT ![w] = new]
      BY <1>1, <1>2, <1>4
    <2> QED BY <2>1, PlainEffect
  <1>6. Phase(w)' \notin Reading
    BY <1>4, <1>5 DEF Phase, Syncing, Reading
  <1>7. \A t \in Range(me.changed) : TaskTrue(t)' /\ t.row.symbol = sym[w]
    <2>1. CASE pc[w] = "lock"
      BY <1>1, <2>1, Ranges DEF RunKnown, Blank
    <2>2. CASE Critical(w)
      BY <1>1, <1>3, <2>2, TaskStands DEF RunKnown
    <2> QED BY <1>2, <2>1, <2>2
  <1>8. /\ \A e \in me.scan : e.id \in DOMAIN orders /\ orders[e.id].symbol = sym[w]
        /\ ~me.drop
    BY <1>1, <1>2 DEF RunKnown, Blank
  <1> QED BY <1>1, <1>2, <1>3, <1>4, <1>5, <1>6, <1>7, <1>8, RunMoves

LEMMA IdleKnown ==
    ASSUME EngineTyped, NEW w \in Workers, GoIdle(w), UNCHANGED ledgerVars
    PROVE  RunKnown(w)' /\ Alone(w)
  <1>1. Alone(w) /\ pc'[w] = "idle" /\ local'[w] = Blank
    BY IdleTyped DEF EngineTyped, ledgerVars
  <1>2. Phase(w)' = "idle" /\ ~Critical(w)' /\ local'[w].drop = FALSE
    BY <1>1 DEF Phase, Syncing, Critical, Blank
  <1> QED BY <1>1, <1>2 DEF RunKnown, Reading

LEMMA TakeKnown ==
    ASSUME EngineTyped, Known, NEW w \in Workers, NEW o \in OrderIds, TakeJob(w, o)
    PROVE  RunKnown(w)' /\ Alone(w)
  <1>1. /\ pc[w] = "idle" /\ UNCHANGED <<orders, local>> /\ local[w] = Blank
        /\ jobs[o].state # "none"
    BY DEF TakeJob, ledgerVars, Known, RunKnown
  <1>2. /\ Alone(w) /\ job'[w] = o /\ local' = local
        /\ pc'[w] = (IF RowOpen(o) THEN "lock" ELSE "done")
        /\ (RowOpen(o) => sym'[w] = orders[o].symbol)
    BY TakeTyped
  <1>3. o \in DOMAIN orders
    BY <1>1 DEF Known, JobsKnown
  <1>4. local'[w] = Blank /\ pc'[w] \in {"lock", "done"} /\ ~local'[w].drop
    BY <1>1, <1>2 DEF Blank
  <1>5. Phase(w)' \notin Reading /\ ~Critical(w)'
    BY <1>4 DEF Phase, Syncing, Reading, Critical
  <1> QED BY <1>1, <1>2, <1>3, <1>4, <1>5 DEF RunKnown

LEMMA WorkKnown ==
    ASSUME EngineTyped, LedgerInv', Known, RowsKept, NEW w \in Workers, Work(w)
    PROVE  RunKnown(w)' /\ Alone(w) /\ BookPlaced'
  <1>1. CASE AcquireLock(w) \/ ReleaseLock(w)
    BY <1>1, MoveKnown, BookStands DEF AcquireLock, ReleaseLock, Known
  <1>2. CASE Reload(w)
    BY Zenon, <1>2, ReloadKnown, BookStands DEF Reload, Known, redisVars
  <1>3. CASE ReadBook(w) \/ Scan(w)
    BY <1>3, ScanKnown, BookStands DEF Known
  <1>4. CASE Settlement(w)
    BY <1>4, SettleKnown, BookStands DEF Known
  <1>5. CASE Announce(w) \/ SyncRead(w)
    BY Zenon, <1>5, BriefKnown, BookStands DEF Announce, SyncRead, Known, redisVars
  <1>6. CASE SyncWrite(w)
    BY <1>6, WriteKnown
  <1>7. CASE CancelRemainder(w) \/ RestInBook(w)
    BY <1>7, FinishKnown, BookStands DEF Known
  <1>8. CASE CompleteJob(w) \/ FailJob(w)
    BY <1>8, IdleKnown, BookStands DEF CompleteJob, FailJob, Known, redisVars
  <1> QED BY <1>1, <1>2, <1>3, <1>4, <1>5, <1>6, <1>7, <1>8 DEF Work

LEMMA WorkJobs ==
    ASSUME EngineTyped, JobsSound, NEW w \in Workers, Work(w)
    PROVE  \A o \in OrderIds : jobs'[o].state # "none" => jobs[o].state # "none"
  <1>1. CASE CompleteJob(w) \/ FailJob(w)
    <2>1. job[w] \in OrderIds /\ pc[w] # "idle" /\ jobs[job[w]].state = "active"
      BY <1>1 DEF EngineTyped, RunsTyped, RunShaped, CompleteJob, FailJob, JobsSound
    <2>2. \A o \in OrderIds \ {job[w]} : jobs'[o] = jobs[o]
      BY <1>1 DEF CompleteJob, FailJob, JobsSound
    <2> QED BY <2>1, <2>2
  <1>2. CASE ~(CompleteJob(w) \/ FailJob(w))
    BY <1>2, WorkGoes DEF Goes
  <1> QED BY <1>1, <1>2

LEMMA NextKnown ==
    Deletable = {} /\ EngineTyped /\ JobsSound /\ Known /\ [Next]_vars => Known'
  <1> SUFFICES ASSUME Deletable = {}, EngineTyped, JobsSound, Known, [Next]_vars PROVE Known'
    OBVIOUS
  <1>1. RowsKept /\ LedgerInv'
    BY NextKept, EngineStep, NextInv DEF EngineTyped
  <1>2. ASSUME UNCHANGED <<pc, job, sym, local, book>>, JobsKnown' PROVE Known'
    <2>1. \A w \in Workers : RunKnown(w)'
      BY <1>1, <1>2, RunStands DEF Known
    <2>2. BookPlaced' /\ DOMAIN orders' = issued'
      BY <1>1, <1>2, BookStands DEF Known, RowsKept
    <2> QED BY <1>2, <2>1, <2>2 DEF Known
  <1>3. jobs' = jobs => JobsKnown'
    BY <1>1, JobsStand DEF Known
  <1>4. CASE \E o \in OrderIds : SubmitOrder(o) \/ CancelByUser(o) \/ Expire(o) \/ Delete(o)
    BY <1>2, <1>3, <1>4 DEF SubmitOrder, CancelByUser, Expire, Delete, engineVars, queueVars,
                            redisVars, workerVars
  <1>5. CASE CloseMarket \/ UNCHANGED vars
    BY <1>2, <1>3, <1>5 DEF CloseMarket, vars, engineVars, queueVars, redisVars, workerVars
  <1>6. ASSUME NEW o \in OrderIds, EnqueueMatch(o) \/ RecoverStalled(o) PROVE Known'
    <2>1. o \in DOMAIN orders
      BY <1>6 DEF EnqueueMatch, RecoverStalled, Known, JobsKnown
    <2>2. \A x \in OrderIds \ {o} : jobs'[x] = jobs[x]
      BY <1>6 DEF EnqueueMatch, RecoverStalled, JobsSound
    <2>3. JobsKnown'
      BY <1>1, <2>1, <2>2, JobsStand DEF Known
    <2> QED BY <1>2, <1>6, <2>3 DEF EnqueueMatch, RecoverStalled, redisVars, workerVars
  <1>7. ASSUME NEW w \in Workers, Work(w) PROVE Known'
    <2>1. RunKnown(w)' /\ Alone(w) /\ BookPlaced'
      BY <1>1, <1>7, WorkKnown
    <2>2. JobsKnown'
      BY <1>1, <1>7, WorkJobs, JobsStand DEF Known
    <2> QED BY <1>1, <2>1, <2>2, KnownTurn
  <1>8. ASSUME NEW w \in Workers, Trouble(w) PROVE Known'
    <2>1. RunKnown(w)' /\ Alone(w)
      BY <1>8, MoveKnown, IdleKnown DEF Trouble, Crash
    <2>2. book' = book /\ jobs' = jobs
      BY <1>8 DEF Trouble, LockTimeout, Throw, Crash, redisVars, queueVars
    <2>3. BookPlaced'
      BY <1>1, <2>2, BookStands DEF Known
    <2> QED BY <1>1, <1>3, <2>1, <2>2, <2>3, KnownTurn
  <1>9. ASSUME NEW w \in Workers, NEW o \in OrderIds, TakeJob(w, o) PROVE Known'
    <2>1. RunKnown(w)' /\ Alone(w) /\ book' = book
      BY <1>9, TakeKnown DEF TakeJob, redisVars
    <2>2. \A x \in OrderIds : jobs'[x].state # "none" => jobs[x].state # "none"
      BY <1>9 DEF TakeJob, JobsSound
    <2>3. JobsKnown' /\ BookPlaced'
      BY <1>1, <2>1, <2>2, JobsStand, BookStands DEF Known
    <2> QED BY <1>1, <2>1, <2>3, KnownTurn
  <1>10. ASSUME NEW s \in Symbols, DeadLockExpires(s) \/ LiveLockExpires(s) PROVE Known'
    BY <1>2, <1>3, <1>10 DEF DeadLockExpires, LiveLockExpires, queueVars, workerVars
  <1> QED BY <1>4, <1>5, <1>6, <1>7, <1>8, <1>9, <1>10 DEF Next

LEMMA InitKnown == Init => Known
  <1> SUFFICES ASSUME Init PROVE Known
    OBVIOUS
  <1>1. DOMAIN orders = {} /\ issued = {}
    BY DEF Init, LedgerInit
  <1>2. \A w \in Workers : RunKnown(w)
    BY DEF Init, RunKnown, Phase, Syncing, Reading, Critical, Blank
  <1> QED BY <1>1, <1>2 DEF Init, Known, JobsKnown, BookPlaced

-----------------------------------------------------------------------------
(* Liquidity: an order whose run ends well is dealt with.                  *)

(* The order needs no taker's job any more, and is where takers look.      *)
Dealt(o) == RowOpen(o) => IsLimit(orders[o]) /\ InBook(o)

(* A run ends well only when its order is dealt with, or soon will be.     *)
RunDealt(w) ==
    /\ pc[w] = "done" \/ (pc[w] = "release" /\ ~local[w].failed) => Dealt(job[w])
    /\ pc[w] \in {"sync", "write"} /\ local[w].next = "release" =>
          Dealt(job[w]) \/ \E t \in Range(local[w].changed) : t.id = job[w] /\ t.keep

DealtInv ==
    /\ \A o \in OrderIds : jobs[o].state = "completed" => Dealt(o)
    /\ \A w \in Workers : RunDealt(w)

(* An order that stays open stays in the book.                             *)
BookStays ==
    \A o \in DOMAIN orders : RowOpen(o)' /\ IsLimit(orders[o]) /\ InBook(o) => InBook(o)'

LEMMA SameBookStays == book' = book => BookStays
  BY DEF BookStays, InBook, Entries

LEMMA EntryInBook ==
    ASSUME RedisTyped, NEW k \in Symbols \X Sides, NEW e \in book[k]
    PROVE  InBook(e.id)
  BY DEF InBook, Entries

LEMMA BookEntry ==
    ASSUME RedisTyped, NEW o, InBook(o)
    PROVE  \E k \in Symbols \X Sides : \E e \in book[k] : e.id = o
  BY DEF InBook, Entries

LEMMA BookEntryNext ==
    ASSUME NEW k \in Symbols \X Sides, NEW e \in book'[k]
    PROVE  InBook(e.id)'
  BY DEF InBook, Entries

(* syncOrderBook takes out the order of its task alone.                    *)
LEMMA WriteBook ==
    ASSUME EngineTyped, NEW w \in Workers, SyncWrite(w), NEW t, t = Head(local[w].changed)
    PROVE  /\ t \in TaskType /\ t \in Range(local[w].changed)
           /\ \A k \in Symbols \X Sides : \A e \in book[k] : e.id # t.id => e \in book'[k]
           /\ t.keep => InBook(t.id)'
  <1>1. /\ local[w].changed \in Seq(TaskType) /\ local[w].changed # <<>>
        /\ book \in [Symbols \X Sides -> SUBSET EntryType]
    BY DEF EngineTyped, RunsTyped, RunShaped, RunType, SyncWrite, Syncing, RedisTyped
  <1>2. t \in TaskType /\ t \in Range(local[w].changed)
    BY <1>1, RangeTail
  <1> DEFINE k0 == <<t.row.symbol, t.row.side>>
             new == Entry(t.id, local[w].member, t.row)
  <1>3. k0 \in Symbols \X Sides /\ new.id = t.id
    BY <1>2 DEF TaskType, OrderRow, Entry
  <1>4. book' = [book EXCEPT ![k0] =
            {e \in book[k0] : ~(e.id = t.id /\ e.member = local[w].member)}
            \cup (IF t.keep THEN {new} ELSE {})]
    BY DEF SyncWrite
  <1>5. \A k \in Symbols \X Sides : \A e \in book[k] : e.id # t.id => e \in book'[k]
    BY Zenon, <1>1, <1>3, <1>4
  <1>6. t.keep => new \in book'[k0]
    BY Zenon, <1>1, <1>3, <1>4
  <1> QED BY <1>2, <1>3, <1>5, <1>6, BookEntryNext

LEMMA WriteBookStays ==
    ASSUME EngineTyped, Known, NEW w \in Workers, SyncWrite(w)
    PROVE  BookStays
  <1> PICK t : t = Head(local[w].changed)
    OBVIOUS
  <1>1. t \in Range(local[w].changed) /\ orders' = orders /\ Critical(w)
    BY Zenon, WriteBook DEF SyncWrite, ledgerVars, Critical
  <1>2. TaskTrue(t)
    BY <1>1 DEF Known, RunKnown
  <1> SUFFICES ASSUME NEW o \in DOMAIN orders, RowOpen(o)', IsLimit(orders[o]), InBook(o)
               PROVE  InBook(o)'
    BY DEF BookStays
  <1>3. RowOpen(o)
    BY <1>1 DEF RowOpen
  <1>4. CASE o = t.id
    <2>1. t.keep
      BY <1>2, <1>3, <1>4 DEF TaskTrue, SameOrder, IsLimit
    <2> QED BY <1>4, <2>1, WriteBook
  <1>5. CASE o # t.id
    <2>1. PICK k \in Symbols \X Sides : \E e \in book[k] : e.id = o
      BY BookEntry DEF EngineTyped
    <2>2. PICK e \in book[k] : e.id = o
      BY <2>1
    <2>3. e \in book'[k]
      BY <1>5, <2>2, WriteBook
    <2> QED BY <2>2, <2>3, BookEntryNext
  <1> QED BY <1>4, <1>5

LEMMA DealtStands ==
    ASSUME RowsKept, BookStays, NEW o \in DOMAIN orders, Dealt(o)
    PROVE  Dealt(o)'
  BY RowStands DEF Dealt, BookStays

LEMMA NotOpenDealt ==
    ASSUME RowsKept, NEW o \in DOMAIN orders, ~RowOpen(o) \/ ~IsOpen(orders'[o])
    PROVE  Dealt(o)'
  BY RowStands DEF Dealt, RowOpen

LEMMA DealtNow ==
    ASSUME NEW w, NEW o, job'[w] = o, Dealt(o)'
    PROVE  Dealt(job[w])'
  BY DEF Dealt, RowOpen, InBook

LEMMA RunDealtStands ==
    ASSUME RowsKept, BookStays, NEW w \in Workers, RunKnown(w), RunDealt(w),
           pc'[w] = pc[w], job'[w] = job[w], local'[w] = local[w]
    PROVE  RunDealt(w)'
  <1>1. pc[w] # "idle" => job[w] \in DOMAIN orders
    BY DEF RunKnown
  <1> PICK o : o = job[w]
    OBVIOUS
  <1>2. pc[w] # "idle" /\ Dealt(o) => Dealt(job[w])'
    BY <1>1, DealtStands, DealtNow
  <1> QED BY <1>2 DEF RunDealt

LEMMA DealtTurn ==
    ASSUME Known, DealtInv, RowsKept, BookStays, NEW w \in Workers, Alone(w), RunDealt(w)',
           \A o \in OrderIds : jobs'[o].state = "completed" =>
              jobs[o].state = "completed" \/ (o \in DOMAIN orders /\ Dealt(o))
    PROVE  DealtInv'
  <1>1. ASSUME NEW v \in Workers \ {w} PROVE RunDealt(v)'
    <2>1. pc'[v] = pc[v] /\ job'[v] = job[v] /\ local'[v] = local[v]
      BY DEF Alone
    <2> QED BY <2>1, RunDealtStands DEF Known, DealtInv
  <1>2. ASSUME NEW o \in OrderIds, jobs'[o].state = "completed" PROVE Dealt(o)'
    <2>1. o \in DOMAIN orders /\ Dealt(o)
      BY <1>2 DEF Known, JobsKnown, DealtInv
    <2> QED BY <2>1, DealtStands
  <1> QED BY <1>1, <1>2 DEF DealtInv

(* The steps that do not end the matching loop.                            *)
LEMMA Unfinished ==
    ASSUME NEW w, pc'[w] # "done", pc'[w] = "release" => local'[w].failed,
           pc'[w] \in {"sync", "write"} => local'[w].next # "release"
    PROVE  RunDealt(w)'
  BY DEF RunDealt

LEMMA ReloadDealt ==
    ASSUME EngineTyped, Known, NEW w \in Workers, Reload(w)
    PROVE  RunDealt(w)'
  <1> DEFINE me == local[w]
             next == IF RowOpen(job[w]) THEN "range" ELSE "release"
             new == [me EXCEPT !.incoming = RowOf(job[w]), !.resting = NoOrder,
                               !.restingRow = NoRow, !.drop = FALSE]
  <1>1. me \in RunType /\ RunsTyped /\ RunKnown(w) /\ UNCHANGED <<job, sym, orders, issued>>
        /\ pc[w] = "reload"
    BY DEF EngineTyped, RunsTyped, Reload, Known, ledgerVars
  <1>2. SyncThen(w, <<>>, next, new) /\ DOMAIN new = Fields
    BY <1>1, RunFields DEF Reload, RunKnown, RunType
  <1> HIDE DEF new, next
  <1>3. pc'[w] = next /\ job'[w] = job[w]
    BY <1>1, <1>2, SyncEffect
  <1>4. RowsKept /\ job[w] \in DOMAIN orders
    BY <1>1, StillKept DEF RunKnown
  <1> PICK o : o = job[w]
    OBVIOUS
  <1>5. ~RowOpen(o) => Dealt(job[w])'
    BY <1>3, <1>4, NotOpenDealt, DealtNow
  <1> QED BY <1>3, <1>5 DEF RunDealt, next

LEMMA ScanDealt ==
    ASSUME EngineTyped, NEW w \in Workers, ReadBook(w) \/ Scan(w)
    PROVE  RunDealt(w)'
  <1> DEFINE me == local[w]
  <1>1. RunsTyped /\ me \in RunType /\ UNCHANGED <<job, sym>>
    BY Zenon DEF EngineTyped, RunsTyped, ReadBook, Scan, DropMissingEntry, SyncClosedEntry,
           SkipOwnEntry, ChooseEntry, ScanExhausted
  <1>2. CASE SyncClosedEntry(w)
    <2>1. PICK e \in me.scan :
             SyncThen(w, <<Task(e.id, orders[e.id])>>, "scan", [me EXCEPT !.scan = @ \ {e}])
      BY <1>2 DEF SyncClosedEntry
    <2> PICK t : t = Task(e.id, orders[e.id])
      OBVIOUS
    <2> DEFINE new == [me EXCEPT !.scan = @ \ {e}]
    <2>2. DOMAIN new = Fields
      BY <1>1, RunFields
    <2>3. SyncThen(w, <<t>>, "scan", new) /\ <<t>> # <<>>
      BY <2>1
    <2> HIDE DEF new
    <2>4. pc'[w] = "sync" /\ local'[w].next = "scan"
      BY <1>1, <2>2, <2>3, SyncEffect
    <2> QED BY <2>4, Unfinished
  <1>3. CASE ~SyncClosedEntry(w)
    <2>1. pc'[w] \in {"scan", "settle", "finish"}
      BY Zenon, <1>1, <1>3 DEF ReadBook, Scan, DropMissingEntry, SkipOwnEntry, ChooseEntry,
                        ScanExhausted, AtEntry, GoTo, RunsTyped
    <2> QED BY <2>1, Unfinished
  <1> QED BY <1>2, <1>3

LEMMA SettleDealt ==
    ASSUME EngineTyped, NEW w \in Workers, Settlement(w)
    PROVE  RunDealt(w)'
  <1> DEFINE me == local[w]
  <1>1. RunsTyped /\ me \in RunType /\ UNCHANGED <<job, sym>> /\ DOMAIN me = Fields
    BY RunFields DEF EngineTyped, RunsTyped, Settlement, TradePair, CloseUnfillable,
                     SettleMissing, SettleRefused
  <1>2. CASE \E t, u : \E tasks \in {<<t>>, <<t, u>>} : SyncThen(w, tasks, "reload", me)
    <2>1. PICK t, u : \E tasks \in {<<t>>, <<t, u>>} : SyncThen(w, tasks, "reload", me)
      BY <1>2
    <2>2. PICK tasks : tasks # <<>> /\ SyncThen(w, tasks, "reload", me)
      BY <2>1
    <2>3. pc'[w] = "sync" /\ local'[w].next = "reload"
      BY <1>1, <2>2, SyncEffect
    <2> QED BY <2>3, Unfinished
  <1>3. CASE TradePair(w)
    <2>1. pc'[w] = "publish"
      BY <1>1, <1>3 DEF TradePair, GoTo, RunsTyped
    <2> QED BY <2>1, Unfinished
  <1>4. CASE CloseUnfillable(w)
    BY <1>2, <1>4 DEF CloseUnfillable
  <1>5. CASE SettleMissing(w)
    <2>1. pc'[w] = "reload"
      BY <1>1, <1>5 DEF SettleMissing, GoTo, RunsTyped
    <2> QED BY <2>1, Unfinished
  <1>6. CASE SettleRefused(w)
    <2>1. CASE GoTo(w, "release") /\ local' = [local EXCEPT ![w].failed = TRUE]
      <3>1. pc'[w] = "release" /\ local'[w].failed
        BY <1>1, <2>1 DEF GoTo, RunsTyped, RunType
      <3> QED BY <3>1, Unfinished
    <2> QED BY <1>2, <1>6, <2>1 DEF SettleRefused
  <1> QED BY <1>3, <1>4, <1>5, <1>6 DEF Settlement

LEMMA AnnounceDealt ==
    ASSUME EngineTyped, NEW w \in Workers, Announce(w)
    PROVE  RunDealt(w)'
  <1>1. RunsTyped /\ local[w] \in RunType /\ local[w].next = "reload"
    BY DEF EngineTyped, RunsTyped, RunShaped, Announce
  <1>2. pc'[w] = "sync" /\ local'[w].next = "reload"
    BY <1>1 DEF Announce, GoTo, RunsTyped, RunType
  <1> QED BY <1>2, Unfinished

LEMMA ReadDealt ==
    ASSUME EngineTyped, Known, NEW w \in Workers, RunDealt(w), SyncRead(w)
    PROVE  RunDealt(w)'
  <1>1. RunsTyped /\ local[w] \in RunType /\ pc[w] = "sync" /\ RunKnown(w)
        /\ UNCHANGED <<job, orders, issued, book>>
    BY DEF EngineTyped, RunsTyped, SyncRead, ledgerVars, Known
  <1>2. /\ pc'[w] = "write" /\ local'[w].next = local[w].next
        /\ local'[w].changed = local[w].changed
    BY <1>1 DEF SyncRead, GoTo, RunsTyped, RunType
  <1> PICK o : o = job[w]
    OBVIOUS
  <1>3. Dealt(o) => Dealt(job[w])'
    BY <1>1, StillKept, SameBookStays, DealtStands, DealtNow DEF RunKnown
  <1> QED BY <1>1, <1>2, <1>3 DEF RunDealt

-----------------------------------------------------------------------------
(* Liquidity: the whole of Next.                                           *)

LEMMA WriteDealt ==
    ASSUME EngineTyped, Known, NEW w \in Workers, RunDealt(w), SyncWrite(w)
    PROVE  RunDealt(w)'
  <1> DEFINE me == local[w]
             tail == Tail(me.changed)
             new == [me EXCEPT !.member = 0]
  <1>1. me \in RunType /\ RunsTyped /\ RunKnown(w) /\ RunShaped(w) /\ Critical(w) /\ pc[w] = "write"
    BY DEF EngineTyped, RunsTyped, Known, Critical, SyncWrite
  <1>2. UNCHANGED <<job, sym, orders, issued>>
    BY DEF SyncWrite, ledgerVars
  <1>3. RowsKept /\ BookStays
    BY <1>2, StillKept, WriteBookStays
  <1> PICK t : t = Head(me.changed)
    OBVIOUS
  <1>4. /\ Range(me.changed) = {t} \cup Range(tail)
        /\ me.next \in {"reload", "release", "scan", "range"}
    <2>1. /\ me.changed \in Seq(TaskType) /\ me.changed # <<>>
          /\ me.next \in {"reload", "release", "scan", "range"}
      BY <1>1 DEF RunShaped, RunType, Syncing
    <2> QED BY <2>1, RangeTail
  <1>5. DOMAIN new = Fields /\ SyncThen(w, tail, me.next, new)
    BY <1>1, RunFields DEF RunType, SyncWrite
  <1> HIDE DEF tail, new
  <1>6. /\ pc'[w] = (IF tail = <<>> THEN me.next ELSE "sync")
        /\ local'[w].changed = tail
        /\ tail # <<>> => local'[w].next = me.next
        /\ job'[w] = job[w]
    BY <1>1, <1>2, <1>5, SyncEffect
  <1>7. CASE me.next # "release"
    BY <1>4, <1>6, <1>7, Unfinished
  <1>8. CASE me.next = "release"
    <2> PICK o : o = job[w]
      OBVIOUS
    <2>1. o \in DOMAIN orders
      BY <1>1 DEF RunKnown
    <2>2. ASSUME Dealt(o)' PROVE RunDealt(w)'
      <3>1. Dealt(job[w])'
        BY <1>6, <2>2, DealtNow
      <3> QED BY <3>1 DEF RunDealt
    <2>3. CASE Dealt(o)
      BY <1>3, <2>1, <2>2, <2>3, DealtStands
    <2>4. CASE t.id = o /\ t.keep
      <3>1. InBook(o)'
        BY <2>4, WriteBook
      <3>2. TaskTrue(t)
        BY <1>1, <1>4 DEF RunKnown
      <3>3. IsLimit(orders[o])
        BY <2>4, <3>2 DEF TaskTrue, SameOrder, IsLimit
      <3> QED BY <1>2, <2>2, <3>1, <3>3 DEF Dealt
    <2>5. CASE \E u \in Range(tail) : u.id = o /\ u.keep
      <3>1. tail # <<>>
        BY <2>5, Ranges
      <3>2. pc'[w] = "sync"
        BY <1>6, <3>1
      <3> QED BY <1>6, <2>5, <3>2 DEF RunDealt
    <2> QED BY <1>1, <1>4, <1>8, <2>3, <2>4, <2>5 DEF RunDealt
  <1> QED BY <1>7, <1>8

LEMMA FinishDealt ==
    ASSUME EngineTyped, Known, RowsKept, NEW w \in Workers, CancelRemainder(w) \/ RestInBook(w)
    PROVE  RunDealt(w)'
  <1> DEFINE me == local[w]
  <1>1. me \in RunType /\ RunsTyped /\ RunKnown(w) /\ RunShaped(w) /\ DOMAIN me = Fields
    BY RunFields DEF EngineTyped, RunsTyped, Known
  <1>2. pc[w] = "finish" /\ UNCHANGED <<job, sym>> /\ Phase(w) \in Reading
    BY DEF CancelRemainder, RestInBook, Phase, Syncing, Reading
  <1> PICK o : o = job[w]
    OBVIOUS
  <1>3. o \in DOMAIN orders /\ SameOrder(me.incoming, orders[o]) /\ IsOpen(me.incoming)
        /\ me.incoming \in OrderRow
    BY <1>1, <1>2 DEF RunKnown, RunShaped
  <1>4. ASSUME NEW t, SyncThen(w, <<t>>, "release", me)
        PROVE  pc'[w] = "sync" /\ local'[w].changed = <<t>> /\ job'[w] = o
    <2>1. <<t>> # <<>>
      OBVIOUS
    <2> QED BY <1>1, <1>2, <1>4, <2>1, SyncEffect
  <1>5. CASE RestInBook(w)
    <2> PICK t : t = Task(o, me.incoming)
      OBVIOUS
    <2>1. Priced(me.incoming)
      <3>1. Priced(orders[o])
        BY <1>3 DEF EngineTyped, LedgerInv, RowsPriced, Priced
      <3> QED BY <1>3, <3>1 DEF SameOrder, Priced, IsLimit
    <2>2. t.id = o /\ t.keep
      BY <1>3, <1>5, <2>1, TaskOf DEF RestInBook
    <2>3. SyncThen(w, <<t>>, "release", me)
      BY <1>5 DEF RestInBook
    <2>4. pc'[w] = "sync" /\ local'[w].changed = <<t>> /\ job'[w] = o
      BY <1>4, <2>3
    <2>5. Range(local'[w].changed) = {t}
      BY <2>4, Ranges
    <2> QED BY <2>2, <2>4, <2>5 DEF RunDealt
  <1>6. CASE CancelRemainder(w)
    <2>1. job'[w] = o
      BY <1>2
    <2>2. CASE HasOpenStatus(o)
      <3>1. ~IsOpen(orders'[o])
        BY <1>6, <2>2, CancelKept DEF CancelRemainder, EngineTyped
      <3>2. Dealt(job[w])'
        BY <1>3, <2>1, <3>1, NotOpenDealt, DealtNow
      <3> QED BY <3>2 DEF RunDealt
    <2>3. CASE ~HasOpenStatus(o)
      <3>1. ~RowOpen(o)
        BY <2>3 DEF RowOpen, HasOpenStatus, IsOpen
      <3>2. Dealt(job[w])'
        BY <1>3, <2>1, <3>1, NotOpenDealt, DealtNow
      <3> QED BY <3>2 DEF RunDealt
    <2> QED BY <2>2, <2>3
  <1> QED BY <1>5, <1>6

LEMMA MoveDealt ==
    ASSUME EngineTyped, Known, NEW w \in Workers, RunDealt(w),
           AcquireLock(w) \/ ReleaseLock(w) \/ LockTimeout(w) \/ Throw(w)
    PROVE  RunDealt(w)'
  <1>1. RunsTyped /\ local[w] \in RunType /\ RunKnown(w)
    BY DEF EngineTyped, RunsTyped, Known
  <1>2. CASE AcquireLock(w) \/ LockTimeout(w)
    <2>1. pc'[w] \in {"reload", "fail"}
      BY <1>1, <1>2 DEF AcquireLock, LockTimeout, GoTo, RunsTyped
    <2> QED BY <2>1, Unfinished
  <1>3. CASE Throw(w)
    <2>1. pc'[w] = "fail" \/ (pc'[w] = "release" /\ local'[w].failed)
      BY <1>1, <1>3 DEF Throw, GoTo, RunsTyped, RunType
    <2> QED BY <2>1, Unfinished
  <1>4. CASE ReleaseLock(w)
    <2> PICK o : o = job[w]
      OBVIOUS
    <2>1. /\ pc[w] = "release" /\ UNCHANGED <<job, local, orders, issued, book>>
          /\ pc'[w] = IF local[w].failed THEN "fail" ELSE "done"
      BY <1>1, <1>4 DEF ReleaseLock, GoTo, RunsTyped, ledgerVars
    <2>2. o \in DOMAIN orders
      BY <1>1, <2>1 DEF RunKnown
    <2>3. Dealt(o) => Dealt(job[w])'
      BY <2>1, <2>2, StillKept, SameBookStays, DealtStands, DealtNow
    <2>4. CASE local[w].failed
      BY <2>1, <2>4, Unfinished
    <2>5. CASE ~local[w].failed
      <3>1. Dealt(job[w])'
        BY <2>1, <2>3, <2>5 DEF RunDealt
      <3> QED BY <3>1 DEF RunDealt
    <2> QED BY <2>4, <2>5
  <1> QED BY <1>2, <1>3, <1>4

LEMMA IdleDealt ==
    ASSUME EngineTyped, NEW w \in Workers, GoIdle(w)
    PROVE  RunDealt(w)'
  <1>1. pc'[w] = "idle"
    BY DEF GoIdle, GoTo, EngineTyped, RunsTyped
  <1> QED BY <1>1, Unfinished

LEMMA TakeDealt ==
    ASSUME EngineTyped, Known, NEW w \in Workers, NEW o \in OrderIds, TakeJob(w, o)
    PROVE  RunDealt(w)'
  <1>1. job'[w] = o /\ pc'[w] = (IF RowOpen(o) THEN "lock" ELSE "done")
    BY TakeTyped
  <1>2. UNCHANGED <<orders, issued>> /\ o \in DOMAIN orders
    BY DEF TakeJob, ledgerVars, Known, JobsKnown
  <1>3. ~RowOpen(o) => Dealt(job[w])'
    BY <1>1, <1>2, StillKept, NotOpenDealt, DealtNow
  <1> QED BY <1>1, <1>3 DEF RunDealt

LEMMA WorkDealt ==
    ASSUME EngineTyped, Known, RowsKept, NEW w \in Workers, RunDealt(w), Work(w)
    PROVE  RunDealt(w)' /\ BookStays
  <1>1. ASSUME SyncWrite(w) \/ DropMissingEntry(w) PROVE BookStays
    <2>1. CASE DropMissingEntry(w)
      BY <2>1, ScanKnown, SameBookStays DEF Scan
    <2> QED BY <1>1, <2>1, WriteBookStays
  <1>2. ASSUME ~SyncWrite(w), ~DropMissingEntry(w) PROVE BookStays
    <2>1. book' = book
      BY Zenon, <1>2 DEF Work, AcquireLock, Reload, ReadBook, Scan,
              SyncClosedEntry, SkipOwnEntry, ChooseEntry, ScanExhausted, Settlement, TradePair,
              CloseUnfillable, SettleMissing, SettleRefused, Announce, SyncRead,
              CancelRemainder, RestInBook, ReleaseLock, CompleteJob, FailJob, redisVars
    <2> QED BY <2>1, SameBookStays
  <1>3. BookStays
    BY <1>1, <1>2
  <1>4. RunDealt(w)'
    BY ReloadDealt, ScanDealt, SettleDealt, AnnounceDealt, ReadDealt, WriteDealt, FinishDealt,
       MoveDealt, IdleDealt DEF Work, CompleteJob, FailJob
  <1> QED BY <1>3, <1>4

LEMMA NextDealt ==
    Deletable = {} /\ EngineTyped /\ JobsSound /\ Known /\ DealtInv /\ [Next]_vars => DealtInv'
  <1> SUFFICES ASSUME Deletable = {}, EngineTyped, JobsSound, Known, DealtInv, [Next]_vars
               PROVE  DealtInv'
    OBVIOUS
  <1>1. RowsKept
    BY NextKept DEF EngineTyped
  <1>2. ASSUME UNCHANGED <<pc, job, local, book>>,
               \A o \in OrderIds : jobs'[o].state = "completed" => jobs[o].state = "completed"
        PROVE  DealtInv'
    <2>1. BookStays
      BY <1>2, SameBookStays
    <2>2. \A w \in Workers : RunDealt(w)'
      BY <1>1, <1>2, <2>1, RunDealtStands DEF Known, DealtInv
    <2>3. \A o \in OrderIds : jobs'[o].state = "completed" => Dealt(o)'
      BY <1>1, <1>2, <2>1, DealtStands DEF DealtInv, Known, JobsKnown
    <2> QED BY <2>2, <2>3 DEF DealtInv
  <1>3. CASE \E o \in OrderIds : SubmitOrder(o) \/ CancelByUser(o) \/ Expire(o) \/ Delete(o)
    BY <1>2, <1>3 DEF SubmitOrder, CancelByUser, Expire, Delete, engineVars, queueVars,
                      redisVars, workerVars
  <1>4. CASE CloseMarket \/ UNCHANGED vars
    BY <1>2, <1>4 DEF CloseMarket, vars, engineVars, queueVars, redisVars, workerVars
  <1>5. ASSUME NEW o \in OrderIds, EnqueueMatch(o) \/ RecoverStalled(o) PROVE DealtInv'
    <2>1. \A x \in OrderIds : jobs'[x].state = "completed" => jobs[x].state = "completed"
      <3>1. \A x \in OrderIds \ {o} : jobs'[x] = jobs[x]
        BY <1>5 DEF EnqueueMatch, RecoverStalled, JobsSound
      <3>2. jobs'[o].state # "completed"
        BY <1>5 DEF EnqueueMatch, RecoverStalled, JobsSound, JobType
      <3> QED BY <3>1, <3>2
    <2> QED BY <1>2, <1>5, <2>1 DEF EnqueueMatch, RecoverStalled, redisVars, workerVars
  <1>6. ASSUME NEW w \in Workers, Work(w) PROVE DealtInv'
    <2>1. RunDealt(w)' /\ BookStays
      BY <1>1, <1>6, WorkDealt DEF DealtInv
    <2>2. Alone(w)
      BY <1>1, <1>6, WorkKnown, EngineStep, NextInv DEF EngineTyped
    <2>3. ASSUME NEW o \in OrderIds, jobs'[o].state = "completed"
          PROVE  jobs[o].state = "completed" \/ (o \in DOMAIN orders /\ Dealt(o))
      <3>1. CASE CompleteJob(w)
        <4>1. pc[w] = "done" /\ jobs' = [jobs EXCEPT ![job[w]].state = "completed"]
          BY <3>1 DEF CompleteJob
        <4>2. o = job[w] => o \in DOMAIN orders /\ Dealt(o)
          BY <4>1 DEF Known, RunKnown, DealtInv, RunDealt
        <4>3. o # job[w] => jobs'[o] = jobs[o]
          BY <4>1 DEF JobsSound
        <4> QED BY <2>3, <4>2, <4>3
      <3>2. CASE FailJob(w)
        <4>1. job[w] \in OrderIds /\ jobs[job[w]] \in JobType
          BY <3>2 DEF FailJob, EngineTyped, RunsTyped, RunShaped, JobsSound
        <4>2. jobs'[job[w]].state \in {"waiting", "failed"}
          BY <3>2, <4>1 DEF FailJob, JobsSound, JobType
        <4>3. o # job[w] => jobs'[o] = jobs[o]
          BY <3>2 DEF FailJob, JobsSound
        <4> QED BY <2>3, <4>2, <4>3
      <3>3. CASE ~(CompleteJob(w) \/ FailJob(w))
        BY <1>6, <2>3, <3>3, WorkGoes DEF Goes
      <3> QED BY <3>1, <3>2, <3>3
    <2> QED BY <1>1, <2>1, <2>2, <2>3, DealtTurn
  <1>7. ASSUME NEW w \in Workers, Trouble(w) PROVE DealtInv'
    <2>1. RunDealt(w)' /\ Alone(w)
      BY <1>7, MoveDealt, IdleDealt, MoveKnown, IdleKnown DEF Trouble, Crash, DealtInv
    <2>2. BookStays /\ jobs' = jobs
      BY <1>7, SameBookStays DEF Trouble, LockTimeout, Throw, Crash, redisVars, queueVars
    <2> QED BY <1>1, <2>1, <2>2, DealtTurn
  <1>8. ASSUME NEW w \in Workers, NEW o \in OrderIds, TakeJob(w, o) PROVE DealtInv'
    <2>1. RunDealt(w)' /\ Alone(w) /\ BookStays
      BY <1>8, TakeDealt, TakeKnown, SameBookStays DEF TakeJob, redisVars
    <2>2. \A x \in OrderIds : jobs'[x].state = "completed" => jobs[x].state = "completed"
      BY <1>8 DEF TakeJob, JobsSound, JobType
    <2> QED BY <1>1, <2>1, <2>2, DealtTurn
  <1>9. ASSUME NEW s \in Symbols, DeadLockExpires(s) \/ LiveLockExpires(s) PROVE DealtInv'
    BY <1>2, <1>9 DEF DeadLockExpires, LiveLockExpires, queueVars, workerVars
  <1> QED BY <1>3, <1>4, <1>5, <1>6, <1>7, <1>8, <1>9 DEF Next

LEMMA InitDealt == Init => DealtInv
  BY DEF Init, DealtInv, RunDealt

LEMMA EngineDealt ==
    Deletable = {} => (Spec => [](EngineTyped /\ JobsSound /\ Known /\ DealtInv))
  <1> SUFFICES ASSUME Deletable = {}
               PROVE  Spec => [](EngineTyped /\ JobsSound /\ Known /\ DealtInv)
    OBVIOUS
  <1>1. Init => Known /\ DealtInv
    BY InitKnown, InitDealt
  <1>2. EngineTyped /\ JobsSound /\ Known /\ DealtInv /\ [Next]_vars => Known' /\ DealtInv'
    BY NextKnown, NextDealt
  <1> QED BY <1>1, <1>2, EngineSound, PTL DEF Spec

(* No liquidity is lost: as long as nobody deletes rows, an open order     *)
(* whose match job ended well is a limit order that rests in the book.     *)
(* This holds for any number of workers, although calls throw, workers     *)
(* crash, jobs run twice and locks expire under a running worker.          *)
THEOREM LiquidityKept == Deletable = {} => (Spec => []NoLostLiquidity)
  <1> SUFFICES ASSUME Deletable = {} PROVE Spec => []NoLostLiquidity
    OBVIOUS
  <1>1. EngineTyped /\ DealtInv => NoLostLiquidity
    <2>1. EngineTyped => DOMAIN orders \subseteq OrderIds
      BY DEF EngineTyped, LedgerInv, LedgerTypeOK
    <2> QED BY <2>1 DEF DealtInv, Dealt, RowOpen, NoLostLiquidity
  <1> QED BY <1>1, EngineDealt, PTL

(* What a step of a run leaves behind in its variables.                    *)
Stays(w) ==
    /\ Alone(w) /\ job'[w] = job[w] /\ sym'[w] = sym[w]
    /\ UNCHANGED <<shown, sequence>>

LEMMA ReloadEffect ==
    ASSUME EngineTyped, Known, NEW w \in Workers, Reload(w)
    PROVE  /\ Stays(w) /\ UNCHANGED <<orders, issued, book>> /\ pc[w] = "reload"
           /\ pc'[w] = (IF RowOpen(job[w]) THEN "range" ELSE "release")
           /\ local'[w].incoming = RowOf(job[w])
  <1> DEFINE me == local[w]
             next == IF RowOpen(job[w]) THEN "range" ELSE "release"
             new == [me EXCEPT !.incoming = RowOf(job[w]), !.resting = NoOrder,
                               !.restingRow = NoRow, !.drop = FALSE]
  <1>1. me \in RunType /\ RunsTyped /\ RunKnown(w) /\ UNCHANGED <<job, sym>>
        /\ UNCHANGED <<shown, sequence, orders, issued, book>> /\ pc[w] = "reload"
    BY DEF EngineTyped, RunsTyped, Reload, Known, ledgerVars, redisVars
  <1>2. SyncThen(w, <<>>, next, new) /\ DOMAIN new = Fields
    BY <1>1, RunFields DEF Reload, RunKnown, RunType
  <1>3. new.incoming = RowOf(job[w])
    BY <1>1 DEF RunType
  <1> HIDE DEF new, next
  <1>4. pc'[w] = next /\ local'[w].incoming = new.incoming
        /\ Alone(w) /\ job'[w] = job[w] /\ sym'[w] = sym[w]
    BY <1>1, <1>2, SyncEffect
  <1> QED BY <1>1, <1>3, <1>4 DEF Stays, next

LEMMA ReadEffect ==
    ASSUME EngineTyped, NEW w \in Workers, ReadBook(w)
    PROVE  /\ Stays(w) /\ UNCHANGED <<orders, issued, book>> /\ pc[w] = "range"
           /\ pc'[w] = "scan" /\ local'[w].incoming = local[w].incoming
           /\ local'[w].scan = FirstEntries(sym[w], Opposite(local[w].incoming.side))
  <1> DEFINE me == local[w]
             all == FirstEntries(sym[w], Opposite(me.incoming.side))
             new == [me EXCEPT !.scan = all]
  <1>1. RunsTyped /\ me \in RunType /\ UNCHANGED <<job, sym>> /\ pc[w] = "range"
        /\ UNCHANGED <<shown, sequence, orders, issued, book>>
    BY DEF EngineTyped, RunsTyped, ReadBook, ledgerVars, redisVars
  <1> HIDE DEF all
  <1>2. new.scan = all /\ new.incoming = me.incoming
    BY <1>1 DEF RunType
  <1>3. GoTo(w, "scan") /\ local' = [local EXCEPT ![w] = new]
    BY DEF ReadBook, all
  <1> HIDE DEF new
  <1>4. pc'[w] = "scan" /\ local'[w] = new /\ Alone(w) /\ job'[w] = job[w] /\ sym'[w] = sym[w]
    BY <1>1, <1>3, PlainEffect
  <1> QED BY <1>1, <1>2, <1>4 DEF Stays, all

LEMMA ClosedEffect ==
    ASSUME EngineTyped, NEW w \in Workers, SyncClosedEntry(w)
    PROVE  /\ Stays(w) /\ UNCHANGED <<orders, issued, book>> /\ pc[w] = "scan"
           /\ pc'[w] = "sync" /\ local'[w].incoming = local[w].incoming
           /\ local'[w].next = "scan"
           /\ \E e \in local[w].scan : \E t :
                 /\ ~RowOpen(e.id) /\ local'[w].scan = local[w].scan \ {e}
                 /\ Range(local'[w].changed) = {t} /\ t.id = e.id
  <1> DEFINE me == local[w]
  <1>1. RunsTyped /\ me \in RunType /\ UNCHANGED <<job, sym>> /\ pc[w] = "scan"
        /\ UNCHANGED <<shown, sequence, orders, issued, book>>
    BY DEF EngineTyped, RunsTyped, SyncClosedEntry, AtEntry, ledgerVars, redisVars
  <1>2. PICK e \in me.scan :
           /\ ~RowOpen(e.id) /\ e.id \in DOMAIN orders
           /\ SyncThen(w, <<Task(e.id, orders[e.id])>>, "scan", [me EXCEPT !.scan = @ \ {e}])
    BY DEF SyncClosedEntry
  <1> PICK t : t = Task(e.id, orders[e.id])
    OBVIOUS
  <1>3. t.id = e.id
    BY DEF Task
  <1> DEFINE new == [me EXCEPT !.scan = @ \ {e}]
             tasks == <<t>>
  <1>4. new.scan = me.scan \ {e} /\ new.incoming = me.incoming /\ DOMAIN new = Fields
    BY <1>1, RunFields DEF RunType
  <1>5. SyncThen(w, tasks, "scan", new)
    BY <1>2
  <1>6. tasks # <<>> /\ Range(tasks) = {t}
    BY Ranges
  <1> HIDE DEF new, tasks
  <1>7. /\ pc'[w] = "sync" /\ local'[w].incoming = new.incoming /\ local'[w].scan = new.scan
        /\ local'[w].changed = tasks /\ local'[w].next = "scan"
        /\ Alone(w) /\ job'[w] = job[w] /\ sym'[w] = sym[w]
    BY <1>1, <1>4, <1>5, <1>6, SyncEffect
  <1> QED BY <1>1, <1>2, <1>3, <1>4, <1>6, <1>7 DEF Stays

LEMMA SkipEffect ==
    ASSUME EngineTyped, NEW w \in Workers, SkipOwnEntry(w)
    PROVE  /\ Stays(w) /\ UNCHANGED <<orders, issued, book>> /\ pc[w] = "scan"
           /\ pc'[w] = "scan" /\ local'[w].incoming = local[w].incoming
           /\ \E e \in local[w].scan :
                 /\ local'[w].scan = local[w].scan \ {e}
                 /\ orders[e.id].user = local[w].incoming.user
  <1> DEFINE me == local[w]
  <1>1. RunsTyped /\ me \in RunType /\ UNCHANGED <<job, sym>> /\ pc[w] = "scan"
        /\ UNCHANGED <<shown, sequence, orders, issued, book>>
    BY DEF EngineTyped, RunsTyped, SkipOwnEntry, AtEntry, ledgerVars, redisVars
  <1>2. PICK e \in me.scan : local' = [local EXCEPT ![w].scan = @ \ {e}]
                             /\ orders[e.id].user = me.incoming.user
    BY DEF SkipOwnEntry
  <1> DEFINE new == [me EXCEPT !.scan = @ \ {e}]
  <1>3. new.scan = me.scan \ {e} /\ new.incoming = me.incoming
    BY <1>1 DEF RunType
  <1>4. GoTo(w, "scan") /\ local' = [local EXCEPT ![w] = new]
    BY Zenon, <1>1, <1>2 DEF SkipOwnEntry, GoTo, RunsTyped
  <1> HIDE DEF new
  <1>5. pc'[w] = "scan" /\ local'[w] = new /\ Alone(w) /\ job'[w] = job[w] /\ sym'[w] = sym[w]
    BY <1>1, <1>4, PlainEffect
  <1> QED BY <1>1, <1>2, <1>3, <1>5 DEF Stays

LEMMA ChooseEffect ==
    ASSUME EngineTyped, NEW w \in Workers, ChooseEntry(w)
    PROVE  /\ Stays(w) /\ UNCHANGED <<orders, issued, book>> /\ pc[w] = "scan"
           /\ local'[w].incoming = local[w].incoming
           /\ \E e \in local[w].scan :
                 /\ AtEntry(w, e) /\ RowOpen(e.id)
                 /\ orders[e.id].user # local[w].incoming.user
                 /\ \/ pc'[w] = "settle" /\ local'[w].resting = e.id
                    \/ pc'[w] = "finish" /\ ~CanMatch(local[w].incoming, orders[e.id])
  <1> DEFINE me == local[w]
  <1>1. RunsTyped /\ me \in RunType /\ UNCHANGED <<job, sym>> /\ pc[w] = "scan"
        /\ UNCHANGED <<shown, sequence, orders, issued, book>>
    BY DEF EngineTyped, RunsTyped, ChooseEntry, AtEntry, ledgerVars, redisVars
  <1>2. PICK e \in me.scan :
           /\ AtEntry(w, e) /\ RowOpen(e.id) /\ orders[e.id].user # me.incoming.user
           /\ IF CanMatch(me.incoming, orders[e.id])
              THEN /\ GoTo(w, "settle")
                   /\ local' = [local EXCEPT ![w].resting = e.id,
                                    ![w].restingRow = orders[e.id], ![w].scan = {}]
              ELSE GoTo(w, "finish") /\ local' = [local EXCEPT ![w].scan = {}]
    BY Zenon DEF ChooseEntry
  <1>3. CASE CanMatch(me.incoming, orders[e.id])
    <2> DEFINE new == [me EXCEPT !.resting = e.id, !.restingRow = orders[e.id], !.scan = {}]
    <2>1. new.incoming = me.incoming /\ new.resting = e.id
      BY <1>1 DEF RunType
    <2>2. GoTo(w, "settle") /\ local' = [local EXCEPT ![w] = new]
      BY <1>1, <1>2, <1>3 DEF RunsTyped
    <2> HIDE DEF new
    <2>3. pc'[w] = "settle" /\ local'[w] = new /\ Alone(w) /\ job'[w] = job[w] /\ sym'[w] = sym[w]
      BY <1>1, <2>2, PlainEffect
    <2> QED BY <1>1, <1>2, <2>1, <2>3 DEF Stays
  <1>4. CASE ~CanMatch(me.incoming, orders[e.id])
    <2> DEFINE new == [me EXCEPT !.scan = {}]
    <2>1. new.incoming = me.incoming
      BY <1>1 DEF RunType
    <2>2. GoTo(w, "finish") /\ local' = [local EXCEPT ![w] = new]
      BY <1>2, <1>4
    <2> HIDE DEF new
    <2>3. pc'[w] = "finish" /\ local'[w] = new /\ Alone(w) /\ job'[w] = job[w] /\ sym'[w] = sym[w]
      BY <1>1, <2>2, PlainEffect
    <2> QED BY <1>1, <1>2, <1>4, <2>1, <2>3 DEF Stays
  <1> QED BY <1>3, <1>4

LEMMA ExhaustedEffect ==
    ASSUME EngineTyped, NEW w \in Workers, ScanExhausted(w)
    PROVE  /\ Stays(w) /\ UNCHANGED <<orders, issued, book>> /\ pc[w] = "scan"
           /\ local[w].scan = {}
           /\ pc'[w] = "finish" /\ local'[w] = local[w]
  <1>1. RunsTyped /\ UNCHANGED <<job, sym>> /\ pc[w] = "scan" /\ local[w].scan = {}
        /\ UNCHANGED <<shown, sequence, orders, issued, book>> /\ local' = local
    BY DEF EngineTyped, ScanExhausted, ledgerVars, redisVars
  <1> QED BY <1>1 DEF Stays, Alone, ScanExhausted, RunsTyped, GoTo

LEMMA NothingDropped ==
    ASSUME Known, NEW w \in Workers, Critical(w)
    PROVE  ~DropMissingEntry(w)
  BY DEF Known, RunKnown, DropMissingEntry

(* The tasks a settlement leaves: the rows of the pair, as they are now.   *)
Reports(w, S) ==
    /\ local'[w].next = "reload"
    /\ \A t \in Range(local'[w].changed) : t.id \in S /\ t.row = orders'[t.id]

LEMMA SettleEffect ==
    ASSUME EngineTyped, LedgerInv', Known, NEW w \in Workers, Settlement(w)
    PROVE  /\ Stays(w) /\ UNCHANGED book /\ pc[w] = "settle"
           /\ \/ pc'[w] = "release" /\ local'[w].failed /\ UNCHANGED orders
              \/ /\ pc'[w] \in {"publish", "sync"}
                 /\ Reports(w, {job[w], local[w].resting})
           /\ TradePair(w) =>
                 \A x \in {job[w], local[w].resting} :
                    \E t \in Range(local'[w].changed) : t.id = x
  <1> DEFINE me == local[w]
             i == job[w]
             r == me.resting
  <1>1. me \in RunType /\ RunsTyped /\ RunKnown(w) /\ LedgerInv
    BY DEF EngineTyped, RunsTyped, Known
  <1>2. pc[w] = "settle" /\ Critical(w) /\ UNCHANGED <<job, sym, book, shown, sequence>>
    BY DEF Settlement, TradePair, CloseUnfillable, SettleMissing, SettleRefused, Critical, redisVars
  <1>3. i \in DOMAIN orders /\ r \in DOMAIN orders
    BY <1>1, <1>2 DEF RunKnown
  <1>4. ~SettleMissing(w)
    BY <1>3 DEF SettleMissing
  <1>5. CASE TradePair(w)
    <2> PICK t \in {Task(BuyId(i, r), orders'[BuyId(i, r)])},
             u \in {Task(SellId(i, r), orders'[SellId(i, r)])} : TRUE
      OBVIOUS
    <2> DEFINE tasks == <<t, u>>
               new == [me EXCEPT !.trade = Len(trades'), !.next = "reload", !.changed = tasks]
    <2>1. /\ t.id = BuyId(i, r) /\ t.row = orders'[t.id]
          /\ u.id = SellId(i, r) /\ u.row = orders'[u.id]
      BY DEF Task
    <2>2. {BuyId(i, r), SellId(i, r)} = {i, r}
      BY DEF BuyId, SellId
    <2>3. Range(tasks) = {t, u}
      BY Ranges
    <2>4. local' = [local EXCEPT ![w] = new] /\ GoTo(w, "publish")
      BY <1>1, <1>5 DEF TradePair, RunsTyped, TradedTasks
    <2> HIDE DEF tasks
    <2>5. new.changed = tasks /\ new.next = "reload"
      BY <1>1 DEF RunType
    <2> HIDE DEF new
    <2>6. pc'[w] = "publish" /\ local'[w] = new /\ Alone(w) /\ job'[w] = job[w] /\ sym'[w] = sym[w]
      BY <1>1, <1>2, <2>4, PlainEffect
    <2> QED BY <1>2, <2>1, <2>2, <2>3, <2>5, <2>6 DEF Stays, Reports, Syncing
  <1>6. ASSUME NEW o \in {i, r}, NEW x \in {i, r},
               NEW tasks \in {<<Task(o, orders'[o])>>, <<Task(o, orders'[o]), Task(x, orders'[x])>>},
               SyncThen(w, tasks, "reload", me)
        PROVE  Stays(w) /\ pc'[w] = "sync" /\ Reports(w, {i, r})
    <2> PICK t \in {Task(o, orders'[o])}, u \in {Task(x, orders'[x])} : TRUE
      OBVIOUS
    <2>1. t.id = o /\ t.row = orders'[o] /\ u.id = x /\ u.row = orders'[x]
      BY DEF Task
    <2>2. tasks \in {<<t>>, <<t, u>>}
      OBVIOUS
    <2>3. tasks # <<>> /\ Range(tasks) \subseteq {t, u}
      BY <2>2, Ranges
    <2>4. DOMAIN me = Fields
      BY <1>1, RunFields
    <2>5. pc'[w] = "sync" /\ local'[w].changed = tasks /\ local'[w].next = "reload"
          /\ Alone(w) /\ job'[w] = job[w] /\ sym'[w] = sym[w]
      BY <1>1, <1>2, <1>6, <2>3, <2>4, SyncEffect
    <2> QED BY <1>2, <2>1, <2>3, <2>5 DEF Stays, Reports, Syncing
  <1>7. CASE CloseUnfillable(w)
    <2> DEFINE blamed == IF orders'[i] # orders[i] THEN i ELSE r
               other == IF blamed = i THEN r ELSE i
    <2>1. SyncThen(w, <<Task(blamed, orders'[blamed]), Task(other, orders[other])>>, "reload", me)
      BY <1>7 DEF CloseUnfillable
    <2>2. PICK x \in {i, r} : ~IsOpen(orders'[x]) /\ IsOpen(orders[x])
                               /\ \A y \in DOMAIN orders \ {x} : orders'[y] = orders[y]
      BY <1>1, <1>7, SettleIds, UnfillableKept DEF CloseUnfillable
    <2>3. orders'[x] # orders[x]
      BY <2>2
    <2>4. i # r
      BY <1>1, <1>7, SettleIds DEF Settleable
    <2>5. blamed = x /\ orders[other] = orders'[other] /\ other \in {i, r} /\ blamed \in {i, r}
      BY <1>3, <2>2, <2>3, <2>4
    <2> HIDE DEF blamed, other
    <2>6. SyncThen(w, <<Task(blamed, orders'[blamed]), Task(other, orders'[other])>>, "reload", me)
      BY <2>1, <2>5
    <2>7. Stays(w) /\ pc'[w] = "sync" /\ Reports(w, {i, r})
      BY <1>6, <2>5, <2>6
    <2>8. ~TradePair(w)
      BY <1>1, <2>7 DEF TradePair, GoTo, RunsTyped
    <2> QED BY <1>2, <2>7, <2>8 DEF Syncing
  <1>8. CASE SettleRefused(w)
    <2>1. UNCHANGED orders /\ ~TradePair(w)
      BY <1>8 DEF SettleRefused, ledgerVars, TradePair, SettleTrade
    <2>2. CASE GoTo(w, "release") /\ local' = [local EXCEPT ![w].failed = TRUE]
      <3> DEFINE new == [me EXCEPT !.failed = TRUE]
      <3>1. new.failed
        BY <1>1 DEF RunType
      <3>2. GoTo(w, "release") /\ local' = [local EXCEPT ![w] = new]
        BY <2>2
      <3> HIDE DEF new
      <3>3. pc'[w] = "release" /\ local'[w] = new /\ Alone(w) /\ job'[w] = job[w] /\ sym'[w] = sym[w]
        BY <1>1, <1>2, <3>2, PlainEffect
      <3> QED BY <1>2, <2>1, <3>1, <3>3 DEF Stays
    <2>3. CASE \/ SyncThen(w, <<Task(i, orders[i]), Task(r, orders[r])>>, "reload", me)
               \/ SyncThen(w, <<Task(i, orders[i])>>, "reload", me)
      <3>1. Stays(w) /\ pc'[w] = "sync" /\ Reports(w, {i, r})
        BY <1>6, <2>1, <2>3
      <3> QED BY <1>2, <2>1, <3>1 DEF Syncing
    <2> QED BY <1>8, <2>2, <2>3 DEF SettleRefused
  <1> QED BY <1>4, <1>5, <1>7, <1>8 DEF Settlement

(* Publishing, and reading the member of a task: the rest stays.           *)
Continues(w) ==
    /\ local'[w].changed = local[w].changed /\ local'[w].next = local[w].next
    /\ local'[w].scan = local[w].scan /\ local'[w].incoming = local[w].incoming
    /\ local'[w].failed = local[w].failed

LEMMA AnnounceEffect ==
    ASSUME EngineTyped, NEW w \in Workers, Announce(w)
    PROVE  /\ Stays(w) /\ UNCHANGED <<orders, issued, book>> /\ pc[w] = "publish"
           /\ pc'[w] = "sync" /\ Continues(w)
  <1> DEFINE me == local[w]
             new == [me EXCEPT !.trade = 0]
  <1>1. RunsTyped /\ me \in RunType /\ UNCHANGED <<job, sym>> /\ pc[w] = "publish"
        /\ UNCHANGED <<shown, sequence, orders, issued, book>>
    BY DEF EngineTyped, RunsTyped, Announce, ledgerVars, redisVars
  <1>2. /\ new.changed = me.changed /\ new.next = me.next /\ new.scan = me.scan
        /\ new.incoming = me.incoming /\ new.failed = me.failed
    BY <1>1 DEF RunType
  <1>3. GoTo(w, "sync") /\ local' = [local EXCEPT ![w] = new]
    BY DEF Announce
  <1> HIDE DEF new
  <1>4. pc'[w] = "sync" /\ local'[w] = new /\ Alone(w) /\ job'[w] = job[w] /\ sym'[w] = sym[w]
    BY Zenon, <1>1, <1>3, PlainEffect
  <1> QED BY <1>1, <1>2, <1>4 DEF Stays, Continues

LEMMA SyncReadEffect ==
    ASSUME EngineTyped, NEW w \in Workers, SyncRead(w), NEW t, t = Head(local[w].changed)
    PROVE  /\ Alone(w) /\ job'[w] = job[w] /\ sym'[w] = sym[w]
           /\ UNCHANGED <<orders, issued, book, shown>> /\ pc[w] = "sync"
           /\ pc'[w] = "write" /\ Continues(w)
           /\ IF NeedsMember(t)
              THEN /\ sequence' = [sequence EXCEPT ![t.row.symbol] = @ + 1]
                   /\ local'[w].member = sequence[t.row.symbol] + 1
              ELSE sequence' = sequence /\ local'[w].member = shown[t.id].member
  <1> DEFINE me == local[w]
             m == IF NeedsMember(t) THEN sequence[t.row.symbol] + 1 ELSE shown[t.id].member
             new == [me EXCEPT !.member = m]
  <1>1. RunsTyped /\ me \in RunType /\ UNCHANGED <<job, sym>> /\ pc[w] = "sync"
        /\ UNCHANGED <<shown, orders, issued, book>>
    BY DEF EngineTyped, RunsTyped, SyncRead, ledgerVars, redisVars
  <1>2. GoTo(w, "write") /\ local' = [local EXCEPT ![w] = new]
    BY DEF SyncRead
  <1>3. IF NeedsMember(t) THEN sequence' = [sequence EXCEPT ![t.row.symbol] = @ + 1]
                          ELSE sequence' = sequence
    BY DEF SyncRead
  <1> HIDE DEF m
  <1>4. /\ new.changed = me.changed /\ new.next = me.next /\ new.scan = me.scan
        /\ new.incoming = me.incoming /\ new.failed = me.failed /\ new.member = m
    BY <1>1 DEF RunType
  <1> HIDE DEF new
  <1>5. pc'[w] = "write" /\ local'[w] = new /\ Alone(w) /\ job'[w] = job[w] /\ sym'[w] = sym[w]
    BY <1>1, <1>2, PlainEffect
  <1> QED BY Zenon, <1>1, <1>3, <1>4, <1>5 DEF Stays, Continues, m

LEMMA WriteEffect ==
    ASSUME EngineTyped, NEW w \in Workers, SyncWrite(w), NEW t, t = Head(local[w].changed)
    PROVE  /\ Alone(w) /\ job'[w] = job[w] /\ sym'[w] = sym[w]
           /\ UNCHANGED <<orders, issued, sequence>> /\ pc[w] = "write"
           /\ local'[w].changed = Tail(local[w].changed)
           /\ \/ pc'[w] = local[w].next
              \/ pc'[w] = "sync" /\ local'[w].next = local[w].next
           /\ local[w].next \in {"reload", "range", "scan", "release"}
           /\ Phase(w)' = Phase(w)
           /\ local'[w].scan = local[w].scan /\ local'[w].incoming = local[w].incoming
           /\ local'[w].failed = local[w].failed
           /\ t \in TaskType /\ Range(local[w].changed) = {t} \cup Range(local'[w].changed)
  <1> DEFINE me == local[w]
             tail == Tail(me.changed)
             new == [me EXCEPT !.member = 0]
  <1>1. me \in RunType /\ RunsTyped /\ RunShaped(w) /\ pc[w] = "write" /\ UNCHANGED <<job, sym>>
        /\ UNCHANGED <<orders, issued, sequence>>
    BY DEF EngineTyped, RunsTyped, SyncWrite, ledgerVars
  <1>2. /\ me.changed \in Seq(TaskType) /\ me.changed # <<>>
        /\ me.next \in {"reload", "range", "scan", "release"} /\ Phase(w) = me.next
    BY <1>1 DEF RunShaped, RunType, Syncing, Phase
  <1>3. Range(me.changed) = {t} \cup Range(tail) /\ t \in TaskType
    BY <1>2, RangeTail
  <1>4. SyncThen(w, tail, me.next, new)
    BY DEF SyncWrite
  <1>5. DOMAIN new = Fields /\ new.scan = me.scan /\ new.incoming = me.incoming
        /\ new.failed = me.failed
    BY <1>1, RunFields DEF RunType
  <1> HIDE DEF new, tail
  <1>6. /\ pc'[w] = (IF tail = <<>> THEN me.next ELSE "sync")
        /\ local'[w].scan = me.scan /\ local'[w].incoming = me.incoming
        /\ local'[w].failed = me.failed
        /\ local'[w].changed = tail
        /\ tail # <<>> => local'[w].next = me.next
        /\ Alone(w) /\ job'[w] = job[w] /\ sym'[w] = sym[w]
    BY <1>1, <1>4, <1>5, SyncEffect
  <1>7. Phase(w)' = me.next
    BY <1>2, <1>6 DEF Phase, Syncing
  <1> QED BY <1>1, <1>2, <1>3, <1>6, <1>7 DEF tail

LEMMA FinishEffect ==
    ASSUME EngineTyped, LedgerInv', Known, NEW w \in Workers, CancelRemainder(w) \/ RestInBook(w)
    PROVE  /\ Stays(w) /\ UNCHANGED book /\ pc[w] = "finish"
           /\ \/ pc'[w] = "release" /\ UNCHANGED orders /\ ~RowOpen(job[w])
              \/ /\ pc'[w] = "sync" /\ local'[w].next = "release"
                 /\ local'[w].failed = local[w].failed
                 /\ \E t : /\ Range(local'[w].changed) = {t} /\ t.id = job[w]
                           /\ \/ UNCHANGED orders /\ t.row = local[w].incoming
                              \/ ~IsOpen(orders'[job[w]])
  <1> DEFINE me == local[w]
             o == job[w]
  <1>1. me \in RunType /\ RunsTyped /\ RunKnown(w) /\ RunShaped(w) /\ LedgerInv
    BY DEF EngineTyped, RunsTyped, Known
  <1>2. pc[w] = "finish" /\ UNCHANGED <<job, sym, book, shown, sequence>>
    BY DEF CancelRemainder, RestInBook, redisVars
  <1>3. DOMAIN me = Fields
    BY <1>1, RunFields
  <1>4. ASSUME NEW t, SyncThen(w, <<t>>, "release", me)
        PROVE  /\ pc'[w] = "sync" /\ local'[w].next = "release"
               /\ local'[w].failed = local[w].failed /\ Range(local'[w].changed) = {t}
               /\ Stays(w)
    <2> DEFINE tasks == <<t>>
    <2>1. tasks # <<>> /\ Range(tasks) = {t}
      BY Ranges
    <2>2. SyncThen(w, tasks, "release", me)
      BY <1>4
    <2> HIDE DEF tasks
    <2>3. pc'[w] = "sync" /\ local'[w].changed = tasks /\ local'[w].next = "release"
          /\ local'[w].failed = me.failed
          /\ Alone(w) /\ job'[w] = job[w] /\ sym'[w] = sym[w]
      BY <1>1, <1>2, <1>3, <2>1, <2>2, SyncEffect
    <2> QED BY <1>2, <2>1, <2>3 DEF Stays
  <1>5. CASE RestInBook(w)
    <2> PICK t : t = Task(o, me.incoming)
      OBVIOUS
    <2>1. t.id = o /\ t.row = me.incoming
      BY DEF Task
    <2>2. SyncThen(w, <<t>>, "release", me) /\ UNCHANGED orders
      BY <1>5 DEF RestInBook, ledgerVars
    <2> QED BY <1>2, <1>4, <2>1, <2>2
  <1>6. CASE CancelRemainder(w)
    <2>1. CASE HasOpenStatus(o)
      <3> PICK t : t = Task(o, orders'[o])
        OBVIOUS
      <3>1. t.id = o
        BY DEF Task
      <3>2. SyncThen(w, <<t>>, "release", me) /\ CancelOpen(o)
        BY <1>6, <2>1 DEF CancelRemainder
      <3>3. ~IsOpen(orders'[o])
        BY <1>1, <3>2, CancelKept
      <3> QED BY <1>2, <1>4, <3>1, <3>2, <3>3
    <2>2. CASE ~HasOpenStatus(o)
      <3>1. GoTo(w, "release") /\ local' = [local EXCEPT ![w] = me] /\ UNCHANGED orders
        BY <1>1, <1>6, <2>2 DEF CancelRemainder, RunsTyped, ledgerVars
      <3>2. pc'[w] = "release" /\ Alone(w) /\ job'[w] = job[w] /\ sym'[w] = sym[w]
        BY <1>1, <1>2, <3>1, PlainEffect
      <3>3. ~RowOpen(o)
        BY <2>2 DEF RowOpen, HasOpenStatus, IsOpen
      <3> QED BY <1>2, <3>1, <3>2, <3>3 DEF Stays
    <2> QED BY <2>1, <2>2
  <1> QED BY <1>5, <1>6

LEMMA MoveEffect ==
    ASSUME EngineTyped, NEW w \in Workers,
           AcquireLock(w) \/ ReleaseLock(w) \/ LockTimeout(w) \/ Throw(w)
    PROVE  /\ Stays(w) /\ UNCHANGED <<orders, issued, book>>
           /\ \/ pc'[w] \in {"reload", "fail", "done"}
              \/ pc'[w] = "release" /\ local'[w].failed
           /\ pc'[w] = "done" => pc[w] = "release" /\ ~local[w].failed
  <1> DEFINE me == local[w]
  <1>1. me \in RunType /\ RunsTyped
    BY DEF EngineTyped, RunsTyped
  <1>2. UNCHANGED <<job, sym, orders, issued, book, shown, sequence>>
    BY DEF AcquireLock, ReleaseLock, LockTimeout, Throw, ledgerVars, redisVars
  <1>3. CASE \E label \in {"reload", "done", "fail"} :
                /\ GoTo(w, label) /\ local' = local
                /\ label = "done" => pc[w] = "release" /\ ~me.failed
    <2>1. PICK label \in {"reload", "done", "fail"} :
                /\ GoTo(w, label) /\ local' = local
                /\ label = "done" => pc[w] = "release" /\ ~me.failed
      BY <1>3
    <2>2. local' = [local EXCEPT ![w] = me]
      BY <1>1, <2>1 DEF RunsTyped
    <2>3. pc'[w] = label /\ local'[w] = me /\ Alone(w) /\ job'[w] = job[w] /\ sym'[w] = sym[w]
      BY <1>1, <1>2, <2>1, <2>2, PlainEffect
    <2> QED BY <1>2, <2>1, <2>3 DEF Stays
  <1>4. CASE GoTo(w, "release") /\ local' = [local EXCEPT ![w].failed = TRUE]
    <2> DEFINE new == [me EXCEPT !.failed = TRUE]
    <2>1. new.failed
      BY <1>1 DEF RunType
    <2>2. GoTo(w, "release") /\ local' = [local EXCEPT ![w] = new]
      BY <1>4
    <2> HIDE DEF new
    <2>3. pc'[w] = "release" /\ local'[w] = new /\ Alone(w) /\ job'[w] = job[w] /\ sym'[w] = sym[w]
      BY <1>1, <1>2, <2>2, PlainEffect
    <2> QED BY <1>2, <2>1, <2>3 DEF Stays
  <1>5. ReleaseLock(w) => \E label \in {"reload", "done", "fail"} :
                /\ GoTo(w, label) /\ local' = local
                /\ label = "done" => pc[w] = "release" /\ ~me.failed
    BY DEF ReleaseLock
  <1> QED BY <1>3, <1>4, <1>5 DEF AcquireLock, LockTimeout, Throw

-----------------------------------------------------------------------------
(* The order book and the order hashes name each other.                    *)

(* An entry's member is the one its order's hash holds, was drawn from the *)
(* symbol's sequence, and is no other entry's.                             *)
Indexed ==
    /\ \A k \in Symbols \X Sides : IsFiniteSet(book[k])
    /\ \A k \in Symbols \X Sides : \A e \in book[k] :
          shown[e.id].member = e.member /\ e.member \in 1 .. sequence[k[1]]
    /\ \A o \in OrderIds : shown[o].member # 0 => InBook(o)
    /\ \A k, l \in Symbols \X Sides : k[1] = l[1] =>
          \A e \in book[k], f \in book[l] : e.member = f.member => e = f

(* Between reading a member and writing it back, it is the order's own or  *)
(* one newer than all that the book of the symbol holds.                   *)
Drawn(w) ==
    pc[w] = "write" =>
        LET t == Head(local[w].changed)
            m == local[w].member
        IN  IF shown[t.id].member # 0 THEN m = shown[t.id].member
            ELSE t.keep => /\ m \in 1 .. sequence[sym[w]]
                           /\ \A k \in Symbols \X Sides : k[1] = sym[w] =>
                                 \A e \in book[k] : e.member < m

(* While it has the lock, what a run read of open orders of its symbol     *)
(* stays up to date, except for its own settlements.                       *)
Fresh(w) ==
    /\ pc[w] \in Syncing =>
          \A t \in Range(local[w].changed) : RowOpen(t.id) => t.row = orders[t.id]
    /\ Phase(w) \in Reading /\ RowOpen(job[w]) => local[w].incoming = orders[job[w]]

(* ZRANGE 0 .. Depth - 1 returns the whole side of a book.                 *)
BookFits == \A k \in Symbols \X Sides : Cardinality(book[k]) <= Depth

(* Orders w's order may trade with, at the right price.                    *)
Rival(w, o) ==
    /\ RowOpen(o)
    /\ orders[o].symbol = sym[w]
    /\ orders[o].side = Opposite(orders[job[w]].side)
    /\ orders[o].user # orders[job[w]].user

Across(w) == book[<<sym[w], Opposite(orders[job[w]].side)>>]

(* The scan passes over no order of another user but those behind the      *)
(* Depth first entries; so the one it settles with is ahead of all others. *)
Scanned(w, whole) ==
    /\ Phase(w) = "scan" =>
          /\ local[w].scan \subseteq Across(w)
          /\ \A e \in Across(w) : Rival(w, e.id) =>
                \/ e \in local[w].scan
                \/ ~whole /\ \A f \in local[w].scan : Ahead(f, e)
    /\ pc[w] \in Syncing /\ local[w].next = "scan" =>
          \A t \in Range(local[w].changed) :
             ~RowOpen(t.id) /\ \A f \in local[w].scan : f.id # t.id
    /\ pc[w] = "settle" =>
          \E r \in Across(w) :
             /\ r.id = local[w].resting
             /\ \A e \in Across(w) \ {r} : Rival(w, e.id) => Ahead(r, e)

(* The matching loop has ended well, though the run is not over.           *)
Cleared(w) == Phase(w) = "finish" \/ (Phase(w) = "release" /\ ~local[w].failed)

(* syncOrderBook puts no order but the run's own into the book anew, and   *)
(* when the matching loop has ended none that rests matches it.            *)
Swept(w, whole) ==
    /\ pc[w] \in Syncing =>
          \A t \in Range(local[w].changed) :
             /\ t.keep /\ RowOpen(t.id) => t.id = job[w] \/ InBook(t.id)
             /\ local[w].next = "release" => t.id = job[w]
    /\ whole /\ Cleared(w) /\ RowOpen(job[w]) =>
          \A o \in OrderIds : InBook(o) /\ Rival(w, o) => ~CanMatch(orders[job[w]], orders[o])

RunOrderly(w, whole) == Drawn(w) /\ Fresh(w) /\ Scanned(w, whole) /\ Swept(w, whole)

(* Runs outside the critical section, or on their way out of it, need not  *)
(* know anything.                                                          *)
LEMMA Calm ==
    ASSUME NEW whole \in BOOLEAN, NEW w,
           \/ pc'[w] \in {"idle", "lock", "reload", "done", "fail"}
           \/ pc'[w] = "release" /\ (local'[w].failed \/ ~RowOpen(job[w])')
    PROVE  RunOrderly(w, whole)'
  <1>1. pc'[w] \notin Syncing /\ pc'[w] \notin Reading /\ Phase(w)' = pc'[w]
    BY DEF Syncing, Reading, Phase
  <1>2. pc'[w] \notin {"write", "scan", "settle", "finish"}
    OBVIOUS
  <1>3. Drawn(w)'
    BY <1>2 DEF Drawn
  <1>4. Fresh(w)'
    BY <1>1 DEF Fresh
  <1>5. Scanned(w, whole)'
    BY <1>1, <1>2 DEF Scanned
  <1>6. Swept(w, whole)'
    BY <1>1, <1>2 DEF Swept, Cleared
  <1> QED BY <1>3, <1>4, <1>5, <1>6 DEF RunOrderly

-----------------------------------------------------------------------------
(* A run whose symbol nobody else touches keeps what it knows.             *)

(* A step that leaves the open rows, the book, the hashes and the sequence *)
(* of a symbol alone.                                                      *)
Quiet(s) ==
    /\ \A o \in DOMAIN orders :
          orders[o].symbol = s =>
              shown'[o] = shown[o] /\ (IsOpen(orders'[o]) => orders'[o] = orders[o])
    /\ \A k \in Symbols \X Sides : k[1] = s => book'[k] = book[k]
    /\ sequence'[s] = sequence[s]

LEMMA RunStays ==
    ASSUME NEW whole \in BOOLEAN, EngineTyped, EngineTyped', Known, Known', RowsKept,
           NEW w \in Workers, Critical(w), Quiet(sym[w]), RunOrderly(w, whole),
           pc'[w] = pc[w], job'[w] = job[w], sym'[w] = sym[w], local'[w] = local[w]
    PROVE  RunOrderly(w, whole)'
  <1> DEFINE me == local[w]
             s == sym[w]
             i == job[w]
  <1>1. /\ RunKnown(w) /\ RunShaped(w) /\ me \in RunType /\ BookPlaced /\ BookPlaced'
        /\ LedgerInv /\ RedisTyped /\ RedisTyped'
    BY DEF Known, EngineTyped, RunsTyped
  <1>2. /\ s \in Symbols /\ i \in DOMAIN orders /\ i \in OrderIds /\ orders[i].symbol = s
        /\ orders[i].side \in Sides /\ pc[w] # "idle"
    BY <1>1 DEF RunKnown, RunShaped, Critical, LedgerInv, LedgerTypeOK, OrderRow
  <1>3. \A o \in DOMAIN orders : orders[o].symbol = s =>
           /\ o \in DOMAIN orders' /\ SameOrder(orders'[o], orders[o])
           /\ orders'[o].symbol = s /\ orders'[o].user = orders[o].user
           /\ orders'[o].side = orders[o].side /\ shown'[o] = shown[o]
           /\ RowOpen(o)' => RowOpen(o) /\ orders'[o] = orders[o]
    BY RowStands DEF Quiet, RowOpen
  <1>4. \A k \in Symbols \X Sides : k[1] = s => book'[k] = book[k]
    BY DEF Quiet
  <1>5. \A k \in Symbols \X Sides : k[1] = s =>
           \A e \in book[k] : e.id \in DOMAIN orders /\ orders[e.id].symbol = s
    BY <1>1 DEF BookPlaced, Placed
  <1>6. \A t \in Range(me.changed) :
           t.id \in DOMAIN orders /\ orders[t.id].symbol = s /\ (t.keep => IsLimit(orders[t.id]))
    BY <1>1 DEF RunKnown, TaskTrue, SameOrder, IsLimit
  <1>7. Across(w)' = Across(w)
    <2>1. Opposite(orders[i].side) \in Sides
      BY DEF Opposite, Sides
    <2>2. <<s, Opposite(orders[i].side)>> \in Symbols \X Sides
      BY <1>2, <2>1
    <2> QED BY <1>2, <1>3, <1>4, <2>2 DEF Across
  <1>8. \A e \in Across(w) : e.id \in DOMAIN orders /\ orders[e.id].symbol = s
    <2>1. Opposite(orders[i].side) \in Sides
      BY DEF Opposite, Sides
    <2>2. <<s, Opposite(orders[i].side)>> \in Symbols \X Sides
      BY <1>2, <2>1
    <2> QED BY <1>5, <2>2 DEF Across
  <1>9. \A o \in DOMAIN orders : Rival(w, o)' => Rival(w, o) /\ orders'[o] = orders[o]
    BY <1>2, <1>3, RowStands DEF Rival
  <1>10. Drawn(w)'
    <2> SUFFICES ASSUME pc[w] = "write" PROVE Drawn(w)'
      BY DEF Drawn
    <2> PICK t : t = Head(me.changed)
      OBVIOUS
    <2>1. t \in Range(me.changed)
      <3>1. me.changed \in Seq(TaskType) /\ me.changed # <<>>
        BY <1>1 DEF RunType, RunShaped, Syncing
      <3> QED BY <3>1, RangeTail
    <2>2. shown'[t.id] = shown[t.id]
      BY <1>3, <1>6, <2>1
    <2>3. sequence'[s] = sequence[s]
      BY DEF Quiet
    <2> QED BY <1>4, <2>2, <2>3 DEF RunOrderly, Drawn
  <1>11. Fresh(w)'
    BY <1>2, <1>3, <1>6 DEF RunOrderly, Fresh, Phase
  <1>12. Scanned(w, whole)'
    <2>1. Phase(w)' = Phase(w)
      BY DEF Phase
    <2>2. Phase(w) = "scan" => me.scan \subseteq Across(w)
      BY DEF RunOrderly, Scanned
    <2>3. \A t \in Range(me.changed) : RowOpen(t.id)' => RowOpen(t.id)
      BY <1>3, <1>6
    <2>4. \A e \in Across(w) : Rival(w, e.id)' => Rival(w, e.id)
      BY <1>8, <1>9
    <2> QED BY <1>7, <2>1, <2>2, <2>3, <2>4 DEF RunOrderly, Scanned
  <1>13. Swept(w, whole)'
    <2>1. \A o : InBook(o)' /\ RowOpen(o)' /\ orders'[o].symbol = s =>
                 InBook(o) /\ o \in DOMAIN orders
      <3> SUFFICES ASSUME NEW o, InBook(o)', orders'[o].symbol = s
                   PROVE  InBook(o) /\ o \in DOMAIN orders
        OBVIOUS
      <3>1. PICK k \in Symbols \X Sides : \E e \in book'[k] : e.id = o
        BY <1>1 DEF InBook, Entries
      <3>2. PICK e \in book'[k] : e.id = o
        BY <3>1
      <3>3. k[1] = s
        BY <1>1, <3>2 DEF BookPlaced, Placed
      <3> QED BY <1>1, <1>4, <1>5, <3>2, <3>3, EntryInBook
    <2>2. \A t \in Range(me.changed) : InBook(t.id) => InBook(t.id)'
      <3> TAKE t \in Range(me.changed)
      <3> HAVE InBook(t.id)
      <3>1. PICK k \in Symbols \X Sides : \E e \in book[k] : e.id = t.id
        BY <1>1, BookEntry
      <3>2. PICK e \in book[k] : e.id = t.id
        BY <3>1
      <3>3. k[1] = s
        BY <1>1, <1>6, <3>2 DEF BookPlaced, Placed
      <3>4. e \in book'[k]
        BY <1>4, <3>2, <3>3
      <3> QED BY <3>2, <3>4, BookEntryNext
    <2>3. Cleared(w)' = Cleared(w)
      BY DEF Cleared, Phase
    <2>4. \A t \in Range(me.changed) : RowOpen(t.id)' => RowOpen(t.id)
      BY <1>3, <1>6
    <2>5. RowOpen(i)' => RowOpen(i) /\ orders'[i] = orders[i]
      BY <1>2, <1>3
    <2>6. \A o \in OrderIds : InBook(o)' /\ Rival(w, o)' =>
             InBook(o) /\ Rival(w, o) /\ orders'[o] = orders[o]
      BY <1>9, <2>1 DEF Rival
    <2>7. Swept(w, whole)
      BY DEF RunOrderly
    <2>8. pc[w] \in Syncing =>
             \A t \in Range(me.changed) :
                /\ t.keep /\ RowOpen(t.id)' => t.id = i \/ InBook(t.id)'
                /\ me.next = "release" => t.id = i
      BY <2>2, <2>4, <2>7 DEF Swept
    <2>9. whole /\ Cleared(w) /\ RowOpen(i)' =>
             \A o \in OrderIds : InBook(o)' /\ Rival(w, o)' => ~CanMatch(orders'[i], orders'[o])
      BY <2>5, <2>6, <2>7 DEF Swept
    <2> QED BY <2>3, <2>8, <2>9 DEF Swept
  <1> QED BY <1>10, <1>11, <1>12, <1>13 DEF RunOrderly

LEMMA StillQuiet ==
    ASSUME OpenUntouched, UNCHANGED <<book, shown, sequence>>
    PROVE  \A s : Quiet(s)
  BY DEF OpenUntouched, Quiet

(* A run touches its own symbol alone.                                     *)
LEMMA WorkQuiet ==
    ASSUME EngineTyped, Known, NEW w \in Workers, Work(w),
           NEW s, s # sym[w] \/ ~Critical(w)
    PROVE  Quiet(s)
  <1> DEFINE me == local[w]
  <1>1. /\ RunKnown(w) /\ RunShaped(w) /\ me \in RunType /\ LedgerInv /\ RedisTyped
    BY DEF Known, EngineTyped, RunsTyped
  <1>2. CASE TradePair(w)
    <2>1. job[w] \in OrderIds /\ me.resting \in OrderIds
          /\ SettleTrade(job[w], me.resting) /\ UNCHANGED <<book, shown, sequence>>
          /\ pc[w] = "settle" /\ Critical(w)
      BY Zenon, <1>1, <1>2, SettleIds DEF TradePair, redisVars, Critical
    <2>2. orders[job[w]].symbol = sym[w] /\ orders[me.resting].symbol = sym[w]
      BY <1>1, <2>1 DEF RunKnown
    <2>3. \A x \in DOMAIN orders \ {job[w], me.resting} : orders'[x] = orders[x]
      BY <1>1, <2>1, TradeKept
    <2> QED BY <2>1, <2>2, <2>3 DEF Quiet
  <1>3. CASE SyncRead(w)
    <2> PICK t : t = Head(me.changed)
      OBVIOUS
    <2>1. pc[w] = "sync" /\ me.changed \in Seq(TaskType) /\ me.changed # <<>> /\ Critical(w)
      BY <1>1, <1>3 DEF SyncRead, RunType, RunShaped, Syncing, Critical
    <2>2. t \in Range(me.changed)
      BY <2>1, RangeTail
    <2>3. t.row.symbol = sym[w]
      BY <1>1, <2>1, <2>2 DEF RunKnown
    <2>4. sequence'[s] = sequence[s]
      BY <1>1, <1>3, <2>1, <2>3 DEF SyncRead, RedisTyped
    <2> QED BY <1>3, <2>4 DEF SyncRead, Quiet, ledgerVars
  <1>4. CASE SyncWrite(w)
    <2> PICK t : t = Head(me.changed)
      OBVIOUS
    <2>1. pc[w] = "write" /\ me.changed \in Seq(TaskType) /\ me.changed # <<>> /\ Critical(w)
      BY <1>1, <1>4 DEF SyncWrite, RunType, RunShaped, Syncing, Critical
    <2>2. t \in Range(me.changed)
      BY <2>1, RangeTail
    <2>3. t.row.symbol = sym[w] /\ orders[t.id].symbol = sym[w]
      BY <1>1, <2>1, <2>2 DEF RunKnown, TaskTrue, SameOrder
    <2>4. \A k \in Symbols \X Sides : k[1] = s => book'[k] = book[k]
      <3> PICK key : key = <<t.row.symbol, t.row.side>>
        OBVIOUS
      <3>1. \A k \in Symbols \X Sides : k # key => book'[k] = book[k]
        BY Zenon, <1>1, <1>4 DEF SyncWrite, RedisTyped
      <3>2. key[1] = sym[w] /\ s # sym[w]
        BY <2>1, <2>3
      <3> QED BY <3>1, <3>2
    <2>5. \A o \in DOMAIN orders : orders[o].symbol = s => shown'[o] = shown[o]
      <3>1. DOMAIN shown = OrderIds /\ \E x : shown' = [shown EXCEPT ![t.id] = x]
        BY Zenon, <1>1, <1>4 DEF SyncWrite, RedisTyped
      <3>2. s # sym[w]
        BY <2>1
      <3> QED BY <1>1, <2>3, <3>1, <3>2
    <2> QED BY Zenon, <1>4, <2>4, <2>5 DEF SyncWrite, Quiet, ledgerVars
  <1>5. CASE ~(TradePair(w) \/ SyncRead(w) \/ SyncWrite(w))
    <2>1. OpenUntouched
      BY <1>1, <1>5, WorkKept
    <2>2. ~DropMissingEntry(w)
      BY <1>1 DEF RunKnown, Critical, DropMissingEntry, AtEntry
    <2>3. UNCHANGED <<book, shown, sequence>>
      BY Zenon, <1>5, <2>2 DEF Work, Scan, Settlement, AcquireLock, Reload, ReadBook, SyncClosedEntry,
           SkipOwnEntry, ChooseEntry, ScanExhausted, CloseUnfillable, SettleMissing,
           SettleRefused, Announce, CancelRemainder, RestInBook, ReleaseLock, CompleteJob,
           FailJob, redisVars
    <2> QED BY <2>1, <2>3, StillQuiet
  <1> QED BY <1>2, <1>3, <1>4, <1>5

-----------------------------------------------------------------------------
(* The order of the book.                                                  *)

LEMMA AheadOrders ==
    \A e, f, g \in EntryType :
        /\ Ahead(e, f) /\ Ahead(f, g) => Ahead(e, g)
        /\ Ahead(e, f) => ~Ahead(f, e)
        /\ e.member # f.member => Ahead(e, f) \/ Ahead(f, e)
  BY DEF EntryType, Ahead

LEMMA SidesOfBook ==
    ASSUME EngineTyped, Known, Indexed, NEW w \in Workers, Critical(w)
    PROVE  /\ job[w] \in DOMAIN orders /\ sym[w] \in Symbols
           /\ <<sym[w], Opposite(orders[job[w]].side)>> \in Symbols \X Sides
           /\ Across(w) \subseteq EntryType /\ IsFiniteSet(Across(w))
           /\ \A e \in Across(w) :
                 /\ InBook(e.id) /\ e.id \in DOMAIN orders /\ IsLimit(orders[e.id])
                 /\ orders[e.id].side = Opposite(orders[job[w]].side)
                 /\ orders[e.id].symbol = sym[w]
                 /\ e.score = Score(orders[e.id])
           /\ \A e, f \in Across(w) : e.id = f.id \/ e.member = f.member => e = f
           /\ \A o : InBook(o) /\ Rival(w, o) => \E e \in Across(w) : e.id = o
  <1>1. /\ RunKnown(w) /\ RunShaped(w) /\ RedisTyped /\ BookPlaced /\ LedgerInv
        /\ pc[w] # "idle"
    BY DEF Known, EngineTyped, RunsTyped, Critical
  <1>2. job[w] \in DOMAIN orders /\ sym[w] \in Symbols /\ orders[job[w]].symbol = sym[w]
    BY <1>1 DEF RunKnown, RunShaped, Critical
  <1> PICK k : k = <<sym[w], Opposite(orders[job[w]].side)>>
    OBVIOUS
  <1>3. k \in Symbols \X Sides /\ Across(w) = book[k]
    BY <1>2 DEF Opposite, Sides, Across
  <1>4. book[k] \subseteq EntryType /\ IsFiniteSet(book[k])
    BY <1>1, <1>3 DEF RedisTyped, Indexed
  <1>5. \A e \in book[k] : InBook(e.id) /\ Placed(k, e)
    BY <1>1, <1>3, EntryInBook DEF BookPlaced
  <1>6. \A e, f \in book[k] : e.id = f.id \/ e.member = f.member => e = f
    BY <1>3 DEF Indexed
  <1>7. ASSUME NEW o, InBook(o), Rival(w, o)
        PROVE  \E e \in book[k] : e.id = o
    <2>1. PICK l \in Symbols \X Sides : \E e \in book[l] : e.id = o
      BY <1>1, <1>7, BookEntry
    <2>2. PICK e \in book[l] : e.id = o
      BY <2>1
    <2>3. l = k
      BY <1>1, <1>7, <2>2 DEF BookPlaced, Placed, Rival
    <2> QED BY <2>2, <2>3
  <1> QED BY <1>2, <1>3, <1>4, <1>5, <1>6, <1>7 DEF Placed

(* ZRANGE returns the entries that are ahead of all the others.            *)
LEMMA FirstOnes ==
    ASSUME NEW B \in SUBSET EntryType, IsFiniteSet(B),
           \A e, f \in B : e.member = f.member => e = f,
           NEW C, C = {e \in B : Cardinality({f \in B : Ahead(f, e)}) < Depth},
           NEW e \in B, e \notin C
    PROVE  Cardinality(B) > Depth /\ \A f \in C : Ahead(f, e)
  <1> DEFINE Before(f) == {g \in B : Ahead(g, f)}
  <1>1. \A f \in B : Before(f) \subseteq B \ {f}
    BY AheadOrders
  <1>2. \A f \in B : IsFiniteSet(Before(f)) /\ Cardinality(Before(f)) \in Nat
    <2> TAKE f \in B
    <2>1. Before(f) \in SUBSET B
      OBVIOUS
    <2> HIDE DEF Before
    <2> QED BY <2>1, FS_Subset, FS_CardinalityType
  <1>3. Depth \in Nat /\ Cardinality(B) \in Nat
    BY EngineAssumption, FS_CardinalityType
  <1>4. ~(Cardinality(Before(e)) < Depth)
    OBVIOUS
  <1>5. Cardinality(B) > Depth
    <2>1. IsFiniteSet(B \ {e}) /\ Cardinality(B \ {e}) = Cardinality(B) - 1
      BY FS_RemoveElement
    <2>2. Before(e) \in SUBSET (B \ {e})
      BY <1>1
    <2> HIDE DEF Before
    <2>3. Cardinality(Before(e)) <= Cardinality(B \ {e})
      BY <2>1, <2>2, FS_Subset
    <2> QED BY <1>2, <1>3, <1>4, <2>1, <2>3
  <1>6. ASSUME NEW f \in C, ~Ahead(f, e) PROVE FALSE
    <2>1. f \in B /\ Cardinality(Before(f)) < Depth /\ f # e
      OBVIOUS
    <2>2. Ahead(e, f)
      BY <1>6, <2>1, AheadOrders
    <2>3. Before(e) \in SUBSET Before(f)
      BY <2>1, <2>2, AheadOrders
    <2> HIDE DEF Before
    <2>4. Cardinality(Before(e)) <= Cardinality(Before(f))
      BY <1>2, <2>1, <2>3, FS_Subset
    <2> QED BY <1>2, <1>3, <1>4, <2>1, <2>4
  <1> QED BY <1>5, <1>6

-----------------------------------------------------------------------------
(* What a run knows: starting to match and scanning the book.              *)

LEMMA ReloadOrderly ==
    ASSUME NEW whole \in BOOLEAN, EngineTyped, Known, NEW w \in Workers, Reload(w)
    PROVE  RunOrderly(w, whole)'
  <1>1. /\ UNCHANGED orders /\ job'[w] = job[w] /\ local'[w].incoming = RowOf(job[w])
        /\ pc'[w] = (IF RowOpen(job[w]) THEN "range" ELSE "release")
    BY ReloadEffect DEF Stays
  <1>2. CASE ~RowOpen(job[w])
    BY <1>1, <1>2, Calm DEF RowOpen
  <1>3. CASE RowOpen(job[w])
    <2>1. pc'[w] = "range" /\ Phase(w)' = "range"
      BY <1>1, <1>3 DEF Phase, Syncing
    <2>2. Fresh(w)'
      BY <1>1, <2>1 DEF Fresh, Syncing, RowOf, RowOpen
    <2> QED BY <2>1, <2>2 DEF RunOrderly, Drawn, Scanned, Swept, Cleared, Syncing
  <1> QED BY <1>2, <1>3

(* While it scans, a run knows its own order as it is.                     *)
LEMMA StillFresh ==
    ASSUME NEW w, Fresh(w), Phase(w) \in Reading, UNCHANGED orders, job'[w] = job[w],
           local'[w].incoming = local[w].incoming, pc'[w] \notin Syncing
    PROVE  Fresh(w)'
  BY DEF Fresh, RowOpen

LEMMA RivalStands ==
    ASSUME UNCHANGED <<orders, book>>, NEW w, job'[w] = job[w], sym'[w] = sym[w]
    PROVE  Across(w)' = Across(w) /\ \A o : Rival(w, o)' = Rival(w, o)
  BY DEF Across, Rival, RowOpen

LEMMA ReadOrderly ==
    ASSUME NEW whole \in BOOLEAN,
           EngineTyped, Known, Indexed, NEW w \in Workers, RunOrderly(w, whole), ReadBook(w),
           whole => BookFits
    PROVE  RunOrderly(w, whole)'
  <1>1. /\ UNCHANGED <<orders, book>> /\ job'[w] = job[w] /\ sym'[w] = sym[w]
        /\ pc[w] = "range" /\ pc'[w] = "scan" /\ local'[w].incoming = local[w].incoming
        /\ local'[w].scan = FirstEntries(sym[w], Opposite(local[w].incoming.side))
    BY ReadEffect DEF Stays
  <1>2. Critical(w) /\ Phase(w) = "range" /\ Phase(w)' = "scan" /\ RunKnown(w)
    BY <1>1 DEF Critical, Phase, Syncing, Known
  <1>3. local[w].incoming.side = orders[job[w]].side
    BY <1>2 DEF RunKnown, Reading, SameOrder
  <1> PICK B : B = Across(w)
    OBVIOUS
  <1> PICK C : C = local'[w].scan
    OBVIOUS
  <1>4. C = {e \in B : Cardinality({f \in B : Ahead(f, e)}) < Depth}
    BY <1>1, <1>3 DEF FirstEntries, Across
  <1>5. /\ B \subseteq EntryType /\ IsFiniteSet(B)
        /\ \A e, f \in B : e.id = f.id \/ e.member = f.member => e = f
    BY <1>2, SidesOfBook
  <1>7. \A e \in B : e \in C \/ (~whole /\ \A f \in C : Ahead(f, e))
    <2> TAKE e \in B
    <2>1. CASE e \in C
      BY <2>1
    <2>2. CASE e \notin C
      <3>1. Cardinality(B) > Depth /\ \A f \in C : Ahead(f, e)
        <4>1. B \in SUBSET EntryType /\ IsFiniteSet(B)
          BY <1>5
        <4>2. \A f, g \in B : f.member = g.member => f = g
          BY <1>5
        <4>3. e \in B /\ e \notin C
          BY <2>2
        <4> QED BY <1>4, <4>1, <4>2, <4>3, FirstOnes
      <3>2. BookFits => Cardinality(B) <= Depth
        <4>1. <<sym[w], Opposite(orders[job[w]].side)>> \in Symbols \X Sides
          BY <1>2, SidesOfBook
        <4> QED BY <4>1 DEF BookFits, Across
      <3>3. Cardinality(B) \in Nat /\ Depth \in Nat
        BY <1>5, FS_CardinalityType, EngineAssumption
      <3> QED BY <3>1, <3>2, <3>3
    <2> QED BY <2>1, <2>2
  <1>8. Fresh(w)'
    BY <1>1, <1>2, StillFresh DEF RunOrderly, Reading, Syncing
  <1>9. Scanned(w, whole)'
    <2>1. C \subseteq B
      BY <1>4
    <2>2. Across(w)' = B
      BY <1>1, RivalStands
    <2> QED BY <1>1, <1>7, <2>1, <2>2 DEF Scanned, Syncing
  <1> QED BY <1>1, <1>2, <1>8, <1>9 DEF RunOrderly, Drawn, Swept, Cleared, Syncing

LEMMA ClosedOrderly ==
    ASSUME NEW whole \in BOOLEAN,
           EngineTyped, Known, Indexed, NEW w \in Workers, RunOrderly(w, whole), SyncClosedEntry(w)
    PROVE  RunOrderly(w, whole)'
  <1>1. /\ UNCHANGED <<orders, book>> /\ job'[w] = job[w] /\ sym'[w] = sym[w]
        /\ pc[w] = "scan" /\ pc'[w] = "sync" /\ local'[w].incoming = local[w].incoming
        /\ local'[w].next = "scan"
    BY ClosedEffect DEF Stays
  <1>2. PICK e \in local[w].scan : \E t :
           /\ ~RowOpen(e.id) /\ local'[w].scan = local[w].scan \ {e}
           /\ Range(local'[w].changed) = {t} /\ t.id = e.id
    BY ClosedEffect
  <1>3. PICK t : /\ ~RowOpen(e.id) /\ local'[w].scan = local[w].scan \ {e}
                 /\ Range(local'[w].changed) = {t} /\ t.id = e.id
    BY <1>2
  <1>4. Critical(w) /\ Phase(w) = "scan" /\ Phase(w)' = "scan"
    BY <1>1 DEF Critical, Phase, Syncing
  <1>5. ~RowOpen(t.id)'
    BY <1>1, <1>3 DEF RowOpen
  <1>6. Fresh(w)'
    BY <1>1, <1>3, <1>4, <1>5 DEF RunOrderly, Fresh, Reading, RowOpen
  <1>7. Scanned(w, whole)'
    <2>1. /\ local[w].scan \subseteq Across(w)
          /\ \A g \in Across(w) : Rival(w, g.id) =>
                g \in local[w].scan \/ (~whole /\ \A f \in local[w].scan : Ahead(f, g))
      BY <1>4 DEF RunOrderly, Scanned
    <2>2. \A f \in local[w].scan \ {e} : f.id # e.id
      BY <1>2, <1>4, <2>1, SidesOfBook
    <2>3. \A g : Rival(w, g.id) => g # e
      BY <1>3 DEF Rival
    <2>4. /\ Across(w)' = Across(w)
          /\ \A o : Rival(w, o)' = Rival(w, o)
      BY <1>1, RivalStands
    <2>5. \A g \in Across(w) : Rival(w, g.id) =>
             g \in local'[w].scan \/ (~whole /\ \A f \in local'[w].scan : Ahead(f, g))
      BY <1>3, <2>1, <2>3
    <2>6. local'[w].scan \subseteq Across(w)
      BY <1>3, <2>1
    <2> QED BY <1>1, <1>3, <1>5, <2>2, <2>4, <2>5, <2>6 DEF Scanned
  <1>8. Swept(w, whole)'
    BY <1>1, <1>3, <1>4, <1>5 DEF Swept, Cleared
  <1> QED BY <1>1, <1>6, <1>7, <1>8 DEF RunOrderly, Drawn

LEMMA SkipOrderly ==
    ASSUME NEW whole \in BOOLEAN,
           EngineTyped, Known, NEW w \in Workers, RunOrderly(w, whole), SkipOwnEntry(w)
    PROVE  RunOrderly(w, whole)'
  <1>1. /\ UNCHANGED <<orders, book>> /\ job'[w] = job[w] /\ sym'[w] = sym[w]
        /\ pc[w] = "scan" /\ pc'[w] = "scan" /\ local'[w].incoming = local[w].incoming
    BY SkipEffect DEF Stays
  <1>2. PICK e \in local[w].scan :
           /\ local'[w].scan = local[w].scan \ {e}
           /\ orders[e.id].user = local[w].incoming.user
    BY SkipEffect
  <1>3. Phase(w) = "scan" /\ Phase(w)' = "scan" /\ RunKnown(w)
    BY <1>1 DEF Phase, Syncing, Known
  <1>4. orders[e.id].user = orders[job[w]].user
    BY <1>2, <1>3 DEF RunKnown, Reading, SameOrder
  <1>5. Fresh(w)'
    BY <1>1, <1>3, StillFresh DEF RunOrderly, Reading, Syncing
  <1>6. Scanned(w, whole)'
    <2>1. /\ local[w].scan \subseteq Across(w)
          /\ \A g \in Across(w) : Rival(w, g.id) =>
                g \in local[w].scan \/ (~whole /\ \A f \in local[w].scan : Ahead(f, g))
      BY <1>3 DEF RunOrderly, Scanned
    <2>2. \A g : Rival(w, g.id) => g # e
      BY <1>4 DEF Rival
    <2>3. /\ Across(w)' = Across(w)
          /\ \A o : Rival(w, o)' = Rival(w, o)
      BY <1>1, RivalStands
    <2>4. \A g \in Across(w) : Rival(w, g.id) =>
             g \in local'[w].scan \/ (~whole /\ \A f \in local'[w].scan : Ahead(f, g))
      BY <1>2, <2>1, <2>2
    <2>5. local'[w].scan \subseteq Across(w)
      BY <1>2, <2>1
    <2> QED BY <1>1, <2>3, <2>4, <2>5 DEF Scanned, Syncing
  <1> QED BY <1>1, <1>3, <1>5, <1>6 DEF RunOrderly, Drawn, Swept, Cleared, Syncing

(* When the best price across does not match, no other one does.           *)
LEMMA WorseBehind ==
    ASSUME EngineTyped, Known, Indexed, NEW w \in Workers, Critical(w),
           NEW e \in Across(w), NEW g \in Across(w), ~Ahead(g, e),
           ~CanMatch(orders[job[w]], orders[e.id])
    PROVE  ~CanMatch(orders[job[w]], orders[g.id])
  <1>1. /\ RunKnown(w) /\ LedgerInv
    BY DEF Known, EngineTyped
  <1>2. /\ job[w] \in DOMAIN orders /\ e \in EntryType /\ g \in EntryType
        /\ \A x \in {e, g} :
              /\ x.id \in DOMAIN orders /\ IsLimit(orders[x.id])
              /\ orders[x.id].side = Opposite(orders[job[w]].side)
              /\ orders[x.id].symbol = sym[w]
              /\ x.score = Score(orders[x.id])
    <2>1. /\ Across(w) \subseteq EntryType /\ job[w] \in DOMAIN orders
          /\ \A x \in Across(w) :
                /\ x.id \in DOMAIN orders /\ IsLimit(orders[x.id])
                /\ orders[x.id].side = Opposite(orders[job[w]].side)
                /\ orders[x.id].symbol = sym[w]
                /\ x.score = Score(orders[x.id])
      BY SidesOfBook
    <2> QED BY <2>1
  <1>3. orders[job[w]].symbol = sym[w]
    BY <1>1 DEF RunKnown, Critical
  <1>4. /\ \A x \in {job[w], e.id, g.id} : orders[x] \in OrderRow
        /\ \A x \in {e.id, g.id} : orders[x].price \in Nat /\ orders[x].price > 0
        /\ ~(orders[job[w]].type = "market") => orders[job[w]].price > 0
    BY <1>1, <1>2, RowTyped DEF LedgerInv, RowsPriced, OrderRow, OrderTypes, IsLimit
  <1> PICK i \in OrderRow, a \in OrderRow, b \in OrderRow :
          i = orders[job[w]] /\ a = orders[e.id] /\ b = orders[g.id]
    BY <1>4
  <1>5. a.side = b.side /\ a.side = Opposite(i.side) /\ a.symbol = i.symbol /\ b.symbol = i.symbol
    BY <1>2, <1>3
  <1>6. e.score <= g.score /\ e.score = Score(a) /\ g.score = Score(b)
    BY <1>2 DEF Ahead, EntryType
  <1>7. a.price # NoPrice /\ b.price # NoPrice /\ a.price \in Nat /\ b.price \in Nat
        /\ i.price \in Nat /\ (i.type = "market" \/ i.price # NoPrice)
    BY <1>4 DEF NoPrice, OrderRow
  <1>8. i.side \in Sides /\ i.side # a.side
    BY <1>5 DEF OrderRow, Sides, Opposite
  <1>9. i.type # "market" /\ IF i.side = "buy" THEN ~(a.price <= i.price) ELSE ~(a.price >= i.price)
    BY <1>5, <1>7, <1>8 DEF CanMatch
  <1>10. IF i.side = "buy" THEN a.price <= b.price ELSE b.price <= a.price
    <2>1. CASE i.side = "buy"
      <3>1. a.side = "sell" /\ b.side = "sell"
        BY <1>5, <2>1 DEF Opposite
      <3>2. Score(a) = a.price /\ Score(b) = b.price
        BY <3>1 DEF Score
      <3> QED BY <1>6, <2>1, <3>2
    <2>2. CASE i.side # "buy"
      <3>1. a.side = "buy" /\ b.side = "buy"
        BY <1>5, <2>2 DEF Opposite
      <3>2. Score(a) = -a.price /\ Score(b) = -b.price
        BY <3>1 DEF Score
      <3> QED BY <1>6, <1>7, <2>2, <3>2
    <2> QED BY <2>1, <2>2
  <1>11. IF i.side = "buy" THEN ~(b.price <= i.price) ELSE ~(b.price >= i.price)
    BY <1>7, <1>9, <1>10
  <1> QED BY <1>9, <1>11 DEF CanMatch

(* The end of the matching loop: no entry across matches.                  *)
LEMMA FinishClears ==
    ASSUME NEW whole \in BOOLEAN, EngineTyped, Known, Indexed, NEW w \in Workers, Critical(w),
           UNCHANGED <<orders, book>>, job'[w] = job[w], sym'[w] = sym[w],
           pc'[w] = "finish", Phase(w) = "scan", Fresh(w),
           local'[w].incoming = local[w].incoming,
           whole /\ RowOpen(job[w]) => \A e \in Across(w) : Rival(w, e.id) =>
               ~CanMatch(orders[job[w]], orders[e.id])
    PROVE  RunOrderly(w, whole)'
  <1>1. Phase(w)' = "finish"
    BY DEF Phase, Syncing
  <1>2. Fresh(w)'
    BY StillFresh DEF Reading, Syncing
  <1>3. Swept(w, whole)'
    <2>1. ASSUME whole, RowOpen(job[w]), NEW o \in OrderIds, InBook(o), Rival(w, o)
          PROVE  ~CanMatch(orders[job[w]], orders[o])
      <3>1. PICK e \in Across(w) : e.id = o
        BY <2>1, SidesOfBook
      <3> QED BY <2>1, <3>1
    <2>2. /\ RowOpen(job[w])' = RowOpen(job[w])
          /\ \A o : Rival(w, o)' = Rival(w, o)
          /\ \A o : InBook(o)' = InBook(o)
      BY RivalStands DEF RowOpen, InBook, Entries
    <2> QED BY <2>1, <2>2 DEF Swept, Syncing, RowOpen
  <1> QED BY <1>1, <1>2, <1>3 DEF RunOrderly, Drawn, Scanned, Syncing

LEMMA ChooseOrderly ==
    ASSUME NEW whole \in BOOLEAN,
           EngineTyped, Known, Indexed, NEW w \in Workers, RunOrderly(w, whole), ChooseEntry(w)
    PROVE  RunOrderly(w, whole)'
  <1>1. /\ UNCHANGED <<orders, book>> /\ job'[w] = job[w] /\ sym'[w] = sym[w]
        /\ pc[w] = "scan" /\ local'[w].incoming = local[w].incoming
    BY ChooseEffect DEF Stays
  <1>2. PICK e \in local[w].scan :
           /\ AtEntry(w, e) /\ RowOpen(e.id)
           /\ orders[e.id].user # local[w].incoming.user
           /\ \/ pc'[w] = "settle" /\ local'[w].resting = e.id
              \/ pc'[w] = "finish" /\ ~CanMatch(local[w].incoming, orders[e.id])
    BY ChooseEffect
  <1>3. Critical(w) /\ Phase(w) = "scan" /\ RunKnown(w)
    BY <1>1 DEF Critical, Phase, Syncing, Known
  <1>4. /\ local[w].scan \subseteq Across(w)
        /\ \A g \in Across(w) : Rival(w, g.id) =>
              g \in local[w].scan \/ (~whole /\ \A f \in local[w].scan : Ahead(f, g))
    BY <1>3 DEF RunOrderly, Scanned
  <1>5. /\ Across(w) \subseteq EntryType
        /\ \A a, b \in Across(w) : a.member = b.member => a = b
    BY <1>3, SidesOfBook
  <1>6. CASE pc'[w] = "settle"
    <2>1. local'[w].resting = e.id /\ Phase(w)' = "settle"
      BY <1>2, <1>6 DEF Phase, Syncing
    <2>2. \A g \in Across(w) \ {e} : Rival(w, g.id) => Ahead(e, g)
      <3> TAKE g \in Across(w) \ {e}
      <3> HAVE Rival(w, g.id)
      <3>1. CASE g \in local[w].scan
        <4>1. ~Ahead(g, e)
          BY <1>2, <3>1 DEF AtEntry
        <4>2. g \in EntryType /\ e \in EntryType /\ g.member # e.member
          BY <1>2, <1>4, <1>5
        <4> QED BY <4>1, <4>2, AheadOrders
      <3>2. CASE g \notin local[w].scan
        BY <1>2, <1>4, <3>2
      <3> QED BY <3>1, <3>2
    <2>3. e \in Across(w)
      BY <1>2, <1>4
    <2>4. /\ Across(w)' = Across(w)
          /\ \A o : Rival(w, o)' = Rival(w, o)
      BY <1>1, RivalStands
    <2>5. Scanned(w, whole)'
      BY <1>6, <2>1, <2>2, <2>3, <2>4 DEF Scanned, Syncing
    <2>6. Fresh(w)'
      BY <1>1, <1>3, <1>6, StillFresh DEF RunOrderly, Reading, Syncing
    <2> QED BY <1>6, <2>1, <2>5, <2>6 DEF RunOrderly, Drawn, Swept, Cleared, Syncing
  <1>7. CASE pc'[w] = "finish"
    <2>1. ~CanMatch(local[w].incoming, orders[e.id])
      BY <1>2, <1>7
    <2>2. ASSUME whole, RowOpen(job[w]), NEW g \in Across(w), Rival(w, g.id)
          PROVE  ~CanMatch(orders[job[w]], orders[g.id])
      <3>1. local[w].incoming = orders[job[w]]
        BY <1>3, <2>2 DEF RunOrderly, Fresh, Reading
      <3>2. g \in local[w].scan
        BY <1>4, <2>2
      <3>3. ~Ahead(g, e)
        BY <1>2, <3>2 DEF AtEntry
      <3> QED BY <1>2, <1>3, <1>4, <2>1, <3>1, <3>3, WorseBehind
    <2> QED BY <1>1, <1>3, <1>7, <2>2, FinishClears DEF RunOrderly
  <1> QED BY <1>2, <1>6, <1>7

LEMMA ExhaustedOrderly ==
    ASSUME NEW whole \in BOOLEAN,
           EngineTyped, Known, Indexed, NEW w \in Workers, RunOrderly(w, whole), ScanExhausted(w)
    PROVE  RunOrderly(w, whole)'
  <1>1. /\ UNCHANGED <<orders, book>> /\ job'[w] = job[w] /\ sym'[w] = sym[w]
        /\ pc[w] = "scan" /\ local[w].scan = {} /\ pc'[w] = "finish" /\ local'[w] = local[w]
    BY ExhaustedEffect DEF Stays
  <1>2. Critical(w) /\ Phase(w) = "scan"
    BY <1>1 DEF Critical, Phase, Syncing
  <1>3. whole => \A e \in Across(w) : ~Rival(w, e.id)
    BY <1>1, <1>2 DEF RunOrderly, Scanned
  <1> QED BY <1>1, <1>2, <1>3, FinishClears DEF RunOrderly

-----------------------------------------------------------------------------
(* What a run knows: settlement, reading a member, the end of the loop.    *)

LEMMA SettleOrderly ==
    ASSUME NEW whole \in BOOLEAN,
           EngineTyped, LedgerInv', Known, Indexed, NEW w \in Workers, RunOrderly(w, whole), Settlement(w)
    PROVE  RunOrderly(w, whole)'
  <1>1. /\ Stays(w) /\ UNCHANGED book /\ pc[w] = "settle" /\ job'[w] = job[w]
        /\ \/ pc'[w] = "release" /\ local'[w].failed
           \/ /\ pc'[w] \in {"publish", "sync"}
              /\ Reports(w, {job[w], local[w].resting})
    BY SettleEffect DEF Stays
  <1>2. CASE pc'[w] = "release" /\ local'[w].failed
    BY <1>2, Calm
  <1>3. CASE pc'[w] \in {"publish", "sync"} /\ Reports(w, {job[w], local[w].resting})
    <2>1. /\ Phase(w)' = "reload" /\ pc'[w] \in Syncing /\ local'[w].next = "reload"
          /\ \A t \in Range(local'[w].changed) :
                t.id \in {job[w], local[w].resting} /\ t.row = orders'[t.id]
      BY <1>3 DEF Reports, Phase, Syncing
    <2>2. Fresh(w)'
      BY <2>1 DEF Fresh, Reading
    <2> PICK r : r = local[w].resting
      OBVIOUS
    <2>3. InBook(r)'
      <3>1. Critical(w)
        BY <1>1 DEF Critical
      <3>2. PICK e \in Across(w) : e.id = r
        BY <1>1 DEF RunOrderly, Scanned
      <3>3. InBook(r)
        <4>1. \A x \in Across(w) : InBook(x.id)
          BY <3>1, SidesOfBook
        <4> QED BY <3>2, <4>1
      <3> QED BY <1>1, <3>3 DEF InBook, Entries
    <2>4. Swept(w, whole)'
      <3>1. ~Cleared(w)'
        BY <2>1 DEF Cleared
      <3>2. \A t \in Range(local'[w].changed) : t.id = job'[w] \/ InBook(t.id)'
        BY <1>1, <2>1, <2>3
      <3> QED BY <2>1, <3>1, <3>2 DEF Swept
    <2> QED BY <1>3, <2>1, <2>2, <2>4 DEF RunOrderly, Drawn, Scanned
  <1> QED BY <1>1, <1>2, <1>3

(* The run goes on with the tasks it has.                                  *)
LEMMA ContinuesOrderly ==
    ASSUME NEW whole \in BOOLEAN,
           NEW w, RunOrderly(w, whole), Continues(w), UNCHANGED <<orders, book>>,
           pc[w] \in Syncing, pc'[w] \in Syncing, job'[w] = job[w], sym'[w] = sym[w]
    PROVE  Fresh(w)' /\ Scanned(w, whole)' /\ Swept(w, whole)'
  <1>1. Phase(w)' = Phase(w)
    BY DEF Phase, Continues
  <1>2. /\ Across(w)' = Across(w) /\ \A o : Rival(w, o)' = Rival(w, o)
        /\ \A o : InBook(o)' = InBook(o) /\ RowOpen(o)' = RowOpen(o)
        /\ RowOpen(job[w])' = RowOpen(job[w])
    BY RivalStands DEF InBook, Entries, RowOpen
  <1>3. Fresh(w)'
    BY <1>1, <1>2 DEF RunOrderly, Fresh, Continues, RowOpen
  <1>4. Scanned(w, whole)'
    <2>1. Scanned(w, whole)
      BY DEF RunOrderly
    <2>2. pc'[w] # "settle"
      BY DEF Syncing
    <2> QED BY <1>1, <1>2, <2>1, <2>2 DEF Scanned, Continues
  <1>5. Swept(w, whole)'
    <2>1. Swept(w, whole)
      BY DEF RunOrderly
    <2>2. Cleared(w)' = Cleared(w)
      BY <1>1 DEF Cleared, Continues
    <2> QED BY <1>2, <2>1, <2>2 DEF Swept, Continues, RowOpen
  <1> QED BY <1>3, <1>4, <1>5

LEMMA AnnounceOrderly ==
    ASSUME NEW whole \in BOOLEAN,
           EngineTyped, NEW w \in Workers, RunOrderly(w, whole), Announce(w)
    PROVE  RunOrderly(w, whole)'
  <1>1. /\ UNCHANGED <<orders, book>> /\ job'[w] = job[w] /\ sym'[w] = sym[w]
        /\ pc[w] = "publish" /\ pc'[w] = "sync" /\ Continues(w)
    BY AnnounceEffect DEF Stays
  <1> QED BY <1>1, ContinuesOrderly DEF RunOrderly, Drawn, Syncing

(* The task a run is about to write.                                       *)
LEMMA HeadKnown ==
    ASSUME EngineTyped, Known, NEW w \in Workers, pc[w] \in {"sync", "write"},
           NEW t, t = Head(local[w].changed)
    PROVE  /\ t \in Range(local[w].changed) /\ t \in TaskType /\ TaskTrue(t)
           /\ t.row.symbol = sym[w] /\ sym[w] \in Symbols /\ Critical(w)
           /\ Range(local[w].changed) = {t} \cup Range(Tail(local[w].changed))
  <1>1. RunKnown(w) /\ RunShaped(w) /\ local[w] \in RunType
    BY DEF Known, EngineTyped, RunsTyped
  <1>2. Critical(w) /\ pc[w] \in Syncing
    BY DEF Critical, Syncing
  <1>3. local[w].changed \in Seq(TaskType) /\ local[w].changed # <<>>
    BY <1>1, <1>2 DEF RunType, RunShaped
  <1>4. Range(local[w].changed) = {t} \cup Range(Tail(local[w].changed)) /\ t \in TaskType
    BY <1>3, RangeTail
  <1> QED BY <1>1, <1>2, <1>4 DEF RunKnown, RunShaped

LEMMA SyncReadOrderly ==
    ASSUME NEW whole \in BOOLEAN,
           EngineTyped, Known, Indexed, NEW w \in Workers, RunOrderly(w, whole), SyncRead(w)
    PROVE  RunOrderly(w, whole)'
  <1> PICK t : t = Head(local[w].changed)
    OBVIOUS
  <1>1. /\ UNCHANGED <<orders, book, shown>> /\ job'[w] = job[w] /\ sym'[w] = sym[w]
        /\ pc[w] = "sync" /\ pc'[w] = "write" /\ Continues(w)
        /\ IF NeedsMember(t)
           THEN /\ sequence' = [sequence EXCEPT ![t.row.symbol] = @ + 1]
                /\ local'[w].member = sequence[t.row.symbol] + 1
           ELSE sequence' = sequence /\ local'[w].member = shown[t.id].member
    BY SyncReadEffect
  <1>2. t.row.symbol = sym[w] /\ sym[w] \in Symbols /\ RedisTyped
    BY <1>1, HeadKnown DEF EngineTyped
  <1>3. Head(local'[w].changed) = t
    BY <1>1 DEF Continues
  <1>4. Drawn(w)'
    <2>1. CASE NeedsMember(t)
      <3>1. /\ shown[t.id].member = 0 /\ local'[w].member = sequence[sym[w]] + 1
            /\ sequence'[sym[w]] = sequence[sym[w]] + 1
        BY <1>1, <1>2, <2>1 DEF NeedsMember, RedisTyped
      <3>2. sequence[sym[w]] \in Nat
        BY <1>2 DEF RedisTyped
      <3>3. local'[w].member \in 1 .. sequence'[sym[w]]
        BY <3>1, <3>2
      <3>4. \A k \in Symbols \X Sides : k[1] = sym[w] =>
               \A e \in book[k] : e.member < local'[w].member
        BY <3>1, <3>2 DEF Indexed
      <3> QED BY <1>1, <1>3, <3>1, <3>3, <3>4 DEF Drawn
    <2>2. CASE ~NeedsMember(t)
      <3>1. local'[w].member = shown[t.id].member
            /\ (~t.keep \/ shown[t.id].member # 0)
        BY <1>1, <2>2 DEF NeedsMember
      <3> QED BY Zenon, <1>1, <1>3, <3>1 DEF Drawn
    <2> QED BY <2>1, <2>2
  <1>5. Fresh(w)' /\ Scanned(w, whole)' /\ Swept(w, whole)'
    BY <1>1, ContinuesOrderly DEF Syncing
  <1> QED BY <1>4, <1>5 DEF RunOrderly

LEMMA SyncReadIndexed ==
    ASSUME EngineTyped, Known, Indexed, NEW w \in Workers, SyncRead(w)
    PROVE  Indexed'
  <1> PICK t : t = Head(local[w].changed)
    OBVIOUS
  <1>1. /\ UNCHANGED <<orders, book, shown>> /\ pc[w] = "sync"
        /\ IF NeedsMember(t)
           THEN /\ sequence' = [sequence EXCEPT ![t.row.symbol] = @ + 1]
                /\ local'[w].member = sequence[t.row.symbol] + 1
           ELSE sequence' = sequence /\ local'[w].member = shown[t.id].member
    BY SyncReadEffect
  <1>2. RedisTyped
    BY DEF EngineTyped
  <1>3. \A s \in Symbols : sequence[s] \in Nat /\ sequence'[s] \in {sequence[s], sequence[s] + 1}
    BY <1>1, <1>2 DEF RedisTyped
  <1>4. \A s \in Symbols : 1 .. sequence[s] \subseteq 1 .. sequence'[s]
    BY <1>3
  <1>5. \A k \in Symbols \X Sides : k[1] \in Symbols
    OBVIOUS
  <1>6. \A o : InBook(o)' = InBook(o)
    BY <1>1 DEF InBook, Entries
  <1> QED BY <1>1, <1>4, <1>5, <1>6 DEF Indexed

LEMMA FinishOrderly ==
    ASSUME NEW whole \in BOOLEAN,
           EngineTyped, LedgerInv', Known, RowsKept, NEW w \in Workers, RunOrderly(w, whole),
           CancelRemainder(w) \/ RestInBook(w)
    PROVE  RunOrderly(w, whole)'
  <1>1. /\ UNCHANGED book /\ job'[w] = job[w] /\ sym'[w] = sym[w] /\ pc[w] = "finish"
        /\ \/ pc'[w] = "release" /\ UNCHANGED orders /\ ~RowOpen(job[w])
           \/ /\ pc'[w] = "sync" /\ local'[w].next = "release"
              /\ local'[w].failed = local[w].failed
              /\ \E t : /\ Range(local'[w].changed) = {t} /\ t.id = job[w]
                        /\ \/ UNCHANGED orders /\ t.row = local[w].incoming
                           \/ ~IsOpen(orders'[job[w]])
    BY FinishEffect DEF Stays
  <1>2. Phase(w) = "finish" /\ Cleared(w)
    BY <1>1 DEF Phase, Syncing, Cleared
  <1>3. CASE pc'[w] = "release" /\ UNCHANGED orders /\ ~RowOpen(job[w])
    BY <1>1, <1>3, Calm DEF RowOpen
  <1>4. CASE /\ pc'[w] = "sync" /\ local'[w].next = "release"
             /\ local'[w].failed = local[w].failed
             /\ \E t : /\ Range(local'[w].changed) = {t} /\ t.id = job[w]
                       /\ \/ UNCHANGED orders /\ t.row = local[w].incoming
                          \/ ~IsOpen(orders'[job[w]])
    <2>1. PICK t : /\ Range(local'[w].changed) = {t} /\ t.id = job[w]
                   /\ \/ UNCHANGED orders /\ t.row = local[w].incoming
                      \/ ~IsOpen(orders'[job[w]])
      BY <1>4
    <2>2. Phase(w)' = "release" /\ pc'[w] \in Syncing
      BY <1>4 DEF Phase, Syncing
    <2>3. RowOpen(job[w])' => UNCHANGED orders /\ RowOpen(job[w]) /\ t.row = local[w].incoming
      BY <1>1, <2>1 DEF RowOpen
    <2>4. Fresh(w)'
      BY <1>1, <1>2, <2>1, <2>2, <2>3 DEF RunOrderly, Fresh, Reading, RowOpen
    <2>5. Swept(w, whole)'
      <3>1. \A o : InBook(o)' = InBook(o)
        BY <1>1 DEF InBook, Entries
      <3>2. UNCHANGED orders => \A o : Rival(w, o)' = Rival(w, o)
        BY <1>1, RivalStands
      <3>3. Swept(w, whole)
        BY DEF RunOrderly
      <3>4. whole /\ RowOpen(job[w])' => \A o \in OrderIds :
               InBook(o)' /\ Rival(w, o)' => ~CanMatch(orders'[job[w]], orders'[o])
        BY <1>1, <1>2, <2>3, <3>1, <3>2, <3>3 DEF Swept
      <3> QED BY <1>1, <1>4, <2>1, <3>3, <3>4 DEF Swept, RowOpen
    <2> QED BY <1>4, <2>2, <2>4, <2>5 DEF RunOrderly, Drawn, Scanned
  <1> QED BY <1>1, <1>3, <1>4

-----------------------------------------------------------------------------
(* syncOrderBook: the book and the hashes still name each other.           *)

LEMMA DrawnMember ==
    ASSUME EngineTyped, Known, Indexed, NEW w \in Workers, Drawn(w), pc[w] = "write",
           NEW t, t = Head(local[w].changed), NEW m, m = local[w].member
    PROVE  /\ \A k \in Symbols \X Sides : \A e \in book[k] : e.id = t.id => e.member = m
           /\ t.keep => /\ m \in 1 .. sequence[sym[w]]
                        /\ \A k \in Symbols \X Sides : k[1] = sym[w] =>
                              \A e \in book[k] : e.member = m => e.id = t.id
  <1>1. /\ RedisTyped /\ BookPlaced /\ TaskTrue(t) /\ t.row.symbol = sym[w] /\ t \in TaskType
        /\ sym[w] \in Symbols
    BY HeadKnown DEF EngineTyped, Known
  <1>2. \A k \in Symbols \X Sides : \A e \in book[k] :
           shown[e.id].member = e.member /\ e.member \in 1 .. sequence[k[1]]
    BY DEF Indexed
  <1>3. IF shown[t.id].member # 0 THEN m = shown[t.id].member
        ELSE t.keep => /\ m \in 1 .. sequence[sym[w]]
                       /\ \A k \in Symbols \X Sides : k[1] = sym[w] =>
                             \A e \in book[k] : e.member < m
    BY DEF Drawn
  <1>4. \A k \in Symbols \X Sides : k[1] \in Symbols /\ sequence[k[1]] \in Nat
    BY <1>1 DEF RedisTyped
  <1>5. ASSUME NEW k \in Symbols \X Sides, NEW e \in book[k], e.id = t.id
        PROVE  e.member = m
    BY <1>2, <1>3, <1>4, <1>5
  <1>6. CASE shown[t.id].member = 0
    <2>1. t.keep => /\ m \in 1 .. sequence[sym[w]]
                    /\ \A k \in Symbols \X Sides : k[1] = sym[w] =>
                          \A e \in book[k] : e.member # m
      <3> SUFFICES ASSUME t.keep
                   PROVE  /\ m \in 1 .. sequence[sym[w]]
                          /\ \A k \in Symbols \X Sides : k[1] = sym[w] =>
                                \A e \in book[k] : e.member # m
        OBVIOUS
      <3>1. /\ m \in 1 .. sequence[sym[w]]
            /\ \A k \in Symbols \X Sides : k[1] = sym[w] => \A e \in book[k] : e.member < m
        BY <1>3, <1>6
      <3>2. m \in Nat /\ \A k \in Symbols \X Sides : \A e \in book[k] : e.member \in Nat
        BY <1>1, <1>2, <1>4, <3>1 DEF RedisTyped
      <3> QED BY <3>1, <3>2
    <2> QED BY <1>5, <2>1
  <1>7. CASE shown[t.id].member # 0
    <2>1. t.id \in OrderIds /\ InBook(t.id) /\ m = shown[t.id].member
      BY <1>1, <1>3, <1>7 DEF Indexed, TaskType
    <2>2. PICK l \in Symbols \X Sides : \E f \in book[l] : f.id = t.id
      BY <1>1, <2>1, BookEntry
    <2>3. PICK f \in book[l] : f.id = t.id
      BY <2>2
    <2>4. l[1] = sym[w]
      <3>1. Placed(l, f) /\ orders[t.id].symbol = sym[w]
        BY <1>1, <2>3 DEF BookPlaced, TaskTrue, SameOrder
      <3> QED BY <2>3, <3>1 DEF Placed
    <2>5. f.member = m
      BY <1>5, <2>3
    <2>6. m \in 1 .. sequence[sym[w]]
      BY <1>2, <2>3, <2>4, <2>5
    <2>7. \A k \in Symbols \X Sides : k[1] = sym[w] =>
             \A e \in book[k] : e.member = m => e = f
      BY <2>3, <2>4, <2>5 DEF Indexed
    <2> QED BY <1>5, <2>3, <2>6, <2>7
  <1> QED BY <1>6, <1>7

(* The task's entry replaces the one its order had, if any.                *)
Wrote(t, key, new) ==
    /\ \A k \in Symbols \X Sides : \A e :
          e \in book'[k] <=> \/ e \in book[k] /\ e.id # t.id
                             \/ t.keep /\ k = key /\ e = new
    /\ \A x \in OrderIds : x # t.id => shown'[x] = shown[x]
    /\ t.keep => shown'[t.id] = [member |-> new.member, filled |-> t.row.filled,
                                 status |-> t.row.status]
    /\ ~t.keep => shown'[t.id] = NoHash

LEMMA WriteShape ==
    ASSUME EngineTyped, Known, Indexed, NEW w \in Workers, Drawn(w), SyncWrite(w),
           NEW t, t = Head(local[w].changed), NEW key, key = <<sym[w], t.row.side>>,
           NEW new, new = Entry(t.id, local[w].member, t.row)
    PROVE  /\ t.id \in DOMAIN orders /\ t.id \in OrderIds
           /\ new.id = t.id /\ new.member = local[w].member
           /\ key \in Symbols \X Sides /\ Wrote(t, key, new)
  <1> PICK m : m = local[w].member
    OBVIOUS
  <1> PICK side : side = t.row.side
    OBVIOUS
  <1>1. pc[w] = "write" /\ RedisTyped /\ BookPlaced
    BY Zenon DEF SyncWrite, EngineTyped, Known
  <1>2. TaskTrue(t) /\ t.row.symbol = sym[w] /\ t \in TaskType /\ sym[w] \in Symbols
    BY <1>1, HeadKnown
  <1>3. t.id \in DOMAIN orders /\ t.id \in OrderIds /\ side \in Sides
        /\ orders[t.id].symbol = sym[w] /\ orders[t.id].side = side
    BY <1>2 DEF TaskTrue, SameOrder, TaskType, OrderRow
  <1>4. new.id = t.id /\ new.member = m
    BY DEF Entry
  <1>5. \A k \in Symbols \X Sides : \A e \in book[k] :
           e.id = t.id => e.member = m /\ k = <<sym[w], side>>
    BY <1>1, <1>3, DrawnMember DEF BookPlaced, Placed
  <1> DEFINE others == {e \in book[key] : ~(e.id = t.id /\ e.member = m)}
             put == IF t.keep THEN {new} ELSE {}
             hash == IF t.keep THEN [member |-> m, filled |-> t.row.filled,
                                     status |-> t.row.status]
                     ELSE NoHash
  <1>6. book' = [book EXCEPT ![key] = others \cup put] /\ shown' = [shown EXCEPT ![t.id] = hash]
    BY Zenon, <1>2 DEF SyncWrite
  <1>7. key \in Symbols \X Sides
    BY <1>2, <1>3
  <1>8. \A e : e \in others \cup put <=> \/ e \in book[key] /\ e.id # t.id
                                         \/ t.keep /\ e = new
    BY <1>5, <1>7
  <1> HIDE DEF others, put, hash
  <1>9. /\ book'[key] = others \cup put /\ \A k \in Symbols \X Sides : k # key => book'[k] = book[k]
        /\ shown'[t.id] = hash /\ \A x \in OrderIds : x # t.id => shown'[x] = shown[x]
    BY Zenon, <1>1, <1>3, <1>6, <1>7 DEF RedisTyped
  <1>10. ASSUME NEW k \in Symbols \X Sides, NEW e
         PROVE  e \in book'[k] <=> \/ e \in book[k] /\ e.id # t.id
                                   \/ t.keep /\ k = key /\ e = new
    <2>1. CASE k = key
      BY Zenon, <1>8, <1>9, <2>1
    <2>2. CASE k # key
      BY <1>5, <1>9, <2>2
    <2> QED BY <2>1, <2>2
  <1>11. Wrote(t, key, new)
    BY Zenon, <1>4, <1>9, <1>10 DEF hash, Wrote
  <1> QED BY Zenon, <1>3, <1>4, <1>7, <1>11

LEMMA WriteIndexed ==
    ASSUME EngineTyped, Known, Indexed, NEW w \in Workers, Drawn(w), SyncWrite(w)
    PROVE  Indexed'
  <1> PICK t : t = Head(local[w].changed)
    OBVIOUS
  <1> PICK key : key = <<sym[w], t.row.side>>
    OBVIOUS
  <1> PICK m : m = local[w].member
    OBVIOUS
  <1> PICK new : new = Entry(t.id, local[w].member, t.row)
    OBVIOUS
  <1>0. /\ t.id \in OrderIds /\ new.id = t.id /\ new.member = m
        /\ key \in Symbols \X Sides /\ key[1] = sym[w] /\ Wrote(t, key, new)
    BY WriteShape
  <1>1. /\ \A k \in Symbols \X Sides : \A e :
              e \in book'[k] <=> \/ e \in book[k] /\ e.id # t.id
                                 \/ t.keep /\ k = key /\ e = new
        /\ \A x \in OrderIds : x # t.id => shown'[x] = shown[x]
        /\ t.keep => shown'[t.id].member = m
        /\ ~t.keep => shown'[t.id].member = 0
    <2>1. \A k \in Symbols \X Sides : \A e :
             e \in book'[k] <=> \/ e \in book[k] /\ e.id # t.id
                                \/ t.keep /\ k = key /\ e = new
      BY Zenon, <1>0 DEF Wrote
    <2>2. /\ \A x \in OrderIds : x # t.id => shown'[x] = shown[x]
          /\ t.keep => shown'[t.id] = [member |-> new.member, filled |-> t.row.filled,
                                      status |-> t.row.status]
          /\ ~t.keep => shown'[t.id] = NoHash
      BY Zenon, <1>0 DEF Wrote
    <2>3. t.keep => shown'[t.id].member = m
      <3> SUFFICES ASSUME t.keep PROVE shown'[t.id].member = m
        OBVIOUS
      <3>1. shown'[t.id] = [member |-> new.member, filled |-> t.row.filled, status |-> t.row.status]
        BY Zenon, <2>2
      <3>2. shown'[t.id].member = new.member
        BY <3>1
      <3> QED BY Zenon, <1>0, <3>2
    <2>4. ~t.keep => shown'[t.id].member = 0
      BY <2>2 DEF NoHash
    <2> QED BY Zenon, <2>1, <2>2, <2>3, <2>4
  <1>2. /\ t.keep => /\ m \in 1 .. sequence[sym[w]]
                     /\ \A k \in Symbols \X Sides : k[1] = sym[w] =>
                           \A e \in book[k] : e.member = m => e.id = t.id
        /\ sequence' = sequence /\ RedisTyped
    <2>1. pc[w] = "write" /\ sequence' = sequence
      BY Zenon DEF SyncWrite
    <2>2. RedisTyped
      BY DEF EngineTyped
    <2> QED BY <2>1, <2>2, DrawnMember
  <1>3. \A k \in Symbols \X Sides : \A e \in book[k] : e.id \in OrderIds
    BY <1>2 DEF RedisTyped, EntryType
  <1>4. ASSUME NEW k \in Symbols \X Sides PROVE IsFiniteSet(book'[k])
    <2>1. IsFiniteSet(book[k])
      BY DEF Indexed
    <2>2. IsFiniteSet(book[k] \cup {new})
      BY <2>1, FS_AddElement
    <2>3. book'[k] \in SUBSET (book[k] \cup {new})
      BY Zenon, <1>0, <1>1
    <2> QED BY <2>2, <2>3, FS_Subset
  <1>5. ASSUME NEW k \in Symbols \X Sides, NEW e \in book'[k]
        PROVE  shown'[e.id].member = e.member /\ e.member \in 1 .. sequence'[k[1]]
    <2>1. CASE e \in book[k] /\ e.id # t.id
      <3>1. shown[e.id].member = e.member /\ e.member \in 1 .. sequence[k[1]] /\ e.id \in OrderIds
        BY <1>3, <2>1 DEF Indexed
      <3>2. shown'[e.id] = shown[e.id]
        BY <1>1, <2>1, <3>1
      <3> QED BY <1>2, <3>1, <3>2
    <2>2. CASE t.keep /\ k = key /\ e = new
      BY Zenon, <1>0, <1>1, <1>2, <2>2
    <2> QED BY Zenon, <1>0, <1>1, <2>1, <2>2
  <1>6. ASSUME NEW o \in OrderIds, shown'[o].member # 0 PROVE InBook(o)'
    <2>1. CASE o = t.id
      <3>1. t.keep
        BY Zenon, <1>0, <1>1, <1>6, <2>1
      <3>2. new \in book'[key]
        BY Zenon, <1>0, <1>1, <3>1
      <3> QED BY Zenon, <1>0, <1>1, <2>1, <3>2, BookEntryNext
    <2>2. CASE o # t.id
      <3>1. InBook(o)
        BY Zenon, <1>0, <1>1, <1>6, <2>2 DEF Indexed
      <3>2. PICK k \in Symbols \X Sides : \E e \in book[k] : e.id = o
        BY <1>2, <3>1, BookEntry
      <3>3. PICK e \in book[k] : e.id = o
        BY <3>2
      <3>4. e \in book'[k]
        BY Zenon, <1>0, <1>1, <2>2, <3>3
      <3> QED BY <3>3, <3>4, BookEntryNext
    <2> QED BY <2>1, <2>2
  <1>7. ASSUME NEW k \in Symbols \X Sides, NEW l \in Symbols \X Sides, k[1] = l[1],
               NEW e \in book'[k], NEW f \in book'[l], e.member = f.member
        PROVE  e = f
    <2>1. \/ e \in book[k] /\ e.id # t.id
          \/ t.keep /\ k = key /\ e = new
      BY Zenon, <1>0, <1>1
    <2>2. \/ f \in book[l] /\ f.id # t.id
          \/ t.keep /\ l = key /\ f = new
      BY Zenon, <1>0, <1>1
    <2>3. CASE e \in book[k] /\ f \in book[l]
      BY <1>7, <2>3 DEF Indexed
    <2>4. CASE e = new /\ f = new
      BY <2>4
    <2>5. CASE /\ e \in book[k] /\ e.id # t.id
               /\ t.keep /\ l = key /\ f = new
      BY Zenon, <1>0, <1>1, <1>2, <1>7, <2>5
    <2>6. CASE /\ f \in book[l] /\ f.id # t.id
               /\ t.keep /\ k = key /\ e = new
      BY Zenon, <1>0, <1>1, <1>2, <1>7, <2>6
    <2> QED BY <2>1, <2>2, <2>3, <2>4, <2>5, <2>6
  <1> QED BY <1>4, <1>5, <1>6, <1>7 DEF Indexed

LEMMA WriteOrderly ==
    ASSUME NEW whole \in BOOLEAN,
           EngineTyped, Known, RowsKept, Indexed, NEW w \in Workers, RunOrderly(w, whole), SyncWrite(w)
    PROVE  RunOrderly(w, whole)'
  <1> PICK t : t = Head(local[w].changed)
    OBVIOUS
  <1> PICK key : key = <<sym[w], t.row.side>>
    OBVIOUS
  <1> PICK new : new = Entry(t.id, local[w].member, t.row)
    OBVIOUS
  <1>1. /\ UNCHANGED orders /\ job'[w] = job[w] /\ sym'[w] = sym[w] /\ pc[w] = "write"
        /\ \/ pc'[w] = local[w].next
           \/ pc'[w] = "sync" /\ local'[w].next = local[w].next
        /\ local[w].next \in {"reload", "range", "scan", "release"}
        /\ Phase(w)' = Phase(w)
        /\ local'[w].scan = local[w].scan /\ local'[w].incoming = local[w].incoming
        /\ local'[w].failed = local[w].failed
        /\ Range(local[w].changed) = {t} \cup Range(local'[w].changed)
    BY WriteEffect
  <1>2. /\ Drawn(w) /\ Fresh(w) /\ Scanned(w, whole) /\ Swept(w, whole) /\ RedisTyped /\ RunKnown(w)
    BY DEF RunOrderly, EngineTyped, Known
  <1>3. /\ t.id \in OrderIds /\ new.id = t.id /\ key \in Symbols \X Sides /\ Wrote(t, key, new)
    BY <1>2, WriteShape
  <1>4. \A k \in Symbols \X Sides : \A e : e.id # t.id => (e \in book'[k] <=> e \in book[k])
    BY Zenon, <1>3 DEF Wrote
  <1>5. \A o : o # t.id => (InBook(o)' <=> InBook(o))
    <2> TAKE o
    <2> HAVE o # t.id
    <2>1. ASSUME InBook(o) PROVE InBook(o)'
      <3>1. PICK k \in Symbols \X Sides : \E e \in book[k] : e.id = o
        BY <1>2, <2>1, BookEntry
      <3>2. PICK e \in book[k] : e.id = o
        BY <3>1
      <3> QED BY <1>4, <3>2, BookEntryNext
    <2>2. ASSUME InBook(o)' PROVE InBook(o)
      <3>1. PICK e \in UNION {book'[k] : k \in Symbols \X Sides} : e.id = o
        BY <2>2 DEF InBook, Entries
      <3>2. PICK k \in Symbols \X Sides : e \in book'[k]
        BY <3>1
      <3>3. e \in book[k]
        BY <1>4, <3>1, <3>2
      <3> QED BY <1>2, <3>1, <3>3, EntryInBook
    <2> QED BY <2>1, <2>2
  <1>6. pc[w] \in Syncing /\ Critical(w) /\ Phase(w) = local[w].next
    BY <1>1 DEF Syncing, Critical, Phase
  <1>7. t \in Range(local[w].changed) /\ TaskTrue(t)
    BY <1>1, HeadKnown
  <1>8. Drawn(w)'
    BY <1>1 DEF Drawn
  <1>9. Fresh(w)'
    BY <1>1, <1>2, <1>6 DEF Fresh, RowOpen
  <1>10. Scanned(w, whole)'
    <2> SUFFICES ASSUME local[w].next = "scan" PROVE Scanned(w, whole)'
      BY <1>1, <1>6 DEF Scanned, Syncing
    <2>1. /\ ~RowOpen(t.id) /\ \A f \in local[w].scan : f.id # t.id
          /\ \A u \in Range(local'[w].changed) :
                ~RowOpen(u.id) /\ \A f \in local[w].scan : f.id # u.id
      BY <1>1, <1>2, <1>6, <1>7 DEF Scanned
    <2>2. /\ local[w].scan \subseteq Across(w)
          /\ \A e \in Across(w) : Rival(w, e.id) =>
                e \in local[w].scan \/ (~whole /\ \A f \in local[w].scan : Ahead(f, e))
      BY <1>2, <1>6 DEF Scanned
    <2>3. \A e : e.id # t.id => (e \in Across(w)' <=> e \in Across(w))
      <3>1. <<sym[w], Opposite(orders[job[w]].side)>> \in Symbols \X Sides
        BY <1>6, SidesOfBook
      <3> QED BY <1>1, <1>4, <3>1 DEF Across
    <2>4. /\ \A o : Rival(w, o)' = Rival(w, o)
          /\ \A o : Rival(w, o) => o # t.id
          /\ pc'[w] # "settle"
          /\ \A o : RowOpen(o)' = RowOpen(o)
      BY <1>1, <2>1 DEF Rival, RowOpen
    <2>5. local'[w].scan \subseteq Across(w)'
      BY <1>1, <2>1, <2>2, <2>3
    <2>6. \A e \in Across(w)' : Rival(w, e.id)' =>
             e \in local'[w].scan \/ (~whole /\ \A f \in local'[w].scan : Ahead(f, e))
      BY <1>1, <2>2, <2>3, <2>4
    <2> QED BY <1>1, <2>1, <2>4, <2>5, <2>6 DEF Scanned
  <1>11. Swept(w, whole)'
    <2>1. BookStays
      BY WriteBookStays
    <2>2. ASSUME NEW u \in Range(local'[w].changed), u.keep, RowOpen(u.id)', u.id # job[w]
          PROVE  InBook(u.id)'
      <3>1. u \in Range(local[w].changed) /\ RowOpen(u.id)
        BY <1>1, <2>2 DEF RowOpen
      <3>2. InBook(u.id) /\ TaskTrue(u)
        BY <1>2, <1>6, <2>2, <3>1 DEF Swept, RunKnown
      <3>3. u.id \in DOMAIN orders /\ IsLimit(orders[u.id])
        BY <2>2, <3>2 DEF TaskTrue, SameOrder, IsLimit
      <3> QED BY <2>1, <2>2, <3>2, <3>3 DEF BookStays
    <2>3. local[w].next = "release" =>
             t.id = job[w] /\ \A u \in Range(local'[w].changed) : u.id = job[w]
      BY <1>1, <1>2, <1>6, <1>7 DEF Swept
    <2>4. pc'[w] \in Syncing => local'[w].next = local[w].next
      BY <1>1 DEF Syncing
    <2>5. Cleared(w)' => local[w].next = "release" /\ Cleared(w)
      BY <1>1, <1>6 DEF Cleared
    <2>6. whole /\ Cleared(w)' /\ RowOpen(job[w])' => \A o \in OrderIds :
             InBook(o)' /\ Rival(w, o)' => ~CanMatch(orders'[job[w]], orders'[o])
      <3>1. \A o : Rival(w, o)' = Rival(w, o) /\ (Rival(w, o) => o # job[w])
        BY <1>1 DEF Rival, RowOpen
      <3>2. RowOpen(job[w])' = RowOpen(job[w])
        BY <1>1 DEF RowOpen
      <3> QED BY <1>1, <1>2, <1>5, <2>3, <2>5, <3>1, <3>2 DEF Swept
    <2> QED BY <1>1, <2>2, <2>3, <2>4, <2>6 DEF Swept, RowOpen
  <1> QED BY <1>8, <1>9, <1>10, <1>11 DEF RunOrderly

LEMMA WorkOrderly ==
    ASSUME NEW whole \in BOOLEAN, EngineTyped, LedgerInv', Known, RowsKept, Indexed,
           NEW w \in Workers, RunOrderly(w, whole), Work(w), whole => BookFits
    PROVE  RunOrderly(w, whole)'
  <1>1. CASE AcquireLock(w) \/ ReleaseLock(w)
    BY <1>1, MoveEffect, Calm
  <1>2. CASE CompleteJob(w) \/ FailJob(w)
    <2>1. pc'[w] = "idle"
      BY <1>2 DEF CompleteJob, FailJob, GoIdle, GoTo, EngineTyped, RunsTyped
    <2> QED BY <2>1, Calm
  <1>3. CASE Scan(w)
    <2>1. ~DropMissingEntry(w)
      <3>1. DropMissingEntry(w) => Critical(w)
        BY DEF DropMissingEntry, AtEntry, Critical
      <3> QED BY <3>1, NothingDropped
    <2> QED BY <1>3, <2>1, ClosedOrderly, SkipOrderly, ChooseOrderly, ExhaustedOrderly DEF Scan
  <1>4. CASE Reload(w) \/ ReadBook(w) \/ Settlement(w)
    BY <1>4, ReloadOrderly, ReadOrderly, SettleOrderly
  <1>5. CASE Announce(w) \/ SyncRead(w) \/ SyncWrite(w)
    BY <1>5, AnnounceOrderly, SyncReadOrderly, WriteOrderly
  <1>6. CASE CancelRemainder(w) \/ RestInBook(w)
    BY <1>6, FinishOrderly
  <1> QED BY <1>1, <1>2, <1>3, <1>4, <1>5, <1>6 DEF Work

-----------------------------------------------------------------------------
(* The book and the runs: the whole of Next.                               *)

OrderlyInv(whole) == Indexed /\ \A w \in Workers : RunOrderly(w, whole)

LEMMA SameBookIndexed ==
    ASSUME Indexed, UNCHANGED <<book, shown, sequence>>
    PROVE  Indexed'
  <1>1. \A o : InBook(o)' = InBook(o)
    BY DEF InBook, Entries
  <1> QED BY <1>1 DEF Indexed

(* A run keeps what it knows through a step that leaves its symbol alone.  *)
LEMMA QuietOrderly ==
    ASSUME NEW whole \in BOOLEAN, EngineTyped, EngineTyped', Known, Known', RowsKept,
           NEW w \in Workers, RunOrderly(w, whole), Critical(w) => Quiet(sym[w]),
           pc'[w] = pc[w], job'[w] = job[w], sym'[w] = sym[w], local'[w] = local[w]
    PROVE  RunOrderly(w, whole)'
  <1>1. CASE Critical(w)
    BY <1>1, RunStays
  <1>2. CASE ~Critical(w)
    BY <1>2, Calm DEF Critical
  <1> QED BY <1>1, <1>2

LEMMA NextOrderly ==
    ASSUME NEW whole \in BOOLEAN, Deletable = {}, EngineTyped, JobsSound, Known, LockInv,
           whole => BookFits, OrderlyInv(whole), [Next]_vars
    PROVE  OrderlyInv(whole)'
  <1>1. /\ EngineTyped' /\ Known' /\ RowsKept /\ LedgerInv /\ LedgerInv'
        /\ Indexed /\ \A w \in Workers : RunOrderly(w, whole)
    <2>1. EngineTyped'
      BY NextTyped
    <2> QED BY <2>1, NextKnown, NextKept DEF EngineTyped, OrderlyInv
  (* Steps of nobody: the runs stay where they are.                        *)
  <1>2. ASSUME UNCHANGED <<pc, job, sym, local, book, shown, sequence>>
        PROVE  OrderlyInv(whole)'
    <2>1. \A w \in Workers : ~TradePair(w)
      <3>1. ASSUME NEW w \in Workers, TradePair(w) PROVE FALSE
        BY <1>2, <3>1 DEF TradePair, GoTo, EngineTyped, RunsTyped
      <3> QED BY <3>1
    <2>2. \A s : Quiet(s)
      BY <1>1, <1>2, <2>1, NextUntouched, StillQuiet
    <2>3. \A w \in Workers : RunOrderly(w, whole)'
      BY <1>1, <1>2, <2>2, QuietOrderly
    <2> QED BY <1>1, <1>2, <2>3, SameBookIndexed DEF OrderlyInv
  (* Steps of one worker that touch no row, no entry and no hash.          *)
  <1>3. ASSUME NEW w \in Workers, Alone(w), RunOrderly(w, whole)',
               UNCHANGED ledgerVars, UNCHANGED <<book, shown, sequence>>
        PROVE  OrderlyInv(whole)'
    <2>1. \A s : Quiet(s)
      BY <1>3, StillKept, StillQuiet DEF ledgerVars
    <2>2. \A v \in Workers \ {w} : RunOrderly(v, whole)'
      BY <1>1, <1>3, <2>1, QuietOrderly DEF Alone
    <2> QED BY <1>1, <1>3, <2>2, SameBookIndexed DEF OrderlyInv
  <1>4. CASE \E o \in OrderIds : \/ SubmitOrder(o) \/ EnqueueMatch(o) \/ CancelByUser(o)
                                 \/ Expire(o) \/ Delete(o) \/ RecoverStalled(o)
    BY <1>2, <1>4 DEF SubmitOrder, EnqueueMatch, CancelByUser, Expire, Delete, RecoverStalled,
                      engineVars, redisVars, workerVars
  <1>5. CASE CloseMarket \/ UNCHANGED vars
    BY <1>2, <1>5 DEF CloseMarket, vars, engineVars, redisVars, workerVars
  <1>6. ASSUME NEW w \in Workers, Work(w) PROVE OrderlyInv(whole)'
    <2>1. RunOrderly(w, whole)'
      BY <1>1, <1>6, WorkOrderly
    <2>2. Alone(w)
      BY <1>1, <1>6, WorkKnown, EngineStep, NextInv
    <2>3. ASSUME NEW v \in Workers \ {w} PROVE RunOrderly(v, whole)'
      <3>1. Critical(v) => Quiet(sym[v])
        <4>1. Critical(v) /\ Critical(w) => sym[v] # sym[w]
          BY DEF LockInv
        <4> QED BY <1>6, <4>1, WorkQuiet
      <3> QED BY <1>1, <2>2, <3>1, QuietOrderly DEF Alone
    <2>4. Indexed'
      <3>1. CASE SyncRead(w)
        BY <1>1, <3>1, SyncReadIndexed
      <3>2. CASE SyncWrite(w)
        BY <1>1, <3>2, WriteIndexed DEF RunOrderly
      <3>3. CASE ~(SyncRead(w) \/ SyncWrite(w))
        <4>1. ~DropMissingEntry(w)
          <5>1. DropMissingEntry(w) => Critical(w)
            BY DEF DropMissingEntry, AtEntry, Critical
          <5> QED BY <5>1, NothingDropped
        <4>2. UNCHANGED <<book, shown, sequence>>
          BY Zenon, <1>6, <3>3, <4>1 DEF Work, Scan, Settlement, AcquireLock, Reload, ReadBook,
             SyncClosedEntry, SkipOwnEntry, ChooseEntry, ScanExhausted, TradePair,
             CloseUnfillable, SettleMissing, SettleRefused, Announce, CancelRemainder,
             RestInBook, ReleaseLock, CompleteJob, FailJob, redisVars
        <4> QED BY <1>1, <4>2, SameBookIndexed
      <3> QED BY <3>1, <3>2, <3>3
    <2> QED BY <2>1, <2>3, <2>4 DEF OrderlyInv
  <1>7. ASSUME NEW w \in Workers, LockTimeout(w) \/ Throw(w) PROVE OrderlyInv(whole)'
    <2>1. RunOrderly(w, whole)'
      BY <1>7, MoveEffect, Calm
    <2>2. Alone(w)
      BY <1>7, MoveEffect DEF Stays
    <2> QED BY <1>3, <1>7, <2>1, <2>2 DEF LockTimeout, Throw, redisVars
  <1>8. ASSUME NEW w \in Workers, Crash(w) PROVE OrderlyInv(whole)'
    <2>1. GoIdle(w) /\ UNCHANGED ledgerVars /\ UNCHANGED <<book, shown, sequence>>
      BY <1>8 DEF Crash
    <2>2. pc'[w] = "idle" /\ Alone(w)
      BY <2>1, IdleKnown DEF GoIdle, GoTo, EngineTyped, RunsTyped
    <2> QED BY <1>3, <2>1, <2>2, Calm
  <1>9. ASSUME NEW w \in Workers, NEW o \in OrderIds, TakeJob(w, o) PROVE OrderlyInv(whole)'
    <2>1. Alone(w) /\ pc'[w] \in {"lock", "done"}
      BY <1>9, TakeTyped
    <2>2. RunOrderly(w, whole)'
      BY <2>1, Calm
    <2> QED BY <1>3, <1>9, <2>1, <2>2 DEF TakeJob, redisVars
  <1>10. ASSUME NEW s \in Symbols, DeadLockExpires(s) \/ LiveLockExpires(s) PROVE OrderlyInv(whole)'
    BY <1>2, <1>10 DEF DeadLockExpires, LiveLockExpires, workerVars
  <1> QED BY <1>4, <1>5, <1>6, <1>7, <1>8, <1>9, <1>10 DEF Next, Trouble

LEMMA InitOrderly ==
    ASSUME NEW whole \in BOOLEAN, Init
    PROVE  OrderlyInv(whole)
  <1>1. Indexed
    BY FS_EmptySet DEF Init, Indexed, NoHash
  <1>2. ASSUME NEW w \in Workers PROVE RunOrderly(w, whole)
    <2>1. pc[w] = "idle" /\ Phase(w) = "idle"
      BY DEF Init, Phase, Syncing
    <2> QED BY <2>1 DEF RunOrderly, Drawn, Fresh, Scanned, Swept, Cleared, Syncing, Reading
  <1> QED BY <1>1, <1>2 DEF OrderlyInv

LEMMA EngineOrderly ==
    ASSUME ~LockMayExpire, Deletable = {}
    PROVE  /\ Spec => [](EngineTyped /\ JobsSound /\ Known /\ DealtInv /\ OrderlyInv(FALSE))
           /\ Spec /\ []BookFits => []OrderlyInv(TRUE)
  <1>1. Init => LockInv /\ OrderlyInv(FALSE) /\ OrderlyInv(TRUE)
    <2>1. Init => LockInv
      BY DEF Init, LockInv, Critical
    <2> QED BY <2>1, InitOrderly
  <1>2. EngineTyped /\ LockInv /\ [Next]_vars => LockInv'
    BY NextKeepsLock DEF EngineTyped
  <1>3. EngineTyped /\ JobsSound /\ Known /\ LockInv /\ OrderlyInv(FALSE) /\ [Next]_vars
        => OrderlyInv(FALSE)'
    BY NextOrderly
  <1>4. /\ EngineTyped /\ JobsSound /\ Known /\ LockInv /\ BookFits /\ OrderlyInv(TRUE)
        /\ [Next]_vars
        => OrderlyInv(TRUE)'
    BY NextOrderly
  <1>5. Spec => [](EngineTyped /\ JobsSound /\ Known /\ DealtInv)
    BY EngineDealt
  <1> QED BY <1>1, <1>2, <1>3, <1>4, <1>5, PTL DEF Spec

(* The book and the order hashes always name each other: an open order has *)
(* at most one entry, on its own side and at its own price, which its hash *)
(* names, and no hash names an entry that is not there; whatever crashes   *)
(* or throws, as long as no run outlives its lock and nobody deletes rows. *)
THEOREM BookNamesHashes ==
    ~LockMayExpire /\ Deletable = {} => (Spec => []BookIndexed)
  <1> SUFFICES ASSUME ~LockMayExpire, Deletable = {} PROVE Spec => []BookIndexed
    OBVIOUS
  <1>1. EngineTyped /\ Known /\ OrderlyInv(FALSE) => BookIndexed
    <2>1. EngineTyped => DOMAIN orders \subseteq OrderIds
      BY DEF EngineTyped, LedgerInv, LedgerTypeOK
    <2> QED BY <2>1 DEF Known, BookPlaced, Placed, OrderlyInv, Indexed, BookIndexed
  <1> QED BY <1>1, EngineOrderly, PTL

-----------------------------------------------------------------------------
(* Two orders that match do not both rest.                                 *)

(* The order's run has ended well, or is about to.                         *)
Over(o) ==
    \/ jobs[o].state = "completed"
    \/ \E w \in Workers : job[w] = o /\ pc[w] = "done"

Crossing(a, b) ==
    /\ RowOpen(a) /\ InBook(a) /\ RowOpen(b) /\ InBook(b)
    /\ orders[a].user # orders[b].user
    /\ CanMatch(orders[a], orders[b])

Uncrossed == \A a, b \in OrderIds : Crossing(a, b) => ~(Over(a) /\ Over(b))

LEMMA MatchBothWays ==
    ASSUME EngineTyped, Known, NEW a, NEW b, Crossing(a, b)
    PROVE  /\ Crossing(b, a)
           /\ a \in DOMAIN orders /\ b \in DOMAIN orders
           /\ orders[a].symbol = orders[b].symbol
           /\ orders[b].side = Opposite(orders[a].side)
  <1>1. /\ a \in DOMAIN orders /\ b \in DOMAIN orders /\ InBook(a) /\ InBook(b)
        /\ CanMatch(orders[a], orders[b]) /\ RedisTyped /\ BookPlaced /\ LedgerInv
    BY DEF Crossing, RowOpen, EngineTyped, Known
  <1>2. \A o \in {a, b} : IsLimit(orders[o])
    <2> TAKE o \in {a, b}
    <2>1. PICK k \in Symbols \X Sides : \E e \in book[k] : e.id = o
      BY <1>1, BookEntry
    <2> QED BY <1>1, <2>1 DEF BookPlaced, Placed
  <1>3. /\ \A o \in {a, b} : orders[o] \in OrderRow
        /\ \A o \in {a, b} : orders[o].price > 0
    BY <1>1, <1>2, RowTyped DEF LedgerInv, RowsPriced
  <1> PICK x \in OrderRow, y \in OrderRow : x = orders[a] /\ y = orders[b]
    BY <1>3
  <1>4. /\ x.side \in Sides /\ y.side \in Sides /\ x.price \in Nat /\ y.price \in Nat
        /\ x.price # NoPrice /\ y.price # NoPrice /\ x.type # "market" /\ y.type # "market"
    BY <1>2, <1>3 DEF OrderRow, NoPrice, IsLimit
  <1>5. /\ x.symbol = y.symbol /\ x.side # y.side
        /\ IF x.side = "buy" THEN y.price <= x.price ELSE y.price >= x.price
    BY <1>1, <1>4 DEF CanMatch
  <1>6. /\ IF y.side = "buy" THEN x.price <= y.price ELSE x.price >= y.price
    BY <1>4, <1>5 DEF Sides
  <1>7. CanMatch(y, x)
    BY <1>4, <1>5, <1>6 DEF CanMatch
  <1>8. y.side = Opposite(x.side)
    BY <1>4, <1>5 DEF Sides, Opposite
  <1> QED BY <1>1, <1>5, <1>7, <1>8 DEF Crossing

(* A crossing of two orders that were in the book before is not new.       *)
LEMMA CrossedBefore ==
    ASSUME RowsKept, NEW a \in DOMAIN orders, NEW b \in DOMAIN orders,
           InBook(a), InBook(b), Crossing(a, b)'
    PROVE  Crossing(a, b)
  <1>1. /\ RowOpen(a) /\ RowOpen(b)
        /\ SameOrder(orders'[a], orders[a]) /\ SameOrder(orders'[b], orders[b])
    BY RowStands DEF Crossing
  <1>2. CanMatch(orders'[a], orders'[b]) /\ orders'[a].user # orders'[b].user
    BY DEF Crossing
  <1>3. CanMatch(orders[a], orders[b])
    BY <1>1, <1>2 DEF CanMatch, SameOrder
  <1> QED BY <1>1, <1>2, <1>3 DEF Crossing, SameOrder

LEMMA EndsByRelease ==
    ASSUME EngineTyped, LedgerInv', Known, NEW w \in Workers, Work(w), pc'[w] = "done"
    PROVE  ReleaseLock(w) /\ pc[w] = "release" /\ ~local[w].failed
  <1>1. ~AcquireLock(w) /\ ~CompleteJob(w) /\ ~FailJob(w)
    BY DEF AcquireLock, CompleteJob, FailJob, GoIdle, GoTo, EngineTyped, RunsTyped
  <1>2. ~Reload(w) /\ ~ReadBook(w) /\ ~Announce(w) /\ ~SyncRead(w)
    BY ReloadEffect, ReadEffect, AnnounceEffect DEF SyncRead, GoTo, EngineTyped, RunsTyped
  <1>3. ~Settlement(w)
    BY SettleEffect
  <1>4. ~CancelRemainder(w) /\ ~RestInBook(w)
    BY FinishEffect
  <1>5. ~SyncWrite(w)
    <2> PICK t : t = Head(local[w].changed)
      OBVIOUS
    <2>1. SyncWrite(w) => pc'[w] \in {"reload", "range", "scan", "release", "sync"}
      BY WriteEffect
    <2> QED BY <2>1
  <1>6. ~Scan(w)
    <2>1. ~DropMissingEntry(w)
      <3>1. DropMissingEntry(w) => Critical(w)
        BY DEF DropMissingEntry, AtEntry, Critical
      <3> QED BY <3>1, NothingDropped
    <2>2. ~ChooseEntry(w)
      <3> SUFFICES ASSUME ChooseEntry(w) PROVE FALSE
        OBVIOUS
      <3>1. pc'[w] \in {"settle", "finish"}
        BY ChooseEffect
      <3> QED BY <3>1
    <2> QED BY <2>1, <2>2, ClosedEffect, SkipEffect, ExhaustedEffect DEF Scan
  <1>7. ReleaseLock(w)
    BY <1>1, <1>2, <1>3, <1>4, <1>5, <1>6 DEF Work
  <1> QED BY <1>7, MoveEffect

(* An open order is over only when its run has released the lock.          *)
LEMMA OverGrows ==
    ASSUME EngineTyped, JobsSound, LedgerInv', Known, RowsKept, [Next]_vars,
           NEW o \in OrderIds, Over(o)'
    PROVE  \/ Over(o) \/ ~RowOpen(o)'
           \/ \E w \in Workers :
                 ReleaseLock(w) /\ job[w] = o /\ pc[w] = "release" /\ ~local[w].failed
  <1>1. ASSUME UNCHANGED <<pc, job>>, jobs'[o].state = "completed" => jobs[o].state = "completed"
        PROVE  Over(o)
    BY <1>1 DEF Over
  <1>2. ASSUME NEW w \in Workers, Alone(w), job'[w] = o => pc'[w] # "done",
               jobs'[o].state = "completed" => jobs[o].state = "completed"
        PROVE  Over(o)
    BY <1>2 DEF Over, Alone
  <1>3. CASE \E x \in OrderIds : SubmitOrder(x) \/ CancelByUser(x) \/ Expire(x) \/ Delete(x)
    BY <1>1, <1>3 DEF SubmitOrder, CancelByUser, Expire, Delete, engineVars, queueVars, workerVars
  <1>4. CASE CloseMarket \/ UNCHANGED vars
    BY <1>1, <1>4 DEF CloseMarket, vars, engineVars, queueVars, workerVars
  <1>5. ASSUME NEW x \in OrderIds, EnqueueMatch(x) \/ RecoverStalled(x) PROVE Over(o)
    <2>1. jobs'[o].state = "completed" => jobs[o].state = "completed"
      BY <1>5 DEF EnqueueMatch, RecoverStalled, JobsSound, JobType
    <2> QED BY <1>1, <1>5, <2>1 DEF EnqueueMatch, RecoverStalled, workerVars
  <1>6. ASSUME NEW w \in Workers, Work(w)
        PROVE  \/ Over(o)
               \/ ReleaseLock(w) /\ job[w] = o /\ pc[w] = "release" /\ ~local[w].failed
    <2>1. Alone(w)
      BY <1>6, WorkKnown
    <2>2. CASE CompleteJob(w)
      <3>1. /\ pc[w] = "done" /\ jobs' = [jobs EXCEPT ![job[w]].state = "completed"]
            /\ pc'[w] = "idle"
        BY <2>2 DEF CompleteJob, GoIdle, GoTo, EngineTyped, RunsTyped
      <3>2. CASE o = job[w]
        BY <3>1, <3>2 DEF Over
      <3>3. CASE o # job[w]
        <4>1. jobs'[o] = jobs[o]
          BY <3>1, <3>3 DEF JobsSound
        <4> QED BY <1>2, <2>1, <3>1, <4>1
      <3> QED BY <3>2, <3>3
    <2>3. CASE FailJob(w)
      <3>1. pc'[w] = "idle" /\ job[w] \in OrderIds
        BY <2>3 DEF FailJob, GoIdle, GoTo, EngineTyped, RunsTyped, RunShaped
      <3>2. jobs'[job[w]].state \in {"waiting", "failed"}
        BY <2>3, <3>1 DEF FailJob, JobsSound, JobType
      <3>3. o # job[w] => jobs'[o] = jobs[o]
        BY <2>3 DEF FailJob, JobsSound
      <3> QED BY <1>2, <2>1, <3>1, <3>2, <3>3
    <2>4. CASE ~CompleteJob(w) /\ ~FailJob(w)
      <3>1. UNCHANGED <<jobs, job>>
        BY <1>6, <2>4, WorkGoes DEF Goes
      <3>2. CASE pc'[w] = "done" /\ job[w] = o
        BY <1>6, <3>2, EndsByRelease
      <3>3. CASE ~(pc'[w] = "done" /\ job[w] = o)
        BY <1>2, <2>1, <3>1, <3>3
      <3> QED BY <3>2, <3>3
    <2> QED BY <2>2, <2>3, <2>4
  <1>7. ASSUME NEW w \in Workers, LockTimeout(w) \/ Throw(w) PROVE Over(o)
    <2>1. Alone(w) /\ pc'[w] # "done"
      <3>1. Alone(w) /\ pc'[w] \in {"release", "fail"}
        BY <1>7, TroubleGoes, GoesAlone DEF Labels
      <3> QED BY <3>1
    <2>2. jobs' = jobs
      BY <1>7 DEF LockTimeout, Throw, queueVars
    <2> QED BY <1>2, <2>1, <2>2
  <1>8. ASSUME NEW w \in Workers, Crash(w) PROVE Over(o)
    <2>1. Alone(w) /\ pc'[w] = "idle" /\ jobs' = jobs
      BY <1>8, IdleKnown DEF Crash, GoIdle, GoTo, EngineTyped, RunsTyped, queueVars
    <2> QED BY <1>2, <2>1
  <1>9. ASSUME NEW w \in Workers, NEW x \in OrderIds, TakeJob(w, x)
        PROVE  Over(o) \/ ~RowOpen(o)'
    <2>1. /\ Alone(w) /\ job'[w] = x /\ pc'[w] = (IF RowOpen(x) THEN "lock" ELSE "done")
          /\ UNCHANGED orders
      BY <1>9, TakeTyped DEF TakeJob, ledgerVars
    <2>2. jobs'[o].state = "completed" => jobs[o].state = "completed"
      BY <1>9 DEF TakeJob, JobsSound, JobType
    <2>3. CASE o = x /\ ~RowOpen(x)
      BY <2>1, <2>3 DEF RowOpen
    <2>4. CASE ~(o = x /\ ~RowOpen(x))
      BY <1>2, <2>1, <2>2, <2>4
    <2> QED BY <2>3, <2>4
  <1>10. ASSUME NEW s \in Symbols, DeadLockExpires(s) \/ LiveLockExpires(s) PROVE Over(o)
    BY <1>1, <1>10 DEF DeadLockExpires, LiveLockExpires, queueVars, workerVars
  <1> QED BY <1>3, <1>4, <1>5, <1>6, <1>7, <1>8, <1>9, <1>10 DEF Next, Trouble

(* Only a write of its own run brings an open order into the book.         *)
LEMMA BookGrows ==
    ASSUME EngineTyped, Known, RowsKept, Indexed, [Next]_vars,
           \A w \in Workers : RunOrderly(w, TRUE),
           NEW o \in OrderIds, InBook(o)', RowOpen(o)', ~InBook(o)
    PROVE  \E w \in Workers : SyncWrite(w) /\ job[w] = o
  <1>1. ASSUME NEW w \in Workers, SyncWrite(w) PROVE job[w] = o
    <2> PICK t : t = Head(local[w].changed)
      OBVIOUS
    <2> PICK key : key = <<sym[w], t.row.side>>
      OBVIOUS
    <2> PICK new : new = Entry(t.id, local[w].member, t.row)
      OBVIOUS
    <2>1. pc[w] = "write"
      BY <1>1, WriteEffect
    <2>2. /\ new.id = t.id /\ Wrote(t, key, new)
      <3>1. Drawn(w)
        BY DEF RunOrderly
      <3> QED BY <1>1, <3>1, WriteShape
    <2>3. PICK k \in Symbols \X Sides : \E e \in book'[k] : e.id = o
      BY DEF InBook, Entries
    <2>4. PICK e \in book'[k] : e.id = o
      BY <2>3
    <2>5. e \notin book[k]
      BY <2>4, EntryInBook DEF EngineTyped
    <2>6. t.keep /\ o = t.id
      BY Zenon, <2>2, <2>4, <2>5 DEF Wrote
    <2>7. t \in Range(local[w].changed)
      BY <2>1, HeadKnown
    <2>8. RowOpen(o)
      <3>1. o \in DOMAIN orders
        BY <2>1, <2>6, HeadKnown DEF TaskTrue
      <3> QED BY <3>1, RowStands
    <2> QED BY <2>1, <2>6, <2>7, <2>8 DEF RunOrderly, Swept, Syncing
  <1>2. book' # book
    BY DEF InBook, Entries
  <1>3. \E w \in Workers : SyncWrite(w)
    <2>1. ASSUME NEW w \in Workers, DropMissingEntry(w) PROVE FALSE
      <3>1. Critical(w)
        BY <2>1 DEF DropMissingEntry, AtEntry, Critical
      <3> QED BY <2>1, <3>1, NothingDropped
    <2>2. ASSUME NEW w \in Workers, Work(w), ~SyncWrite(w) PROVE FALSE
      BY Zenon, <1>2, <2>1, <2>2 DEF Work, Scan, Settlement, AcquireLock, Reload, ReadBook,
         SyncClosedEntry, SkipOwnEntry, ChooseEntry, ScanExhausted, TradePair,
         CloseUnfillable, SettleMissing, SettleRefused, Announce, SyncRead, CancelRemainder,
         RestInBook, ReleaseLock, CompleteJob, FailJob, redisVars
    <2>3. ~(UNCHANGED vars)
      BY <1>2 DEF vars, engineVars, redisVars
    <2>4. ASSUME NEW x \in OrderIds PROVE
             ~(SubmitOrder(x) \/ EnqueueMatch(x) \/ CancelByUser(x) \/ Expire(x)
               \/ Delete(x) \/ RecoverStalled(x))
      BY <1>2 DEF SubmitOrder, EnqueueMatch, CancelByUser, Expire, Delete, RecoverStalled,
                  engineVars, redisVars
    <2>5. ~CloseMarket
      BY <1>2 DEF CloseMarket, engineVars, redisVars
    <2>6. ASSUME NEW w \in Workers PROVE ~Trouble(w) /\ \A x \in OrderIds : ~TakeJob(w, x)
      BY <1>2 DEF Trouble, LockTimeout, Throw, Crash, TakeJob, redisVars
    <2>7. ASSUME NEW s \in Symbols PROVE ~DeadLockExpires(s) /\ ~LiveLockExpires(s)
      BY <1>2 DEF DeadLockExpires, LiveLockExpires
    <2> QED BY <2>2, <2>3, <2>4, <2>5, <2>6, <2>7 DEF Next
  <1> QED BY <1>1, <1>3

(* An order on its way into the book is not over.                          *)
LEMMA WriterNotOver ==
    ASSUME EngineTyped, JobsSound, NEW w \in Workers, SyncWrite(w)
    PROVE  ~Over(job[w])'
  <1> PICK t : t = Head(local[w].changed)
    OBVIOUS
  <1>1. /\ Alone(w) /\ job'[w] = job[w] /\ pc[w] = "write"
        /\ pc'[w] \in {"reload", "range", "scan", "release", "sync"}
    BY WriteEffect
  <1>2. jobs' = jobs /\ job' = job /\ jobs[job[w]].state = "active"
    BY Zenon, <1>1 DEF SyncWrite, queueVars, JobsSound
  <1>3. ASSUME NEW v \in Workers, job'[v] = job[w], pc'[v] = "done" PROVE FALSE
    <2>1. v # w
      BY <1>1, <1>3
    <2>2. pc[v] = "done" /\ job[v] = job[w]
      BY <1>1, <1>2, <1>3, <2>1 DEF Alone
    <2> QED BY <1>1, <2>1, <2>2 DEF JobsSound
  <1> QED BY <1>2, <1>3 DEF Over

(* A run that ends well leaves no match for its order in the book.         *)
LEMMA ReleaseClears ==
    ASSUME EngineTyped, Known, NEW w \in Workers, RunOrderly(w, TRUE),
           pc[w] = "release", ~local[w].failed, NEW b \in OrderIds
    PROVE  ~Crossing(job[w], b)
  <1> SUFFICES ASSUME Crossing(job[w], b) PROVE FALSE
    OBVIOUS
  <1>1. Cleared(w) /\ Critical(w)
    BY DEF Cleared, Phase, Syncing, Critical
  <1>2. sym[w] = orders[job[w]].symbol
    BY <1>1 DEF Known, RunKnown
  <1>3. RowOpen(job[w]) /\ RowOpen(b) /\ InBook(b) /\ CanMatch(orders[job[w]], orders[b])
    BY DEF Crossing
  <1>4. Rival(w, b)
    <2>1. /\ orders[job[w]].symbol = orders[b].symbol
          /\ orders[b].side = Opposite(orders[job[w]].side)
      BY MatchBothWays
    <2> QED BY <1>2, <2>1 DEF Rival, Crossing
  <1> QED BY <1>1, <1>3, <1>4 DEF RunOrderly, Swept

LEMMA NextUncrossed ==
    ASSUME Deletable = {}, EngineTyped, JobsSound, Known, OrderlyInv(TRUE), Uncrossed,
           [Next]_vars
    PROVE  Uncrossed'
  <1>1. /\ EngineTyped' /\ Known' /\ RowsKept /\ LedgerInv'
        /\ Indexed /\ \A w \in Workers : RunOrderly(w, TRUE)
    <2>1. EngineTyped'
      BY NextTyped
    <2> QED BY <2>1, NextKnown, NextKept DEF EngineTyped, OrderlyInv
  <1> SUFFICES ASSUME NEW a \in OrderIds, NEW b \in OrderIds, Crossing(a, b)',
                      Over(a)', Over(b)'
               PROVE  FALSE
    BY DEF Uncrossed
  <1>2. ASSUME NEW o \in {a, b} PROVE InBook(o) /\ o \in DOMAIN orders
    <2>1. InBook(o)' /\ RowOpen(o)' /\ Over(o)'
      BY <1>2 DEF Crossing
    <2>2. InBook(o)
      <3> SUFFICES ASSUME ~InBook(o) PROVE FALSE
        OBVIOUS
      <3>1. PICK w \in Workers : SyncWrite(w) /\ job[w] = o
        BY <1>1, <2>1, BookGrows
      <3>2. job'[w] = o
        BY <3>1 DEF SyncWrite
      <3> QED BY <2>1, <3>1, <3>2, WriterNotOver
    <2>3. PICK k \in Symbols \X Sides : \E e \in book[k] : e.id = o
      BY <2>2, BookEntry DEF EngineTyped
    <2> QED BY <2>2, <2>3 DEF Known, BookPlaced, Placed
  <1>3. Crossing(a, b) /\ Crossing(b, a)
    <2>1. Crossing(a, b)
      BY <1>1, <1>2, CrossedBefore
    <2> QED BY <2>1, MatchBothWays
  <1>4. RowOpen(a)' /\ RowOpen(b)'
    BY DEF Crossing
  <1>5. ~Over(a) \/ ~Over(b)
    BY <1>3 DEF Uncrossed
  <1>6. ASSUME NEW x \in OrderIds, NEW y \in OrderIds, Crossing(x, y), RowOpen(x)', Over(x)'
        PROVE  Over(x)
    <2> SUFFICES ASSUME ~Over(x) PROVE FALSE
      OBVIOUS
    <2>1. PICK w \in Workers :
             ReleaseLock(w) /\ job[w] = x /\ pc[w] = "release" /\ ~local[w].failed
      BY <1>1, <1>6, OverGrows
    <2> QED BY <1>1, <1>6, <2>1, ReleaseClears
  <1> QED BY <1>3, <1>4, <1>5, <1>6

LEMMA InitUncrossed == Init => Uncrossed
  <1> SUFFICES ASSUME Init PROVE Uncrossed
    OBVIOUS
  <1>1. DOMAIN orders = {}
    BY DEF Init, LedgerInit
  <1> QED BY <1>1 DEF Uncrossed, Crossing, RowOpen

(* Two orders that match and whose runs have both ended well do not both   *)
(* stay open: either they have traded, or one of them is still to run; as  *)
(* long as no side of a book outgrows the part of it the engine reads.     *)
THEOREM NothingMissed ==
    ~LockMayExpire /\ Deletable = {} => (Spec /\ []BookFits => []NoMissedMatch)
  <1> SUFFICES ASSUME ~LockMayExpire, Deletable = {}
               PROVE  Spec /\ []BookFits => []NoMissedMatch
    OBVIOUS
  <1>1. Spec => [](EngineTyped /\ JobsSound /\ Known /\ DealtInv)
    BY EngineDealt
  <1>2. Spec /\ []BookFits => []OrderlyInv(TRUE)
    BY EngineOrderly
  <1>3. EngineTyped /\ JobsSound /\ Known /\ OrderlyInv(TRUE) /\ Uncrossed /\ [Next]_vars
        => Uncrossed'
    BY NextUncrossed
  <1>4. Init => Uncrossed
    BY InitUncrossed
  <1>5. EngineTyped /\ Known /\ DealtInv /\ Uncrossed => NoMissedMatch
    <2> SUFFICES ASSUME EngineTyped, Known, DealtInv, Uncrossed,
                        NEW a \in DOMAIN orders, NEW b \in DOMAIN orders,
                        IsOpen(orders[a]), IsOpen(orders[b]),
                        orders[a].user # orders[b].user, CanMatch(orders[a], orders[b]),
                        jobs[a].state = "completed", jobs[b].state = "completed"
                 PROVE  FALSE
      BY DEF NoMissedMatch
    <2>1. a \in OrderIds /\ b \in OrderIds
      BY RowTyped DEF EngineTyped
    <2>2. RowOpen(a) /\ RowOpen(b)
      BY DEF RowOpen
    <2>3. InBook(a) /\ InBook(b)
      BY <2>1, <2>2 DEF DealtInv, Dealt
    <2>4. Crossing(a, b)
      BY <2>2, <2>3 DEF Crossing
    <2> QED BY <2>1, <2>4 DEF Uncrossed, Over
  <1> QED BY <1>1, <1>2, <1>3, <1>4, <1>5, PTL DEF Spec

-----------------------------------------------------------------------------
(* What the hashes show of the orders' fills.                              *)

Told(o) == shown[o].filled = orders[o].filled /\ shown[o].status = orders[o].status

(* A run is about to tell.                                                 *)
Untold(w, o) == pc[w] \in Syncing /\ \E t \in Range(local[w].changed) : t.id = o

ShownInv ==
    \A o \in OrderIds :
        RowOpen(o) /\ InBook(o) => Told(o) \/ \E w \in Workers : Untold(w, o)

(* A write tells of its order and leaves the others' turn.                 *)
LEMMA WriteTells ==
    ASSUME EngineTyped, Known, Indexed, NEW w \in Workers, RunOrderly(w, FALSE), SyncWrite(w),
           NEW o \in OrderIds, RowOpen(o), UNCHANGED orders
    PROVE  /\ InBook(o)' => InBook(o) \/ Told(o)'
           /\ InBook(o)' /\ Untold(w, o) => Told(o)' \/ Untold(w, o)'
           /\ InBook(o)' /\ Told(o) => Told(o)'
  <1> PICK t : t = Head(local[w].changed)
    OBVIOUS
  <1> PICK key : key = <<sym[w], t.row.side>>
    OBVIOUS
  <1> PICK new : new = Entry(t.id, local[w].member, t.row)
    OBVIOUS
  <1>1. pc[w] = "write" /\ local'[w].changed = Tail(local[w].changed)
        /\ Range(local[w].changed) = {t} \cup Range(local'[w].changed)
    BY WriteEffect
  <1>2. /\ new.id = t.id /\ Wrote(t, key, new) /\ t.id \in OrderIds
    BY WriteShape DEF RunOrderly
  <1>3. t \in Range(local[w].changed)
    BY <1>1
  <1>4. CASE o = t.id
    <2> SUFFICES ASSUME InBook(o)' PROVE Told(o)'
      BY DEF Told
    <2>1. PICK k \in Symbols \X Sides : \E e \in book'[k] : e.id = o
      BY DEF InBook, Entries
    <2>2. t.keep
      BY Zenon, <1>2, <1>4, <2>1 DEF Wrote
    <2>3. t.row = orders[o]
      BY <1>1, <1>3, <1>4 DEF RunOrderly, Fresh, Syncing
    <2>4. shown'[o].filled = t.row.filled /\ shown'[o].status = t.row.status
      <3>1. shown'[o] = [member |-> new.member, filled |-> t.row.filled, status |-> t.row.status]
        BY Zenon, <1>2, <1>4, <2>2 DEF Wrote
      <3> QED BY <3>1
    <2> QED BY <2>3, <2>4 DEF Told
  <1>5. CASE o # t.id
    <2>1. shown'[o] = shown[o]
      BY Zenon, <1>2, <1>5 DEF Wrote
    <2>2. ASSUME InBook(o)' PROVE InBook(o)
      <3>1. PICK k \in Symbols \X Sides : \E e \in book'[k] : e.id = o
        BY <2>2 DEF InBook, Entries
      <3>2. PICK e \in book[k] : e.id = o
        BY Zenon, <1>2, <1>5, <3>1 DEF Wrote
      <3> QED BY <3>2, EntryInBook DEF EngineTyped
    <2>3. ASSUME Untold(w, o) PROVE Untold(w, o)'
      <3>1. PICK x \in Range(local'[w].changed) : x.id = o
        BY <1>1, <1>5, <2>3 DEF Untold
      <3>2. local'[w].changed # <<>>
        BY <3>1, Ranges
      <3>3. pc'[w] = "sync"
        <4> PICK me : me = local[w]
          OBVIOUS
        <4> PICK clean : clean = [me EXCEPT !.member = 0]
          OBVIOUS
        <4>1. SyncThen(w, Tail(me.changed), me.next, clean)
          BY Zenon DEF SyncWrite
        <4>2. Tail(me.changed) # <<>>
          BY <1>1, <3>2
        <4> QED BY <4>1, <4>2 DEF SyncThen, GoTo, EngineTyped, RunsTyped
      <3> QED BY <3>1, <3>3 DEF Untold, Syncing
    <2> QED BY <2>1, <2>2, <2>3 DEF Told
  <1> QED BY <1>4, <1>5

LEMMA NextShown ==
    ASSUME Deletable = {}, MaxFaults = 0, MaxCrashes = 0, EngineTyped, JobsSound, Known,
           OrderlyInv(FALSE), ShownInv, [Next]_vars
    PROVE  ShownInv'
  <1>1. /\ EngineTyped' /\ Known' /\ RowsKept /\ LedgerInv /\ LedgerInv'
        /\ Indexed /\ \A w \in Workers : RunOrderly(w, FALSE)
    <2>1. EngineTyped'
      BY NextTyped
    <2> QED BY <2>1, NextKnown, NextKept DEF EngineTyped, OrderlyInv
  <1> SUFFICES ASSUME NEW o \in OrderIds, RowOpen(o)', InBook(o)'
               PROVE  Told(o)' \/ \E w \in Workers : Untold(w, o)'
    BY DEF ShownInv
  <1>2. InBook(o) => o \in DOMAIN orders
    <2>1. InBook(o) => \E k \in Symbols \X Sides : \E e \in book[k] : e.id = o
      BY DEF InBook, Entries
    <2> QED BY <2>1 DEF Known, BookPlaced, Placed
  (* Steps that leave the book, the hashes and the open rows alone.        *)
  <1>3. ASSUME OpenUntouched, UNCHANGED <<book, shown>>,
               \A w \in Workers : Untold(w, o) => Untold(w, o)'
        PROVE  Told(o)' \/ \E w \in Workers : Untold(w, o)'
    <2>1. InBook(o) /\ o \in DOMAIN orders
      BY <1>2, <1>3 DEF InBook, Entries
    <2>2. orders'[o] = orders[o] /\ RowOpen(o)
      BY <1>3, <2>1 DEF OpenUntouched, RowOpen
    <2>3. Told(o) \/ \E w \in Workers : Untold(w, o)
      BY <2>1, <2>2 DEF ShownInv
    <2> QED BY <1>3, <2>2, <2>3 DEF Told
  <1>4. ASSUME NEW w \in Workers, Alone(w), pc[w] \notin Syncing
        PROVE  \A v \in Workers : Untold(v, o) => Untold(v, o)'
    BY <1>4 DEF Alone, Untold
  <1>5. ASSUME UNCHANGED <<pc, local>>
        PROVE  \A v \in Workers : Untold(v, o) => Untold(v, o)'
    BY <1>5 DEF Untold
  <1>6. ASSUME UNCHANGED <<pc, local, book, shown>>, \A w \in Workers : ~TradePair(w)
        PROVE  Told(o)' \/ \E w \in Workers : Untold(w, o)'
    <2>1. OpenUntouched
      BY <1>1, <1>6, NextUntouched
    <2> QED BY <1>3, <1>5, <1>6, <2>1
  <1>7. ASSUME UNCHANGED pc PROVE \A w \in Workers : ~TradePair(w)
    <2>1. ASSUME NEW w \in Workers, TradePair(w) PROVE FALSE
      BY <1>7, <2>1 DEF TradePair, GoTo, EngineTyped, RunsTyped
    <2> QED BY <2>1
  <1>8. CASE \E x \in OrderIds : \/ SubmitOrder(x) \/ EnqueueMatch(x) \/ CancelByUser(x)
                                 \/ Expire(x) \/ Delete(x) \/ RecoverStalled(x)
    BY <1>6, <1>7, <1>8 DEF SubmitOrder, EnqueueMatch, CancelByUser, Expire, Delete,
       RecoverStalled, engineVars, redisVars, workerVars
  <1>9. CASE CloseMarket \/ UNCHANGED vars
    BY <1>6, <1>7, <1>9 DEF CloseMarket, vars, engineVars, redisVars, workerVars
  <1>10. CASE \E s \in Symbols : DeadLockExpires(s) \/ LiveLockExpires(s)
    BY <1>6, <1>7, <1>10 DEF DeadLockExpires, LiveLockExpires, workerVars
  <1>11. ASSUME NEW w \in Workers, NEW x \in OrderIds, TakeJob(w, x)
         PROVE  Told(o)' \/ \E v \in Workers : Untold(v, o)'
    <2>1. Alone(w) /\ pc[w] \notin Syncing
      BY <1>11, TakeTyped DEF TakeJob, Syncing
    <2> QED BY <1>3, <1>4, <1>11, <2>1, StillKept DEF TakeJob, redisVars, ledgerVars
  <1>12. ASSUME NEW w \in Workers, Trouble(w)
         PROVE  Told(o)' \/ \E v \in Workers : Untold(v, o)'
    <2>1. LockTimeout(w)
      <3>1. ~Throw(w) /\ ~Crash(w)
        BY DEF Throw, Crash, JobsSound
      <3> QED BY <1>12, <3>1 DEF Trouble
    <2>2. Alone(w) /\ pc[w] \notin Syncing
      BY <2>1, MoveEffect DEF Stays, LockTimeout, Syncing
    <2> QED BY <1>3, <1>4, <2>1, <2>2, StillKept DEF LockTimeout, redisVars, ledgerVars
  <1>13. ASSUME NEW w \in Workers, TradePair(w)
         PROVE  Told(o)' \/ \E v \in Workers : Untold(v, o)'
    <2>1. /\ Alone(w) /\ pc[w] \notin Syncing /\ UNCHANGED <<book, shown>>
          /\ \A x \in {job[w], local[w].resting} :
                \E t \in Range(local'[w].changed) : t.id = x
      BY <1>1, <1>13, SettleEffect DEF Settlement, Stays, Syncing
    <2>2. pc'[w] \in Syncing
      BY <1>13 DEF TradePair, GoTo, Syncing, EngineTyped, RunsTyped
    <2>3. CASE o \in {job[w], local[w].resting}
      BY <2>1, <2>2, <2>3 DEF Untold
    <2>4. CASE o \notin {job[w], local[w].resting}
      <3> PICK i \in OrderIds, r \in OrderIds : i = job[w] /\ r = local[w].resting
        BY <1>1, <1>13, SettleIds
      <3>1. InBook(o) /\ o \in DOMAIN orders
        BY <1>2, <2>1 DEF InBook, Entries
      <3>2. SettleTrade(i, r)
        BY <1>13 DEF TradePair
      <3>3. orders'[o] = orders[o]
        BY <1>1, <2>4, <3>1, <3>2, TradeKept
      <3>4. RowOpen(o)
        BY <3>1, <3>3 DEF RowOpen
      <3>5. Told(o) \/ \E v \in Workers : Untold(v, o)
        BY <3>1, <3>4 DEF ShownInv
      <3> QED BY <1>4, <2>1, <3>3, <3>5 DEF Told
    <2> QED BY <2>3, <2>4
  <1>14. ASSUME NEW w \in Workers, SyncWrite(w)
         PROVE  Told(o)' \/ \E v \in Workers : Untold(v, o)'
    <2> PICK t : t = Head(local[w].changed)
      OBVIOUS
    <2>1. Alone(w) /\ UNCHANGED orders
      BY <1>14, WriteEffect
    <2>2. RowOpen(o)
      BY <2>1 DEF RowOpen
    <2>3. /\ InBook(o) \/ Told(o)'
          /\ Untold(w, o) => Told(o)' \/ Untold(w, o)'
          /\ Told(o) => Told(o)'
      BY <1>1, <1>14, <2>1, <2>2, WriteTells
    <2>4. \A v \in Workers \ {w} : Untold(v, o) => Untold(v, o)'
      BY <2>1 DEF Alone, Untold
    <2>5. InBook(o) => Told(o) \/ \E v \in Workers : Untold(v, o)
      BY <2>2 DEF ShownInv
    <2> QED BY <2>3, <2>4, <2>5
  <1>15. ASSUME NEW w \in Workers, Work(w), ~TradePair(w), ~SyncWrite(w)
         PROVE  Told(o)' \/ \E v \in Workers : Untold(v, o)'
    <2>1. Alone(w) /\ OpenUntouched
      BY <1>1, <1>15, WorkKnown, WorkKept
    <2>2. UNCHANGED <<book, shown>>
      <3>1. ~DropMissingEntry(w)
        <4>1. DropMissingEntry(w) => Critical(w)
          BY DEF DropMissingEntry, AtEntry, Critical
        <4> QED BY <4>1, NothingDropped
      <3> QED BY Zenon, <1>15, <3>1 DEF Work, Scan, Settlement, AcquireLock, Reload, ReadBook,
             SyncClosedEntry, SkipOwnEntry, ChooseEntry, ScanExhausted,
             CloseUnfillable, SettleMissing, SettleRefused, Announce, SyncRead, CancelRemainder,
             RestInBook, ReleaseLock, CompleteJob, FailJob, redisVars
    <2>3. CASE Announce(w) \/ SyncRead(w)
      <3> PICK t : t = Head(local[w].changed)
        OBVIOUS
      <3>1. pc'[w] \in Syncing /\ local'[w].changed = local[w].changed
        BY <2>3, AnnounceEffect, SyncReadEffect DEF Continues, Syncing
      <3>2. \A v \in Workers : Untold(v, o) => Untold(v, o)'
        BY <2>1, <3>1 DEF Untold, Alone
      <3> QED BY <1>3, <2>1, <2>2, <3>2
    <2>4. CASE ~(Announce(w) \/ SyncRead(w))
      <3>1. pc[w] \notin Syncing
        BY Zenon, <1>15, <2>4 DEF Work, Scan, Settlement, AcquireLock, Reload, ReadBook,
           DropMissingEntry, AtEntry, SyncClosedEntry, SkipOwnEntry, ChooseEntry,
           ScanExhausted, CloseUnfillable, SettleMissing, SettleRefused, CancelRemainder,
           RestInBook, ReleaseLock, CompleteJob, FailJob, Syncing
      <3> QED BY <1>3, <1>4, <2>1, <2>2, <3>1
    <2> QED BY <2>3, <2>4
  <1> QED BY <1>8, <1>9, <1>10, <1>11, <1>12, <1>13, <1>14, <1>15 DEF Next

(* When no call throws and no process dies, the hash of an open order in   *)
(* the book shows its fill and status whenever no run works on its symbol. *)
THEOREM HashesShowFills ==
    ~LockMayExpire /\ Deletable = {} /\ MaxFaults = 0 /\ MaxCrashes = 0
    => (Spec => []BookShowsFills)
  <1> SUFFICES ASSUME ~LockMayExpire, Deletable = {}, MaxFaults = 0, MaxCrashes = 0
               PROVE  Spec => []BookShowsFills
    OBVIOUS
  <1>1. Spec => [](EngineTyped /\ JobsSound /\ Known /\ DealtInv /\ OrderlyInv(FALSE))
    BY EngineOrderly
  <1>2. EngineTyped /\ JobsSound /\ Known /\ OrderlyInv(FALSE) /\ ShownInv /\ [Next]_vars
        => ShownInv'
    BY NextShown
  <1>3. Init => ShownInv
    BY DEF Init, LedgerInit, ShownInv, RowOpen
  <1>4. EngineTyped /\ Known /\ ShownInv => BookShowsFills
    <2> SUFFICES ASSUME EngineTyped, Known, ShownInv, NEW o \in DOMAIN orders,
                        IsOpen(orders[o]), InBook(o),
                        \A w \in Workers : ~(Critical(w) /\ sym[w] = orders[o].symbol)
                 PROVE  Told(o)
      BY DEF BookShowsFills, Told
    <2>1. o \in OrderIds /\ RowOpen(o)
      BY RowTyped DEF EngineTyped, RowOpen
    <2>2. ASSUME NEW w \in Workers, Untold(w, o) PROVE FALSE
      <3>1. Critical(w)
        BY <2>2 DEF Untold, Syncing, Critical
      <3>2. PICK t \in Range(local[w].changed) : t.id = o
        BY <2>2 DEF Untold
      <3>3. TaskTrue(t) /\ t.row.symbol = sym[w]
        BY <3>1, <3>2 DEF Known, RunKnown
      <3> QED BY <3>1, <3>2, <3>3 DEF TaskTrue, SameOrder
    <2> QED BY <2>1, <2>2 DEF ShownInv
  <1> QED BY <1>1, <1>2, <1>3, <1>4, PTL DEF Spec

-----------------------------------------------------------------------------
(* The engine implements the exchange.  The instance has its own copies of *)
(* the ledger's operators, which are the same.                             *)

LEMMA PromisedRules ==
    /\ \A x : Promised!IsOpen(x) = IsOpen(x) /\ Promised!IsLimit(x) = IsLimit(x)
    /\ \A i, o : Promised!Counterparty(i, o) <=>
          /\ o \in DOMAIN orders /\ IsOpen(orders[o])
          /\ orders[o].symbol = orders[i].symbol
          /\ orders[o].side # orders[i].side
          /\ orders[o].user # orders[i].user
  BY DEF Promised!IsOpen, IsOpen, Promised!IsLimit, IsLimit, Promised!Counterparty,
     Promised!OpenStatuses, OpenStatuses, Promised!Remaining, Remaining

LEMMA PromisedCancel == \A o : CancelOpen(o) => Promised!CancelOpen(o)
  BY DEF CancelOpen, Promised!CancelOpen, HasOpenStatus, Promised!HasOpenStatus,
     OpenStatuses, Promised!OpenStatuses, Cancelled, Promised!Cancelled

LEMMA PromisedClose == MarketClose => Promised!MarketClose
  BY DEF MarketClose, Promised!MarketClose, HasOpenStatus, Promised!HasOpenStatus,
     OpenStatuses, Promised!OpenStatuses, Cancelled, Promised!Cancelled,
     IsLimit, Promised!IsLimit

LEMMA PromisedSubmit ==
    ASSUME NEW o \in OrderIds, SubmitOrder(o)
    PROVE  Promised!Submit(o)
  <1> PICK in \in Inputs :
         IF in.type = "market"
         THEN InsertMarket(o, in.user, in.symbol, in.side, in.quantity)
         ELSE InsertLimit(o, in.user, in.symbol, in.side, in.mills, in.quantity)
    BY DEF SubmitOrder
  <1>1. /\ in.user \in Users /\ in.symbol \in Symbols
        /\ in.side \in Sides /\ in.quantity \in Quantities
        /\ in.type # "market" => in.mills \in PriceMills
    BY InputsAssumption
  <1>2. Submit(o)
    BY <1>1 DEF Submit
  <1> QED
    BY <1>2 DEF Submit, Promised!Submit, InsertMarket, Promised!InsertMarket, InsertLimit,
       Promised!InsertLimit, InsertRow, Promised!InsertRow, NewRow, Promised!NewRow,
       StoredPrice, Promised!StoredPrice, NoPrice, Promised!NoPrice, Sides, Promised!Sides

LEMMA PromisedSettle == \A i, r : Settle(i, r) => Promised!Settle(i, r)
  <1> SUFFICES ASSUME NEW i, NEW r PROVE Settle(i, r) <=> Promised!Settle(i, r)
    OBVIOUS
  <1> QED
    BY Zenon DEF Settle, SettleTrade, SettleUnfillable, Settleable, BuyId, SellId, SellerHas,
       BuyerAffords, PairWants, SettleQuantity, CancelRest, MoveCash, AverageCost, AfterFill,
       StatusAfterFill, FillQuantity, Affordable, Requested, Least, Remaining, IsOpen,
       CanMatch, OpenStatuses, NoPrice,
       Promised!Settle, Promised!SettleTrade, Promised!SettleUnfillable,
       Promised!Settleable, Promised!BuyId, Promised!SellId, Promised!SellerHas,
       Promised!BuyerAffords, Promised!PairWants, Promised!SettleQuantity,
       Promised!CancelRest, Promised!MoveCash, Promised!AverageCost, Promised!AfterFill,
       Promised!StatusAfterFill, Promised!FillQuantity, Promised!Affordable,
       Promised!Requested, Promised!Least, Promised!Remaining, Promised!IsOpen,
       Promised!CanMatch, Promised!OpenStatuses, Promised!NoPrice

(* An order's arrival number is the one its hash holds.                    *)
ArrivalNamed ==
    /\ Arrival = [o \in DOMAIN Arrival |-> Arrival[o]]
    /\ \A o : o \in DOMAIN Arrival <=> InBook(o)
    /\ \A o : InBook(o) => Arrival[o] = shown[o].member
    /\ \A k \in Symbols \X Sides : \A e \in book[k] : Arrival[e.id] = e.member

LEMMA ArrivalShown == RedisTyped /\ Indexed => ArrivalNamed
  <1> SUFFICES ASSUME RedisTyped, Indexed PROVE ArrivalNamed
    OBVIOUS
  <1>1. \A o : o \in DOMAIN Arrival <=> InBook(o)
    BY DEF Arrival, InBook
  <1>2. ASSUME NEW o, InBook(o) PROVE Arrival[o] = shown[o].member
    <2> PICK e : e = CHOOSE f \in Entries : f.id = o
      OBVIOUS
    <2>1. e \in Entries /\ e.id = o
      BY <1>2 DEF InBook
    <2>2. Arrival[o] = e.member
      BY <1>1, <1>2 DEF Arrival
    <2>3. PICK k \in Symbols \X Sides : e \in book[k]
      BY <2>1 DEF Entries
    <2> QED BY <2>1, <2>2, <2>3 DEF Indexed
  <1>3. ASSUME NEW k \in Symbols \X Sides, NEW e \in book[k] PROVE Arrival[e.id] = e.member
    BY <1>2, EntryInBook DEF Indexed
  <1>4. Arrival = [o \in DOMAIN Arrival |-> Arrival[o]]
    BY DEF Arrival
  <1> QED BY <1>1, <1>2, <1>3, <1>4 DEF ArrivalNamed

LEMMA ArrivalShownNext == RedisTyped' /\ Indexed' => ArrivalNamed'
  BY ArrivalShown, PTL

(* A settlement is with the best order that rests.                         *)
LEMMA SettlesBest ==
    ASSUME EngineTyped, Known, Indexed, NEW w \in Workers, Scanned(w, FALSE),
           pc[w] = "settle"
    PROVE  /\ local[w].resting \in Promised!Resting
           /\ Promised!Best(job[w], local[w].resting)
  <1> PICK i : i = job[w]
    OBVIOUS
  <1> PICK m : m = local[w].resting
    OBVIOUS
  <1> PICK B : B = Across(w)
    OBVIOUS
  <1>1. Critical(w) /\ sym[w] = orders[i].symbol
    BY DEF Critical, Known, RunKnown
  <1>2. PICK r \in B : r.id = m /\ \A e \in B \ {r} : Rival(w, e.id) => Ahead(r, e)
    BY DEF Scanned
  <1>3. /\ i \in DOMAIN orders
        /\ \A e \in B : /\ InBook(e.id) /\ orders[e.id].side = Opposite(orders[i].side)
                        /\ e.score = Score(orders[e.id])
                        /\ Arrival[e.id] = e.member
        /\ \A o : InBook(o) /\ Rival(w, o) => \E e \in B : e.id = o
    <2>1. <<sym[w], Opposite(orders[job[w]].side)>> \in Symbols \X Sides
      BY <1>1, SidesOfBook
    <2>2. \A e \in B : Arrival[e.id] = e.member
      BY <2>1, ArrivalShown DEF Across, EngineTyped, ArrivalNamed
    <2> QED BY Zenon, <1>1, <2>2, SidesOfBook
  <1>4. orders[i].side \in Sides
    BY <1>3, RowTyped DEF EngineTyped, OrderRow
  <1>5. m \in DOMAIN Arrival
    BY <1>2, <1>3, ArrivalShown DEF EngineTyped, ArrivalNamed
  <1>6. ASSUME NEW o \in DOMAIN Arrival \ {m}, Promised!Counterparty(i, o)
        PROVE  \/ Promised!Cheaper(i, orders[m].price, orders[o].price)
               \/ orders[m].price = orders[o].price /\ Arrival[m] < Arrival[o]
    <2>1. /\ InBook(o) /\ o \in DOMAIN orders /\ IsOpen(orders[o])
          /\ orders[o].symbol = orders[i].symbol /\ orders[o].side # orders[i].side
          /\ orders[o].user # orders[i].user
      BY <1>6, PromisedRules, ArrivalShown DEF EngineTyped, ArrivalNamed
    <2>2. orders[o].side = Opposite(orders[i].side)
      BY <1>4, <2>1, RowTyped DEF EngineTyped, OrderRow, Sides, Opposite
    <2>3. Rival(w, o)
      BY <1>1, <2>1, <2>2 DEF Rival, RowOpen
    <2>4. PICK e \in B : e.id = o
      BY <1>3, <2>1, <2>3
    <2>5. Ahead(r, e)
      BY <1>2, <1>6, <2>3, <2>4
    <2>6. /\ orders[m].price \in Nat /\ orders[o].price \in Nat
      <3>1. m \in DOMAIN orders
        BY DEF Known, RunKnown
      <3> QED BY <2>1, <3>1, RowTyped DEF EngineTyped, OrderRow
    <2>7. /\ r.score = Score(orders[m]) /\ e.score = Score(orders[o])
          /\ orders[m].side = Opposite(orders[i].side)
      BY <1>2, <1>3, <2>4
    <2>8. Arrival[m] = r.member /\ Arrival[o] = e.member
      BY <1>2, <1>3, <2>4
    <2> QED BY <1>4, <2>2, <2>5, <2>6, <2>7, <2>8
            DEF Ahead, Score, Opposite, Sides, Promised!Cheaper
  <1> QED BY <1>5, <1>6 DEF Promised!Best, Promised!Resting

(* A write lets its order come to rest, leave, or stay where it is.        *)
LEMMA WritePromised ==
    ASSUME EngineTyped, EngineTyped', Known, Indexed, Indexed', NEW w \in Workers, Drawn(w),
           SyncWrite(w)
    PROVE  \/ Arrival' = Arrival
           \/ \E o \in OrderIds : Promised!Rest(o) \/ Promised!Leave(o)
  <1> PICK t : t = Head(local[w].changed)
    OBVIOUS
  <1> PICK key : key = <<sym[w], t.row.side>>
    OBVIOUS
  <1> PICK new : new = Entry(t.id, local[w].member, t.row)
    OBVIOUS
  <1> PICK A : A = Arrival
    OBVIOUS
  <1> PICK Z : Z = Arrival'
    OBVIOUS
  <1>1. pc[w] = "write" /\ UNCHANGED ledgerVars
    BY Zenon DEF SyncWrite
  <1>2. /\ t.id \in DOMAIN orders /\ t.id \in OrderIds
        /\ new.id = t.id /\ new.member = local[w].member
        /\ key \in Symbols \X Sides /\ Wrote(t, key, new)
    BY WriteShape
  <1>3. TaskTrue(t) /\ t.row.symbol = sym[w] /\ sym[w] \in Symbols
    BY <1>1, HeadKnown
  <1>4. /\ A = [o \in DOMAIN A |-> A[o]] /\ \A o : o \in DOMAIN A <=> InBook(o)
        /\ \A o : InBook(o) => A[o] = shown[o].member
        /\ \A k \in Symbols \X Sides : \A e \in book[k] : A[e.id] = e.member
    BY ArrivalShown DEF ArrivalNamed, EngineTyped
  <1>5. /\ Z = [o \in DOMAIN Z |-> Z[o]] /\ \A o : o \in DOMAIN Z <=> InBook(o)'
        /\ \A o : InBook(o)' => Z[o] = shown'[o].member
    BY ArrivalShownNext DEF ArrivalNamed, EngineTyped
  <1>13. \A k \in Symbols \X Sides : \A e :
             e \in book'[k] <=> \/ e \in book[k] /\ e.id # t.id
                                \/ t.keep /\ k = key /\ e = new
    BY Zenon, <1>2 DEF Wrote
  <1>14. /\ \A x \in OrderIds : x # t.id => shown'[x] = shown[x]
         /\ t.keep => shown'[t.id] = [member |-> new.member, filled |-> t.row.filled,
                                     status |-> t.row.status]
    BY Zenon, <1>2 DEF Wrote
  <1>6. ASSUME NEW o, o # t.id
        PROVE  /\ InBook(o)' <=> InBook(o)
               /\ InBook(o) => Z[o] = A[o]
    <2>1. InBook(o)' <=> \E k \in Symbols \X Sides : \E e \in book'[k] : e.id = o
      BY DEF InBook, Entries
    <2>2. InBook(o) <=> \E k \in Symbols \X Sides : \E e \in book[k] : e.id = o
      BY DEF InBook, Entries
    <2>3. InBook(o)' <=> InBook(o)
      <3>1. ASSUME NEW k \in Symbols \X Sides, NEW e, e.id = o
            PROVE  e \in book'[k] <=> e \in book[k]
        BY Zenon, <1>2, <1>6, <1>13, <3>1
      <3> QED BY Zenon, <2>1, <2>2, <3>1
    <2>4. InBook(o) => o \in OrderIds
      BY <2>2 DEF EngineTyped, RedisTyped, EntryType
    <2>5. InBook(o) => shown'[o] = shown[o]
      BY Zenon, <1>6, <1>14, <2>4
    <2> QED BY <1>4, <1>5, <2>3, <2>5
  <1>7. InBook(t.id)' <=> t.keep
    <2>1. InBook(t.id)' <=> \E k \in Symbols \X Sides : \E e \in book'[k] : e.id = t.id
      BY DEF InBook, Entries
    <2>2. ASSUME NEW k \in Symbols \X Sides, NEW e, e.id = t.id
          PROVE  e \in book'[k] <=> t.keep /\ k = key /\ e = new
      BY Zenon, <1>13, <2>2
    <2>3. t.keep => new \in book'[key]
      BY Zenon, <1>2, <2>2
    <2>4. InBook(t.id)' => t.keep
      BY Zenon, <2>1, <2>2
    <2>5. t.keep => InBook(t.id)'
      BY Zenon, <1>2, <2>1, <2>3
    <2> QED BY <2>4, <2>5
  <1>8. t.keep => Z[t.id] = local[w].member
    <2> SUFFICES ASSUME t.keep PROVE Z[t.id] = new.member
      BY <1>2
    <2>1. shown'[t.id] = [member |-> new.member, filled |-> t.row.filled, status |-> t.row.status]
      BY Zenon, <1>14
    <2>2. shown'[t.id].member = new.member
      BY <2>1
    <2>3. Z[t.id] = shown'[t.id].member
      BY Zenon, <1>5, <1>7
    <2> QED BY Zenon, <2>2, <2>3
  <1>9. CASE t.keep /\ InBook(t.id)
    <2>1. PICK k \in Symbols \X Sides : \E e \in book[k] : e.id = t.id
      BY <1>9, BookEntry DEF EngineTyped
    <2>2. A[t.id] = local[w].member
      <3> PICK m : m = local[w].member
        OBVIOUS
      <3>1. PICK e \in book[k] : e.id = t.id
        BY <2>1
      <3>2. e.member = m
        BY <1>1, <3>1, DrawnMember
      <3> QED BY <1>4, <3>1, <3>2
    <2>3. DOMAIN A = DOMAIN Z
      BY <1>4, <1>5, <1>6, <1>7, <1>9
    <2>4. \A o \in DOMAIN A : A[o] = Z[o]
      BY <1>4, <1>6, <1>8, <1>9, <2>2
    <2>5. A = Z
      BY <1>4, <1>5, <2>3, <2>4
    <2> QED BY <2>5
  <1>10. CASE t.keep /\ ~InBook(t.id)
    <2>1. IsLimit(orders[t.id])
      BY <1>3, <1>10 DEF TaskTrue, SameOrder, IsLimit
    <2>2. DOMAIN Z = DOMAIN A \cup {t.id}
      BY <1>4, <1>5, <1>6, <1>7, <1>10
    <2>3. \A o \in DOMAIN A : Z[o] = A[o]
      BY <1>4, <1>6, <1>10
    <2>4. ASSUME NEW o \in DOMAIN A, orders[o].symbol = orders[t.id].symbol
          PROVE  A[o] < Z[t.id]
      <3> PICK m : m = local[w].member
        OBVIOUS
      <3>1. shown[t.id].member = 0
        BY Zenon, <1>2, <1>10 DEF Indexed
      <3>2. \A k \in Symbols \X Sides : k[1] = sym[w] => \A e \in book[k] : e.member < m
        BY <1>1, <1>10, <3>1 DEF Drawn
      <3>3. PICK k \in Symbols \X Sides : \E e \in book[k] : e.id = o
        BY <1>4, BookEntry DEF EngineTyped
      <3>4. PICK e \in book[k] : e.id = o
        BY <3>3
      <3>5. orders[t.id].symbol = sym[w]
        BY <1>3 DEF TaskTrue, SameOrder
      <3>6. k[1] = sym[w]
        BY <2>4, <3>4, <3>5 DEF Known, BookPlaced, Placed
      <3> QED BY <1>4, <1>8, <1>10, <3>2, <3>4, <3>6
    <2>5. t.id \notin DOMAIN A
      BY <1>4, <1>10
    <2>6. Promised!IsLimit(orders[t.id])
      BY <2>1, PromisedRules
    <2>7. Promised!Rest(t.id)
      BY Zenon, <1>1, <1>2, <2>2, <2>3, <2>4, <2>5, <2>6
         DEF Promised!Rest, Promised!Resting, ledgerVars, Promised!ledgerVars
    <2> QED BY <1>2, <2>7
  <1>11. CASE ~t.keep /\ InBook(t.id)
    <2>1. ~IsOpen(orders[t.id])
      <3>1. PICK k \in Symbols \X Sides : \E e \in book[k] : e.id = t.id
        BY <1>11, BookEntry DEF EngineTyped
      <3>2. IsLimit(orders[t.id])
        BY <3>1 DEF Known, BookPlaced, Placed
      <3> QED BY Zenon, <1>2, <1>3, <1>11, <3>2 DEF TaskTrue, SameOrder, IsLimit, RowOpen
    <2>2. DOMAIN Z = DOMAIN A \ {t.id}
      BY <1>4, <1>5, <1>6, <1>7, <1>11
    <2>3. Z = [o \in DOMAIN A \ {t.id} |-> A[o]]
      BY <1>4, <1>5, <1>6, <2>2
    <2>4. ~Promised!IsOpen(orders[t.id]) /\ t.id \in DOMAIN A
      BY <1>4, <1>11, <2>1, PromisedRules
    <2>5. Promised!Leave(t.id)
      BY <1>1, <2>3, <2>4
         DEF Promised!Leave, Promised!Resting, ledgerVars, Promised!ledgerVars
    <2> QED BY Zenon, <1>2, <2>5
  <1>12. CASE ~t.keep /\ ~InBook(t.id)
    <2>1. DOMAIN A = DOMAIN Z
      BY <1>4, <1>5, <1>6, <1>7, <1>12
    <2>2. \A o \in DOMAIN A : A[o] = Z[o]
      BY <1>4, <1>6, <1>12
    <2>3. A = Z
      BY <1>4, <1>5, <2>1, <2>2
    <2> QED BY <2>3
  <1> QED BY <1>9, <1>10, <1>11, <1>12

LEMMA StepPromised ==
    ASSUME Deletable = {}, EngineTyped, EngineTyped', Known, OrderlyInv(FALSE),
           OrderlyInv(FALSE)', [Next]_vars
    PROVE  [Promised!ExchangeNext]_Promised!exchangeVars
  <1>1. ASSUME UNCHANGED book PROVE Arrival' = Arrival
    BY <1>1 DEF Arrival, Entries
  <1>2. ASSUME Arrival' = Arrival, UNCHANGED ledgerVars
        PROVE  UNCHANGED Promised!exchangeVars
    BY <1>2 DEF Promised!exchangeVars, Promised!ledgerVars, ledgerVars
  <1>3. ASSUME UNCHANGED book, UNCHANGED ledgerVars
        PROVE  UNCHANGED Promised!exchangeVars
    BY <1>1, <1>2, <1>3
  <1>4. ASSUME NEW o \in OrderIds, CancelOpen(o), UNCHANGED book
        PROVE  Promised!ExchangeNext
    BY <1>1, <1>4, PromisedCancel DEF Promised!ExchangeNext
  <1>5. ASSUME NEW o \in OrderIds, SubmitOrder(o) PROVE Promised!ExchangeNext
    BY <1>1, <1>5, PromisedSubmit DEF Promised!ExchangeNext, SubmitOrder, engineVars, redisVars
  <1>6. ASSUME NEW o \in OrderIds, CancelByUser(o) \/ Expire(o) PROVE Promised!ExchangeNext
    BY <1>4, <1>6 DEF CancelByUser, Expire, ExpireLimit, engineVars, redisVars
  <1>7. ASSUME NEW o \in OrderIds, EnqueueMatch(o) \/ RecoverStalled(o)
        PROVE  UNCHANGED Promised!exchangeVars
    BY <1>3, <1>7 DEF EnqueueMatch, RecoverStalled, redisVars
  <1>8. \A o \in OrderIds : ~Delete(o)
    BY DEF Delete
  <1>9. CASE CloseMarket
    BY <1>1, <1>9, PromisedClose DEF Promised!ExchangeNext, CloseMarket, engineVars, redisVars
  <1>10. CASE UNCHANGED vars
    BY <1>3, <1>10 DEF vars, engineVars, redisVars
  <1>11. CASE \E s \in Symbols : DeadLockExpires(s) \/ LiveLockExpires(s)
    BY <1>3, <1>11 DEF DeadLockExpires, LiveLockExpires
  <1>12. ASSUME NEW w \in Workers, Trouble(w) \/ \E o \in OrderIds : TakeJob(w, o)
         PROVE  UNCHANGED Promised!exchangeVars
    BY <1>3, <1>12 DEF Trouble, LockTimeout, Throw, Crash, TakeJob, redisVars
  <1>13. ASSUME NEW w \in Workers, TradePair(w) \/ CloseUnfillable(w)
         PROVE  Promised!ExchangeNext
    <2> PICK i \in OrderIds, r \in OrderIds : i = job[w] /\ r = local[w].resting
      BY <1>13, SettleIds DEF EngineTyped
    <2>1. pc[w] = "settle" /\ Settle(i, r) /\ UNCHANGED book
      BY <1>13 DEF TradePair, CloseUnfillable, Settle, redisVars
    <2>2. r \in Promised!Resting /\ Promised!Best(i, r)
      BY <2>1, SettlesBest DEF OrderlyInv, RunOrderly
    <2>3. Promised!Match(i, r)
      BY <1>1, <2>1, <2>2, PromisedSettle DEF Promised!Match
    <2> QED BY <2>3 DEF Promised!ExchangeNext
  <1>14. ASSUME NEW w \in Workers, SyncWrite(w)
         PROVE  Promised!ExchangeNext \/ UNCHANGED Promised!exchangeVars
    <2>1. \/ Arrival' = Arrival
          \/ \E o \in OrderIds : Promised!Rest(o) \/ Promised!Leave(o)
      BY <1>14, WritePromised DEF OrderlyInv, RunOrderly
    <2>2. UNCHANGED ledgerVars
      BY <1>14 DEF SyncWrite
    <2> QED BY <1>2, <2>1, <2>2 DEF Promised!ExchangeNext
  <1>15. ASSUME NEW w \in Workers, CancelRemainder(w)
         PROVE  Promised!ExchangeNext \/ UNCHANGED Promised!exchangeVars
    <2>1. UNCHANGED book /\ (CancelOpen(job[w]) \/ UNCHANGED ledgerVars)
      BY <1>15 DEF CancelRemainder, redisVars
    <2>2. job[w] \in OrderIds
      BY <1>15 DEF CancelRemainder, EngineTyped, RunsTyped, RunShaped
    <2> QED BY <1>3, <1>4, <2>1, <2>2
  <1>16. ASSUME NEW w \in Workers, Work(w), ~TradePair(w), ~CloseUnfillable(w), ~SyncWrite(w),
                ~CancelRemainder(w)
         PROVE  UNCHANGED Promised!exchangeVars
    <2>1. ~DropMissingEntry(w)
      <3>1. DropMissingEntry(w) => Critical(w)
        BY DEF DropMissingEntry, AtEntry, Critical
      <3> QED BY <3>1, NothingDropped
    <2> QED BY Zenon, <1>3, <1>16, <2>1 DEF Work, Scan, Settlement, AcquireLock, Reload, ReadBook,
           SyncClosedEntry, SkipOwnEntry, ChooseEntry, ScanExhausted, SettleMissing,
           SettleRefused, Announce, SyncRead, RestInBook, ReleaseLock, CompleteJob, FailJob,
           redisVars
  <1> QED BY <1>5, <1>6, <1>7, <1>8, <1>9, <1>10, <1>11, <1>12, <1>13, <1>14, <1>15, <1>16
          DEF Next

(* The engine implements the exchange: whatever crashes, throws or is      *)
(* cancelled meanwhile, a settlement is with the best counterparty that    *)
(* rests at that moment, orders come to rest in the order in which they    *)
(* drew their numbers, and only closed ones leave.                         *)
THEOREM EngineIsExchange ==
    ~LockMayExpire /\ Deletable = {} => (Spec => PriceTimePriority)
  <1> SUFFICES ASSUME ~LockMayExpire, Deletable = {}
               PROVE  Spec => PriceTimePriority
    OBVIOUS
  <1>1. Spec => [](EngineTyped /\ JobsSound /\ Known /\ DealtInv /\ OrderlyInv(FALSE))
    BY EngineOrderly
  <1>2. /\ EngineTyped /\ EngineTyped' /\ Known /\ OrderlyInv(FALSE) /\ OrderlyInv(FALSE)'
        /\ [Next]_vars
        => [Promised!ExchangeNext]_Promised!exchangeVars
    BY StepPromised
  <1>3. Init => Promised!ExchangeInit
    <2> SUFFICES ASSUME Init PROVE Promised!ExchangeInit
      OBVIOUS
    <2>1. Promised!LedgerInit
      BY DEF Init, LedgerInit, Promised!LedgerInit
    <2>2. Entries = {}
      BY DEF Init, Entries
    <2>3. Arrival = [o \in {} |-> 0]
      BY <2>2 DEF Arrival
    <2> QED BY <2>1, <2>3 DEF Promised!ExchangeInit
  <1> QED BY <1>1, <1>2, <1>3, PTL DEF Spec, PriceTimePriority, Promised!ExchangeSpec
=============================================================================
