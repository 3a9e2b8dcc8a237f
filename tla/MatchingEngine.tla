--------------------------- MODULE MatchingEngine ---------------------------
(***************************************************************************)
(* matchOrder and everything under it: worker processes take match jobs    *)
(* from a BullMQ queue, hold a Redis lock per symbol, read the Redis order *)
(* book, settle in Postgres and write the book back.  One action is one    *)
(* round trip to Redis or Postgres; between two of them the API and the    *)
(* scheduler cancel orders in Postgres without touching the book.          *)
(***************************************************************************)
EXTENDS Ledger

CONSTANTS
    Workers,        \* worker processes (concurrency 1 each)
    Inputs,         \* the orders clients submit
    Deletable,      \* rows an operator may delete
    Depth,          \* ZRANGE 0 .. Depth - 1: 100 in the code
    MaxAttempts,    \* attempts of a job: 8 in the code
    MaxFaults,      \* bound: errors thrown by Redis or Postgres calls
    MaxCrashes,     \* bound: worker crashes
    LockMayExpire   \* whether a run may outlive the 30 s TTL of MATCH_LOCK

Free == "free"      \* the lock key does not exist
Dead == "dead"      \* it holds the token of a run that no longer exists
NoOrder == "none"
NoRow == [user |-> "none", status |-> "none"]

ASSUME EngineAssumption ==
    /\ {Free, Dead} \cap Workers = {}
    /\ Depth \in Nat \ {0} /\ MaxAttempts \in Nat \ {0}
    /\ MaxFaults \in Nat /\ MaxCrashes \in Nat
    /\ LockMayExpire \in BOOLEAN
    /\ Deletable \subseteq OrderIds

ASSUME InputsAssumption ==
    \A in \in Inputs :
        /\ in.user \in Users /\ in.symbol \in Symbols
        /\ in.side \in Sides /\ in.quantity \in Quantities
        /\ in.type # "market" => in.mills \in PriceMills

VARIABLES
    book,       \* BIDS:<symbol>, ASKS:<symbol>: sorted sets of entries
    shown,      \* ORDER:<id> hashes: bookMember and the fill shown to clients
    sequence,   \* ORDER_SEQUENCE:<symbol>
    lock,       \* MATCH_LOCK:<symbol>
    jobs,       \* the order-matching queue, a job per order
    confirmed,  \* trade-confirm-<orderId> jobs the notifications queue accepted
    pc, job, sym,       \* of each worker: where it is, its order, its symbol
    local,              \* of each worker: the other variables of matchOrder
    faults, crashes

redisVars == <<book, shown, sequence, lock>>
queueVars == <<jobs, confirmed>>
workerVars == <<pc, job, sym, local>>
budget == <<faults, crashes>>
engineVars == <<redisVars, queueVars, workerVars, budget>>
vars == <<ledgerVars, engineVars>>

Blank ==
    [incoming |-> NoRow, scan |-> {}, resting |-> NoOrder, restingRow |-> NoRow,
     trade |-> 0, drop |-> FALSE, changed |-> <<>>, member |-> 0, next |-> "idle",
     failed |-> FALSE]

NoHash == [member |-> 0, filled |-> 0, status |-> "open"]

Init ==
    /\ LedgerInit
    /\ book = [k \in Symbols \X Sides |-> {}]
    /\ shown = [o \in OrderIds |-> NoHash]
    /\ sequence = [s \in Symbols |-> 0]
    /\ lock = [s \in Symbols |-> Free]
    /\ jobs = [o \in OrderIds |-> [state |-> "none", attempts |-> 0, stalls |-> 0]]
    /\ confirmed = {}
    /\ pc = [w \in Workers |-> "idle"]
    /\ job = [w \in Workers |-> NoOrder]
    /\ sym = [w \in Workers |-> NoOrder]
    /\ local = [w \in Workers |-> Blank]
    /\ faults = 0 /\ crashes = 0

-----------------------------------------------------------------------------
(* The order book.                                                         *)

Opposite(side) == IF side = "buy" THEN "sell" ELSE "buy"

Score(row) == IF row.side = "buy" THEN -row.price ELSE row.price

Entry(o, member, row) == [id |-> o, member |-> member, score |-> Score(row)]

(* Mutant: the newest order first at an equal price.                       *)
AheadNewest(e, f) == e.score < f.score \/ (e.score = f.score /\ e.member > f.member)

(* ZRANGE order: by score, then by the zero-padded sequence in the member. *)
Ahead(e, f) == e.score < f.score \/ (e.score = f.score /\ e.member < f.member)

(* ZRANGE 0 .. Depth - 1: the entries with fewer than Depth ahead of them.  *)
FirstEntries(s, side) ==
    {e \in book[<<s, side>>] : Cardinality({f \in book[<<s, side>>] : Ahead(f, e)}) < Depth}

(* Mutant: a partially filled order no longer counts as open.              *)
BelongsUnfilled(row) == row.status = "open" /\ IsLimit(row) /\ row.price # NoPrice

(* syncOrderBook keeps an order that is open and has a price.              *)
BelongsInBook(row) == IsOpen(row) /\ IsLimit(row) /\ row.price # NoPrice

Task(o, row) == [id |-> o, row |-> row, keep |-> BelongsInBook(row)]
RemoveTask(o, row) == [id |-> o, row |-> row, keep |-> FALSE]

RowOf(o) == IF o \in DOMAIN orders THEN orders[o] ELSE NoRow
RowOpen(o) == o \in DOMAIN orders /\ IsOpen(orders[o])

GoTo(w, label) == pc' = [pc EXCEPT ![w] = label]

(* Run syncOrderBook for each task, then go on at `next`; `me` holds the   *)
(* other variables of matchOrder from now on.                              *)
SyncThen(w, tasks, next, me) ==
    IF tasks = <<>>
    THEN /\ GoTo(w, next)
         /\ local' = [local EXCEPT ![w] = [me EXCEPT !.changed = <<>>, !.next = "idle"]]
    ELSE /\ GoTo(w, "sync")
         /\ local' = [local EXCEPT ![w] = [me EXCEPT !.changed = tasks, !.next = next]]

GoIdle(w) ==
    /\ GoTo(w, "idle")
    /\ job' = [job EXCEPT ![w] = NoOrder]
    /\ sym' = [sym EXCEPT ![w] = NoOrder]
    /\ local' = [local EXCEPT ![w] = Blank]

-----------------------------------------------------------------------------
(* The API and the scheduler.                                              *)

SubmitOrder(o) ==
    /\ \E in \in Inputs :
          IF in.type = "market"
          THEN InsertMarket(o, in.user, in.symbol, in.side, in.quantity)
          ELSE InsertLimit(o, in.user, in.symbol, in.side, in.mills, in.quantity)
    /\ UNCHANGED engineVars

(* The same request goes on to add the order's one job.  Nothing obliges   *)
(* it: an API that dies after the INSERT leaves the order without a job.   *)
EnqueueMatch(o) ==
    /\ o \in issued
    /\ jobs[o].state = "none"
    /\ jobs' = [jobs EXCEPT ![o].state = "waiting"]
    /\ UNCHANGED <<ledgerVars, redisVars, confirmed, workerVars, budget>>

(* The owner cancels.  The handler hands the node-redis client to an       *)
(* engine that calls ioredis methods, so after its UPDATE it throws, and   *)
(* neither the book nor the expiry job is touched.                         *)
CancelByUser(o) == CancelOpen(o) /\ UNCHANGED engineVars

Expire(o) == ExpireLimit(o) /\ UNCHANGED engineVars

CloseMarket == MarketClose /\ UNCHANGED engineVars

Delete(o) == o \in Deletable /\ DeleteOrder(o) /\ UNCHANGED engineVars

-----------------------------------------------------------------------------
(* Starting a job.                                                         *)

(* The worker takes a job and reads its order for the first time.          *)
TakeJob(w, o) ==
    /\ pc[w] = "idle"
    /\ jobs[o].state = "waiting"
    /\ jobs' = [jobs EXCEPT ![o].state = "active"]
    /\ job' = [job EXCEPT ![w] = o]
    /\ IF RowOpen(o)
       THEN GoTo(w, "lock") /\ sym' = [sym EXCEPT ![w] = orders[o].symbol]
       ELSE GoTo(w, "done") /\ UNCHANGED sym
    /\ UNCHANGED <<ledgerVars, redisVars, confirmed, local, budget>>

(* Mutant: SET without NX.                                                 *)
SeizeLock(w) ==
    /\ pc[w] = "lock"
    /\ lock' = [lock EXCEPT ![sym[w]] = w]
    /\ GoTo(w, "reload")
    /\ UNCHANGED <<ledgerVars, book, shown, sequence, queueVars, job, sym, local, budget>>

AcquireLock(w) ==
    /\ pc[w] = "lock"
    /\ lock[sym[w]] = Free
    /\ lock' = [lock EXCEPT ![sym[w]] = w]
    /\ GoTo(w, "reload")
    /\ UNCHANGED <<ledgerVars, book, shown, sequence, queueVars, job, sym, local, budget>>

(* Five seconds of polling found the lock taken: "Stock book is busy".     *)
LockTimeout(w) ==
    /\ pc[w] = "lock"
    /\ lock[sym[w]] # Free
    /\ GoTo(w, "fail")
    /\ UNCHANGED <<ledgerVars, redisVars, queueVars, job, sym, local, budget>>

(* Read the incoming order and test whether to go on.  After a settlement  *)
(* that found a row missing, the resting entry is dropped in between.      *)
Reload(w) ==
    LET me == local[w]
        next == IF RowOpen(job[w]) THEN "range" ELSE "release"
    IN  /\ pc[w] = "reload"
        /\ SyncThen(w, IF me.drop THEN <<RemoveTask(me.resting, me.restingRow)>> ELSE <<>>,
                    next, [me EXCEPT !.incoming = RowOf(job[w]), !.resting = NoOrder,
                                     !.restingRow = NoRow, !.drop = FALSE])
        /\ UNCHANGED <<ledgerVars, redisVars, queueVars, job, sym, budget>>

-----------------------------------------------------------------------------
(* bestOppositeOrder: one ZRANGE, then the entries one by one.             *)

ReadBook(w) ==
    /\ pc[w] = "range"
    /\ GoTo(w, "scan")
    /\ local' = [local EXCEPT ![w].scan =
                     FirstEntries(sym[w], Opposite(local[w].incoming.side))]
    /\ UNCHANGED <<ledgerVars, redisVars, queueVars, job, sym, budget>>

(* The entry the loop has come to, of those it has not looked at yet.      *)
AtEntry(w, e) == pc[w] = "scan" /\ \A f \in local[w].scan : ~Ahead(f, e)

(* The order has no row: take the entry out of the book.                   *)
DropMissingEntry(w) ==
    \E e \in local[w].scan :
        /\ AtEntry(w, e)
        /\ e.id \notin DOMAIN orders
        /\ book' = [book EXCEPT ![<<sym[w], Opposite(local[w].incoming.side)>>] = @ \ {e}]
        /\ local' = [local EXCEPT ![w].scan = @ \ {e}]
        /\ UNCHANGED <<ledgerVars, shown, sequence, lock, queueVars, pc, job, sym, budget>>

(* The order is closed: sync it, which removes it, and look further.       *)
SyncClosedEntry(w) ==
    \E e \in local[w].scan :
        /\ AtEntry(w, e)
        /\ e.id \in DOMAIN orders /\ ~RowOpen(e.id)
        /\ SyncThen(w, <<Task(e.id, orders[e.id])>>, "scan",
                    [local[w] EXCEPT !.scan = @ \ {e}])
        /\ UNCHANGED <<ledgerVars, redisVars, queueVars, job, sym, budget>>

(* Mutant: `break` for `continue`.                                         *)
StopAtOwnEntry(w) ==
    \E e \in local[w].scan :
        /\ AtEntry(w, e)
        /\ RowOpen(e.id) /\ orders[e.id].user = local[w].incoming.user
        /\ local' = [local EXCEPT ![w].scan = {}]
        /\ UNCHANGED <<ledgerVars, redisVars, queueVars, pc, job, sym, budget>>

(* Never trade with yourself.                                              *)
SkipOwnEntry(w) ==
    \E e \in local[w].scan :
        /\ AtEntry(w, e)
        /\ RowOpen(e.id) /\ orders[e.id].user = local[w].incoming.user
        /\ local' = [local EXCEPT ![w].scan = @ \ {e}]
        /\ UNCHANGED <<ledgerVars, redisVars, queueVars, pc, job, sym, budget>>

(* The first open order of someone else, whatever its price: canMatch      *)
(* decides whether to settle with it or to stop matching.                  *)
ChooseEntry(w) ==
    \E e \in local[w].scan :
        /\ AtEntry(w, e)
        /\ RowOpen(e.id) /\ orders[e.id].user # local[w].incoming.user
        /\ IF CanMatch(local[w].incoming, orders[e.id])
           THEN /\ GoTo(w, "settle")
                /\ local' = [local EXCEPT ![w].resting = e.id,
                                 ![w].restingRow = orders[e.id], ![w].scan = {}]
           ELSE GoTo(w, "finish") /\ local' = [local EXCEPT ![w].scan = {}]
        /\ UNCHANGED <<ledgerVars, redisVars, queueVars, job, sym, budget>>

ScanExhausted(w) ==
    /\ pc[w] = "scan" /\ local[w].scan = {}
    /\ GoTo(w, "finish")
    /\ UNCHANGED <<ledgerVars, redisVars, queueVars, job, sym, local, budget>>

-----------------------------------------------------------------------------
(* Settlement, its announcement, and the book afterwards.                  *)

(* Mutant: only the taker is reported to the book.                         *)
TakerTask(rows, i, r) == <<Task(i, rows[i])>>

TradedTasks(rows, i, r) ==
    <<Task(BuyId(i, r), rows[BuyId(i, r)]), Task(SellId(i, r), rows[SellId(i, r)])>>

TradePair(w) ==
    LET i == job[w]
        r == local[w].resting
    IN  /\ pc[w] = "settle"
        /\ SettleTrade(i, r)
        /\ GoTo(w, "publish")
        /\ local' = [local EXCEPT ![w].trade = Len(trades'), ![w].next = "reload",
                                  ![w].changed = TradedTasks(orders', i, r)]
        /\ UNCHANGED <<redisVars, queueVars, job, sym, budget>>

(* The order to blame is reported first, the other one as it was read.     *)
CloseUnfillable(w) ==
    LET i == job[w]
        r == local[w].resting
        blamed == IF orders'[i] # orders[i] THEN i ELSE r
        other == IF blamed = i THEN r ELSE i
    IN  /\ pc[w] = "settle"
        /\ SettleUnfillable(i, r)
        /\ SyncThen(w, <<Task(blamed, orders'[blamed]), Task(other, orders[other])>>,
                    "reload", local[w])
        /\ UNCHANGED <<redisVars, queueVars, job, sym, budget>>

(* A row is gone: report nothing, and drop the resting entry later.        *)
SettleMissing(w) ==
    /\ pc[w] = "settle"
    /\ ~({job[w], local[w].resting} \subseteq DOMAIN orders)
    /\ GoTo(w, "reload")
    /\ local' = [local EXCEPT ![w].drop = TRUE]
    /\ UNCHANGED <<ledgerVars, redisVars, queueVars, job, sym, budget>>

(* The rows are there but no longer match: report both.  One owner: report *)
(* the incoming order.  A resting order without a price: throw.            *)
SettleRefused(w) ==
    LET i == job[w]
        r == local[w].resting
        matching == IsOpen(orders[i]) /\ IsOpen(orders[r]) /\ CanMatch(orders[i], orders[r])
    IN  /\ pc[w] = "settle"
        /\ {i, r} \subseteq DOMAIN orders
        /\ ~Settleable(i, r)
        /\ IF ~matching
           THEN SyncThen(w, <<Task(i, orders[i]), Task(r, orders[r])>>, "reload", local[w])
           ELSE IF orders[i].user = orders[r].user
           THEN SyncThen(w, <<Task(i, orders[i])>>, "reload", local[w])
           ELSE GoTo(w, "release") /\ local' = [local EXCEPT ![w].failed = TRUE]
        /\ UNCHANGED <<ledgerVars, redisVars, queueVars, job, sym, budget>>

(* After the COMMIT: publish the trade, then queue both confirmations,     *)
(* whose job ids hold the order id alone, so a second one is ignored.      *)
Announce(w) ==
    LET t == local[w].trade
        fresh == {o \in {trades[t].buy, trades[t].sell} : \A c \in confirmed : c.order # o}
    IN  /\ pc[w] = "publish"
        /\ confirmed' = confirmed \cup {[order |-> o, trade |-> t] : o \in fresh}
        /\ GoTo(w, "sync")
        /\ local' = [local EXCEPT ![w].trade = 0]
        /\ UNCHANGED <<ledgerVars, redisVars, jobs, job, sym, budget>>

(* Mutant: a new sequence number for every sync.                           *)
NeedsFreshMember(task) == task.keep

(* syncOrderBook and removeBookEntry: read the member, or draw a number    *)
(* for a new one, then one MULTI.                                          *)
NeedsMember(task) == task.keep /\ shown[task.id].member = 0

SyncRead(w) ==
    LET task == Head(local[w].changed)
        draw == NeedsMember(task)
        s == task.row.symbol
    IN  /\ pc[w] = "sync"
        /\ sequence' = IF draw THEN [sequence EXCEPT ![s] = @ + 1] ELSE sequence
        /\ GoTo(w, "write")
        /\ local' = [local EXCEPT ![w].member = IF draw THEN sequence[s] + 1
                                                ELSE shown[task.id].member]
        /\ UNCHANGED <<ledgerVars, book, shown, lock, queueVars, job, sym, budget>>

SyncWrite(w) ==
    LET me == local[w]
        task == Head(me.changed)
        row == task.row
        others == {e \in book[<<row.symbol, row.side>>] : ~(e.id = task.id /\ e.member = me.member)}
        put == IF task.keep THEN {Entry(task.id, me.member, row)} ELSE {}
    IN  /\ pc[w] = "write"
        /\ book' = [book EXCEPT ![<<row.symbol, row.side>>] = others \cup put]
        /\ shown' = [shown EXCEPT ![task.id] =
              IF task.keep
              THEN [member |-> me.member, filled |-> row.filled, status |-> row.status]
              ELSE NoHash]
        /\ SyncThen(w, Tail(me.changed), me.next, [me EXCEPT !.member = 0])
        /\ UNCHANGED <<ledgerVars, sequence, lock, queueVars, job, sym, budget>>

(* Nothing more to match: a market order loses its remainder, a limit      *)
(* order goes to the book as it was last read.                             *)
CancelRemainder(w) ==
    LET o == job[w]
    IN  /\ pc[w] = "finish" /\ ~IsLimit(local[w].incoming)
        /\ IF HasOpenStatus(o)
           THEN CancelOpen(o) /\ SyncThen(w, <<Task(o, orders'[o])>>, "release", local[w])
           ELSE GoTo(w, "release") /\ UNCHANGED <<ledgerVars, local>>
        /\ UNCHANGED <<redisVars, queueVars, job, sym, budget>>

RestInBook(w) ==
    /\ pc[w] = "finish" /\ IsLimit(local[w].incoming)
    /\ SyncThen(w, <<Task(job[w], local[w].incoming)>>, "release", local[w])
    /\ UNCHANGED <<ledgerVars, redisVars, queueVars, job, sym, budget>>

(* The lock is deleted only if it still holds this run's token.            *)
ReleaseLock(w) ==
    /\ pc[w] = "release"
    /\ lock' = IF lock[sym[w]] = w THEN [lock EXCEPT ![sym[w]] = Free] ELSE lock
    /\ GoTo(w, IF local[w].failed THEN "fail" ELSE "done")
    /\ UNCHANGED <<ledgerVars, book, shown, sequence, queueVars, job, sym, local, budget>>

-----------------------------------------------------------------------------
(* How BullMQ ends, retries and recovers a job.                            *)

CompleteJob(w) ==
    /\ pc[w] = "done"
    /\ jobs' = [jobs EXCEPT ![job[w]].state = "completed"]
    /\ GoIdle(w)
    /\ UNCHANGED <<ledgerVars, redisVars, confirmed, budget>>

(* Mutant: one attempt too many.                                           *)
FailJobLate(w) ==
    LET made == jobs[job[w]].attempts + 1
    IN  /\ pc[w] = "fail"
        /\ jobs' = [jobs EXCEPT ![job[w]].attempts = made,
              ![job[w]].state = IF made <= MaxAttempts THEN "waiting" ELSE "failed"]
        /\ GoIdle(w)
        /\ UNCHANGED <<ledgerVars, redisVars, confirmed, budget>>

FailJob(w) ==
    LET made == jobs[job[w]].attempts + 1
    IN  /\ pc[w] = "fail"
        /\ jobs' = [jobs EXCEPT ![job[w]].attempts = made,
              ![job[w]].state = IF made < MaxAttempts THEN "waiting" ELSE "failed"]
        /\ GoIdle(w)
        /\ UNCHANGED <<ledgerVars, redisVars, confirmed, budget>>

LoseLock(w) ==
    lock' = [s \in Symbols |-> IF lock[s] = w THEN Dead ELSE lock[s]]

(* A Redis or Postgres call throws.  An open transaction rolls back; a     *)
(* throw while announcing comes after the COMMIT.  `finally` releases the  *)
(* lock unless it is that call that throws.                                *)
Throw(w) ==
    /\ pc[w] \notin {"idle", "done", "fail"}
    /\ faults < MaxFaults
    /\ faults' = faults + 1
    /\ IF pc[w] \in {"lock", "release"}
       THEN GoTo(w, "fail") /\ LoseLock(w) /\ UNCHANGED local
       ELSE /\ GoTo(w, "release")
            /\ local' = [local EXCEPT ![w].failed = TRUE]
            /\ UNCHANGED lock
    /\ UNCHANGED <<ledgerVars, book, shown, sequence, queueVars, job, sym, crashes>>

(* The process dies; its lock stays until the TTL and its job looks        *)
(* active until the stalled-job check.                                     *)
Crash(w) ==
    /\ pc[w] # "idle"
    /\ crashes < MaxCrashes
    /\ crashes' = crashes + 1
    /\ LoseLock(w)
    /\ GoIdle(w)
    /\ UNCHANGED <<ledgerVars, book, shown, sequence, queueVars, faults>>

(* A job may stall once; the second time it fails.                         *)
RecoverStalled(o) ==
    /\ jobs[o].state = "active"
    /\ \A w \in Workers : job[w] # o
    /\ jobs' = [jobs EXCEPT ![o].stalls = @ + 1,
          ![o].state = IF jobs[o].stalls = 0 THEN "waiting" ELSE "failed"]
    /\ UNCHANGED <<ledgerVars, redisVars, confirmed, workerVars, budget>>

(* Mutant: SET without PX, a dead run's lock stays for good.               *)
DeadLockStays(s) == FALSE

DeadLockExpires(s) ==
    /\ lock[s] = Dead
    /\ lock' = [lock EXCEPT ![s] = Free]
    /\ UNCHANGED <<ledgerVars, book, shown, sequence, queueVars, workerVars, budget>>

(* Nothing renews the lock: a run longer than 30 s goes on without it.     *)
LiveLockExpires(s) ==
    /\ LockMayExpire
    /\ lock[s] \in Workers
    /\ lock' = [lock EXCEPT ![s] = Free]
    /\ UNCHANGED <<ledgerVars, book, shown, sequence, queueVars, workerVars, budget>>

-----------------------------------------------------------------------------
Scan(w) ==
    \/ DropMissingEntry(w) \/ SyncClosedEntry(w) \/ SkipOwnEntry(w)
    \/ ChooseEntry(w) \/ ScanExhausted(w)

Settlement(w) ==
    TradePair(w) \/ CloseUnfillable(w) \/ SettleMissing(w) \/ SettleRefused(w)

(* The steps of a worker that has a job.                                   *)
Work(w) ==
    \/ AcquireLock(w) \/ Reload(w) \/ ReadBook(w) \/ Scan(w) \/ Settlement(w)
    \/ Announce(w) \/ SyncRead(w) \/ SyncWrite(w)
    \/ CancelRemainder(w) \/ RestInBook(w) \/ ReleaseLock(w)
    \/ CompleteJob(w) \/ FailJob(w)

Trouble(w) == LockTimeout(w) \/ Throw(w) \/ Crash(w)

Next ==
    \/ \E o \in OrderIds :
          \/ SubmitOrder(o) \/ EnqueueMatch(o) \/ CancelByUser(o) \/ Expire(o)
          \/ Delete(o) \/ RecoverStalled(o)
    \/ CloseMarket
    \/ \E w \in Workers : Work(w) \/ Trouble(w) \/ (\E o \in OrderIds : TakeJob(w, o))
    \/ \E s \in Symbols : DeadLockExpires(s) \/ LiveLockExpires(s)

Spec == Init /\ [][Next]_vars

(* A worker goes on with its job and takes another when one waits; BullMQ  *)
(* finds stalled jobs; Redis expires the lock of a dead run.  Clients, the *)
(* scheduler and failures owe nothing.                                     *)
FairSpec ==
    /\ Spec
    /\ WF_vars(\E w \in Workers, o \in OrderIds : TakeJob(w, o))
    /\ \A w \in Workers : WF_vars(Work(w))
    /\ \A o \in OrderIds : WF_vars(RecoverStalled(o))
    /\ \A s \in Symbols : WF_vars(DeadLockExpires(s))

-----------------------------------------------------------------------------
(* Type invariant.                                                         *)

Labels ==
    {"idle", "lock", "reload", "range", "scan", "settle", "publish", "sync", "write",
     "finish", "release", "done", "fail"}

EngineTypeOK ==
    /\ LedgerTypeOK
    /\ \A k \in Symbols \X Sides : \A e \in book[k] :
          e.id \in OrderIds /\ e.member \in Nat /\ e.score \in Int
    /\ shown \in [OrderIds -> [member : Nat, filled : Nat, status : Statuses]]
    /\ sequence \in [Symbols -> Nat]
    /\ lock \in [Symbols -> Workers \cup {Free, Dead}]
    /\ jobs \in [OrderIds -> [state : {"none", "waiting", "active", "completed", "failed"},
                             attempts : 0 .. MaxAttempts, stalls : 0 .. MaxCrashes]]
    /\ confirmed \subseteq [order : OrderIds, trade : Nat]
    /\ pc \in [Workers -> Labels]
    /\ job \in [Workers -> OrderIds \cup {NoOrder}]
    /\ sym \in [Workers -> Symbols \cup {NoOrder}]
    /\ faults \in 0 .. MaxFaults /\ crashes \in 0 .. MaxCrashes

-----------------------------------------------------------------------------
(* Safety.                                                                 *)

Entries == UNION {book[k] : k \in Symbols \X Sides}
InBook(o) == \E e \in Entries : e.id = o

(* Between acquireStockLock and releaseStockLock.                          *)
Critical(w) == pc[w] \notin {"idle", "lock", "done", "fail"}

(* MATCH_LOCK serializes the work on a symbol: two runs are never between  *)
(* acquireStockLock and releaseStockLock of one symbol, whatever crashes   *)
(* and whichever calls throw.                                              *)
OneRunPerSymbol ==
    \A v, w \in Workers :
        v # w /\ Critical(v) /\ Critical(w) => sym[v] # sym[w]

(* The book and the order hashes name each other: one entry per order, on  *)
(* the order's own side, with the member its hash holds; so that           *)
(* removeBookEntry, which finds the entry through the hash, never leaves   *)
(* an orphan.  Only limit orders are there.                                *)
BookIndexed ==
    /\ \A k \in Symbols \X Sides : \A e \in book[k] :
          /\ shown[e.id].member = e.member
          /\ e.id \in DOMAIN orders =>
                /\ k = <<orders[e.id].symbol, orders[e.id].side>>
                /\ IsLimit(orders[e.id])
                /\ e.score = Score(orders[e.id])
    /\ \A o \in DOMAIN orders : shown[o].member # 0 => InBook(o)

(* No liquidity is lost: an order whose match job has ended well and that  *)
(* is still open rests in the book, where takers find it; so a market      *)
(* order, which never rests, does not outlive its job.                     *)
NoLostLiquidity ==
    \A o \in DOMAIN orders :
        jobs[o].state = "completed" /\ IsOpen(orders[o]) => IsLimit(orders[o]) /\ InBook(o)

(* The book is never left crossed: of two open orders of different users   *)
(* that could trade, one has a job that has not completed, so a match is   *)
(* still to be tried unless that job failed for good or was never queued.  *)
NoMissedMatch ==
    \A a, b \in DOMAIN orders :
        /\ IsOpen(orders[a]) /\ IsOpen(orders[b])
        /\ orders[a].user # orders[b].user
        /\ CanMatch(orders[a], orders[b])
        => \E o \in {a, b} : jobs[o].state # "completed"

(* Clients see the truth: when nothing runs on its symbol and no job has   *)
(* failed half-way, an open order's hash shows its current fill.           *)
BookShowsFills ==
    \A o \in DOMAIN orders :
        /\ IsOpen(orders[o]) /\ InBook(o)
        /\ \A w \in Workers : ~(Critical(w) /\ sym[w] = orders[o].symbol)
        => shown[o].filled = orders[o].filled /\ shown[o].status = orders[o].status

(* Liveness: every order that has a job is dealt with in the end.  It is   *)
(* closed, or rests in the book, or its job used up its attempts; in       *)
(* particular the matching loop terminates and a crashed run is taken up   *)
(* again.                                                                  *)
EveryOrderHandled ==
    \A o \in OrderIds :
        jobs[o].state = "waiting" ~>
            ~RowOpen(o) \/ InBook(o) \/ jobs[o].state = "failed"

(* The orders that rest, each with the number its entry drew.              *)
Arrival == [o \in {e.id : e \in Entries} |-> (CHOOSE e \in Entries : e.id = o).member]

(* Price-time priority, as the abstract exchange states it.                *)
Promised == INSTANCE Exchange WITH rank <- Arrival

PriceTimePriority == Promised!ExchangeSpec

-----------------------------------------------------------------------------
(* What the comments of the code say and a run refutes.                    *)

(* orders.controller.js: a cancelled order disappears from the book        *)
(* immediately, with the cancel request.                                   *)
CancelLeavesBook ==
    [][\A o \in OrderIds : CancelByUser(o) => ~InBook(o)']_vars

(* notifications.queue.js: a trade confirmation is queued after every      *)
(* trade, for the buyer and for the seller.                                *)
EveryTradeConfirmed ==
    \A n \in DOMAIN trades :
        \/ \A o \in {trades[n].buy, trades[n].sell} : [order |-> o, trade |-> n] \in confirmed
        \/ \E w \in Workers : local[w].trade = n
=============================================================================
