# Stockey in TLA+

A model of the order path of Stockey (how an order enters, is matched, settled,
shown, cancelled and expired), of the e-mails that follow from it, of the accounts
and sessions of those who use it, of the bots that trade on it, and of what the
dashboard shows of the market. The modules are translated from the code under
`src/`; paths below are relative to it. `PROJECT.json` maps every definition to
the lines it stands for.

## The system

| Component | State it keeps | Operations |
| --- | --- | --- |
| API (`api/src/server.js`) | none of its own; Postgres, Redis, BullMQ queues | submit, cancel and list orders; accounts, sessions, one-time passwords; market data; Socket.IO relay |
| Order-matching worker (`api/src/queues/order-matching.worker.js`) | BullMQ queue `order-matching`, Redis book, symbol locks | `matchOrder`, `settle`, `syncOrderBook` of `matching-engine.js` |
| Scheduler worker (`scheduler.worker.js`) | BullMQ queue `scheduled-jobs`, table `order_expiry_jobs` | market open, market close, order expiry |
| Notifications worker (`notifications.worker.js`) | queue `notifications`, table `notification_log`, cached mail transporter | trade confirmations, OTP mails, daily summaries |
| Postgres | `users`, `orders`, `trades`, `portfolio_holdings`, `refresh_tokens`, ... | transactions of the above |
| Redis | `BIDS:`/`ASKS:` sorted sets, `ORDER:` hashes, `ORDER_SEQUENCE:`, `MATCH_LOCK:`, `OTP:` keys, pub/sub | one command or MULTI at a time |
| Socket.IO relay (`api/src/socket.js`, `server.js`) | counters per address, rooms | caps connections, joins clients to symbols, hands on what Redis announces |
| Bots (`bots/src`) | an API session, fair values, cached market data and a price history each | seed an account and its shares, log in, read the market, submit orders on a timer |
| Front end (`frontend/src`) | what it shows | a client of the API and of the relay |

An order's way through it: the API INSERTs a row (`ON CONFLICT` on the
idempotency key), adds a job `match-<id>`, and for a limit order adds a delayed
job `order-expiry-<id>` and its tracking row. A worker takes the match job, locks
the symbol in Redis, scans the opposite side of the Redis book, and settles in a
Postgres transaction under row locks; then it publishes, queues confirmations,
writes the book and starts, without awaiting it, the cleanup of the expiry jobs
of closed orders. Meanwhile the owner may cancel, the scheduler may expire the
order or close the market, and any process may die. **Postgres is the authority;
the book in Redis is a cache** that may be wrong at any moment, and what makes
the system correct is that a settlement re-checks everything under its locks.

A settlement and the scheduler add jobs to `notifications`, whose worker mails
users and keeps an audit row of every attempt. Whoever orders has a session: a
15-minute access token and a refresh token in a cookie, which `rotateSession`
replaces at each refresh. Only the bots refresh; the front end never calls
`/auth/refresh` and logs in again. An account is made by registering or by a first
Google sign-in, which links an account of the same address if there is one; a
six-digit code by mail confirms an action.

The dashboard loads the stock, the trades and the book of the selected symbol in
one `Promise.all` that nothing cancels, and prepends the trades its socket brings.
A bot's timer starts a tick whether or not the one before has ended.

What is hard here: stale reads between Redis and Postgres; two runs on a symbol
when a lock expires; crashes between INSERT, enqueue, COMMIT and book writes;
retries of jobs that half happened; overlapping or repeated requests with one
key; cleanups that race the scheduling they undo; mails that are sent and not
acknowledged; refreshes that overlap on one token; sign-ins that link and create
the same account; a code and its counter read and written in separate calls;
answers that arrive after the selection they were asked for; integer and cent
rounding in fills, averages and quotes; nobody reserving cash or shares.
`PROJECT.json` lists these as hazards, with the properties that would catch each.
Where the code itself is exposed and no property that holds could say otherwise, a hazard has
none but a note, and Findings tells what happens: a scan of own entries only, a publish that
throws, a job id that is forgotten, a bot signed out by its own refresh, a seeding cut
off. In four more, neither code nor comments promise anything: a market close has no
time bound, so that a late or repeated one also cancels orders placed after it; an order
whose request died before its match job is acknowledged to the retry and never matched;
a page refused at the cap of sockets does not try again; a load that ends late replaces
what is on show.

## Modules

| Module | Models | Extends |
| --- | --- | --- |
| `OrderRules` | the pure rules: open, match, quantity, status, average price | Integers |
| `Ledger` | the Postgres tables and every transaction on them, one action each | `OrderRules` |
| `Exchange` | abstract: price-time priority over the orders that rest | `Ledger` |
| `MatchingEngine` | workers, symbol lock, Redis book, job queue, failures; one action per round trip | `Ledger` |
| `OrderIntake` | submit and cancel handlers, idempotency keys, scheduled jobs and their worker | `Ledger` |
| `Notifications` | enqueue helpers, `notifications` queue, worker, mailer, `notification_log` | |
| `Sessions` | refresh tokens, rotation under row locks, clients and their cookie jars | |
| `Accounts` | the `users` table, register, login and Google sign-in, one-time codes; one action per query or Redis call | |
| `Strategies` | the walk of a fair value and the four strategies, as sets of what the random draws can give | Integers |
| `Bots` | one bot: seeding, sign-in, overlapping ticks, the sending of orders, lives of its process | `Strategies` |
| `MarketView` | one dashboard: loads, live trades, selection, over the trade tape, the reader of the book and the relay | |
| `LedgerProofs`, `EngineProofs`, `IntakeProofs`, `NotificationsProofs`, `SessionsProofs`, `AccountsProofs`, `BotsProofs`, `MarketViewProofs` | theorems | the above |
| `LedgerMC`, `MatchingEngineMC`, `OrderIntakeMC`, `NotificationsMC`, `SessionsMC`, `AccountsMC`, `BotsMC`, `MarketViewMC` | instances for TLC | the above |

`Ledger` is at once a component and the abstract specification of the two
components that run its transactions: `MatchingEngine` and `OrderIntake` call
its actions and add the state around them, and both are proved to implement it.
`Exchange` is the second abstract specification: `MatchingEngine` instantiates
it as `Promised`, mapping the sequence number of an order's entry (`Arrival`) to its
`rank`, and is proved to implement it as long as no run outlives its lock.

### Ledger

`orders`, `balance`, `shares`, `avgCost` and `trades` are the columns of the same
meaning (money in cents); `issued` records used UUIDs. `SettleTrade` and
`SettleUnfillable` are the two outcomes of `settle()` that write; `Settleable` is
what it re-checks. `CancelOpen` is the `UPDATE` of the engine and of the API,
`ExpireLimit` and `MarketClose` those of the scheduler. `DeleteOrder` is not in
any handler; the integration tests delete rows and the engine has code for
missing ones. A transaction is one action because it holds the rows' locks from
its first read on; that Postgres may abort one in a deadlock is not a step here,
but a thrown call in the modules above.

Submitted prices are in tenths of a cent, so that the rounding of
`NUMERIC(15, 2)` (`StoredPrice`) is seen. `INTEGER` columns are not capped: the
quantities in reach (orders of at most a million) need thousands of fills to
overflow a holding.

### MatchingEngine

`pc[w]` is the next call a worker makes, `local[w]` the variables of
`matchOrder` and `bestOppositeOrder`, rows it read included, so that what it
knows may be stale; the entries still to scan are a set of which `Scan` takes the
first. `book` and `shown` are the sorted sets and hashes; `shown`
keeps the member and the fill. A round trip that cannot change what a later step
does is merged with its neighbour: `Announce` stands for the publish and the two
`enqueueTradeConfirmation` calls. `Throw` is an exception of any Redis or
Postgres call, `Crash` the death of a process (its lock becomes `Dead` until the
TTL, its job stays active until BullMQ's stalled check), `LiveLockExpires` a run
that outlives the 30 s of `MATCH_LOCK`. BullMQ is external: attempts, stalled
jobs (one recovery) and ignored duplicate ids are modelled from its use; that it
forgets old completed jobs (`removeOnComplete`) is not.

`SubmitOrder` and `EnqueueMatch` are separate, as the two calls are. `CancelByUser`
stops after the `UPDATE`, since the handler throws there (see Findings).

### OrderIntake

`stage[r]` is the next call of the handler of request `r`. `Replay` merges the
refused INSERT and the SELECT after it. A request that dies before its INSERT has
done nothing; after it, `RequestFails`. `timer` is the set of `order-expiry-<id>`
jobs, `tracked` the table of them, `cleanup` the progress of
`cancelOrderExpiryJob`. The engine appears only through its transactions on
orders that were enqueued. Time is counted in half days that end or begin at a
close (10:00 UTC): enough for which close a timer is for and what a retried close
sees. `Tick` waits for a close that is being worked on, i.e. a close is assumed
to be finished within half a day. A scheduler run that throws and one that stalls
are the same step, `JobFails`.

### Notifications

A member of `Calls` is one call of an enqueue helper; `JobId` gives the job id
that the helper builds, with a fresh one for each one-time password. `jobs`,
`ended` and `TakeJob` are BullMQ as the code uses it: priorities, attempts, a
backoff, one recovery of a stalled job, archives that drop their oldest job
(`removeOnComplete`, `removeOnFail`), and an add ignored while the queue still
has the job id. `at[w]` is the next round trip of the handler in slot `w`;
`LogMail` writes the audit row and swallows the error of doing so, as
`logNotification` does. `transporter[p]` is the state of the promise cached in
`_transporterPromise`: once rejected it stays so until the process restarts,
which is why `Restart` exists. `SendMail` has the outcome that hurts, a mail the
server took and whose answer was lost. `excused` is history: runs that may have
mailed with nobody knowing. The order of equal priorities is left open.

### Sessions

`rows` is `refresh_tokens`; `login` is history, the token a chain of rotations
started from. `rotateSession` is split at its statements: `LockToken` and
`LockUser` are the `SELECT ... FOR UPDATE`, which locks the rows of both joined
tables one after the other, `Rotate` and `RevokeAll` the two branches,
`Commit` the `COMMIT` and what it makes visible; `Written` says what. `holds`
are row locks; `BreakDeadlock` is Postgres aborting one of two transactions that
wait for each other. `LogIn` waits for the user's locked row because of the foreign
key of its INSERT. `Receive` is `api-client.js`: a request without an answer is
repeated as it was, and cookies with an empty value do not clear the jar. Time is
counted in lifetimes of an access token.

### Accounts

A member of `Calls` is one request; `Asks` says what its client asks for. `at[c]`
is the next query or Redis call of its handler, `read`, `account` and `code` its
variables, so that what a request read may be stale when it uses it. `InsertUser`
and `CreateAccount` end at the unique constraint on the address, `LinkAccount` at
the one on the Google identity. The session that `IssueSession` opens is the
subject of `Sessions`. `otp` and `attempts` are the two Redis keys of a user, each
with its own TTL: `StoreCode`, `ResetAttempts` and `MailCode` are the three calls
of sending, `CheckAttempts`, `LoadCode`, `CountAttempt`, `LimitAttempts`,
`DropCode` and `ClearAttempts` those of verifying. `Fail` ends a request where it
stands, be it a call that throws or a process that dies. Codes are numbered in the
order they are stored, so two never collide by chance; 0 is a wrong guess.
`before[c]` is history: the requests answered when `c` came in.

### Strategies and Bots

Prices are in mills, since the walk of a fair value is kept on that grid, and
fractions in basis points. A strategy is the set of orders it may place for a fair
value and a history (`Decisions`), so every random draw is covered. A drift may be
any fraction, negative ones below -1 included. As in `config.js`, the variance is at
most 1 and sizes have no upper bound; above a variance of a half a quote can round
to a price of 0.

`stage[t]` is what tick `t` waits for: market data, the answer to an order, a
refreshed token. Ticks share `fair`, `market`, `history` and `token`. A key is
named by the tick and the number of the draw: `placeOrder` draws one, and a second
one when a 401 makes the tick sign in again. `working` are requests the API still
handles although their client has given up on them; `lost` is history. `Die` is
a stop or a crash at any point, seeding included. The refresh of a token under
races is the subject of `Sessions`; here it gives a new one.

### MarketView

A load is a record of what its two requests have read so far. The tape is read in
one query. The book is read as `realtime.controller.js` does it: the index of one
side, of the other, then one hash per entry, so that it may mix moments. Of an index
it reads the first `BookDepth` members (100 in the code); `Rank` orders those of
a side as score and member do. `Apply`
is the `.then` of `Promise.all`: all of it or, if a request failed, nothing
(`Abandon`). `Select` closes the socket and starts a load; loads under way are
not cancelled, and the one that ends last is shown. `Relay` hands a
trade to the page if its socket is in the symbol's room; `Connect` and `SeeClose`
are the cap per address with its count, which falls only when the relay sees the
close. The exchange is an environment: trades commit, entries of the book change.

`slipped`, `tapeOf`, `bookHad` and `bookBehind` are history, the last the orders that
rested and were beyond that depth when the index was read. The page keeps its book between
loads, since no message the engine publishes has one.

## What TLC checks

| Run | Instance | What it shows |
| --- | --- | --- |
| `ledger` | 2 users (one short of shares, one of cash), 3 orders, prices that round together and apart, quantities 1 and 3 | no overdraft, statuses agree with fills, a pair trades once, fills = trades, books balance, average prices stay within the prices paid |
| `engine_priority` | 1 worker, 3 orders out of 5 inputs, concurrent cancels, expiries, closes | implements `Exchange` (price-time priority); no liquidity lost (a market order included), no match missed, the book shows true fills |
| `engine_crash` | 2 workers, 2 orders (two limit orders that cross, or one and a market order), a crash at any step, 2 attempts | types, one run per symbol, book and hashes agree, no match missed by overlapping runs; every queued order is handled in the end |
| `engine_hostile` | 2 workers, 2 orders, a live lock may expire, one thrown call, rows deleted | closed orders stay closed |
| `order_intake` | 4 requests (3 with one key), 2 orders, before and after a Friday's close, 1 failing scheduler run | one order per key, an accepted order keeps its timer and the timer is for the next close, nothing outlives its close; every limit order ends |
| `notifications` | 1 process with 2 slots, 4 calls with 3 job ids (a summary is asked for twice), 2 attempts, archives of 1 job, 1 fault | further mails have one of three causes, reports are true, one test account per start; every job ends |
| `sessions` | 1 user, a bot with 2 overlapping ticks, a second instance of it, a browser, 2 logins, 2 faults, 1 repeat | one unrevoked token per login, a session breaks only by expiry, reuse or a lost answer, a reuse leaves no session; a refresh ends |
| `accounts` | 2 addresses, 2 passwords, 2 Google identities, 12 requests of which a plan makes a few, codes for 2 actions, 2 attempts; 1 fault, or none and one more request | users get back into their account, a code is used once unless verifications overlap, the latest code works, a counter without a TTL counts no more than the requests, dead or alive, that have not set it |
| `bots` | 2 symbols, last prices of 1 and 4 cents, a drift by a half and none; each strategy in the scenario that is hard for it: restarts, repeats after lost answers, overlapping ticks | every price is in whole cents and at least one, a decision becomes two orders only in one named way, seed shares are there |
| `market_view` | 2 symbols, 3 orders of which 2 share a side, a snapshot of 1 entry a side, a tape of 2 trades, a cap of 1 socket, 2 loads at once; 3 trades, or selections and an order, or 3 changes of the book, with 1 fault | types and the relay's count, the page shows the selected symbol, a trade is missing or doubled only for a named reason, an order is shown as it was at some moment of the load, or was behind the depth of the snapshot |
| `engine_cancel`, `engine_confirm` | 1 worker, 2 and 3 orders, no failure | each of these runs refutes one sentence of the code's comments, see Findings |

The types of `Ledger`, `Notifications`, `Sessions`, `Accounts` and `Bots`, and
`SettlementCloses`, `LimitsRespected` and `NoWashTrade`, are proved and not run.

Why the bounds are enough: a settlement involves two orders, priority and a
second partial fill need three; two workers and two orders give every overlap of
two runs on a symbol; `MaxAttempts = 2` has both a retry and a final failure
(the code has 8); one crash or thrown call lands at every step. `Depth = 100` is
the code's value and never bites with three orders (see Findings for a depth of one,
where it does). `order_intake` starts on a Friday so that the next close is three days off. With one failing run out of three
attempts a job never fails for good: `NoneOpenPastClose` and `LimitOrdersEnd` are
about a scheduler that gets through, and `NoneOpenPastClose` speaks only of a
close that is done.

`notifications` keeps one job per archive where the code keeps 500 and 2000, so
that a job id is forgotten and added again within two jobs; two attempts (5 in
the code) have a retry and a last failure; the fault can be a refusal, a lost
answer, a lost lock, an unwritten audit row, a rejected account or a crash, at any
step. `sessions` needs two ticks that share a jar and a third that does not, two
logins of one user so that a reuse can revoke a session it does not stem from,
and two faults at any statement, so that a repeat can fail too. `Pauses` and
`MaxClock` let an access token and then a refresh token (`RefreshTtl` 3, 672 in
the code) run out.

`accounts` has two addresses and two identities, so that one address can meet two
identities and one identity two addresses; its `Plans` are the sets of requests
worth interleaving: sign-ins that link and create, and sendings and verifications
of codes. The plans of five requests (two codes and two verifications, one code
and three) have no call that throws, those of four have one. `MaxAttempts = 2` (5 in the code) lets a counter reach its limit
by two guesses. `bots` starts at the floor of a fair value, where rounding hurts;
`RefreshTicks = 2` has a tick with and one without a refresh, a window of two
prices is full by the third tick, one retry (2 in the code) suffices for a repeat.
`market_view` fills a tape of two (50 in the code) with three trades; with two
loads at once a late one overtakes; three changes put an order in, fill it and take
it out during one load, or put in one that is behind another and take the first out.
`BookDepth = 1` (100 in the code) bites with two orders on a side. A cap of one socket (10 in the code) is what a reconnection
runs into before the relay has seen the old connection close.

Symmetry is used over order ids (and workers) only in runs without liveness.
`CHECK_DEADLOCK FALSE` appears where the instance runs out: of clock in
`order_intake` and `sessions`, of requests, ticks or allowances in `accounts`,
`bots` and `market_view`.

Every property of a passing run has a mutant: a plausible bug, kept as an operator
with "Mutant" in its comment before the definition it replaces, under which the
run fails.

### Fairness

`FairSpec`: a worker with a job goes on with it, some worker takes a waiting job,
BullMQ finds stalled jobs, Redis expires dead locks; this is what the BullMQ
worker loop and Redis do without anyone's help. `LockTimeout`, thrown calls,
crashes, clients and the scheduler are not fair. `FairIntakeSpec`: time passes and
the scheduler worker runs due jobs. A request owes nothing, so an API that died
is a request that takes no further step, and `LimitOrdersEnd` holds without it.
`Notifications!FairSpec`: a worker goes on with its job and takes another when one
waits, BullMQ ends backoffs and finds stalled jobs, an account request is
answered; helpers, crashes and restarts are not fair. `Sessions!FairSpec` is
strong fairness of each refresh under way: Postgres queues those that wait for a
row lock and hands it to the first, so nobody is passed over for ever.
`Accounts`, `Bots` and `MarketView` state no liveness: a request, a tick or a load
may die with its process, and each ends in a few steps of its own otherwise.

## What is proved

TLAPS checks these for any users, symbols, orders, prices, endowments, workers,
requests, failures and crashes, from the named assumptions on the constants only.

- `LedgerProofs`. `LedgerInv` is the inductive invariant: types, `NoOverdraft`,
  `StatusAgreesWithFill`, the three properties of trades, and two facts they need.
  `RowsPriced` (every limit order has a price, every quantity is positive) makes
  the division of `Affordable` well defined; `TradesLinked` (every trade links a
  buy row to a sell row of which one is closed) is why a pair cannot trade twice
  and why an order that traded is never deleted. `QuantityFacts` bounds a fill by
  the cash, shares and remainders; `TradeFacts` gives the effect of a trade on the
  tables; then there is one lemma per transaction. `ClosedOrdersFinal` and
  `SettlementProgress` are action properties on top of the invariant.
  `FillsAudited`, `BooksAlwaysBalance` and `CostBasisSound` are about sums over all
  trades (`BooksInv`). What a sum is for every finite set needs well-founded
  induction on its subsets, done once with a set in the place of the predicate
  (`SubsetInduction`); from it, one trade more adds one term, and each transaction adds one
  trade or none. An average price needs, besides, that it stays between
  the old one and the new price, rounding included (`AverageBetween`).
- `EngineProofs`. `EngineImplementsLedger`: every step of the engine is a ledger
  transaction or changes no table, so all of the above holds of any number of
  workers with arbitrary stale reads, expired locks and crashes.
  `EngineKeepsBooks` follows. `EngineTypeCorrect` rests on `JobsSound`: a job that is
  not over has one worker at most and an attempt left, and has stalled no more often
  than processes crashed.
  `LockExcludes`: if no run outlives the lock's TTL, two runs are never on one
  symbol; by `LockInv`, whoever is between acquire and release holds the lock.
  Four theorems about the book build on these invariants, for an installation
  where nobody deletes rows (`Deletable = {}`; no handler does):
  - `LiquidityKept`. By `Known`, what a run remembers of a row is true except for
    fill and status, and every entry is on its order's side at its order's price.
    `DealtInv` follows an order from the end of its matching loop to the end of its
    job. This one holds even when locks expire under a worker.
  - `BookNamesHashes`, when no run outlives its lock, as the next three.
    `OrderlyInv` says what each run may rely on: between reading a member and
    writing it nobody uses that number (`Drawn`), its rows stay true while they are
    open (`Fresh`), its scan skips nobody it might trade with (`Scanned`), and
    what it puts into the book anew is its own order (`Swept`). Every step of another
    run, a cancel or an expiry is `Quiet` for the symbol, which is all that the
    lock is for.
  - `NothingMissed`. Of two resting orders that match, one has a run to come
    (`Uncrossed`). Stated under `[]BookFits`, no side of a book has more than `Depth`
    entries: without it the statement is false, since 100 entries of one's own hide
    the match behind them (see Findings).
  - `HashesShowFills`, for runs without thrown calls and crashes: a hash that is
    behind has a run that is about to write it (`ShownInv`). A thrown call between
    the `COMMIT` and the `HSET` leaves it behind until a later run writes it.
  `EngineIsExchange` is the refinement of `Exchange`, which TLC checks as
  `PriceTimePriority`. `Arrival` gives an order in the book its member as its rank
  (`ArrivalNamed`); `SettlesBest` shows that the entry a run settles with is ahead of
  every other counterparty, for any `Depth`, and `WritePromised` that ranks appear in the
  order of the sequence and only closed orders lose theirs.
- `IntakeProofs`. `IntakeImplementsLedger`, and `KeysBuyOneOrder` by `KeyInv`: a
  request past its INSERT holds the row of its user and key, and rows keep their
  owners (`OwnersKept`) through every transaction but the INSERT.
  `NothingOutlivesTheClose`: unless the close job is waiting, running or failed for
  good, no open limit order is older than a close (`CloseInv`); a failed run puts it
  back to waiting, and no other transaction reopens an order (`ClosedRowsKept`).
  `IntakeTypeCorrect` needs that a job which may still run has an attempt left and
  that an order is queued before its expiry is scheduled. `AcceptedExpires`: an
  order whose request was accepted waits for the very next close (`NextCloseIsCron`:
  the walk of `nextMarketCloseUTC` over days ends at the next time the cron
  expression fires, weekends included), and only its end starts the cleanup of its
  timer (`TimerInv`). Its hypothesis is `MaxFaults < MaxAttempts`: a job of which
  every attempt fails is given up, with its order open.
- `SessionsProofs`, for any users, clients, ticks and failures. `OneActivePerLogin`
  is inductive only with what the row locks protect: no row is locked twice and a
  transaction past a stage has that stage's locks (`LocksExclude`), so what it read
  is still so when it commits (`WorkFits`: its token is unrevoked, or it revokes
  every session there is); tokens in jars and requests are the user's own
  (`TokensOwned`). `CommitStep` is the heart of it. `ReuseIsThorough` needs the
  user's lock, which keeps a login or another rotation from adding a session
  between the `UPDATE` and the `COMMIT`. `OnlyReuseBreaks` rests on `Apart`: no two
  clients have one token, in a jar, a request or an answer on its way; so a token
  is revoked by its own client's rotation, whose answer then brings the successor
  (`AnswersSound`), or by a reuse, which takes only the user's tokens (`RevokesOwn`).
- `NotificationsProofs`. Types, which need that a job not yet ended has an attempt
  left (`AttemptsLeft`) and that a busy worker has a job (`Busy`), and
  `OneAccount`: no transporter, no account asked for (`AskedOnce`).
  `DuplicatesAreExplained` counts: the mails of a job, the runs of it that have not
  sent yet and the one that is due are together no more than its creations and
  excused runs (`MailsBacked`); every action moves at most one worker into or out of
  that set (`BackedKept`, on the library's theorems about finite sets).
  `ReportsAreRight` counts the runs about to write their row in the same way
  (`SentBacked`) and needs that a run which reports a mail has sent it
  (`MailedFirst`) and that one about to be counted as failed, and still holds its
  job, has its failure in the log (`FailuresLogged`).
- `AccountsProofs`. `Shape` says which requests can be at which step.
  `CodesAreUsedOnce` and `CodesWork` share `CodesInv`: a code once
  dropped is no longer stored (`SpentIsGone`), no request made later gets as far as
  dropping it (`SpentBefore`), and the newest code is stored unless it expired or a
  verification that overlaps its sending dropped it (`LatestIsStored`). `LockoutEnds`
  counts: without a TTL, the counter is at most the number of requests that raised it
  and have not reached `EXPIRE` (`LockoutInv`), alive or dead. `AccountsAreFound` rests on
  `AccountsInv`: a Google identity is in one row at most (`IdentitiesUnique`), and
  what a past sign-in left in a row is still there, a password for ever
  (`PasswordsStay`), an identity until another replaces it (`IdentitiesStay`).
- `BotsProofs`. `BotsQuoteWholeCents` comes down to arithmetic (`OffsetPriceInCents`):
  a quote is a multiple of a cent, a fair value is at least a cent, and half of a cent
  still rounds to one, so that a variance up to a half never quotes 0. The assumptions
  are what `config.js` enforces; the half is a condition in the property.
  `BotsRepeatOnlyUnanswered` says by which way a tick comes to its second key: what
  the first one placed was answered, or was lost and refused later.
  `BotsOwnTheirSeed` follows `toGrant` through a death of the process.
- `MarketViewProofs`. `ViewFits` and `LoadsFit` say what the page and each load
  hold; `PageShowsTheSelection` needs that a message on the wire is for the symbol
  selected, and `BookIsOneThatWas` that an entry not yet read is listed, was behind
  the depth, or had amount 0 at some moment of the load (`LoadFits`); whatever rests is
  within the depth or behind it (`FirstOrBehind`), for any depth. `LiveTapeExplained` is about
  three copies of the tape: trades are announced and on the wire once each
  (`FlightInv`), what a load read of the tape lacks only what is still coming or
  slipped by while nobody listened (`LoadsSound`), and a trade shown twice is no
  longer coming (`Twice`). `TapeInv`, their conjunction, was checked by TLC on the
  instance of `market_view` before it was proved.

Every safety and action property that a passing run checks is stated by one of these
theorems. Only model-checked are the liveness properties (`EveryOrderHandled`,
`LimitOrdersEnd`, `EveryJobEnds`, `EveryRefreshEnds`), because fairness means
`ENABLED`, which the provers cannot handle. The properties of the violation runs are
refuted, so there is nothing to prove of them. No module uses a `RECURSIVE` operator.

## Findings

1. `engine_cancel`: cancelling leaves the order's entry in the book. The handler
   (`orders.controller.js:99`) passes the node-redis client to an engine written
   for ioredis; the call throws after the `UPDATE` has committed, the request
   answers 500 and the expiry job stays. The entry goes when a taker meets it.
2. `engine_confirm`: an order's second partial fill is not confirmed, since the
   job id `trade-confirm-<orderId>` (`notifications.queue.js:101`) is taken.

Observed while modelling, and not kept as runs. The first eight TLC finds in a few
states once the sentence quoted is stated as an invariant of the instance named:

- Stale and self-owned entries are skipped "so the taker always executes against the
  best *other-user* liquidity" (`matching-engine.js:139`), but only the first 100
  entries are scanned, once per round: when they are all the taker's own, the match
  behind them is missed. `Depth = 1` and one own resting order show it; a depth that
  covers the book does not.
- The publish after the `COMMIT` (`matching-engine.js:252`) is not guarded as the
  enqueues below it are (`:274`). If it throws, `ROLLBACK` undoes nothing and the
  confirmations, "called twice per trade execution" (`notifications.queue.js:81`), are
  never queued, not even of a first trade: `MaxFaults = 1`, two orders.
- A daily summary has a dated job id "to avoid sending duplicate summaries if the
  scheduler fires more than once" (`notifications.queue.js:144`), but BullMQ forgets it
  with the job, after 500 further completions (`:68`): `notifications` with no fault.
- "The bot transparently refreshes its session" (`bot.js:20`), but two ticks that both
  get a 401 refresh with one token, and so does a repeat (`api-client.js:61`) of a
  refresh that committed without its answer: a reuse, which revokes every session of the
  bot, and it logs in only at start-up. `sessions` with one bot alone, and two ticks
  without a fault, or one tick with one.
- A code is deleted "on first successful verification (single-use)"
  (`auth.controller.js:213`), but verifications that overlap all read it before any
  deletes it (`:236`), and succeed: two verifications of one code.
- "The key auto-expires with the OTP window" (`auth.controller.js:230`), but a request
  that dies between `INCR` and `EXPIRE` (`:151`) leaves a counter that does not. It
  costs its user a guess until the next code (`NoEternalLockout`); to lock him out
  takes five.
- "Buyers bid below fair value; sellers ask above it" (`random-market-maker.js:48`), but
  the offset is symmetric and does not depend on the side: one quote, an offset of
  either sign.
- Running the seeding again "is safe" (`seed.js:17`), but only the start that made the
  account grants shares (`:70`): a bot whose process dies in between has none for good.
- An order whose request died between INSERT and enqueue is acknowledged to the
  retry and never matched (`orders.controller.js:118-132`).
- A late or repeated market close also cancels orders placed after it; an
  unfillable order keeps its expiry job.
- A stale snapshot can put a cancelled order back into the book (`RestInBook`),
  where the next scan removes it; after a row was deleted the engine drops a live
  resting entry (`SettleMissing`).
- Overlapping wrong guesses of a code may all pass the check of the attempt
  counter before one raises it (`auth.controller.js:231`).
- The key sent "to prevent duplicate submissions" (`api-client.js:157`) is drawn
  anew after a 401, so a lost answer followed by an expired token orders twice.
- The mean reverter and the trend follower keep one price history for all symbols
  and push the cached price again at each tick.
- A `PRICE_VARIANCE` above 0.5 may round a quote to 0, and nothing keeps a fair
  value or a size below the schema's limits. `lastRefreshTick` is stamped with the
  tick at which the data arrive, not the one that asked (`bot.js:154`).
- `README.md:3` promises "live order book streaming", but the payload has neither
  bids nor asks, so the dashboard's book changes only when it loads.
- Selecting a symbol without trades keeps the price of the one before
  (`Dashboard.jsx:212`); a load that ends late shows the symbol before beneath the
  new one's name; the book's snapshot reports the sequence number as
  `score` (`realtime.controller.js:13-18`); the `/users/me` effect of `App.jsx`
  depends on `navigate` (`:55`) and runs again with it.

## Not modelled

- E-mail templates, which only format; what a daily summary computes.
- Migrations and start-up: they run before the first request, serialised by
  Postgres. The queries for the stock list, the portfolio and the profile, which
  change nothing, and the pages that show one answer each.
- Rate limits, the Google consent pages, configuration, scripts and the stand-alone
  widget; the market-open announcement, which writes nothing.
- Of the market view: `MAX_TOTAL_SOCKETS` (the same counter as the one per address),
  the list of stocks and the reload when the token changes, and `market:status`,
  which no client handles.
- That BullMQ forgets old match jobs, and the order in which a ledger transaction
  takes its row locks: a transaction is one step, and its abort in a deadlock is a
  thrown call. `Sessions` does model row locks.
- Overflow of `INTEGER` columns and chance collisions of six-digit codes.

Worth adding: the balance and holdings of a daily summary as two queries, and
`BookShowsFills` with thrown calls, relaxed to what a run leaves behind that fails.
