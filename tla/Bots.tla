-------------------------------- MODULE Bots --------------------------------
(***************************************************************************)
(* One bot of the bot service over the lives of its process: seeding its   *)
(* account and shares in Postgres, signing in, and ticks that overlap: the *)
(* timer does not wait for the tick before, and all ticks share the fair   *)
(* values, the market data, the strategy's history and the access token.   *)
(* Orders go to the API with an idempotency key; the API takes a key once  *)
(* (module OrderIntake), answers may be lost, and tokens expire.           *)
(***************************************************************************)
EXTENDS Strategies, FiniteSets

CONSTANTS
    Symbols,
    Prices,         \* of the last trade, as the API shows it
    DefaultPrices,  \* of each symbol: where its fair value starts
    RefreshTicks,   \* MARKET_DATA_REFRESH_TICKS
    Retries,        \* of api-client's request: 2 in the code
    MaxTicks,       \* bound
    Scenarios       \* the bot's strategy, and the bounds of one behaviour

Ticks == 1..MaxTicks
Keys == [tick : Ticks, draw : 1..2]     \* a tick draws a key for each placeOrder

ASSUME BotsAssumption ==
    /\ Symbols # {} /\ Prices \subseteq Nat /\ \A p \in Prices : p >= Cent
    /\ DefaultPrices \in [Symbols -> Nat] /\ \A s \in Symbols : DefaultPrices[s] >= Cent
    /\ RefreshTicks \in Nat \ {0} /\ Retries \in Nat
    /\ MaxTicks \in Nat
    /\ Scenarios \subseteq [strategy : StrategyNames, lives : Nat, ticks : 0..MaxTicks,
                            tokens : Nat, losses : Nat]

VARIABLES
    phase,      \* of the process
    scenario,
    enabled,    \* ENABLED_STOCKS, from the environment
    exists,     \* the account's row
    granted,    \* symbols whose seed holding has been inserted
    toGrant,    \* symbols the seeding has still to grant
    lives,      \* starts of the process
    tickCount, begun,       \* ticks of this life, and of all lives
    fair,       \* of each symbol: its fair value; 0 before the first tick
    market,     \* of each symbol: last price, 0 if none, and when it was cached
    history,    \* the strategy's window of prices
    token, expired,         \* the access token, and the tokens that ran out
    stage, symbol, order,   \* of each tick
    attempt,    \* of each tick: the key it sends, tries made, the token it sends
    placed,     \* the API: keys whose order was taken
    working,    \* the API: keys of authenticated requests still being handled
    lost,       \* history: ticks with a lost answer
    losses,     \* how many answers were lost
    seeded, cut \* history: the symbols when the account was made; grants cut off

database == <<exists, granted>>
config == <<scenario, enabled, lives>>
knowledge == <<fair, market, history>>
session == <<token, expired>>
tickVars == <<stage, symbol, order, attempt>>
api == <<placed, working, lost, losses>>
past == <<seeded, cut>>
vars == <<phase, config, database, toGrant, tickCount, begun, knowledge, session, tickVars, api, past>>

strategy == scenario.strategy
NotCached == [price |-> 0, tick |-> -1]
NoOrder == [side |-> "none", type |-> "none", price |-> 0, quantity |-> 0]
NoAttempt == [draw |-> 1, tries |-> 0, token |-> 0]

Init ==
    /\ phase = "down" /\ scenario \in Scenarios /\ enabled = {} /\ lives = 0
    /\ exists = FALSE /\ granted = {} /\ toGrant = {}
    /\ tickCount = 0 /\ begun = 0
    /\ fair = [s \in Symbols |-> 0] /\ market = [s \in Symbols |-> NotCached] /\ history = <<>>
    /\ token = 0 /\ expired = {}
    /\ stage = [t \in Ticks |-> "idle"] /\ symbol = [t \in Ticks |-> CHOOSE s \in Symbols : TRUE]
    /\ order = [t \in Ticks |-> NoOrder] /\ attempt = [t \in Ticks |-> NoAttempt]
    /\ placed = {} /\ working = {} /\ lost = {} /\ losses = 0
    /\ seeded = {} /\ cut = {}

-----------------------------------------------------------------------------
(* The process.                                                            *)

Start ==
    /\ phase = "down" /\ lives < scenario.lives
    /\ phase' = "seeding" /\ lives' = lives + 1
    /\ enabled' \in SUBSET Symbols \ {{}}
    /\ UNCHANGED <<scenario, database, toGrant, tickCount, begun, knowledge, session, tickVars,
                   api, past>>

(* Mutant: the loop over the symbols stops one short.                      *)
AllButOne(symbols) == symbols \ {CHOOSE s \in symbols : TRUE}

AllOf(symbols) == symbols

(* INSERT ... ON CONFLICT DO NOTHING RETURNING id: shares are granted only *)
(* by the start that made the row.                                         *)
InsertAccount ==
    /\ phase = "seeding"
    /\ exists' = TRUE
    /\ IF exists
         THEN /\ phase' = "signing in"
              /\ UNCHANGED <<toGrant, past>>
         ELSE /\ phase' = "granting" /\ toGrant' = AllOf(enabled)
              /\ seeded' = enabled /\ cut' = cut
    /\ UNCHANGED <<config, granted, tickCount, begun, knowledge, session, tickVars, api>>

Grant ==
    /\ phase = "granting"
    /\ IF toGrant = {}
         THEN /\ phase' = "signing in"
              /\ UNCHANGED <<granted, toGrant>>
         ELSE /\ \E s \in toGrant : granted' = granted \cup {s} /\ toGrant' = toGrant \ {s}
              /\ phase' = phase
    /\ UNCHANGED <<config, exists, tickCount, begun, knowledge, session, tickVars, api, past>>

FreshToken == token' = token + 1 /\ token < scenario.tokens /\ expired' = expired

(* authenticate and start.                                                 *)
SignIn ==
    /\ phase = "signing in"
    /\ phase' = "running" /\ FreshToken
    /\ UNCHANGED <<config, database, toGrant, tickCount, begun, knowledge, tickVars, api, past>>

(* A stop or a crash, a query that throws, or login and registration both  *)
(* refused: the process ends and its memory goes.                          *)
Die ==
    /\ phase # "down" /\ phase' = "down"
    /\ toGrant' = {} /\ cut' = cut \cup toGrant
    /\ tickCount' = 0
    /\ fair' = [s \in Symbols |-> 0] /\ market' = [s \in Symbols |-> NotCached] /\ history' = <<>>
    /\ stage' = [t \in Ticks |-> IF stage[t] = "idle" THEN "idle" ELSE "done"]
    /\ order' = [t \in Ticks |-> NoOrder]
    /\ UNCHANGED <<config, database, begun, session, symbol, attempt, api, seeded>>

-----------------------------------------------------------------------------
(* A tick decides in the step in which it has its market data.             *)

Decide(t, s, prices, cache) ==
    \E drift \in Drifts :
        LET value == Drifted(IF prices[s] = 0 THEN DefaultPrices[s] ELSE prices[s], drift)
            window == HistoryAfter(strategy, history, cache[s].price)
            orders == Decisions(strategy, value, window)
        IN  /\ fair' = [prices EXCEPT ![s] = value]
            /\ market' = cache
            /\ history' = window
            /\ \/ /\ MaySkip(strategy, orders)
                  /\ stage' = [stage EXCEPT ![t] = "done"]
                  /\ UNCHANGED <<order, attempt>>
               \/ /\ \E o \in orders : order' = [order EXCEPT ![t] = o]
                  /\ stage' = [stage EXCEPT ![t] = "send"]
                  /\ attempt' = [attempt EXCEPT ![t] = [draw |-> 1, tries |-> 0, token |-> token]]

Due(s, tick) == market[s].tick = -1 \/ tick - market[s].tick >= RefreshTicks

BeginTick(t) ==
    /\ phase = "running" /\ t = begun + 1 /\ t <= scenario.ticks
    /\ begun' = t /\ tickCount' = tickCount + 1
    /\ \E s \in enabled :
          /\ symbol' = [symbol EXCEPT ![t] = s]
          /\ \/ /\ Due(s, tickCount + 1)
                /\ stage' = [stage EXCEPT ![t] = "refresh"]
                /\ UNCHANGED <<knowledge, order, attempt>>
             \/ /\ ~Due(s, tickCount + 1)
                /\ Decide(t, s, fair, market)
    /\ UNCHANGED <<phase, config, database, toGrant, session, api, past>>

(* Book and tape have arrived: the data are stamped with the tick of now,  *)
(* whichever tick asked for them.  Or the request has failed.              *)
EndRefresh(t) ==
    /\ stage[t] = "refresh"
    /\ \/ \E last \in Prices \cup {0} :
            Decide(t, symbol[t],
                   IF last = 0 THEN fair ELSE [fair EXCEPT ![symbol[t]] = last],
                   [market EXCEPT ![symbol[t]] = [price |-> last, tick |-> tickCount]])
       \/ Decide(t, symbol[t], fair, market)
    /\ UNCHANGED <<phase, config, database, toGrant, tickCount, begun, session, symbol, api, past>>

-----------------------------------------------------------------------------
(* Sending an order.                                                       *)

(* Mutant: the key is drawn for each try.                                  *)
KeyOfTry(t) == [tick |-> t, draw |-> IF attempt[t].tries = 0 THEN attempt[t].draw ELSE 2]

Key(t) == [tick |-> t, draw |-> attempt[t].draw]

Refused(t) == attempt[t].token \in expired

Finish(t) ==
    /\ stage' = [stage EXCEPT ![t] = "done"]
    /\ order' = [order EXCEPT ![t] = NoOrder]
    /\ attempt' = attempt

(* The API takes the order under this key unless it has it already, or     *)
(* declines it, and says so; or fails after the order was taken.           *)
Answer(t) ==
    /\ stage[t] = "send" /\ ~Refused(t)
    /\ placed' \in {placed, placed \cup {Key(t)}}
    /\ Finish(t)
    /\ UNCHANGED <<phase, config, database, toGrant, tickCount, begun, knowledge, session,
                   symbol, working, lost, losses, past>>

(* Nothing but the answer is lost, or the request is still being handled:  *)
(* fetch throws, or a proxy answers 502 or 503.  The try is repeated with  *)
(* the same headers until there have been Retries of them.                 *)
LoseAnswer(t) ==
    /\ stage[t] = "send"
    /\ losses < scenario.losses /\ losses' = losses + 1
    /\ IF Refused(t)
         THEN UNCHANGED <<placed, working, lost>>
         ELSE /\ \E late \in {{}, {Key(t)}} : working' = working \cup late
              /\ placed' \in {placed, placed \cup {Key(t)}}
              /\ lost' = lost \cup {t}
    /\ IF attempt[t].tries < Retries
         THEN /\ attempt' = [attempt EXCEPT ![t].tries = @ + 1]
              /\ UNCHANGED <<stage, order>>
         ELSE Finish(t)
    /\ UNCHANGED <<phase, config, database, toGrant, tickCount, begun, knowledge, session,
                   symbol, past>>

(* 401: refresh the session and place the order once more, with a key of   *)
(* its own; a second 401 ends the tick.                                    *)
Unauthorized(t) ==
    /\ stage[t] = "send" /\ Refused(t)
    /\ IF attempt[t].draw = 1
         THEN /\ stage' = [stage EXCEPT ![t] = "rotate"]
              /\ UNCHANGED <<order, attempt>>
         ELSE Finish(t)
    /\ UNCHANGED <<phase, config, database, toGrant, tickCount, begun, knowledge, session,
                   symbol, api, past>>

RotateSession(t) ==
    /\ stage[t] = "rotate"
    /\ \/ /\ FreshToken
          /\ stage' = [stage EXCEPT ![t] = "send"]
          /\ attempt' = [attempt EXCEPT ![t] = [draw |-> 2, tries |-> 0, token |-> token + 1]]
          /\ order' = order
       \/ Finish(t) /\ UNCHANGED session
    /\ UNCHANGED <<phase, config, database, toGrant, tickCount, begun, knowledge, symbol, api, past>>

(* The API: what it was still handling, and the life of a token.           *)
HandleLate ==
    /\ \E k \in working :
          /\ working' = working \ {k}
          /\ placed' \in {placed, placed \cup {k}}
    /\ UNCHANGED <<phase, config, database, toGrant, tickCount, begun, knowledge, session,
                   tickVars, lost, losses, past>>

TokenExpires ==
    /\ token > 0 /\ token \notin expired
    /\ expired' = expired \cup {token} /\ token' = token
    /\ UNCHANGED <<phase, config, database, toGrant, tickCount, begun, knowledge, tickVars, api,
                   past>>

-----------------------------------------------------------------------------
Process == Start \/ InsertAccount \/ Grant \/ SignIn \/ Die
Tick(t) ==
    \/ BeginTick(t) \/ EndRefresh(t)
    \/ Answer(t) \/ LoseAnswer(t) \/ Unauthorized(t) \/ RotateSession(t)
Next == Process \/ HandleLate \/ TokenExpires \/ \E t \in Ticks : Tick(t)

Spec == Init /\ [][Next]_vars
-----------------------------------------------------------------------------
(* Properties.                                                             *)

(* Types.                                                                  *)
BotsTypeOK ==
    /\ phase \in {"down", "seeding", "granting", "signing in", "running"}
    /\ scenario \in Scenarios /\ enabled \subseteq Symbols /\ lives \in Nat
    /\ exists \in BOOLEAN /\ granted \subseteq Symbols /\ toGrant \subseteq Symbols
    /\ tickCount \in Nat /\ begun \in 0..MaxTicks
    /\ fair \in [Symbols -> Nat]
    /\ market \in [Symbols -> [price : Prices \cup {0}, tick : Int]]
    /\ history \in Seq(Prices)
    /\ token \in Nat /\ expired \subseteq Nat
    /\ stage \in [Ticks -> {"idle", "refresh", "send", "rotate", "done"}]
    /\ symbol \in [Ticks -> Symbols]
    /\ order \in [Ticks -> [side : Sides \cup {"none"}, type : Types \cup {"none"},
                            price : Nat, quantity : Nat]]
    /\ attempt \in [Ticks -> [draw : 1..2, tries : 0..Retries, token : Nat]]
    /\ placed \subseteq Keys /\ working \subseteq Keys /\ lost \subseteq Ticks /\ losses \in Nat
    /\ seeded \subseteq Symbols /\ cut \subseteq Symbols

(* Wherever its fair value has drifted, a bot's limit order has a price in *)
(* whole cents, and of a cent or more while the variance is at most a      *)
(* half: above that a quote can round to 0, which the API's schema refuses *)
(* at every try.  (Nothing in a bot keeps the schema's upper bounds on a   *)
(* price or a size.)                                                       *)
PricesAcceptable ==
    \A t \in Ticks : stage[t] \in {"send", "rotate"} /\ order[t].type = "limit" =>
        /\ order[t].price % Cent = 0
        /\ 2 * PriceVariance <= Whole => order[t].price >= Cent

(* A decision is placed once, however often it is sent: only an answer     *)
(* lost while its token expired, so that the repeat was turned away and a  *)
(* new key drawn, can make it two orders.                                  *)
RepeatsExplained ==
    \A t \in Ticks :
        {[tick |-> t, draw |-> d] : d \in 1..2} \subseteq placed =>
            t \in lost /\ attempt[t].draw = 2

(* A bot that runs owns shares to sell of every enabled symbol, unless the *)
(* seeding that made its account was cut off, or the symbol was enabled    *)
(* later: a restart grants nothing.                                        *)
SharesGranted ==
    phase \in {"signing in", "running"} =>
        \A s \in enabled : s \in granted \/ s \in cut \/ s \notin seeded
=============================================================================
