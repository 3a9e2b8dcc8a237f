----------------------------- MODULE BotsProofs -----------------------------
(***************************************************************************)
(* Proofs about Bots, for any symbols, prices, walks, windows, sizes and   *)
(* failures: the prices a strategy decides on; that what a tick sends it   *)
(* sends under one key, but for a repeat after a 401; what seeding grants. *)
(***************************************************************************)
EXTENDS Bots, TLAPS

-----------------------------------------------------------------------------
(* Prices and decisions.                                                   *)

LEMMA DriftedPrice ==
    ASSUME NEW price \in Nat, NEW drift \in Int
    PROVE  Drifted(price, drift) \in Nat /\ Drifted(price, drift) >= Cent
  <1>1. (price * (Whole + drift)) \div Whole \in Int
    BY SMT DEF Whole
  <1> QED BY <1>1 DEF Drifted, Cent

(* Offsets of any variance keep to whole cents, and none of at most a half *)
(* rounds a price of a cent or more to zero.                               *)
LEMMA OffsetPriceInCents ==
    ASSUME NEW price \in Nat, price >= Cent, NEW offset \in Int,
           -Whole <= offset, offset <= Whole
    PROVE  /\ OffsetPrice(price, offset) \in Nat
           /\ OffsetPrice(price, offset) % Cent = 0
           /\ -(Whole \div 2) <= offset => OffsetPrice(price, offset) >= Cent
  <1> DEFINE share == Whole + offset
             scaled == price * share + 50000
             cents == scaled \div 100000
  <1>1. share \in Nat /\ (-(Whole \div 2) <= offset => share >= 5000)
    BY SMT DEF Whole
  <1>2. share >= 5000 => price * share >= 50000
    <2>1. price = (price - 10) + 10 /\ price - 10 \in Nat
      BY DEF Cent
    <2>2. price * share = (price - 10) * share + 10 * share
      BY <1>1, <2>1, SMT
    <2>3. (price - 10) * share \in Nat
      BY <1>1, <2>1, SMT
    <2> QED BY <1>1, <2>2, <2>3, SMT
  <1>3. price * share \in Nat
    BY <1>1, SMT
  <1> HIDE DEF share
  <1>4. scaled \in Nat /\ (share >= 5000 => scaled >= 100000)
    BY <1>2, <1>3, SMT
  <1> HIDE DEF scaled
  <1>5. cents \in Nat /\ (share >= 5000 => cents >= 1)
    BY <1>4, SMT
  <1>6. OffsetPrice(price, offset) = 10 * cents
    BY DEF OffsetPrice, Cent, Whole, share, scaled
  <1> HIDE DEF cents
  <1>7. 10 * cents \in Nat /\ (10 * cents) % 10 = 0 /\ (cents >= 1 => 10 * cents >= 10)
    BY <1>5, SMT
  <1> QED BY <1>1, <1>5, <1>6, <1>7, SMT DEF Cent

(* A price a bot may send.                                                 *)
Quotable(price) ==
    /\ price \in Nat /\ price % Cent = 0
    /\ 2 * PriceVariance <= Whole => price >= Cent

Acceptable(o) ==
    /\ o \in [side : Sides \cup {"none"}, type : Types \cup {"none"}, price : Nat, quantity : Nat]
    /\ o.type = "limit" => Quotable(o.price)

LEMMA OrdersFit ==
    ASSUME NEW side \in Sides, NEW types \in SUBSET Types, NEW prices,
           \A p \in prices : Quotable(p), NEW quantities \in SUBSET (Nat \ {0}),
           NEW o \in Orders(side, types, prices, quantities)
    PROVE  Acceptable(o)
  <1>1. PICK type \in types, price \in prices, quantity \in quantities :
          o = [side |-> side, type |-> type,
               price |-> IF type = "limit" THEN price ELSE 0, quantity |-> quantity]
    BY DEF Orders
  <1>2. quantity \in Nat /\ type \in Types /\ Quotable(price) /\ price \in Nat
    BY DEF Quotable
  <1> QED BY <1>1, <1>2 DEF Acceptable, Types

LEMMA DecisionsAcceptable ==
    ASSUME NEW name \in StrategyNames, NEW value \in Nat, value >= Cent, NEW window,
           NEW o \in Decisions(name, value, window)
    PROVE  Acceptable(o)
  <1> DEFINE half == PriceVariance \div 2
  <1>1. /\ \A f \in Offsets : Quotable(OffsetPrice(value, f))
        /\ Quotable(OffsetPrice(value, 0))
        /\ Quotable(OffsetPrice(value, half)) /\ Quotable(OffsetPrice(value, -half))
    <2>1. PriceVariance \in Nat /\ PriceVariance <= 10000
      BY StrategiesAssumption, SMT DEF Whole
    <2>2. half \in Nat /\ half <= PriceVariance
      BY <2>1, SMT
    <2>3. \A f \in Offsets : f \in Int /\ -PriceVariance <= f /\ f <= PriceVariance
      BY <2>1, StrategiesAssumption, SMT
    <2>4. ASSUME NEW f \in Int, -PriceVariance <= f, f <= PriceVariance
          PROVE  Quotable(OffsetPrice(value, f))
      <3>1. -Whole <= f /\ f <= Whole
        BY <2>1, <2>4, SMT DEF Whole
      <3>2. 2 * PriceVariance <= Whole => -(Whole \div 2) <= f
        BY <2>1, <2>4, SMT DEF Whole
      <3> QED BY <3>1, <3>2, OffsetPriceInCents DEF Quotable
    <2> HIDE DEF half
    <2>5. 0 \in Int /\ -PriceVariance <= 0 /\ 0 <= PriceVariance
      BY <2>1, SMT
    <2>6. /\ half \in Int /\ -PriceVariance <= half /\ half <= PriceVariance
          /\ -half \in Int /\ -PriceVariance <= -half /\ -half <= PriceVariance
      BY <2>1, <2>2, SMT
    <2> QED BY <2>3, <2>4, <2>5, <2>6
  <1>2. Quantities \in SUBSET (Nat \ {0}) /\ VolumeQuantities \in SUBSET (Nat \ {0})
    BY StrategiesAssumption
  <1>3. \A quantities \in SUBSET (Nat \ {0}) :
          o \in AroundFairValue(value, quantities) => Acceptable(o)
    <2>1. SUFFICES ASSUME NEW quantities \in SUBSET (Nat \ {0}),
                          o \in AroundFairValue(value, quantities)
                   PROVE  Acceptable(o)
      OBVIOUS
    <2>2. PICK side \in Sides :
            o \in Orders(side, Types, {OffsetPrice(value, f) : f \in Offsets}, quantities)
      BY <2>1 DEF AroundFairValue
    <2> DEFINE prices == {OffsetPrice(value, f) : f \in Offsets}
    <2>3. \A p \in prices : Quotable(p)
      BY <1>1
    <2> HIDE DEF prices
    <2> QED BY <2>2, <2>3, OrdersFit DEF prices
  <1>4. o \in Neutral(value) => Acceptable(o)
    <2>1. SUFFICES ASSUME o \in Neutral(value) PROVE Acceptable(o)
      OBVIOUS
    <2>2. PICK side \in Sides :
            o \in Orders(side, {"limit"}, {OffsetPrice(value, 0)}, Quantities)
      BY <2>1 DEF Neutral
    <2>3. {"limit"} \in SUBSET Types
      BY DEF Types
    <2> QED BY <1>1, <1>2, <2>2, <2>3, OrdersFit
  <1>5. \A side \in Sides : o \in Directed(side, value) => Acceptable(o)
    <2>1. SUFFICES ASSUME NEW side \in Sides, o \in Directed(side, value) PROVE Acceptable(o)
      OBVIOUS
    <2> DEFINE price == OffsetPrice(value, IF side = "buy" THEN -half ELSE half)
    <2>2. Quotable(price)
      BY <1>1
    <2>3. o \in Orders(side, Types, {price}, Quantities)
      BY <2>1 DEF Directed
    <2> HIDE DEF price
    <2> QED BY <1>2, <2>2, <2>3, OrdersFit
  <1> HIDE DEF half
  <1>6. TrendSide(window) \in Sides
    BY DEF TrendSide, Sides
  <1>7. CASE name = "random-market-maker" \/ name = "volume-bot"
    BY <1>2, <1>3, <1>7 DEF Decisions, StrategyNames
  <1>8. CASE name = "trend-follower"
    BY <1>4, <1>5, <1>6, <1>8 DEF Decisions, TrendFollower
  <1>9. CASE name = "mean-reverter"
    BY <1>4, <1>5, <1>9 DEF Decisions, MeanReverter, ReversionSides
  <1> QED BY <1>7, <1>8, <1>9 DEF StrategyNames

LEMMA LatestType ==
    ASSUME NEW S, NEW prices \in Seq(S), NEW n \in Nat \ {0}
    PROVE  Latest(prices, n) \in Seq(S)
  <1>1. CASE n >= Len(prices)
    BY <1>1 DEF Latest
  <1>2. CASE ~(n >= Len(prices))
    <2>1. Len(prices) - n + 1 \in 1..Len(prices)
      BY <1>2
    <2> QED BY <1>2, <2>1 DEF Latest
  <1> QED BY <1>1, <1>2

LEMMA WindowType ==
    ASSUME NEW name \in StrategyNames, NEW window \in Seq(Prices), NEW last \in Prices \cup {0}
    PROVE  HistoryAfter(name, window, last) \in Seq(Prices)
  <1>1. WindowOf(name) \in Nat \ {0}
    BY StrategiesAssumption DEF WindowOf
  <1>2. last # 0 => Append(window, last) \in Seq(Prices)
    OBVIOUS
  <1>3. last # 0 => Latest(Append(window, last), WindowOf(name)) \in Seq(Prices)
    BY <1>1, <1>2, LatestType
  <1> QED BY <1>3 DEF HistoryAfter, Pushed

-----------------------------------------------------------------------------
(* Types, fair values of a cent at least, and orders that fit.             *)

Caches == [price : Prices \cup {0}, tick : Int]
Attempts == [draw : 1..2, tries : 0..Retries, token : Nat]
FairFits(prices) == \A s \in Symbols : prices[s] = 0 \/ prices[s] >= Cent
SendsFit == \A t \in Ticks : stage[t] \in {"send", "rotate"} => Acceptable(order[t])

BotsInv == BotsTypeOK /\ FairFits(fair) /\ SendsFit

LEMMA RecordTypes ==
    /\ NotCached \in Caches
    /\ \A last \in Prices \cup {0}, n \in Int : [price |-> last, tick |-> n] \in Caches
    /\ \A d \in 1..2, n \in Nat : [draw |-> d, tries |-> 0, token |-> n] \in Attempts
  BY BotsAssumption DEF NotCached, Caches, Attempts

LEMMA Scalars ==
    BotsTypeOK =>
      /\ token \in Nat /\ expired \subseteq Nat /\ tickCount \in Nat /\ begun \in 0..MaxTicks
      /\ placed \subseteq Keys /\ working \subseteq Keys /\ lost \subseteq Ticks /\ losses \in Nat
  BY Zenon DEF BotsTypeOK

LEMMA NoPrices == <<>> \in Seq(Prices)
  OBVIOUS

LEMMA BotsInit == Init => BotsInv
  <1> SUFFICES ASSUME Init PROVE BotsInv
    OBVIOUS
  <1>1. /\ market \in [Symbols -> Caches] /\ attempt \in [Ticks -> Attempts]
        /\ scenario \in Scenarios /\ history \in Seq(Prices)
    BY RecordTypes DEF Init, NoAttempt
  <1>2. symbol \in [Ticks -> Symbols]
    BY BotsAssumption DEF Init
  <1>3. NoOrder \in [side : Sides \cup {"none"}, type : Types \cup {"none"}, price : Nat,
                     quantity : Nat]
    BY DEF NoOrder
  <1>4. order \in [Ticks -> [side : Sides \cup {"none"}, type : Types \cup {"none"}, price : Nat,
                            quantity : Nat]]
    BY <1>3 DEF Init
  <1>5. begun \in 0..MaxTicks
    BY BotsAssumption DEF Init
  <1> QED BY <1>1, <1>2, <1>4, <1>5
          DEF Init, BotsInv, BotsTypeOK, FairFits, SendsFit, Caches, Attempts

LEMMA DecideStep ==
    ASSUME BotsInv, NEW t \in Ticks, NEW s \in Symbols, NEW prices \in [Symbols -> Nat],
           FairFits(prices), NEW cache \in [Symbols -> Caches], Decide(t, s, prices, cache)
    PROVE  /\ fair' \in [Symbols -> Nat] /\ FairFits(fair')
           /\ market' \in [Symbols -> Caches] /\ history' \in Seq(Prices)
           /\ \/ stage' = [stage EXCEPT ![t] = "done"] /\ UNCHANGED <<order, attempt>>
              \/ /\ stage' = [stage EXCEPT ![t] = "send"]
                 /\ \E o : Acceptable(o) /\ order' = [order EXCEPT ![t] = o]
                 /\ attempt' = [attempt EXCEPT ![t] = [draw |-> 1, tries |-> 0, token |-> token]]
  <1>1. PICK drift \in Drifts :
          LET value == Drifted(IF prices[s] = 0 THEN DefaultPrices[s] ELSE prices[s], drift)
              window == HistoryAfter(strategy, history, cache[s].price)
              orders == Decisions(strategy, value, window)
          IN  /\ fair' = [prices EXCEPT ![s] = value]
              /\ market' = cache
              /\ history' = window
              /\ \/ /\ MaySkip(strategy, orders)
                    /\ stage' = [stage EXCEPT ![t] = "done"]
                    /\ UNCHANGED <<order, attempt>>
                 \/ /\ \E o \in orders : order' = [order EXCEPT ![t] = o]
                    /\ stage' = [stage EXCEPT ![t] = "send"]
                    /\ attempt' = [attempt EXCEPT ![t] = [draw |-> 1, tries |-> 0, token |-> token]]
    BY DEF Decide
  <1> DEFINE value == Drifted(IF prices[s] = 0 THEN DefaultPrices[s] ELSE prices[s], drift)
             window == HistoryAfter(strategy, history, cache[s].price)
             orders == Decisions(strategy, value, window)
  <1>2. value \in Nat /\ value >= Cent
    BY DriftedPrice, BotsAssumption, StrategiesAssumption
  <1>3. strategy \in StrategyNames
    BY BotsAssumption DEF BotsInv, BotsTypeOK, strategy
  <1>4. window \in Seq(Prices)
    BY <1>3, WindowType DEF BotsInv, BotsTypeOK, Caches
  <1>5. \A o \in orders : Acceptable(o)
    BY <1>2, <1>3, DecisionsAcceptable
  <1> HIDE DEF value, window, orders
  <1>6. /\ fair' = [prices EXCEPT ![s] = value] /\ market' = cache /\ history' = window
        /\ \/ stage' = [stage EXCEPT ![t] = "done"] /\ UNCHANGED <<order, attempt>>
           \/ /\ \E o \in orders : order' = [order EXCEPT ![t] = o]
              /\ stage' = [stage EXCEPT ![t] = "send"]
              /\ attempt' = [attempt EXCEPT ![t] = [draw |-> 1, tries |-> 0, token |-> token]]
    BY <1>1 DEF value, window, orders
  <1>7. fair' \in [Symbols -> Nat] /\ FairFits(fair')
    BY <1>2, <1>6 DEF FairFits
  <1> QED BY <1>4, <1>5, <1>6, <1>7

(* A decision under way leaves the types and the orders in order.          *)
LEMMA DecisionKeepsInv ==
    ASSUME BotsInv, NEW t \in Ticks, NEW s \in Symbols, NEW prices \in [Symbols -> Nat],
           FairFits(prices), NEW cache \in [Symbols -> Caches], Decide(t, s, prices, cache),
           UNCHANGED <<phase, config, database, toGrant, session, api, past>>,
           begun' \in 0..MaxTicks, tickCount' \in Nat, symbol' \in [Ticks -> Symbols]
    PROVE  BotsInv'
  <1> DEFINE moved == /\ fair' \in [Symbols -> Nat] /\ FairFits(fair')
                      /\ market' \in [Symbols -> Caches] /\ history' \in Seq(Prices)
  <1>1. moved
    BY DecideStep
  <1> HIDE DEF moved
  <1>2. CASE stage' = [stage EXCEPT ![t] = "done"] /\ UNCHANGED <<order, attempt>>
    BY <1>1, <1>2
    DEF moved, BotsInv, BotsTypeOK, SendsFit, config, database, session, api, past, Caches, strategy
  <1>3. ASSUME NEW o, Acceptable(o), order' = [order EXCEPT ![t] = o],
               stage' = [stage EXCEPT ![t] = "send"],
               attempt' = [attempt EXCEPT ![t] = [draw |-> 1, tries |-> 0, token |-> token]]
        PROVE  BotsInv'
    <2>0. token \in Nat /\ 1 \in 1..2
      BY Scalars DEF BotsInv
    <2>1. [draw |-> 1, tries |-> 0, token |-> token] \in Attempts
      BY <2>0, RecordTypes, Zenon
    <2>2. attempt' \in [Ticks -> Attempts] /\ SendsFit'
      BY <1>3, <2>1 DEF BotsInv, BotsTypeOK, SendsFit, Attempts
    <2>3. order' \in [Ticks -> [side : Sides \cup {"none"}, type : Types \cup {"none"},
                                price : Nat, quantity : Nat]]
      BY <1>3 DEF BotsInv, BotsTypeOK, Acceptable
    <2> QED BY <1>1, <1>3, <2>2, <2>3
            DEF moved, BotsInv, BotsTypeOK, config, database, session, api, past, Caches, Attempts,
                strategy
  <1> QED BY <1>2, <1>3, DecideStep

LEMMA FinishKeepsInv ==
    ASSUME BotsInv, NEW t \in Ticks, Finish(t)
    PROVE  /\ stage' \in [Ticks -> {"idle", "refresh", "send", "rotate", "done"}]
           /\ order' \in [Ticks -> [side : Sides \cup {"none"}, type : Types \cup {"none"},
                                    price : Nat, quantity : Nat]]
           /\ attempt' \in [Ticks -> Attempts] /\ SendsFit'
  BY DEF Finish, BotsInv, BotsTypeOK, SendsFit, NoOrder, Attempts

LEMMA ProcessKeepsInv == BotsInv /\ Process => BotsInv'
  <1> SUFFICES ASSUME BotsInv, Process PROVE BotsInv'
    OBVIOUS
  <1>0. token \in Nat /\ expired \subseteq Nat
    BY Scalars DEF BotsInv
  <1>t. ASSUME SignIn PROVE token' \in Nat /\ expired' \subseteq Nat
    <2>1. token' = token + 1 /\ expired' = expired
      BY <1>t DEF SignIn, FreshToken
    <2>2. token + 1 \in Nat
      BY <1>0
    <2> QED BY <1>0, <2>1, <2>2
  <1>e. NotCached \in Caches
    BY RecordTypes, Zenon
  <1>h. <<>> \in Seq(Prices)
    BY NoPrices
  <1> USE DEF BotsInv, BotsTypeOK, config, database, knowledge, session, tickVars, api, past
  <1>1. CASE Start
    BY <1>1 DEF Start, SendsFit
  <1>2. CASE InsertAccount
    BY <1>2 DEF InsertAccount, AllOf, SendsFit
  <1>3. CASE Grant
    BY <1>3 DEF Grant, SendsFit
  <1>4. CASE SignIn
    BY <1>4, <1>t DEF SignIn, SendsFit
  <1>5. CASE Die
    <2>2. /\ market' \in [Symbols -> Caches] /\ fair' \in [Symbols -> Nat] /\ FairFits(fair')
          /\ history' \in Seq(Prices)
      BY <1>5, <1>e, <1>h DEF Die, FairFits
    <2>3. order' \in [Ticks -> [side : Sides \cup {"none"}, type : Types \cup {"none"},
                                price : Nat, quantity : Nat]]
      BY <1>5 DEF Die, NoOrder
    <2>4. stage' \in [Ticks -> {"idle", "done"}] /\ SendsFit'
      BY <1>5 DEF Die, SendsFit
    <2> QED BY <1>5, <2>2, <2>3, <2>4 DEF Die, Caches
  <1> QED BY <1>1, <1>2, <1>3, <1>4, <1>5 DEF Process

LEMMA TickKeepsInv ==
    ASSUME BotsInv, NEW t \in Ticks, Tick(t)
    PROVE  BotsInv'
  <1>1. CASE BeginTick(t)
    <2>1. PICK s \in enabled :
            /\ symbol' = [symbol EXCEPT ![t] = s]
            /\ \/ /\ stage' = [stage EXCEPT ![t] = "refresh"]
                  /\ UNCHANGED <<knowledge, order, attempt>>
               \/ Decide(t, s, fair, market)
      BY <1>1 DEF BeginTick
    <2>2. /\ UNCHANGED <<phase, config, database, toGrant, session, api, past>>
          /\ begun' \in 0..MaxTicks /\ tickCount' \in Nat /\ s \in Symbols
          /\ symbol' \in [Ticks -> Symbols]
      BY <1>1, <2>1 DEF BeginTick, Ticks, BotsInv, BotsTypeOK
    <2>3. fair \in [Symbols -> Nat] /\ FairFits(fair) /\ market \in [Symbols -> Caches]
      BY DEF BotsInv, BotsTypeOK, Caches
    <2>4. CASE Decide(t, s, fair, market)
      BY <2>2, <2>3, <2>4, DecisionKeepsInv
    <2>5. CASE stage' = [stage EXCEPT ![t] = "refresh"] /\ UNCHANGED <<knowledge, order, attempt>>
      BY <2>2, <2>5
      DEF BotsInv, BotsTypeOK, SendsFit, FairFits, config, database, session, api, past, knowledge
    <2> QED BY <2>1, <2>4, <2>5
  <1>2. CASE EndRefresh(t)
    <2>1. /\ UNCHANGED <<phase, config, database, toGrant, session, api, past>>
          /\ begun' \in 0..MaxTicks /\ tickCount' \in Nat /\ symbol' \in [Ticks -> Symbols]
          /\ symbol[t] \in Symbols
      BY <1>2 DEF EndRefresh, BotsInv, BotsTypeOK
    <2>2. fair \in [Symbols -> Nat] /\ FairFits(fair) /\ market \in [Symbols -> Caches]
      BY DEF BotsInv, BotsTypeOK, Caches
    <2>3. CASE Decide(t, symbol[t], fair, market)
      BY <2>1, <2>2, <2>3, DecisionKeepsInv
    <2>4. ASSUME NEW last \in Prices \cup {0},
                 Decide(t, symbol[t],
                   IF last = 0 THEN fair ELSE [fair EXCEPT ![symbol[t]] = last],
                   [market EXCEPT ![symbol[t]] = [price |-> last, tick |-> tickCount]])
          PROVE  BotsInv'
      <3> DEFINE prices == IF last = 0 THEN fair ELSE [fair EXCEPT ![symbol[t]] = last]
                 cache == [market EXCEPT ![symbol[t]] = [price |-> last, tick |-> tickCount]]
      <3>1. prices \in [Symbols -> Nat] /\ FairFits(prices)
        BY <2>1, <2>2, BotsAssumption DEF FairFits
      <3>2. [price |-> last, tick |-> tickCount] \in Caches
        <4>1. tickCount \in Nat
          BY Scalars DEF BotsInv
        <4>2. tickCount \in Int
          BY <4>1
        <4> QED BY <4>2, RecordTypes, Zenon
      <3>3. cache \in [Symbols -> Caches]
        BY <2>1, <2>2, <3>2
      <3>4. Decide(t, symbol[t], prices, cache)
        BY <2>4
      <3> HIDE DEF prices, cache
      <3> QED BY <2>1, <3>1, <3>3, <3>4, DecisionKeepsInv
    <2> QED BY <1>2, <2>3, <2>4 DEF EndRefresh
  <1>3. CASE Answer(t)
    <2>1. Key(t) \in Keys
      BY DEF Key, Keys, BotsInv, BotsTypeOK
    <2> QED BY <1>3, <2>1, FinishKeepsInv
            DEF Answer, BotsInv, BotsTypeOK, FairFits, Attempts, config, database, knowledge,
                session, past
  <1>4. CASE LoseAnswer(t)
    <2>1. Key(t) \in Keys
      BY DEF Key, Keys, BotsInv, BotsTypeOK
    <2>2. placed' \subseteq Keys /\ working' \subseteq Keys /\ lost' \subseteq Ticks
          /\ losses' \in Nat
      <3>1. placed \subseteq Keys /\ working \subseteq Keys /\ lost \subseteq Ticks /\ losses \in Nat
        BY DEF BotsInv, BotsTypeOK
      <3>2. losses' \in Nat
        BY <1>4, <3>1 DEF LoseAnswer
      <3> QED BY <1>4, <2>1, <3>1, <3>2 DEF LoseAnswer
    <2>3. CASE Finish(t)
      BY <1>4, <2>2, <2>3, FinishKeepsInv
      DEF LoseAnswer, BotsInv, BotsTypeOK, FairFits, Attempts, config, database, knowledge,
          session, past
    <2>4. CASE /\ attempt[t].tries < Retries
               /\ attempt' = [attempt EXCEPT ![t].tries = @ + 1]
               /\ UNCHANGED <<stage, order>>
      <3>1. attempt[t] \in Attempts /\ attempt \in [Ticks -> Attempts]
        BY DEF BotsInv, BotsTypeOK, Attempts
      <3>2. attempt[t].tries + 1 \in 0..Retries
        BY <2>4, <3>1, BotsAssumption DEF Attempts
      <3>3. [attempt[t] EXCEPT !.tries = @ + 1] \in Attempts
        BY <3>1, <3>2 DEF Attempts
      <3>4. attempt' \in [Ticks -> Attempts]
        BY <2>4, <3>1, <3>3
      <3> QED BY <1>4, <2>2, <2>4, <3>4
              DEF LoseAnswer, BotsInv, BotsTypeOK, SendsFit, FairFits, Attempts, config, database,
                  knowledge, session, past
    <2> QED BY <1>4, <2>3, <2>4 DEF LoseAnswer
  <1>5. CASE Unauthorized(t)
    <2>1. CASE Finish(t)
      BY <1>5, <2>1, FinishKeepsInv
      DEF Unauthorized, BotsInv, BotsTypeOK, FairFits, Attempts, config, database, knowledge,
          session, past, api
    <2>2. CASE stage' = [stage EXCEPT ![t] = "rotate"] /\ UNCHANGED <<order, attempt>>
      BY <1>5, <2>2
      DEF Unauthorized, BotsInv, BotsTypeOK, SendsFit, FairFits, config, database, knowledge,
          session, past, api
    <2> QED BY <1>5, <2>1, <2>2 DEF Unauthorized
  <1>6. CASE RotateSession(t)
    <2>1. CASE Finish(t) /\ UNCHANGED session
      BY <1>6, <2>1, FinishKeepsInv
      DEF RotateSession, BotsInv, BotsTypeOK, FairFits, Attempts, config, database, knowledge,
          session, past, api
    <2>2. CASE /\ FreshToken
               /\ stage' = [stage EXCEPT ![t] = "send"]
               /\ attempt' = [attempt EXCEPT ![t] = [draw |-> 2, tries |-> 0, token |-> token + 1]]
               /\ order' = order
      <3>1. [draw |-> 2, tries |-> 0, token |-> token + 1] \in Attempts
        <4>1. token \in Nat
          BY Scalars DEF BotsInv
        <4>2. token + 1 \in Nat /\ 2 \in 1..2
          BY <4>1
        <4> QED BY <4>2, RecordTypes, Zenon
      <3>2. attempt' \in [Ticks -> Attempts]
        BY <2>2, <3>1 DEF BotsInv, BotsTypeOK, Attempts
      <3>3. SendsFit'
        BY <1>6, <2>2 DEF RotateSession, SendsFit, BotsInv, BotsTypeOK
      <3> QED BY <1>6, <2>2, <3>2, <3>3
              DEF RotateSession, FreshToken, BotsInv, BotsTypeOK, FairFits, Attempts, config,
                  database, knowledge, past, api
    <2> QED BY <1>6, <2>1, <2>2 DEF RotateSession
  <1> QED BY <1>1, <1>2, <1>3, <1>4, <1>5, <1>6 DEF Tick

LEMMA BotsNext == BotsInv /\ [Next]_vars => BotsInv'
  <1> SUFFICES ASSUME BotsInv, [Next]_vars PROVE BotsInv'
    OBVIOUS
  <1> USE DEF BotsInv, BotsTypeOK, SendsFit, FairFits, config, database, knowledge, session,
              tickVars, api, past
  <1>1. CASE HandleLate
    BY <1>1 DEF HandleLate
  <1>2. CASE TokenExpires
    BY <1>2 DEF TokenExpires
  <1>3. CASE UNCHANGED vars
    BY <1>3 DEF vars
  <1> QED BY <1>1, <1>2, <1>3, ProcessKeepsInv, TickKeepsInv DEF Next

LEMMA BotsAlways == Spec => []BotsInv
  BY BotsInit, BotsNext, PTL DEF Spec

(* The variables keep their types.                                         *)
THEOREM BotsTypeCorrect == Spec => []BotsTypeOK
  BY BotsAlways, PTL DEF BotsInv

(* Whatever the drifts, histories, variance and sizes: a bot's limit       *)
(* prices are whole cents, and none is zero while the variance is at most  *)
(* a half.                                                                 *)
THEOREM BotsQuoteWholeCents == Spec => []PricesAcceptable
  <1>1. BotsInv => PricesAcceptable
    BY DEF BotsInv, SendsFit, PricesAcceptable, Acceptable, Quotable
  <1> QED BY <1>1, BotsAlways, PTL

-----------------------------------------------------------------------------
(* Which keys of a tick the API has met, and what that says of the tick.   *)

Sent == placed \cup working
KeyOf(t, d) == [tick |-> t, draw |-> d]

KeysOf(t) ==
    /\ t > begun => stage[t] = "idle"
    /\ KeyOf(t, 1) \in Sent => t \in lost \/ (stage[t] = "done" /\ attempt[t].draw = 1)
    /\ KeyOf(t, 2) \in Sent => attempt[t].draw = 2
    /\ stage[t] \in {"idle", "refresh"} => KeyOf(t, 1) \notin Sent /\ KeyOf(t, 2) \notin Sent

KeysSent == \A t \in Ticks : KeysOf(t)

LEMMA KeysDiffer ==
    /\ \A t, u, d, e : KeyOf(t, d) = KeyOf(u, e) => t = u /\ d = e
    /\ \A t : Key(t) = KeyOf(t, attempt[t].draw)
  <1>1. \A t, d : KeyOf(t, d).tick = t /\ KeyOf(t, d).draw = d
    BY DEF KeyOf
  <1>2. \A t, u, d, e : KeyOf(t, d) = KeyOf(u, e) => t = u /\ d = e
    <2>1. SUFFICES ASSUME NEW t, NEW u, NEW d, NEW e, KeyOf(t, d) = KeyOf(u, e)
                   PROVE  t = u /\ d = e
      OBVIOUS
    <2>2. KeyOf(t, d).tick = KeyOf(u, e).tick /\ KeyOf(t, d).draw = KeyOf(u, e).draw
      BY <2>1, Zenon
    <2> QED BY <1>1, <2>2
  <1> QED BY <1>2 DEF Key, KeyOf

(* A tick that a step does not concern keeps its keys.                     *)
LEMMA OthersKeepKeys ==
    ASSUME begun \in Nat, begun' \in Nat, begun' >= begun, NEW u \in Ticks, KeysOf(u),
           stage'[u] = stage[u], attempt'[u].draw = attempt[u].draw, lost \subseteq lost',
           \A d \in 1..2 : KeyOf(u, d) \in Sent' => KeyOf(u, d) \in Sent
    PROVE  KeysOf(u)'
  <1>1. u \in Int /\ (u > begun' => u > begun)
    BY DEF Ticks
  <1>2. 1 \in 1..2 /\ 2 \in 1..2
    OBVIOUS
  <1>3. /\ KeyOf(u, 1) \in Sent' => KeyOf(u, 1) \in Sent
        /\ KeyOf(u, 2) \in Sent' => KeyOf(u, 2) \in Sent
    BY <1>2
  <1>4. KeyOf(u, 1)' = KeyOf(u, 1) /\ KeyOf(u, 2)' = KeyOf(u, 2)
    BY DEF KeyOf
  <1> QED BY <1>1, <1>3, <1>4 DEF KeysOf

LEMMA DecideFrame ==
    ASSUME BotsTypeOK, NEW t \in Ticks, NEW s, NEW prices, NEW cache, Decide(t, s, prices, cache)
    PROVE  /\ \A u \in Ticks \ {t} : stage'[u] = stage[u] /\ attempt'[u] = attempt[u]
           /\ stage'[t] \in {"done", "send"}
  <1>1. stage \in [Ticks -> {"idle", "refresh", "send", "rotate", "done"}] /\ DOMAIN attempt = Ticks
    BY DEF BotsTypeOK
  <1>2. \/ stage' = [stage EXCEPT ![t] = "done"] /\ attempt' = attempt
        \/ /\ stage' = [stage EXCEPT ![t] = "send"]
           /\ attempt' = [attempt EXCEPT ![t] = [draw |-> 1, tries |-> 0, token |-> token]]
    BY DEF Decide
  <1> QED BY <1>1, <1>2

(* The tick of a decision had sent nothing.                                *)
LEMMA DecisionKeepsKeys ==
    ASSUME BotsTypeOK, KeysSent, NEW t \in Ticks, NEW s, NEW prices, NEW cache,
           Decide(t, s, prices, cache), stage[t] \in {"idle", "refresh"},
           UNCHANGED api, begun' \in Nat, begun' >= begun, t <= begun'
    PROVE  KeysSent'
  <1>1. UNCHANGED <<placed, working, lost>> /\ Sent' = Sent
    BY DEF api, Sent
  <1>2. ASSUME NEW u \in Ticks \ {t} PROVE KeysOf(u)'
    <2>1. stage'[u] = stage[u] /\ attempt'[u].draw = attempt[u].draw
      BY DecideFrame, Zenon
    <2>2. KeysOf(u) /\ begun \in Nat /\ u \in Ticks
      BY Scalars DEF KeysSent
    <2> QED BY <1>1, <2>1, <2>2, OthersKeepKeys
  <1>3. KeysOf(t)'
    <2>1. KeyOf(t, 1) \notin Sent /\ KeyOf(t, 2) \notin Sent
      BY DEF KeysSent, KeysOf
    <2>2. KeyOf(t, 1)' = KeyOf(t, 1) /\ KeyOf(t, 2)' = KeyOf(t, 2)
      BY DEF KeyOf
    <2>3. ~(t > begun')
      BY DEF Ticks
    <2> QED BY <1>1, <2>1, <2>2, <2>3 DEF KeysOf
  <1> QED BY <1>2, <1>3 DEF KeysSent

(* What a request and its answer do to the keys of their tick.             *)
LEMMA RequestKeepsKeys ==
    ASSUME BotsTypeOK, KeysSent, NEW t \in Ticks, stage[t] \in {"send", "rotate"},
           stage'[t] \in {"send", "rotate", "done"},
           \A u \in Ticks \ {t} : stage'[u] = stage[u] /\ attempt'[u] = attempt[u],
           begun' = begun, lost \subseteq lost',
           Sent' \subseteq Sent \cup {Key(t)},
           attempt'[t].draw = attempt[t].draw \/ (attempt'[t].draw = 2 /\ Sent' = Sent),
           t \in lost' \/ Sent' = Sent \/ (stage'[t] = "done" /\ attempt'[t] = attempt[t])
    PROVE  KeysSent'
  <1>1. begun \in Nat
    BY Scalars
  <1>2. ASSUME NEW u \in Ticks \ {t} PROVE KeysOf(u)'
    <2>1. stage'[u] = stage[u] /\ attempt'[u].draw = attempt[u].draw
      OBVIOUS
    <2>2. \A d \in 1..2 : KeyOf(u, d) \in Sent' => KeyOf(u, d) \in Sent
      BY KeysDiffer
    <2>3. KeysOf(u) /\ u \in Ticks /\ begun' \in Nat /\ begun' >= begun
      BY <1>1 DEF KeysSent
    <2> QED BY <1>1, <2>1, <2>2, <2>3, OthersKeepKeys
  <1>3. KeysOf(t)'
    <2>1. KeyOf(t, 1)' = KeyOf(t, 1) /\ KeyOf(t, 2)' = KeyOf(t, 2)
      BY DEF KeyOf
    <2>2. KeysOf(t)
      BY DEF KeysSent
    <2>3. ~(t > begun')
      BY <1>1, <2>2 DEF KeysOf, Ticks
    <2>4. ASSUME KeyOf(t, 1) \in Sent'
          PROVE  t \in lost' \/ (stage'[t] = "done" /\ attempt'[t].draw = 1)
      <3>1. CASE KeyOf(t, 1) \in Sent
        BY <2>2, <3>1 DEF KeysOf
      <3>2. CASE KeyOf(t, 1) \notin Sent
        <4>1. attempt[t].draw = 1
          BY <2>4, <3>2, KeysDiffer
        <4> QED BY <2>4, <3>2, <4>1
      <3> QED BY <3>1, <3>2
    <2>5. ASSUME KeyOf(t, 2) \in Sent' PROVE attempt'[t].draw = 2
      <3>1. KeyOf(t, 2) \in Sent \/ attempt[t].draw = 2
        BY <2>5, KeysDiffer
      <3> QED BY <2>2, <3>1 DEF KeysOf
    <2> QED BY <2>1, <2>3, <2>4, <2>5 DEF KeysOf
  <1> QED BY <1>2, <1>3 DEF KeysSent

LEMMA KeysInit == Init => KeysSent
  BY DEF Init, KeysSent, KeysOf, Sent

(* A step that sends nothing and leaves every tick's stage, or ends it.    *)
LEMMA NothingSent ==
    ASSUME BotsTypeOK, KeysSent, begun' = begun, lost' = lost, attempt' = attempt,
           Sent' \subseteq Sent,
           \A t \in Ticks : \/ stage'[t] = stage[t]
                            \/ stage[t] # "idle" /\ stage'[t] = "done"
    PROVE  KeysSent'
  <1> SUFFICES ASSUME NEW t \in Ticks PROVE KeysOf(t)'
    BY DEF KeysSent
  <1>1. KeysOf(t)
    BY DEF KeysSent
  <1>2. KeyOf(t, 1)' = KeyOf(t, 1) /\ KeyOf(t, 2)' = KeyOf(t, 2)
    BY DEF KeyOf
  <1> QED BY <1>1, <1>2 DEF KeysOf

LEMMA KeysTick ==
    ASSUME BotsTypeOK, KeysSent, NEW t \in Ticks, Tick(t)
    PROVE  KeysSent'
  <1>0. /\ begun \in Nat /\ begun' \in Nat /\ begun' >= begun /\ (stage[t] # "idle" => t <= begun)
    <2>0. KeysOf(t) /\ begun \in Nat /\ t \in Nat
      BY Scalars DEF KeysSent, Ticks
    <2>1. begun \in Nat /\ t \in Nat /\ (stage[t] # "idle" => ~(t > begun))
      BY <2>0 DEF KeysOf
    <2>2. CASE BeginTick(t)
      BY <2>1, <2>2 DEF BeginTick
    <2>3. CASE ~BeginTick(t)
      <3>1. begun' = begun
        BY <2>3 DEF Tick, EndRefresh, Answer, LoseAnswer, Unauthorized, RotateSession
      <3> QED BY <2>1, <3>1
    <2> QED BY <2>2, <2>3
  <1>d. /\ stage \in [Ticks -> {"idle", "refresh", "send", "rotate", "done"}]
        /\ attempt \in [Ticks -> Attempts]
    BY DEF BotsTypeOK, Attempts
  <1>a. Finish(t) =>
          /\ stage'[t] = "done" /\ attempt'[t] = attempt[t]
          /\ \A u \in Ticks \ {t} : stage'[u] = stage[u] /\ attempt'[u] = attempt[u]
    BY <1>d DEF Finish
  <1>1. CASE BeginTick(t)
    <2>1. t = begun + 1 /\ begun' = t /\ UNCHANGED api
      BY <1>1 DEF BeginTick
    <2>2. stage[t] = "idle"
      BY <1>0, <2>1 DEF KeysSent, KeysOf, Ticks
    <2>3. ASSUME NEW s, Decide(t, s, fair, market) PROVE KeysSent'
      BY <1>0, <2>1, <2>2, <2>3, DecisionKeepsKeys
    <2>4. CASE stage' = [stage EXCEPT ![t] = "refresh"] /\ UNCHANGED attempt
      <3>1. UNCHANGED <<placed, working, lost>> /\ Sent' = Sent
        BY <2>1 DEF api, Sent
      <3>2. ASSUME NEW u \in Ticks \ {t} PROVE KeysOf(u)'
        <4>1. stage'[u] = stage[u] /\ attempt'[u].draw = attempt[u].draw
          BY <1>d, <2>4
        <4>2. KeysOf(u) /\ u \in Ticks
          BY DEF KeysSent
        <4> QED BY <1>0, <3>1, <4>1, <4>2, OthersKeepKeys
      <3>3. KeysOf(t)'
        <4>1. KeyOf(t, 1) \notin Sent /\ KeyOf(t, 2) \notin Sent
          BY <2>2 DEF KeysSent, KeysOf
        <4>2. KeyOf(t, 1)' = KeyOf(t, 1) /\ KeyOf(t, 2)' = KeyOf(t, 2)
          BY DEF KeyOf
        <4>3. ~(t > begun')
          BY <2>1 DEF Ticks
        <4> QED BY <3>1, <4>1, <4>2, <4>3 DEF KeysOf
      <3> QED BY <3>2, <3>3 DEF KeysSent
    <2> QED BY <1>1, <2>3, <2>4 DEF BeginTick
  <1>2. CASE EndRefresh(t)
    <2>1. stage[t] = "refresh" /\ begun' = begun /\ UNCHANGED api
      BY <1>2 DEF EndRefresh
    <2>2. ASSUME NEW prices, NEW cache, Decide(t, symbol[t], prices, cache) PROVE KeysSent'
      BY <1>0, <2>1, <2>2, DecisionKeepsKeys
    <2> QED BY <1>2, <2>2 DEF EndRefresh
  <1>3. CASE Answer(t)
    <2>1. /\ stage[t] = "send" /\ Finish(t) /\ begun' = begun /\ lost' = lost
          /\ Sent' \subseteq Sent \cup {Key(t)}
      BY <1>3 DEF Answer, Sent
    <2> QED BY <1>a, <2>1, RequestKeepsKeys
  <1>4. CASE LoseAnswer(t)
    <2>1. /\ stage[t] = "send" /\ begun' = begun /\ lost \subseteq lost'
          /\ Sent' \subseteq Sent \cup {Key(t)} /\ (t \in lost' \/ Sent' = Sent)
      BY <1>4 DEF LoseAnswer, Sent
    <2>2. CASE Finish(t)
      BY <1>a, <2>1, <2>2, RequestKeepsKeys
    <2>3. CASE /\ attempt' = [attempt EXCEPT ![t].tries = @ + 1]
               /\ UNCHANGED stage
      <3>1. attempt[t] \in Attempts
        BY <1>d
      <3>2. /\ attempt'[t].draw = attempt[t].draw
            /\ \A u \in Ticks \ {t} : stage'[u] = stage[u] /\ attempt'[u] = attempt[u]
        BY <1>d, <2>3, <3>1 DEF Attempts
      <3> QED BY <2>1, <2>3, <3>2, RequestKeepsKeys
    <2> QED BY <1>4, <2>2, <2>3 DEF LoseAnswer
  <1>5. CASE Unauthorized(t)
    <2>1. stage[t] = "send" /\ begun' = begun /\ lost' = lost /\ Sent' = Sent
      BY <1>5 DEF Unauthorized, api, Sent
    <2>2. CASE Finish(t)
      BY <1>a, <2>1, <2>2, RequestKeepsKeys
    <2>3. CASE stage' = [stage EXCEPT ![t] = "rotate"] /\ UNCHANGED attempt
      <3>1. /\ stage'[t] = "rotate"
            /\ \A u \in Ticks \ {t} : stage'[u] = stage[u] /\ attempt'[u] = attempt[u]
        BY <1>d, <2>3
      <3> QED BY <2>1, <2>3, <3>1, RequestKeepsKeys
    <2> QED BY <1>5, <2>2, <2>3 DEF Unauthorized
  <1>6. CASE RotateSession(t)
    <2>1. stage[t] = "rotate" /\ begun' = begun /\ lost' = lost /\ Sent' = Sent
      BY <1>6 DEF RotateSession, api, Sent
    <2>2. CASE Finish(t)
      BY <1>a, <2>1, <2>2, RequestKeepsKeys
    <2>3. CASE /\ stage' = [stage EXCEPT ![t] = "send"]
               /\ attempt' = [attempt EXCEPT ![t] = [draw |-> 2, tries |-> 0, token |-> token + 1]]
      <3>1. /\ stage'[t] = "send" /\ attempt'[t].draw = 2
            /\ \A u \in Ticks \ {t} : stage'[u] = stage[u] /\ attempt'[u] = attempt[u]
        BY <1>d, <2>3
      <3> QED BY <2>1, <3>1, RequestKeepsKeys
    <2> QED BY <1>6, <2>2, <2>3 DEF RotateSession
  <1> QED BY <1>1, <1>2, <1>3, <1>4, <1>5, <1>6 DEF Tick

LEMMA KeysNext == BotsTypeOK /\ KeysSent /\ [Next]_vars => KeysSent'
  <1> SUFFICES ASSUME BotsTypeOK, KeysSent, [Next]_vars PROVE KeysSent'
    OBVIOUS
  <1>0. stage \in [Ticks -> {"idle", "refresh", "send", "rotate", "done"}]
    BY DEF BotsTypeOK
  <1>1. CASE Start \/ InsertAccount \/ Grant \/ SignIn \/ TokenExpires \/ UNCHANGED vars
    <2>1. UNCHANGED <<begun, stage, attempt, placed, working, lost>>
      BY <1>1 DEF Start, InsertAccount, Grant, SignIn, TokenExpires, vars, api, tickVars
    <2> QED BY <2>1, NothingSent DEF Sent
  <1>2. CASE Die
    <2>1. /\ UNCHANGED <<begun, attempt, placed, working, lost>>
          /\ stage' = [t \in Ticks |-> IF stage[t] = "idle" THEN "idle" ELSE "done"]
      BY <1>2 DEF Die, api
    <2> QED BY <1>0, <2>1, NothingSent DEF Sent
  <1>3. CASE HandleLate
    <2>1. UNCHANGED <<begun, stage, attempt, lost>> /\ Sent' \subseteq Sent
      BY <1>3 DEF HandleLate, tickVars, Sent
    <2> QED BY <2>1, NothingSent
  <1> QED BY <1>1, <1>2, <1>3, KeysTick DEF Next, Process

(* An order is made twice only when an answer was lost while its token     *)
(* ran out.                                                                *)
THEOREM BotsRepeatOnlyUnanswered == Spec => []RepeatsExplained
  <1>1. KeysSent => RepeatsExplained
    <2> SUFFICES ASSUME KeysSent, NEW t \in Ticks,
                        {[tick |-> t, draw |-> d] : d \in 1..2} \subseteq placed
                 PROVE  t \in lost /\ attempt[t].draw = 2
      BY DEF RepeatsExplained
    <2>1. KeyOf(t, 1) \in Sent /\ KeyOf(t, 2) \in Sent
      BY DEF KeyOf, Sent
    <2>2. KeysOf(t)
      BY DEF KeysSent
    <2> QED BY <2>1, <2>2 DEF KeysOf
  <1>2. BotsInv => BotsTypeOK
    BY DEF BotsInv
  <1> QED BY <1>1, <1>2, BotsAlways, KeysInit, KeysNext, PTL DEF Spec

-----------------------------------------------------------------------------
(* Seeding.                                                                *)

Seeding ==
    /\ seeded \subseteq granted \cup toGrant \cup cut
    /\ phase # "granting" => toGrant = {}

LEMMA SeedingNext == Seeding /\ [Next]_vars => Seeding'
  <1> SUFFICES ASSUME Seeding, [Next]_vars PROVE Seeding'
    OBVIOUS
  <1> USE DEF Seeding
  <1>1. CASE Start
    BY <1>1 DEF Start, database, past
  <1>2. CASE InsertAccount
    BY <1>2 DEF InsertAccount, AllOf, past
  <1>3. CASE Grant
    BY <1>3 DEF Grant, past
  <1>4. CASE SignIn
    BY <1>4 DEF SignIn, database, past
  <1>5. CASE Die
    BY <1>5 DEF Die, database
  <1>6. CASE HandleLate \/ TokenExpires \/ UNCHANGED vars
    BY <1>6 DEF HandleLate, TokenExpires, vars, database, past
  <1>7. ASSUME NEW t \in Ticks, Tick(t) PROVE Seeding'
    <2>1. UNCHANGED <<phase, granted, toGrant, seeded, cut>>
      BY <1>7 DEF Tick, BeginTick, EndRefresh, Answer, LoseAnswer, Unauthorized, RotateSession,
                  database, past
    <2> QED BY <2>1
  <1> QED BY <1>1, <1>2, <1>3, <1>4, <1>5, <1>6, <1>7 DEF Next, Process

(* A bot that runs owns shares of what it was seeded for, but where the    *)
(* seeding was cut off.                                                    *)
THEOREM BotsOwnTheirSeed == Spec => []SharesGranted
  <1>1. Init => Seeding
    BY DEF Init, Seeding
  <1>2. Seeding => SharesGranted
    BY DEF Seeding, SharesGranted
  <1> QED BY <1>1, <1>2, SeedingNext, PTL DEF Spec
=============================================================================
