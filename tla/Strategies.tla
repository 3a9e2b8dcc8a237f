----------------------------- MODULE Strategies -----------------------------
(***************************************************************************)
(* What a bot decides at a tick: the random walk of its fair value and the *)
(* four strategies, as sets of what the random draws can give.             *)
(*                                                                         *)
(* Prices are in mills, tenths of a cent, on whose grid the walk is kept;  *)
(* fractions (drift, offset, variance, threshold) are in basis points.     *)
(***************************************************************************)
EXTENDS Integers, SequencesExt

CONSTANTS
    Drifts,                         \* the fractions a fair value moves by
    Offsets,                        \* random offsets from it, within PRICE_VARIANCE
    PriceVariance, MeanThreshold,
    Quantities, VolumeQuantities,   \* the ranges of order sizes
    TrendWindow, TrendMinSamples, MeanWindow, MeanMinSamples

Cent == 10
Whole == 10000
StrategyNames == {"random-market-maker", "trend-follower", "mean-reverter", "volume-bot"}

(* As config.js checks its settings: the variance is at most 1, and a size *)
(* has no upper bound.                                                     *)
ASSUME StrategiesAssumption ==
    /\ Drifts \subseteq Int
    /\ PriceVariance \in 0..Whole /\ MeanThreshold \in 0..Whole
    /\ Offsets \subseteq -PriceVariance..PriceVariance
    /\ Quantities \subseteq Nat \ {0} /\ VolumeQuantities \subseteq Nat \ {0}
    /\ TrendWindow \in Nat \ {0} /\ TrendMinSamples \in Nat \ {0}
    /\ MeanWindow \in Nat \ {0} /\ MeanMinSamples \in Nat \ {0}

(* Mutant: no floor.                                                       *)
DriftedFreely(price, drift) == (price * (Whole + drift)) \div Whole

(* FairValueTracker.tick: at least one cent.                               *)
Drifted(price, drift) ==
    LET moved == (price * (Whole + drift)) \div Whole
    IN  IF moved < Cent THEN Cent ELSE moved

(* roundPrice, to the nearest cent.                                        *)
OffsetPrice(price, offset) ==
    Cent * ((price * (Whole + offset) + (Cent * Whole) \div 2) \div (Cent * Whole))

Total(prices) == FoldSeq(+, 0, prices)

Latest(prices, n) ==
    IF n >= Len(prices) THEN prices ELSE SubSeq(prices, Len(prices) - n + 1, Len(prices))

(* A price is pushed at every tick that knows one, cached or new, whatever *)
(* the symbol: a strategy has one history.                                 *)
Pushed(history, price, window) ==
    IF price = 0 THEN history ELSE Latest(Append(history, price), window)

Orders(side, types, prices, quantities) ==
    {[side |-> side, type |-> type,
      price |-> IF type = "limit" THEN price ELSE 0, quantity |-> quantity] :
        type \in types, price \in prices, quantity \in quantities}

Types == {"market", "limit"}
Sides == {"buy", "sell"}

(* random-market-maker and volume-bot: the offset does not depend on the   *)
(* side.                                                                   *)
AroundFairValue(fair, quantities) ==
    UNION {Orders(side, Types, {OffsetPrice(fair, o) : o \in Offsets}, quantities) : side \in Sides}

Neutral(fair) ==
    UNION {Orders(side, {"limit"}, {OffsetPrice(fair, 0)}, Quantities) : side \in Sides}

(* A buy half the variance below the fair value, a sale above.             *)
Directed(side, fair) ==
    LET half == PriceVariance \div 2
    IN  Orders(side, Types, {OffsetPrice(fair, IF side = "buy" THEN -half ELSE half)}, Quantities)

TrendSide(history) ==
    LET short == Latest(history, IF TrendWindow < 2 THEN 1 ELSE TrendWindow \div 2)
    IN  IF Total(short) * Len(history) >= Total(history) * Len(short) THEN "buy" ELSE "sell"

TrendFollower(fair, history) ==
    IF Len(history) < TrendMinSamples
      THEN Neutral(fair)
      ELSE Directed(TrendSide(history), fair)

(* The sides on which the fair value is beyond the threshold.              *)
ReversionSides(fair, history) ==
    LET mean == Total(history)          \* times the number of samples, as away is
        away == fair * Len(history) - mean
    IN  {side \in Sides :
            IF side = "buy" THEN Whole * away < -(MeanThreshold * mean)
                            ELSE Whole * away > MeanThreshold * mean}

MeanReverter(fair, history) ==
    IF Len(history) < MeanMinSamples
      THEN Neutral(fair)
      ELSE UNION {Directed(side, fair) : side \in ReversionSides(fair, history)}

WindowOf(strategy) == IF strategy = "trend-follower" THEN TrendWindow ELSE MeanWindow

Remembers(strategy) == strategy \in {"trend-follower", "mean-reverter"}

HistoryAfter(strategy, history, last) ==
    IF Remembers(strategy) THEN Pushed(history, last, WindowOf(strategy)) ELSE history

(* The orders a strategy may place; it places none if there is none, and   *)
(* the volume bot only with some probability.                              *)
Decisions(strategy, fair, history) ==
    CASE strategy = "random-market-maker" -> AroundFairValue(fair, Quantities)
      [] strategy = "volume-bot" -> AroundFairValue(fair, VolumeQuantities)
      [] strategy = "trend-follower" -> TrendFollower(fair, history)
      [] strategy = "mean-reverter" -> MeanReverter(fair, history)

MaySkip(strategy, orders) == strategy = "volume-bot" \/ orders = {}
=============================================================================
