------------------------------ MODULE Opportunity ------------------------------
(***************************************************************************)
(* backend/opportunity.py: the ten signal algorithms, the overrides of a   *)
(* symbol and the choice between several algorithms; and the sizing of     *)
(* backend/allocator.py.                                                   *)
(*                                                                         *)
(* A verdict is "LONG", "SHORT" or "none" (no side, a score of 0, or a     *)
(* blocked_reason: make_opportunity returns None for all three, and the    *)
(* wording of the reason is not kept).  Scores are positive numbers whose  *)
(* size decides nothing but which of the algorithms that fired is picked,  *)
(* so a choice by score is a set of verdicts.  Quantities are integers in  *)
(* the units of the code; None is a statistic that is missing.             *)
(***************************************************************************)
EXTENDS Integers

CONSTANT None

ASSUME NoneIsNoNumber == None \notin Int

Algorithms == {"meanrev", "momentum", "ofi", "imbalance", "sweep", "wide_spread",
               "raw_momentum", "book_lean", "confluence", "bb_revert"}

Maybe(S) == S \cup {None}

\* One side of the book, over the first three levels.
HalfType == [pathHole : Maybe(Int), ratio : Maybe(Int), shape : Maybe(Int),
             pathShape : Maybe(Int), backHole : Maybe(Int)]

\* SymbolStats.  books: fair and mexc_mid are known; warm: sigma_spread > 0;
\* fv, fv5, fv30: fair velocity over its window, 5 s and 30 s; imb: the log of
\* the book's imbalance; cur, avg: mexc_spread_bps and its mean over 30 s;
\* bbz: mexc_mid_z_60s.
StatsType == [books : BOOLEAN, warm : BOOLEAN,
              spread : Maybe(Int), z : Maybe(Int), bbz : Maybe(Int), fv : Maybe(Int),
              fv5 : Maybe(Int), fv30 : Maybe(Int), ofi : Maybe(Int), imb : Maybe(Int),
              depth : Maybe(Nat), cur : Maybe(Int), avg : Maybe(Int), burst : Maybe(Int),
              longBook : HalfType, shortBook : HalfType]

\* The thresholds an algorithm reads, under the names the algorithms share.
ParamsType == [min : Int, max : Int, minSpread : Int, needLag : BOOLEAN, lag : Int,
               chase : Int, align : BOOLEAN, minImb : Int, needOfi : BOOLEAN,
               minOfi : Int, agree5 : BOOLEAN, fade : Int, ratio : Int]

MicroType == [levels : Int, pathHole : Int, ratio : Int, shape : Int, pathShape : Int,
              backHole : Int]

StrategyType == [algorithm : Algorithms, invert : BOOLEAN, minDepth : Int, maxFair : Int,
                 maxVelocity : Int, ofiAlign : BOOLEAN,
                 params : [Algorithms -> ParamsType], micro : MicroType]

SizingType == [pct : Maybe(Nat), leverage : Maybe(Int), consume : Maybe(Nat),
               maxNotional : Maybe(Nat)]

\* long, short: not (allow_long is False), not (allow_short is False).
OverrideType == [enabled : BOOLEAN, algorithms : SUBSET Algorithms,
                 mode : {"ANY", "BEST", "CONSENSUS"}, long : BOOLEAN, short : BOOLEAN,
                 minSpread : Int, lag : Int, chase : Int, fade : Int, micro : MicroType,
                 params : [Algorithms -> Maybe(ParamsType)],
                 sizing : SizingType]

ASSUME NoneIsNoOverride == None \notin OverrideType

RiskType == [share : 0 .. 100, pct : Nat, minBalance : Nat, minMargin : Nat, useMax : BOOLEAN,
             fixed : Int, consume : Nat]

Flip(side) == CASE side = "LONG" -> "SHORT" [] side = "SHORT" -> "LONG" [] OTHER -> "none"
Buys(x)    == IF x > 0 THEN "LONG" ELSE "SHORT"
Size(x)    == IF x < 0 THEN -x ELSE x
Or0(x)     == IF x = None THEN 0 ELSE x

\* mute: a factor of the score is 0, and a score of 0 is no signal.
Call(side, blocked, mute) == IF blocked \/ mute THEN "none" ELSE side

(* -------------------------------- guards -------------------------------- *)
Thin(st, s) == Or0(st.depth) < s.minDepth
Empty(st)   == Or0(st.depth) = 0

Against(side, x, t) == (side = "LONG" /\ x < -t) \/ (side = "SHORT" /\ x > t)

\* Mutant: the SHORT branch copied with the sign of the LONG one.
LagBlocksCopied(side, x, p) ==
    /\ p.needLag /\ x # None
    /\ \/ side = "LONG" /\ x > p.chase
       \/ side = "SHORT" /\ x < -p.chase
       \/ side = "LONG" /\ x > -p.lag
       \/ side = "SHORT" /\ x < -p.lag

\* x is how far MEXC stands above the fair price, in bps.
LagBlocks(side, x, p) ==
    /\ p.needLag /\ x # None
    /\ \/ side = "LONG" /\ x > p.chase
       \/ side = "SHORT" /\ x < -p.chase
       \/ side = "LONG" /\ x > -p.lag
       \/ side = "SHORT" /\ x < p.lag

Refutes(side, x) == (side = "LONG" /\ x <= 0) \/ (side = "SHORT" /\ x >= 0)

BookBlocks(side, imb, p) ==
    p.align /\ (imb = None \/ Size(imb) < p.minImb \/ Refutes(side, imb))

(* ------------------------------ algorithms ------------------------------ *)
\* st: the statistics of a symbol; s: the strategy; p: the algorithm's own
\* thresholds.
MeanRev(st, s, p) ==
    LET z == st.z  fv == Or0(st.fv)  ofi == Or0(st.ofi)
        side == IF z > 0 THEN "SHORT" ELSE "LONG"
    IN Call(side,
         \/ ~st.warm \/ z = None
         \/ p.minSpread > 0 /\ st.spread # None /\ Size(st.spread) < p.minSpread
         \/ Size(z) < p.min
         \/ p.max > 0 /\ Size(z) > p.max
         \/ Size(fv) > s.maxFair /\ ((z > 0 /\ fv > 0) \/ (z < 0 /\ fv < 0))
         \/ s.ofiAlign /\ Size(ofi) > p.minOfi /\ ((z > 0 /\ ofi > 0) \/ (z < 0 /\ ofi < 0))
         \/ p.align /\ st.imb # None /\ p.minImb > 0 /\ Against(side, st.imb, p.minImb)
         \/ Thin(st, s),
         z = 0 \/ Empty(st))

Momentum(st, s, p) ==
    LET side == Buys(st.fv) IN
    Call(side,
      \/ st.fv = None \/ Size(st.fv) < p.min \/ Size(st.fv) > s.maxVelocity
      \/ p.needLag /\ st.spread # None
           /\ ((side = "LONG" /\ st.spread > 0) \/ (side = "SHORT" /\ st.spread < 0))
      \/ Thin(st, s)
      \/ s.ofiAlign /\ Against(side, Or0(st.ofi), 5000),
      st.fv = 0 \/ Empty(st))

Ofi(st, s, p) ==
    LET side == Buys(st.ofi) IN
    Call(side,
      \/ st.ofi = None \/ Size(st.ofi) < p.min
      \/ LagBlocks(side, st.spread, p)
      \/ Size(Or0(st.fv)) > s.maxVelocity
      \/ BookBlocks(side, st.imb, p)
      \/ Thin(st, s),
      st.ofi = 0 \/ Empty(st))

Imbalance(st, s, p) ==
    LET side == Buys(st.imb) IN
    Call(side,
      \/ st.imb = None \/ Size(st.imb) < p.min \/ Size(st.imb) > p.max
      \/ LagBlocks(side, st.spread, p)
      \/ Size(Or0(st.fv)) > s.maxVelocity
      \/ Against(side, Or0(st.fv), 2)
      \/ Thin(st, s),
      st.imb = 0 \/ Empty(st))

Sweep(st, s, p) ==
    Call(Buys(st.burst),
      \/ st.burst = None \/ Size(st.burst) < p.min
      \/ Size(Or0(st.fv)) > s.maxVelocity
      \/ Thin(st, s),
      st.burst = 0 \/ Empty(st))

\* cur / avg < wide_spread_ratio, multiplied out.
WideSpread(st, s, p) ==
    LET side == Buys(st.imb) IN
    Call(side,
      \/ st.cur = None \/ st.avg = None \/ st.avg <= 0
      \/ st.cur < p.ratio * st.avg \/ st.cur < p.min
      \/ st.imb = None \/ Size(st.imb) < p.minImb
      \/ Against(side, Or0(st.fv), 2)
      \/ Thin(st, s),
      st.cur = 0 \/ st.imb = 0)

\* The two filters on raw_momentum_max_mexc_spread_bps and _min_density_log are
\* left out: StrategyConfig has no such fields, so both thresholds are always 0.
RawMomentum(st, s, p) ==
    LET fv == st.fv  side == Buys(fv)  ofi == Or0(st.ofi) IN
    Call(side,
      \/ fv = None \/ Size(fv) < p.min \/ Size(fv) > p.max
      \/ LagBlocks(side, st.spread, p)
      \/ p.agree5 /\ st.fv5 # None /\ st.fv5 # 0 /\ Buys(st.fv5) # side
      \/ p.fade > 0 /\ st.fv30 # None /\ Size(st.fv30) > p.fade /\ Buys(st.fv30) # side
      \/ p.needOfi /\ (Size(ofi) < p.minOfi \/ Refutes(side, ofi))
      \/ BookBlocks(side, st.imb, p)
      \/ Thin(st, s),
      fv = 0 \/ Empty(st))

\* p.min is log(max(1.01, book_lean_min_ratio)).
BookLean(st, s, p) ==
    LET side == Buys(st.imb) IN
    Call(side,
      \/ st.imb = None \/ Size(st.imb) < p.min
      \/ Against(side, Or0(st.fv), 3)
      \/ Thin(st, s),
      st.imb = 0)

Confluence(st, s, p) ==
    LET side == Buys(st.fv) IN
    Call(side,
      \/ st.fv = None \/ st.ofi = None \/ st.imb = None
      \/ LagBlocks(side, st.spread, p)
      \/ Size(st.fv) < p.min \/ Size(st.fv) > p.max
      \/ Size(st.ofi) < p.minOfi \/ Size(st.imb) < p.minImb
      \/ Buys(st.ofi) # side \/ Buys(st.imb) # side
      \/ Thin(st, s),
      st.fv = 0 \/ st.ofi = 0 \/ st.imb = 0 \/ Empty(st))

BbRevert(st, s, p) ==
    LET z == st.bbz IN
    Call(IF z > 0 THEN "SHORT" ELSE "LONG",
      \/ z = None \/ Size(z) < p.min \/ Size(z) > p.max
      \/ st.fv30 # None /\ ((z > 0 /\ st.fv30 > 5) \/ (z < 0 /\ st.fv30 < -5))
      \/ Thin(st, s),
      z = 0)

Eval(a, st, s) ==
    LET p == s.params[a] IN
    CASE a = "momentum"     -> Momentum(st, s, p)
      [] a = "ofi"          -> Ofi(st, s, p)
      [] a = "imbalance"    -> Imbalance(st, s, p)
      [] a = "sweep"        -> Sweep(st, s, p)
      [] a = "wide_spread"  -> WideSpread(st, s, p)
      [] a = "raw_momentum" -> RawMomentum(st, s, p)
      [] a = "book_lean"    -> BookLean(st, s, p)
      [] a = "confluence"   -> Confluence(st, s, p)
      [] a = "bb_revert"    -> BbRevert(st, s, p)
      [] OTHER              -> MeanRev(st, s, p)

\* books: both the fair price and the MEXC mid are known.
Single(a, st, s) ==
    IF ~st.books THEN "none"
    ELSE IF s.invert THEN Flip(Eval(a, st, s)) ELSE Eval(a, st, s)

(* ------------------------------- overrides ------------------------------- *)
OverrideBlocks(side, st, ov) ==
    \/ side = "LONG" /\ ~ov.long
    \/ side = "SHORT" /\ ~ov.short
    \/ /\ st.spread # None
       /\ \/ ov.minSpread > 0 /\ Size(st.spread) < ov.minSpread
          \/ side = "LONG" /\ (st.spread > ov.chase \/ (ov.lag > 0 /\ st.spread > -ov.lag))
          \/ side = "SHORT" /\ (st.spread < -ov.chase \/ (ov.lag > 0 /\ st.spread < ov.lag))
    \/ st.fv30 # None /\ ov.fade > 0 /\ Against(side, st.fv30, ov.fade)

\* The shape of the side of the book the entry eats (path) and of the side it
\* leans on (support), against the limits m.
MicroBlocks(side, st, m) ==
    LET x == IF side = "LONG" THEN st.longBook ELSE st.shortBook IN
    /\ m.levels > 0
    /\ \/ m.pathHole > 0 /\ x.pathHole # None /\ x.pathHole > m.pathHole
       \/ m.ratio > 0 /\ x.ratio # None /\ x.ratio < m.ratio
       \/ m.shape > 0 /\ x.shape # None /\ x.shape < m.shape
       \/ m.pathShape > 0 /\ x.pathShape # None /\ x.pathShape < m.pathShape
       \/ m.backHole > 0 /\ x.backHole # None /\ x.backHole > m.backHole

Filtered(side, st, s, ov) ==
    IF \/ ov # None /\ OverrideBlocks(side, st, ov)
       \/ MicroBlocks(side, st, IF ov = None THEN s.micro ELSE ov.micro)
    THEN "none" ELSE side

\* The thresholds of an override stand in for the strategy's while its
\* algorithms run.
Merged(s, ov) ==
    [s EXCEPT !.params = [a \in Algorithms |-> IF ov.params[a] = None THEN s.params[a]
                                               ELSE ov.params[a]]]

Evaluate(st, s) == Filtered(Single(s.algorithm, st, s), st, s, None)

Fired(st, s, ov) == {Single(a, st, Merged(s, ov)) : a \in ov.algorithms} \ {"none"}

\* Mutant: a consensus returned as it is, past the filters of the symbol.
EvaluateMultiUnfiltered(st, s, ov) ==
    LET fired == Fired(st, s, ov) IN
    IF fired = {} \/ (ov.mode = "CONSENSUS" /\ fired = {"LONG", "SHORT"}) THEN {"none"}
    ELSE {IF ov.mode = "CONSENSUS" THEN side ELSE Filtered(side, st, s, ov) : side \in fired}
           \cup (IF ov.mode = "BEST" THEN {"none"} ELSE {})

\* ANY takes the best score, BEST too unless it is below 1.2, CONSENSUS the
\* common side of the algorithms that fired.
EvaluateMulti(st, s, ov) ==
    LET fired == Fired(st, s, ov) IN
    IF fired = {} \/ (ov.mode = "CONSENSUS" /\ fired = {"LONG", "SHORT"}) THEN {"none"}
    ELSE {Filtered(side, st, s, ov) : side \in fired}
           \cup (IF ov.mode = "BEST" THEN {"none"} ELSE {})

\* An override without algorithms leaves the strategy alone: its filters are
\* not applied.
Verdicts(st, s, ov) ==
    IF ov # None /\ ov.algorithms # {} THEN EvaluateMulti(st, s, ov) ELSE {Evaluate(st, s)}

(* -------------------------------- sizing -------------------------------- *)
\* Shares are percentages, so notionals are in units of 1 / 10000 USDT.
Given(x, default) == IF x = None THEN default ELSE x

Leverage(risk, override, hint) ==
    LET lev == IF override # None THEN override
               ELSE IF risk.useMax /\ hint > 0 THEN hint ELSE risk.fixed
    IN IF lev <= 0 THEN 1 ELSE lev

CappedBy(x, cap) == IF cap > 0 /\ x > cap THEN cap ELSE x

Margin(risk, pct, free) == free * risk.share * pct

\* Mutant: the caps put on the margin, which the leverage then multiplies.
NotionalOfCapped(risk, o, free, hint, depth) ==
    LET margin == Margin(risk, Given(o.pct, risk.pct), free) IN
    IF free < risk.minBalance \/ margin < 10000 * risk.minMargin THEN 0
    ELSE CappedBy(CappedBy(margin, 10000 * Given(o.maxNotional, 0)),
                  100 * Given(o.consume, risk.consume) * depth)
           * Leverage(risk, o.leverage, hint)

\* 0 is a refusal: low_balance, tiny_margin or zero_size.
Notional(risk, o, free, hint, depth) ==
    LET margin == Margin(risk, Given(o.pct, risk.pct), free) IN
    IF free < risk.minBalance \/ margin < 10000 * risk.minMargin THEN 0
    ELSE LET wanted == margin * Leverage(risk, o.leverage, hint)
             capped == CappedBy(CappedBy(wanted, 10000 * Given(o.maxNotional, 0)),
                                100 * Given(o.consume, risk.consume) * depth)
         IN IF capped <= 0 THEN 0 ELSE capped
================================================================================
