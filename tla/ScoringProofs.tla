----------------------------- MODULE ScoringProofs -----------------------------
(***************************************************************************)
(* Proofs about Scoring and Opportunity: a mirrored market gets mirrored   *)
(* verdicts from every algorithm, for any thresholds; no signal goes round *)
(* the guards; and an order stays within its limits.                       *)
(***************************************************************************)
EXTENDS Scoring, TLAPS

(* ------------------------------- the mirror ------------------------------- *)
LEMMA MirrorFields ==
    ASSUME NEW st \in StatsType
    PROVE  LET m == MirrorStats(st) IN
           /\ m.books = st.books /\ m.warm = st.warm /\ m.depth = st.depth
           /\ m.cur = st.cur /\ m.avg = st.avg
           /\ m.spread = Neg(st.spread) /\ m.z = Neg(st.z) /\ m.bbz = Neg(st.bbz)
           /\ m.fv = Neg(st.fv) /\ m.fv5 = Neg(st.fv5) /\ m.fv30 = Neg(st.fv30)
           /\ m.ofi = Neg(st.ofi) /\ m.imb = Neg(st.imb) /\ m.burst = Neg(st.burst)
           /\ m.longBook = st.shortBook /\ m.shortBook = st.longBook
BY DEF MirrorStats, StatsType

LEMMA NegFacts ==
    ASSUME NEW x \in Maybe(Int)
    PROVE  /\ Neg(x) \in Maybe(Int)
           /\ (Neg(x) = None) <=> (x = None)
           /\ x \in Int => Neg(x) = -x
           /\ Or0(Neg(x)) = -Or0(x) /\ Or0(x) \in Int
<1>1. CASE x = None
  BY <1>1, NoneIsNoNumber DEF Neg, Maybe, Or0
<1>2. CASE x # None
  <2>1. x \in Int /\ -x \in Int
    BY <1>2 DEF Maybe
  <2>2. Neg(x) = -x /\ Neg(x) # None
    BY <1>2, <2>1, NoneIsNoNumber DEF Neg
  <2> QED BY <1>2, <2>1, <2>2 DEF Maybe, Or0
<1> QED BY <1>1, <1>2

LEMMA SizeNeg == \A x \in Int : Size(-x) = Size(x)
BY DEF Size

LEMMA FlipCall ==
    ASSUME NEW side \in {"LONG", "SHORT"}, NEW b \in BOOLEAN, NEW m \in BOOLEAN
    PROVE  Flip(Call(side, b, m)) = Call(Flip(side), b, m)
BY DEF Flip, Call

LEMMA MeanRevMirrors ==
    ASSUME NEW st \in StatsType, NEW s \in StrategyType, NEW p \in ParamsType
    PROVE  MeanRev(MirrorStats(st), s, p) = Flip(MeanRev(st, s, p))
<1> DEFINE m == MirrorStats(st)
<1>1. /\ m.z = Neg(st.z) /\ m.fv = Neg(st.fv) /\ m.ofi = Neg(st.ofi)
      /\ m.spread = Neg(st.spread) /\ m.imb = Neg(st.imb) /\ m.warm = st.warm
  BY MirrorFields
<1>2. /\ st.z \in Maybe(Int) /\ st.fv \in Maybe(Int) /\ st.ofi \in Maybe(Int)
      /\ st.spread \in Maybe(Int) /\ st.imb \in Maybe(Int)
  BY DEF StatsType
<1>3. /\ p.minSpread \in Int /\ p.min \in Int /\ p.max \in Int /\ p.minOfi \in Int
      /\ p.minImb \in Int /\ s.maxFair \in Int
  BY DEF ParamsType, StrategyType
<1>4. Thin(m, s) = Thin(st, s) /\ Empty(m) = Empty(st)
  BY MirrorFields DEF Thin, Empty
<1> HIDE DEF m
<1>5. MeanRev(m, s, p) = Flip(MeanRev(st, s, p))
  BY <1>1, <1>2, <1>3, <1>4, NoneIsNoNumber, SMTT(30)
  DEF MeanRev, Call, Buys, Flip, Size, Or0, Neg, Maybe, Against
<1> QED BY <1>5 DEF m

LEMMA MomentumMirrors ==
    ASSUME NEW st \in StatsType, NEW s \in StrategyType, NEW p \in ParamsType
    PROVE  Momentum(MirrorStats(st), s, p) = Flip(Momentum(st, s, p))
<1> DEFINE m == MirrorStats(st)
<1>1. m.fv = Neg(st.fv) /\ m.spread = Neg(st.spread) /\ m.ofi = Neg(st.ofi)
  BY MirrorFields
<1>2. st.fv \in Maybe(Int) /\ st.spread \in Maybe(Int) /\ st.ofi \in Maybe(Int)
  BY DEF StatsType
<1>3. p.min \in Int /\ s.maxVelocity \in Int
  BY DEF ParamsType, StrategyType
<1>4. Thin(m, s) = Thin(st, s) /\ Empty(m) = Empty(st)
  BY MirrorFields DEF Thin, Empty
<1> HIDE DEF m
<1>5. Momentum(m, s, p) = Flip(Momentum(st, s, p))
  BY <1>1, <1>2, <1>3, <1>4, NoneIsNoNumber, SMTT(30)
  DEF Momentum, Call, Buys, Flip, Size, Or0, Neg, Maybe, Against
<1> QED BY <1>5 DEF m

LEMMA OfiMirrors ==
    ASSUME NEW st \in StatsType, NEW s \in StrategyType, NEW p \in ParamsType
    PROVE  Ofi(MirrorStats(st), s, p) = Flip(Ofi(st, s, p))
<1> DEFINE m == MirrorStats(st)
<1>1. /\ m.ofi = Neg(st.ofi) /\ m.spread = Neg(st.spread) /\ m.fv = Neg(st.fv)
      /\ m.imb = Neg(st.imb)
  BY MirrorFields
<1>2. /\ st.ofi \in Maybe(Int) /\ st.spread \in Maybe(Int) /\ st.fv \in Maybe(Int)
      /\ st.imb \in Maybe(Int)
  BY DEF StatsType
<1>3. /\ p.min \in Int /\ s.maxVelocity \in Int /\ p.minImb \in Int /\ p.chase \in Int
      /\ p.lag \in Int
  BY DEF ParamsType, StrategyType
<1>4. Thin(m, s) = Thin(st, s) /\ Empty(m) = Empty(st)
  BY MirrorFields DEF Thin, Empty
<1> HIDE DEF m
<1>5. Ofi(m, s, p) = Flip(Ofi(st, s, p))
  BY <1>1, <1>2, <1>3, <1>4, NoneIsNoNumber, SMTT(30)
  DEF Ofi, Call, Buys, Flip, Size, Or0, Neg, Maybe, LagBlocks, BookBlocks, Refutes
<1> QED BY <1>5 DEF m

LEMMA ImbalanceMirrors ==
    ASSUME NEW st \in StatsType, NEW s \in StrategyType, NEW p \in ParamsType
    PROVE  Imbalance(MirrorStats(st), s, p) = Flip(Imbalance(st, s, p))
<1> DEFINE m == MirrorStats(st)
<1>1. m.imb = Neg(st.imb) /\ m.spread = Neg(st.spread) /\ m.fv = Neg(st.fv)
  BY MirrorFields
<1>2. st.imb \in Maybe(Int) /\ st.spread \in Maybe(Int) /\ st.fv \in Maybe(Int)
  BY DEF StatsType
<1>3. /\ p.min \in Int /\ p.max \in Int /\ s.maxVelocity \in Int /\ p.chase \in Int
      /\ p.lag \in Int
  BY DEF ParamsType, StrategyType
<1>4. Thin(m, s) = Thin(st, s) /\ Empty(m) = Empty(st)
  BY MirrorFields DEF Thin, Empty
<1> HIDE DEF m
<1>5. Imbalance(m, s, p) = Flip(Imbalance(st, s, p))
  BY <1>1, <1>2, <1>3, <1>4, NoneIsNoNumber, SMTT(30)
  DEF Imbalance, Call, Buys, Flip, Size, Or0, Neg, Maybe, LagBlocks, Against
<1> QED BY <1>5 DEF m

LEMMA SweepMirrors ==
    ASSUME NEW st \in StatsType, NEW s \in StrategyType, NEW p \in ParamsType
    PROVE  Sweep(MirrorStats(st), s, p) = Flip(Sweep(st, s, p))
<1> DEFINE m == MirrorStats(st)
<1>1. m.burst = Neg(st.burst) /\ m.fv = Neg(st.fv)
  BY MirrorFields
<1>2. st.burst \in Maybe(Int) /\ st.fv \in Maybe(Int)
  BY DEF StatsType
<1>3. p.min \in Int /\ s.maxVelocity \in Int
  BY DEF ParamsType, StrategyType
<1>4. Thin(m, s) = Thin(st, s) /\ Empty(m) = Empty(st)
  BY MirrorFields DEF Thin, Empty
<1> HIDE DEF m
<1>5. Sweep(m, s, p) = Flip(Sweep(st, s, p))
  BY <1>1, <1>2, <1>3, <1>4, NoneIsNoNumber, SMTT(30)
  DEF Sweep, Call, Buys, Flip, Size, Or0, Neg, Maybe
<1> QED BY <1>5 DEF m

LEMMA WideSpreadMirrors ==
    ASSUME NEW st \in StatsType, NEW s \in StrategyType, NEW p \in ParamsType
    PROVE  WideSpread(MirrorStats(st), s, p) = Flip(WideSpread(st, s, p))
<1> DEFINE m == MirrorStats(st)
<1>1. m.imb = Neg(st.imb) /\ m.fv = Neg(st.fv) /\ m.cur = st.cur /\ m.avg = st.avg
  BY MirrorFields
<1>2. st.imb \in Maybe(Int) /\ st.fv \in Maybe(Int)
  BY DEF StatsType
<1>3. p.minImb \in Int
  BY DEF ParamsType, StrategyType
<1>4. Thin(m, s) = Thin(st, s) /\ Empty(m) = Empty(st)
  BY MirrorFields DEF Thin, Empty
<1> HIDE DEF m
<1>5. WideSpread(m, s, p) = Flip(WideSpread(st, s, p))
  BY <1>1, <1>2, <1>3, <1>4, NoneIsNoNumber, SMTT(30)
  DEF WideSpread, Call, Buys, Flip, Size, Or0, Neg, Maybe, Against
<1> QED BY <1>5 DEF m

LEMMA RawMomentumMirrors ==
    ASSUME NEW st \in StatsType, NEW s \in StrategyType, NEW p \in ParamsType
    PROVE  RawMomentum(MirrorStats(st), s, p) = Flip(RawMomentum(st, s, p))
<1> DEFINE m == MirrorStats(st)
<1>1. /\ m.fv = Neg(st.fv) /\ m.fv5 = Neg(st.fv5) /\ m.fv30 = Neg(st.fv30)
      /\ m.ofi = Neg(st.ofi) /\ m.imb = Neg(st.imb) /\ m.spread = Neg(st.spread)
  BY MirrorFields
<1>2. /\ st.fv \in Maybe(Int) /\ st.fv5 \in Maybe(Int) /\ st.fv30 \in Maybe(Int)
      /\ st.ofi \in Maybe(Int) /\ st.imb \in Maybe(Int) /\ st.spread \in Maybe(Int)
  BY DEF StatsType
<1>3. /\ p.min \in Int /\ p.max \in Int /\ p.fade \in Int /\ p.minOfi \in Int
      /\ p.minImb \in Int /\ p.chase \in Int /\ p.lag \in Int
  BY DEF ParamsType, StrategyType
<1>4. Thin(m, s) = Thin(st, s) /\ Empty(m) = Empty(st)
  BY MirrorFields DEF Thin, Empty
<1> HIDE DEF m
<1>5. RawMomentum(m, s, p) = Flip(RawMomentum(st, s, p))
  BY <1>1, <1>2, <1>3, <1>4, NoneIsNoNumber, SMTT(30)
  DEF RawMomentum, Call, Buys, Flip, Size, Or0, Neg, Maybe, LagBlocks, BookBlocks, Refutes
<1> QED BY <1>5 DEF m

LEMMA BookLeanMirrors ==
    ASSUME NEW st \in StatsType, NEW s \in StrategyType, NEW p \in ParamsType
    PROVE  BookLean(MirrorStats(st), s, p) = Flip(BookLean(st, s, p))
<1> DEFINE m == MirrorStats(st)
<1>1. m.imb = Neg(st.imb) /\ m.fv = Neg(st.fv)
  BY MirrorFields
<1>2. st.imb \in Maybe(Int) /\ st.fv \in Maybe(Int)
  BY DEF StatsType
<1>3. p.min \in Int
  BY DEF ParamsType, StrategyType
<1>4. Thin(m, s) = Thin(st, s) /\ Empty(m) = Empty(st)
  BY MirrorFields DEF Thin, Empty
<1> HIDE DEF m
<1>5. BookLean(m, s, p) = Flip(BookLean(st, s, p))
  BY <1>1, <1>2, <1>3, <1>4, NoneIsNoNumber, SMTT(30)
  DEF BookLean, Call, Buys, Flip, Size, Or0, Neg, Maybe, Against
<1> QED BY <1>5 DEF m

LEMMA ConfluenceMirrors ==
    ASSUME NEW st \in StatsType, NEW s \in StrategyType, NEW p \in ParamsType
    PROVE  Confluence(MirrorStats(st), s, p) = Flip(Confluence(st, s, p))
<1> DEFINE m == MirrorStats(st)
<1>1. /\ m.fv = Neg(st.fv) /\ m.ofi = Neg(st.ofi) /\ m.imb = Neg(st.imb)
      /\ m.spread = Neg(st.spread)
  BY MirrorFields
<1>2. /\ st.fv \in Maybe(Int) /\ st.ofi \in Maybe(Int) /\ st.imb \in Maybe(Int)
      /\ st.spread \in Maybe(Int)
  BY DEF StatsType
<1>3. /\ p.min \in Int /\ p.max \in Int /\ p.minOfi \in Int /\ p.minImb \in Int
      /\ p.chase \in Int /\ p.lag \in Int
  BY DEF ParamsType, StrategyType
<1>4. Thin(m, s) = Thin(st, s) /\ Empty(m) = Empty(st)
  BY MirrorFields DEF Thin, Empty
<1> HIDE DEF m
<1>5. Confluence(m, s, p) = Flip(Confluence(st, s, p))
  BY <1>1, <1>2, <1>3, <1>4, NoneIsNoNumber, SMTT(30)
  DEF Confluence, Call, Buys, Flip, Size, Or0, Neg, Maybe, LagBlocks
<1> QED BY <1>5 DEF m

LEMMA BbRevertMirrors ==
    ASSUME NEW st \in StatsType, NEW s \in StrategyType, NEW p \in ParamsType
    PROVE  BbRevert(MirrorStats(st), s, p) = Flip(BbRevert(st, s, p))
<1> DEFINE m == MirrorStats(st)
<1>1. m.bbz = Neg(st.bbz) /\ m.fv30 = Neg(st.fv30)
  BY MirrorFields
<1>2. st.bbz \in Maybe(Int) /\ st.fv30 \in Maybe(Int)
  BY DEF StatsType
<1>3. p.min \in Int /\ p.max \in Int
  BY DEF ParamsType, StrategyType
<1>4. Thin(m, s) = Thin(st, s) /\ Empty(m) = Empty(st)
  BY MirrorFields DEF Thin, Empty
<1> HIDE DEF m
<1>5. BbRevert(m, s, p) = Flip(BbRevert(st, s, p))
  BY <1>1, <1>2, <1>3, <1>4, NoneIsNoNumber, SMTT(30)
  DEF BbRevert, Call, Buys, Flip, Size, Or0, Neg, Maybe
<1> QED BY <1>5 DEF m

Sides == {"LONG", "SHORT", "none"}

LEMMA EvalInSides ==
    ASSUME NEW st, NEW s, NEW a
    PROVE  Eval(a, st, s) \in Sides
BY DEF Eval, Sides, Call, Buys, MeanRev, Momentum, Ofi, Imbalance, Sweep, WideSpread,
       RawMomentum, BookLean, Confluence, BbRevert

LEMMA EvalMirrors ==
    ASSUME NEW st \in StatsType, NEW s \in StrategyType, NEW a \in Algorithms
    PROVE  Eval(a, MirrorStats(st), s) = Flip(Eval(a, st, s))
<1>1. s.params[a] \in ParamsType
  BY DEF StrategyType
<1> QED
  BY <1>1, MeanRevMirrors, MomentumMirrors, OfiMirrors, ImbalanceMirrors, SweepMirrors,
     WideSpreadMirrors, RawMomentumMirrors, BookLeanMirrors, ConfluenceMirrors, BbRevertMirrors
  DEF Eval, Algorithms

LEMMA SingleInSides ==
    ASSUME NEW st, NEW s, NEW a
    PROVE  Single(a, st, s) \in Sides
BY EvalInSides DEF Single, Sides, Flip

LEMMA SingleMirrors ==
    ASSUME NEW st \in StatsType, NEW s \in StrategyType, NEW a \in Algorithms
    PROVE  Single(a, MirrorStats(st), s) = Flip(Single(a, st, s))
<1>1. MirrorStats(st).books = st.books
  BY MirrorFields
<1> QED BY <1>1, EvalMirrors DEF Single, Flip

LEMMA MirrorOverrideFields ==
    ASSUME NEW ov \in OverrideType
    PROVE  LET o == MirrorOverride(ov) IN
           /\ o \in OverrideType /\ o # None
           /\ o.long = ov.short /\ o.short = ov.long /\ o.minSpread = ov.minSpread
           /\ o.lag = ov.lag /\ o.chase = ov.chase /\ o.fade = ov.fade
           /\ o.micro = ov.micro /\ o.algorithms = ov.algorithms /\ o.mode = ov.mode
           /\ o.params = ov.params
<1> DEFINE o == MirrorOverride(ov)
<1>1. o = [ov EXCEPT !.long = ov.short, !.short = ov.long]
  BY NoneIsNoOverride DEF MirrorOverride
<1>2. o \in OverrideType
  BY <1>1 DEF OverrideType
<1> QED BY <1>1, <1>2, NoneIsNoOverride DEF OverrideType

LEMMA OverrideBlocksMirror ==
    ASSUME NEW st \in StatsType, NEW ov \in OverrideType, NEW side \in {"LONG", "SHORT"}
    PROVE  OverrideBlocks(Flip(side), MirrorStats(st), MirrorOverride(ov))
             = OverrideBlocks(side, st, ov)
<1> DEFINE m == MirrorStats(st)
           o == MirrorOverride(ov)
<1>1. m.spread = Neg(st.spread) /\ m.fv30 = Neg(st.fv30)
  BY MirrorFields
<1>2. st.spread \in Maybe(Int) /\ st.fv30 \in Maybe(Int)
  BY DEF StatsType
<1>3. /\ o.long = ov.short /\ o.short = ov.long /\ o.minSpread = ov.minSpread
      /\ o.lag = ov.lag /\ o.chase = ov.chase /\ o.fade = ov.fade
  BY MirrorOverrideFields
<1>4. /\ ov.long \in BOOLEAN /\ ov.short \in BOOLEAN
      /\ ov.minSpread \in Int /\ ov.lag \in Int /\ ov.chase \in Int /\ ov.fade \in Int
  BY DEF OverrideType
<1> HIDE DEF m, o
<1>5. OverrideBlocks(Flip(side), m, o) = OverrideBlocks(side, st, ov)
  BY <1>1, <1>2, <1>3, <1>4, NoneIsNoNumber, SMTT(30)
  DEF OverrideBlocks, Flip, Against, Size, Neg, Maybe
<1> QED BY <1>5 DEF m, o

LEMMA MicroBlocksMirror ==
    ASSUME NEW st \in StatsType, NEW limits, NEW side \in {"LONG", "SHORT"}
    PROVE  MicroBlocks(Flip(side), MirrorStats(st), limits) = MicroBlocks(side, st, limits)
<1>1. MirrorStats(st).longBook = st.shortBook /\ MirrorStats(st).shortBook = st.longBook
  BY MirrorFields
<1> QED BY <1>1 DEF MicroBlocks, Flip

LEMMA FilteredMirrors ==
    ASSUME NEW st \in StatsType, NEW s \in StrategyType, NEW ov,
           ov = None \/ ov \in OverrideType, NEW side \in Sides
    PROVE  Filtered(Flip(side), MirrorStats(st), s, MirrorOverride(ov))
             = Flip(Filtered(side, st, s, ov))
<1>1. CASE side = "none"
  BY <1>1 DEF Filtered, Flip
<1>2. CASE side # "none"
  <2>1. side \in {"LONG", "SHORT"}
    BY <1>2 DEF Sides
  <2>2. CASE ov = None
    <3>1. MirrorOverride(ov) = None
      BY <2>2 DEF MirrorOverride
    <3>2. MicroBlocks(Flip(side), MirrorStats(st), s.micro) = MicroBlocks(side, st, s.micro)
      BY <2>1, MicroBlocksMirror
    <3> QED BY <2>1, <2>2, <3>1, <3>2 DEF Filtered, Flip
  <2>3. CASE ov # None
    <3>1. MirrorOverride(ov) # None /\ MirrorOverride(ov).micro = ov.micro
      BY <2>3, MirrorOverrideFields
    <3>2. MicroBlocks(Flip(side), MirrorStats(st), ov.micro) = MicroBlocks(side, st, ov.micro)
      BY <2>1, MicroBlocksMirror
    <3>3. OverrideBlocks(Flip(side), MirrorStats(st), MirrorOverride(ov))
            = OverrideBlocks(side, st, ov)
      BY <2>1, <2>3, OverrideBlocksMirror
    <3> QED BY <2>1, <2>3, <3>1, <3>2, <3>3 DEF Filtered, Flip
  <2> QED BY <2>2, <2>3
<1> QED BY <1>1, <1>2

LEMMA MergedIsStrategy ==
    ASSUME NEW s \in StrategyType, NEW ov \in OverrideType
    PROVE  Merged(s, ov) \in StrategyType
<1> DEFINE ps == [a \in Algorithms |-> IF ov.params[a] = None THEN s.params[a] ELSE ov.params[a]]
<1>1. ASSUME NEW a \in Algorithms PROVE ps[a] \in ParamsType
  <2>1. s.params[a] \in ParamsType /\ ov.params[a] \in Maybe(ParamsType)
    BY DEF StrategyType, OverrideType
  <2> QED BY <2>1 DEF Maybe
<1>2. ps \in [Algorithms -> ParamsType]
  BY <1>1
<1> HIDE DEF ps
<1>3. [s EXCEPT !.params = ps] \in StrategyType
  BY <1>2 DEF StrategyType
<1> QED BY <1>3 DEF Merged, ps

LEMMA FiredMirrors ==
    ASSUME NEW st \in StatsType, NEW s \in StrategyType, NEW ov \in OverrideType
    PROVE  Fired(MirrorStats(st), s, MirrorOverride(ov)) = {Flip(v) : v \in Fired(st, s, ov)}
<1> DEFINE t == Merged(s, ov)
           m == MirrorStats(st)
<1>1. Merged(s, MirrorOverride(ov)) = t /\ MirrorOverride(ov).algorithms = ov.algorithms
  BY MirrorOverrideFields DEF Merged
<1>2. \A a \in ov.algorithms : Single(a, m, t) = Flip(Single(a, st, t))
  BY MergedIsStrategy, SingleMirrors DEF OverrideType
<1>3. \A a : Single(a, st, t) \in Sides
  BY SingleInSides
<1> HIDE DEF t, m
<1>4. {Single(a, m, t) : a \in ov.algorithms} \ {"none"}
        = {Flip(v) : v \in {Single(a, st, t) : a \in ov.algorithms} \ {"none"}}
  BY <1>2, <1>3 DEF Flip, Sides
<1> QED BY <1>1, <1>4 DEF Fired, t, m

LEMMA FiredInSides ==
    ASSUME NEW st, NEW s, NEW ov
    PROVE  Fired(st, s, ov) \subseteq {"LONG", "SHORT"}
BY SingleInSides DEF Fired, Sides

\* Every direction of the market reversed and LONG and SHORT exchanged in the
\* override, the verdicts of opportunity.py are the opposite ones: whatever the
\* thresholds, the algorithms, the inversion and the mode.
THEOREM VerdictsMirror ==
    ASSUME NEW st \in StatsType, NEW s \in StrategyType, NEW ov,
           ov = None \/ ov \in OverrideType
    PROVE  Verdicts(MirrorStats(st), s, MirrorOverride(ov)) = {Flip(v) : v \in Verdicts(st, s, ov)}
<1> DEFINE m == MirrorStats(st)
           o == MirrorOverride(ov)
<1>1. CASE ov = None \/ ov.algorithms = {}
  <2>1. o = None \/ o.algorithms = {}
    BY <1>1, MirrorOverrideFields DEF MirrorOverride
  <2>2. Single(s.algorithm, m, s) = Flip(Single(s.algorithm, st, s))
    BY SingleMirrors DEF StrategyType
  <2>3. MirrorOverride(None) = None
    BY DEF MirrorOverride
  <2>4. Filtered(Flip(Single(s.algorithm, st, s)), m, s, None)
          = Flip(Filtered(Single(s.algorithm, st, s), st, s, None))
    BY <2>3, FilteredMirrors, SingleInSides
  <2>5. Evaluate(m, s) = Flip(Evaluate(st, s))
    BY <2>2, <2>4 DEF Evaluate
  <2> QED BY <1>1, <2>1, <2>5 DEF Verdicts
<1>2. CASE ov # None /\ ov.algorithms # {}
  <2>1. /\ ov \in OverrideType /\ o # None /\ o.algorithms = ov.algorithms /\ o.mode = ov.mode
    BY <1>2, MirrorOverrideFields
  <2> DEFINE f == Fired(st, s, ov)
             g == Fired(m, s, o)
  <2>2. g = {Flip(v) : v \in f} /\ f \subseteq {"LONG", "SHORT"}
    BY <2>1, FiredMirrors, FiredInSides
  <2>3. \A v \in Sides : Filtered(Flip(v), m, s, o) = Flip(Filtered(v, st, s, ov))
    BY <2>1, FilteredMirrors
  <2>4. EvaluateMulti(m, s, o) =
          IF g = {} \/ (ov.mode = "CONSENSUS" /\ g = {"LONG", "SHORT"}) THEN {"none"}
          ELSE {Filtered(v, m, s, o) : v \in g} \cup (IF ov.mode = "BEST" THEN {"none"} ELSE {})
    BY <2>1 DEF EvaluateMulti
  <2>5. EvaluateMulti(st, s, ov) =
          IF f = {} \/ (ov.mode = "CONSENSUS" /\ f = {"LONG", "SHORT"}) THEN {"none"}
          ELSE {Filtered(v, st, s, ov) : v \in f} \cup (IF ov.mode = "BEST" THEN {"none"} ELSE {})
    BY DEF EvaluateMulti
  <2> HIDE DEF m, o, f, g
  <2>6. (g = {} <=> f = {}) /\ (g = {"LONG", "SHORT"} <=> f = {"LONG", "SHORT"})
    BY <2>2 DEF Flip
  <2>7. {Filtered(v, m, s, o) : v \in g} = {Flip(w) : w \in {Filtered(v, st, s, ov) : v \in f}}
    BY <2>2, <2>3 DEF Sides
  <2>8. EvaluateMulti(m, s, o) = {Flip(w) : w \in EvaluateMulti(st, s, ov)}
    <3>1. Flip("none") = "none"
      BY DEF Flip
    <3>2. CASE f = {} \/ (ov.mode = "CONSENSUS" /\ f = {"LONG", "SHORT"})
      <4>1. EvaluateMulti(m, s, o) = {"none"} /\ EvaluateMulti(st, s, ov) = {"none"}
        BY <2>4, <2>5, <2>6, <3>2
      <4> QED BY <3>1, <4>1
    <3>3. CASE ~(f = {} \/ (ov.mode = "CONSENSUS" /\ f = {"LONG", "SHORT"}))
      <4> DEFINE e == IF ov.mode = "BEST" THEN {"none"} ELSE {}
                 F == {Filtered(v, st, s, ov) : v \in f}
      <4>1. EvaluateMulti(m, s, o) = {Filtered(v, m, s, o) : v \in g} \cup e
        BY <2>4, <2>6, <3>3
      <4>2. EvaluateMulti(st, s, ov) = F \cup e
        BY <2>5, <3>3
      <4>3. e = {Flip(w) : w \in e}
        BY <3>1
      <4> HIDE DEF e, F
      <4>4. {Flip(w) : w \in F \cup e} = {Flip(w) : w \in F} \cup {Flip(w) : w \in e}
        OBVIOUS
      <4> QED BY <2>7, <4>1, <4>2, <4>3, <4>4 DEF F
    <3> QED BY <3>2, <3>3
  <2>9. Verdicts(m, s, o) = EvaluateMulti(m, s, o) /\ Verdicts(st, s, ov) = EvaluateMulti(st, s, ov)
    BY <1>2, <2>1 DEF Verdicts
  <2> QED BY <2>8, <2>9 DEF m, o
<1> QED BY <1>1, <1>2

(* -------------------------------- sizing -------------------------------- *)
LEMMA CappedByFacts ==
    ASSUME NEW x \in Int, NEW cap \in Int
    PROVE  /\ CappedBy(x, cap) \in Int /\ CappedBy(x, cap) <= x
           /\ cap > 0 => CappedBy(x, cap) <= cap
BY DEF CappedBy

LEMMA LeverageIsPositive ==
    ASSUME NEW o \in SizingType, NEW hint \in Nat
    PROVE  Leverage(Risk, o.leverage, hint) \in Nat \ {0}
<1>1. o.leverage \in Maybe(Int) /\ Risk.fixed \in Int
  BY ScoringConstantsOK DEF SizingType, RiskType
<1> QED BY <1>1 DEF Leverage, Maybe

WithinLimits(n, o, free, hint, depth) ==
    n # 0 =>
      /\ n <= Margin(Risk, Given(o.pct, Risk.pct), free) * Leverage(Risk, o.leverage, hint)
      /\ Given(o.consume, Risk.consume) * depth > 0
            => n <= 100 * (Given(o.consume, Risk.consume) * depth)
      /\ Given(o.maxNotional, 0) > 0 => n <= 10000 * Given(o.maxNotional, 0)

\* What CapitalAllocator.decide accepts is at most the leveraged margin, the
\* symbol's cap when it has one and the share of the book when that is not 0.
LEMMA NotionalLimits ==
    ASSUME NEW o \in SizingType, NEW free \in Nat, NEW hint \in Nat, NEW depth \in Nat
    PROVE  /\ Notional(Risk, o, free, hint, depth) \in Nat
           /\ WithinLimits(Notional(Risk, o, free, hint, depth), o, free, hint, depth)
<1> DEFINE pct == Given(o.pct, Risk.pct)
           most == Given(o.maxNotional, 0)
           use == Given(o.consume, Risk.consume)
           lev == Leverage(Risk, o.leverage, hint)
           margin == Margin(Risk, pct, free)
           wanted == margin * lev
           ceiling == 10000 * most
           share == 100 * use * depth
           once == CappedBy(wanted, ceiling)
           capped == CappedBy(once, share)
           n == Notional(Risk, o, free, hint, depth)
<1>1. pct \in Nat /\ most \in Nat /\ use \in Nat
  BY ScoringConstantsOK DEF SizingType, RiskType, Maybe, Given
<1>2. lev \in Nat
  BY LeverageIsPositive
<1>3. margin \in Int
  <2>1. Risk.share \in Nat
    BY ScoringConstantsOK DEF RiskType
  <2> QED BY <1>1, <2>1 DEF Margin
<1>4. wanted \in Int
  BY <1>2, <1>3
<1>5. ceiling \in Int /\ share \in Int
  BY <1>1
<1>6. n = 0 \/ (n = capped /\ capped > 0)
  <2>1. n = IF free < Risk.minBalance \/ margin < 10000 * Risk.minMargin THEN 0
            ELSE IF capped <= 0 THEN 0 ELSE capped
    BY DEF Notional
  <2>2. capped \in Int
    BY <1>4, <1>5, CappedByFacts
  <2> HIDE DEF capped, n, margin
  <2> QED BY <2>1, <2>2
<1> HIDE DEF wanted, margin, lev, most, use, pct, ceiling, share
<1>7. once \in Int /\ once <= wanted /\ (ceiling > 0 => once <= ceiling)
  BY <1>4, <1>5, CappedByFacts
<1> HIDE DEF once
<1>8. capped \in Int /\ capped <= once /\ (share > 0 => capped <= share)
  BY <1>5, <1>7, CappedByFacts
<1> HIDE DEF capped, n
<1>9. n \in Nat /\ (n # 0 => n <= wanted /\ (most > 0 => n <= 10000 * most))
  BY <1>1, <1>4, <1>6, <1>7, <1>8 DEF ceiling
<1>10. n # 0 /\ use * depth > 0 => n <= 100 * (use * depth)
  <2>1. use * depth \in Int /\ 100 * use * depth = 100 * (use * depth)
    BY <1>1
  <2> QED BY <1>6, <1>8, <2>1 DEF share
<1>11. /\ n \in Nat
       /\ n # 0 => /\ n <= wanted
                   /\ use * depth > 0 => n <= 100 * (use * depth)
                   /\ most > 0 => n <= 10000 * most
  BY <1>9, <1>10
<1> QED BY <1>11 DEF WithinLimits, n, wanted, margin, lev, most, use, pct

(* ----------------------------- the invariant ----------------------------- *)
\* What a symbol was given this round is one of its verdicts.
ScoredRight ==
    /\ scored = [x \in Symbols |-> scored[x]]
    /\ \A x \in Symbols : scored[x] # NoScore =>
         /\ scored[x].st \in Stats[x] /\ scored[x].s \in Strategies
         /\ scored[x].ov \in Overrides[x]
         /\ scored[x].ov # None => scored[x].ov.enabled
         /\ scored[x].side \in Verdicts(scored[x].st, scored[x].s, scored[x].ov)

\* While a signal is out, or one may still go out, Cap of them are not taken.
Counted ==
    /\ phase = "signalling" \/ (phase = "emitting" /\ todo # {}) => emitted < Cap
    /\ phase = "signalling" => opp.symbol \in Symbols

IInv == TypeOK /\ ScoredRight /\ Counted /\ SizedWithinLimits

LEMMA VerdictsInSides ==
    ASSUME NEW st, NEW s, NEW ov
    PROVE  Verdicts(st, s, ov) \subseteq Sides
<1>1. \A v \in Sides : \A o : Filtered(v, st, s, o) \in Sides
  BY DEF Filtered, Sides
<1>2. Evaluate(st, s) \in Sides
  BY <1>1, SingleInSides DEF Evaluate
<1>3. EvaluateMulti(st, s, ov) \subseteq Sides
  <2>1. Fired(st, s, ov) \subseteq Sides
    BY FiredInSides DEF Sides
  <2> QED BY <1>1, <2>1 DEF EvaluateMulti, Sides
<1> QED BY <1>2, <1>3 DEF Verdicts

LEMMA InitInv == Init => IInv
<1> SUFFICES ASSUME Init PROVE IInv
  OBVIOUS
<1>2. NoOpp \in [symbol : Maybe(Symbols), side : {"LONG", "SHORT", "none"}]
  BY ScoringConstantsOK DEF NoOpp, Maybe
<1>3. NoOrder \in [notional : Nat, free : Nat, depth : Nat, sizing : Maybe(SizingType)]
  BY DEF NoOrder, Maybe
<1>4. /\ gap \in [Symbols -> 0 .. Gap] /\ emitted \in 0 .. Cap
      /\ elapsed \in Nat
  BY ScoringConstantsOK DEF Init
<1>5. running \in BOOLEAN /\ kill \in BOOLEAN
  BY Zenon DEF Init
<1>6. /\ phase \in {"idle", "scoring", "emitting", "signalling"} /\ todo \subseteq Symbols
      /\ \A x \in Symbols : scored[x] = NoScore
  BY DEF Init
<1>7. TypeOK
  BY <1>2, <1>3, <1>4, <1>5, <1>6 DEF Init, TypeOK
<1>8. ScoredRight
  BY DEF Init, ScoredRight
<1>9. Counted
  BY DEF Init, Counted
<1>10. SizedWithinLimits
  BY DEF Init, SizedWithinLimits, NoOrder
<1> QED BY <1>7, <1>8, <1>9, <1>10 DEF IInv

LEMMA SwitchKeeps == IInv /\ Switch => IInv'
<1> SUFFICES ASSUME IInv, Switch PROVE IInv'
  OBVIOUS
<1>1. running' \in BOOLEAN /\ kill' \in BOOLEAN
  BY Zenon DEF Switch, IInv, TypeOK
<1>2. UNCHANGED <<phase, todo, scored, elapsed, gap, emitted, opp, order>>
  BY DEF Switch
<1> QED BY <1>1, <1>2 DEF IInv, TypeOK, ScoredRight, Counted, SizedWithinLimits

LEMMA SleepOffKeeps == IInv /\ SleepOff => IInv'
<1> SUFFICES ASSUME IInv, SleepOff PROVE IInv'
  OBVIOUS
<1>1. elapsed' \in Nat
  BY ScoringConstantsOK DEF IInv, TypeOK, SleepOff
<1> QED BY <1>1 DEF SleepOff, IInv, TypeOK, ScoredRight, Counted, SizedWithinLimits

LEMMA StartRoundKeeps == IInv /\ StartRound => IInv'
BY DEF StartRound, IInv, TypeOK, ScoredRight, Counted, SizedWithinLimits

LEMMA ScoreKeeps ==
    ASSUME IInv, NEW x \in Symbols, Score(x)
    PROVE  IInv'
<1> PICK st \in Stats[x], s \in Strategies, ov \in Overrides[x] :
      IF ov # None /\ ~ov.enabled THEN UNCHANGED scored
      ELSE \E side \in Verdicts(st, s, ov) :
             scored' = [scored EXCEPT ![x] = [st |-> st, s |-> s, ov |-> ov, side |-> side]]
  BY DEF Score
<1> DEFINE same == UNCHANGED <<running, kill, phase, elapsed, gap, emitted, opp, order>>
<1>1. same /\ phase = "scoring" /\ todo' \subseteq Symbols
  BY DEF Score, IInv, TypeOK
<1>2. CASE ov # None /\ ~ov.enabled
  BY <1>1, <1>2 DEF IInv, TypeOK, ScoredRight, Counted, SizedWithinLimits
<1>3. CASE ~(ov # None /\ ~ov.enabled)
  <2> PICK side \in Verdicts(st, s, ov) :
        scored' = [scored EXCEPT ![x] = [st |-> st, s |-> s, ov |-> ov, side |-> side]]
    BY <1>3
  <2> DEFINE new == [st |-> st, s |-> s, ov |-> ov, side |-> side]
  <2>1. scored' = [y \in Symbols |-> IF y = x THEN new ELSE scored[y]]
    BY DEF IInv, ScoredRight
  <2>2. scored'[x] = new /\ \A y \in Symbols : y # x => scored'[y] = scored[y]
    BY <2>1
  <2>3. side \in Sides
    BY VerdictsInSides
  <2>4. new.st = st /\ new.s = s /\ new.ov = ov /\ new.side = side
    OBVIOUS
  <2> HIDE DEF new
  <2>5. scored' = [y \in Symbols |-> scored'[y]]
    BY <2>1, <2>2
  <2>6. ScoredRight'
    BY <1>3, <2>2, <2>4, <2>5 DEF IInv, ScoredRight, NoScore
  <2>7. TypeOK'
    BY <1>1, <2>2, <2>3, <2>4 DEF IInv, TypeOK, NoScore, Sides
  <2> QED BY <1>1, <2>6, <2>7 DEF IInv, Counted, SizedWithinLimits
<1> QED BY <1>2, <1>3

LEMMA RankKeeps == IInv /\ Rank => IInv'
<1> SUFFICES ASSUME IInv, Rank PROVE IInv'
  OBVIOUS
<1>3. gap' \in [Symbols -> 0 .. Gap]
  <2>1. \A x \in Symbols : gap[x] \in 0 .. Gap
    BY DEF IInv, TypeOK
  <2>2. elapsed \in Nat /\ Gap \in Nat
    BY ScoringConstantsOK DEF IInv, TypeOK
  <2> QED BY <2>1, <2>2 DEF Rank
<1>4. TypeOK'
  BY <1>3, ScoringConstantsOK DEF Rank, IInv, TypeOK
<1>5. Counted'
  BY ScoringConstantsOK DEF Rank, Counted
<1> QED BY <1>4, <1>5 DEF Rank, IInv, ScoredRight, SizedWithinLimits

LEMMA RateLimitedKeeps ==
    ASSUME IInv, NEW x \in Symbols, RateLimited(x)
    PROVE  IInv'
<1>1. Counted'
  BY DEF RateLimited, IInv, Counted
<1> QED BY <1>1 DEF RateLimited, IInv, TypeOK, ScoredRight, SizedWithinLimits

LEMMA SignalKeeps ==
    ASSUME IInv, NEW x \in Symbols, Signal(x)
    PROVE  IInv'
<1>1. Counted'
  BY DEF Signal, IInv, Counted
<1>2. scored[x].side \in Sides
  BY DEF IInv, TypeOK, NoScore, Sides
<1>3. gap' \in [Symbols -> 0 .. Gap]
  BY ScoringConstantsOK DEF Signal, IInv, TypeOK
<1>4. opp' \in [symbol : Maybe(Symbols), side : {"LONG", "SHORT", "none"}]
  BY <1>2 DEF Signal, Maybe, Sides
<1>5. TypeOK'
  BY <1>3, <1>4 DEF Signal, IInv, TypeOK
<1> QED BY <1>1, <1>5 DEF Signal, IInv, ScoredRight, SizedWithinLimits

LEMMA ReturnedKeeps ==
    ASSUME IInv, NEW took \in {0, 1}, Returned(took)
    PROVE  /\ Counted' /\ ScoredRight' /\ todo' \subseteq Symbols
           /\ emitted' \in 0 .. Cap /\ elapsed' \in Nat
           /\ UNCHANGED <<running, kill, scored, gap>> /\ phase' = "emitting"
           /\ opp' \in [symbol : Maybe(Symbols), side : {"LONG", "SHORT", "none"}]
<1>1. emitted \in Nat /\ Cap \in Nat /\ emitted < Cap /\ MaxWait \in Nat /\ elapsed \in Nat
  BY ScoringConstantsOK DEF IInv, TypeOK, Counted, Returned
<1>2. emitted' \in 0 .. Cap
  BY <1>1 DEF Returned
<1>3. todo' \subseteq Symbols
  BY DEF Returned, IInv, TypeOK
<1>4. Counted'
  BY <1>1 DEF Returned, Counted
<1>5. elapsed' \in Nat
  BY <1>1 DEF Returned
<1>6. opp' \in [symbol : Maybe(Symbols), side : {"LONG", "SHORT", "none"}]
  BY DEF Returned, NoOpp, Maybe
<1> QED BY <1>2, <1>3, <1>4, <1>5, <1>6 DEF Returned, IInv, ScoredRight

LEMMA SizingsHaveType ==
    ASSUME NEW x \in Symbols, NEW ov \in Overrides[x]
    PROVE  SizingOf(ov) \in SizingType
BY ScoringConstantsOK DEF SizingOf, SizingType, OverrideType, Maybe

LEMMA AnswerKeeps == IInv /\ Answer => IInv'
<1> SUFFICES ASSUME IInv, Answer PROVE IInv'
  OBVIOUS
<1>1. opp.symbol \in Symbols
  BY DEF Answer, IInv, Counted
<1> PICK sizing \in {SizingOf(ov) : ov \in Overrides[opp.symbol]}, free \in Frees,
         hint \in Hints, depth \in Depths : Decide(sizing, free, hint, depth)
  BY DEF Answer
<1> DEFINE n == IF kill \/ ~running THEN 0 ELSE Notional(Risk, sizing, free, hint, depth)
<1>2. sizing \in SizingType /\ free \in Nat /\ hint \in Nat /\ depth \in Nat
  BY <1>1, SizingsHaveType, ScoringConstantsOK
<1>3. Returned(1)
  BY DEF Answer
<1>4. order' = IF n = 0 THEN order
               ELSE [notional |-> n, free |-> free, depth |-> depth, sizing |-> sizing]
  BY DEF Decide
<1>5. n \in Nat /\ WithinLimits(n, sizing, free, hint, depth)
  <2>1. CASE kill \/ ~running
    BY <2>1 DEF WithinLimits
  <2>2. CASE ~(kill \/ ~running)
    <3>1. n = Notional(Risk, sizing, free, hint, depth)
      BY <2>2
    <3> HIDE DEF n
    <3> QED BY <1>2, <3>1, NotionalLimits
  <2> QED BY <2>1, <2>2
<1> HIDE DEF n
<1>6. order' \in [notional : Nat, free : Nat, depth : Nat, sizing : Maybe(SizingType)]
  BY <1>2, <1>4, <1>5 DEF IInv, TypeOK, Maybe
<1>7. SizedWithinLimits'
  <2>1. CASE n = 0
    BY <1>4, <2>1 DEF IInv, SizedWithinLimits
  <2>2. CASE n # 0
    <3>1. /\ order'.notional = n /\ order'.free = free
          /\ order'.depth = depth /\ order'.sizing = sizing
      BY <1>4, <2>2
    <3>2. Given(sizing.maxNotional, 0) > 0 => n <= 10000 * sizing.maxNotional
      BY <1>5, <2>2 DEF Given, WithinLimits
    <3> QED BY <1>5, <2>2, <3>1, <3>2 DEF SizedWithinLimits, WithinLimits
  <2> QED BY <2>1, <2>2
<1>8. TypeOK'
  BY <1>3, <1>6, ReturnedKeeps DEF IInv, TypeOK
<1> QED BY <1>3, <1>7, <1>8, ReturnedKeeps DEF IInv

LEMMA FailKeeps == IInv /\ Fail => IInv'
<1> SUFFICES ASSUME IInv, Fail PROVE IInv'
  OBVIOUS
<1>1. Returned(0) /\ UNCHANGED order
  BY DEF Fail
<1>2. TypeOK' /\ SizedWithinLimits'
  BY <1>1, ReturnedKeeps DEF IInv, TypeOK, SizedWithinLimits
<1> QED BY <1>1, <1>2, ReturnedKeeps DEF IInv

LEMMA EndRoundKeeps == IInv /\ EndRound => IInv'
<1> SUFFICES ASSUME IInv, EndRound PROVE IInv'
  OBVIOUS
<1>1. elapsed' \in Nat
  BY ScoringConstantsOK DEF EndRound, IInv, TypeOK
<1>2. order' \in [notional : Nat, free : Nat, depth : Nat, sizing : Maybe(SizingType)]
  BY DEF EndRound, NoOrder, Maybe
<1>3. TypeOK'
  BY <1>1, <1>2 DEF EndRound, IInv, TypeOK
<1> QED
  BY <1>3 DEF EndRound, IInv, ScoredRight, Counted, SizedWithinLimits, NoOrder

THEOREM Invariance == Spec => []IInv
<1>1. IInv /\ [Next]_vars => IInv'
  <2> SUFFICES ASSUME IInv, [Next]_vars PROVE IInv'
    OBVIOUS
  <2>1. CASE UNCHANGED vars
    BY <2>1 DEF vars, IInv, TypeOK, ScoredRight, Counted, SizedWithinLimits
  <2>2. CASE Next
    BY <2>2, SwitchKeeps, SleepOffKeeps, StartRoundKeeps, ScoreKeeps, RankKeeps,
       RateLimitedKeeps, SignalKeeps, AnswerKeeps, FailKeeps, EndRoundKeeps DEF Next
  <2> QED BY <2>1, <2>2
<1> QED BY <1>1, InitInv, PTL DEF Spec

(* ------------------------------ the theorems ------------------------------ *)
LEMMA EvalNeedsDepth ==
    ASSUME NEW st, NEW s, NEW a, Thin(st, s)
    PROVE  Eval(a, st, s) = "none"
BY DEF Eval, Call, MeanRev, Momentum, Ofi, Imbalance, Sweep, WideSpread, RawMomentum,
       BookLean, Confluence, BbRevert

LEMMA SingleNeedsBooks ==
    ASSUME NEW st, NEW s, NEW a, Single(a, st, s) # "none"
    PROVE  st.books /\ ~Thin(st, s)
BY EvalNeedsDepth DEF Single, Flip

LEMMA FilteredIsSide ==
    ASSUME NEW st, NEW s, NEW ov, NEW side, Filtered(side, st, s, ov) # "none"
    PROVE  Filtered(side, st, s, ov) = side /\ (ov # None => ~OverrideBlocks(side, st, ov))
BY DEF Filtered

LEMMA VerdictPassesFilters ==
    ASSUME NEW st \in StatsType, NEW s \in StrategyType, NEW ov,
           ov = None \/ ov \in OverrideType,
           NEW side \in Verdicts(st, s, ov), side # "none"
    PROVE  /\ side \in {"LONG", "SHORT"} /\ st.books /\ ~Thin(st, s)
           /\ ov # None /\ ov.algorithms # {} => ~OverrideBlocks(side, st, ov)
<1>1. side \in {"LONG", "SHORT"}
  BY VerdictsInSides DEF Sides
<1>2. CASE ov # None /\ ov.algorithms # {}
  <2>1. side \in EvaluateMulti(st, s, ov)
    BY <1>2 DEF Verdicts
  <2>2. PICK v \in Fired(st, s, ov) : side = Filtered(v, st, s, ov)
    BY <2>1 DEF EvaluateMulti
  <2>3. side = v /\ ~OverrideBlocks(side, st, ov)
    BY <1>2, <2>2, FilteredIsSide
  <2>4. PICK a \in ov.algorithms : v = Single(a, st, Merged(s, ov))
    BY DEF Fired
  <2>5. st.books /\ ~Thin(st, Merged(s, ov))
    BY <2>3, <2>4, SingleNeedsBooks
  <2>6. Merged(s, ov).minDepth = s.minDepth
    BY DEF Merged, StrategyType
  <2> QED BY <1>1, <2>3, <2>5, <2>6 DEF Thin
<1>3. CASE ~(ov # None /\ ov.algorithms # {})
  <2>1. side = Filtered(Single(s.algorithm, st, s), st, s, None)
    BY <1>3 DEF Verdicts, Evaluate
  <2>2. Single(s.algorithm, st, s) # "none"
    BY <2>1, FilteredIsSide
  <2> QED BY <1>1, <1>3, <2>2, SingleNeedsBooks
<1> QED BY <1>2, <1>3

LEMMA ScoredPass == IInv => SignalsPassFilters
<1> SUFFICES ASSUME IInv, NEW x \in Symbols, scored[x].side # "none"
             PROVE  LET st == scored[x].st  ov == scored[x].ov  side == scored[x].side IN
                    /\ st.books /\ Or0(st.depth) >= scored[x].s.minDepth
                    /\ ov # None => ov.enabled
                    /\ ov # None /\ ov.algorithms # {} =>
                          /\ IF side = "LONG" THEN ov.long ELSE ov.short
                          /\ st.spread # None
                                => (IF side = "LONG" THEN st.spread ELSE -st.spread) <= ov.chase
  BY DEF SignalsPassFilters
<1> DEFINE st == scored[x].st
           s == scored[x].s
           ov == scored[x].ov
           side == scored[x].side
<1>1. scored[x] # NoScore
  BY DEF NoScore
<1>2. /\ st \in StatsType /\ s \in StrategyType /\ (ov = None \/ ov \in OverrideType)
      /\ (ov # None => ov.enabled) /\ side \in Verdicts(st, s, ov)
  BY <1>1, ScoringConstantsOK DEF IInv, ScoredRight
<1> HIDE DEF st, s, ov, side
<1>3. /\ side \in {"LONG", "SHORT"} /\ st.books /\ ~Thin(st, s)
      /\ ov # None /\ ov.algorithms # {} => ~OverrideBlocks(side, st, ov)
  BY <1>2, VerdictPassesFilters DEF side
<1>4. Or0(st.depth) >= s.minDepth
  <2>1. st.depth \in Maybe(Nat) /\ s.minDepth \in Int
    BY <1>2 DEF StatsType, StrategyType
  <2>2. Or0(st.depth) \in Int
    BY <2>1 DEF Or0, Maybe
  <2> QED BY <1>3, <2>1, <2>2 DEF Thin
<1>5. ov # None /\ ov.algorithms # {} =>
        /\ IF side = "LONG" THEN ov.long ELSE ov.short
        /\ st.spread # None => (IF side = "LONG" THEN st.spread ELSE -st.spread) <= ov.chase
  <2> SUFFICES ASSUME ov # None, ov.algorithms # {}
               PROVE  /\ IF side = "LONG" THEN ov.long ELSE ov.short
                      /\ st.spread # None
                            => (IF side = "LONG" THEN st.spread ELSE -st.spread) <= ov.chase
    OBVIOUS
  <2>1. ~OverrideBlocks(side, st, ov)
    BY <1>3
  <2>2. st.spread \in Maybe(Int) /\ ov.chase \in Int
    BY <1>2 DEF StatsType, OverrideType
  <2>3. CASE side = "LONG"
    BY <2>1, <2>2, <2>3 DEF OverrideBlocks, Maybe
  <2>4. CASE side = "SHORT"
    BY <2>1, <2>2, <2>4 DEF OverrideBlocks, Maybe
  <2> QED BY <1>3, <2>3, <2>4
<1> QED BY <1>2, <1>3, <1>4, <1>5 DEF st, s, ov, side

\* Every variable of the scoring loop keeps its type.
THEOREM ScoringTyped == Spec => []TypeOK
<1>1. IInv => TypeOK
  BY DEF IInv
<1> QED BY <1>1, Invariance, PTL

\* Whatever is scored, its mirror image would be scored the other way round.
THEOREM SidesAlwaysMirror == Spec => []SidesMirror
<1>1. IInv => SidesMirror
  <2> SUFFICES ASSUME IInv, NEW x \in Symbols, scored[x] # NoScore
               PROVE  Verdicts(MirrorStats(scored[x].st), scored[x].s, MirrorOverride(scored[x].ov))
                        = {Flip(v) : v \in Verdicts(scored[x].st, scored[x].s, scored[x].ov)}
    BY DEF SidesMirror
  <2>1. /\ scored[x].st \in StatsType /\ scored[x].s \in StrategyType
        /\ scored[x].ov = None \/ scored[x].ov \in OverrideType
    BY ScoringConstantsOK DEF IInv, ScoredRight
  <2> QED BY <2>1, VerdictsMirror
<1> QED BY <1>1, Invariance, PTL

\* No signal without books, on a thin book, of a disabled symbol, or against the
\* side and chase limits of an override that names algorithms.
THEOREM NoSignalPastFilters == Spec => []SignalsPassFilters
BY ScoredPass, Invariance, PTL

\* Every order the allocator sizes stays within the margin, the share of the
\* book and the cap of its symbol.
THEOREM OrdersAreSized == Spec => []SizedWithinLimits
<1>1. IInv => SizedWithinLimits
  BY DEF IInv
<1> QED BY <1>1, Invariance, PTL

================================================================================
