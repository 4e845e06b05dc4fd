------------------------------- MODULE MCScoring -------------------------------
(***************************************************************************)
(* Small instances of Scoring: a symbol A whose statistics run through the *)
(* boundaries of every algorithm, and a symbol B that competes with it.    *)
(***************************************************************************)
EXTENDS Scoring, TLC

NoLimits == [levels |-> 0, pathHole |-> 0, ratio |-> 0, shape |-> 0, pathShape |-> 0, backHole |-> 0]
Limits   == [NoLimits EXCEPT !.levels = 3, !.pathHole = 2, !.ratio = 1, !.backHole = 2]

Half(hole, ratio) == [pathHole |-> hole, ratio |-> ratio, shape |-> None, pathShape |-> 1,
                      backHole |-> hole]

P == [min |-> 2, max |-> 4, minSpread |-> 0, needLag |-> FALSE, lag |-> 0, chase |-> 0,
      align |-> FALSE, minImb |-> 0, needOfi |-> FALSE, minOfi |-> 0, agree5 |-> FALSE,
      fade |-> 0, ratio |-> 2]

\* The lag, chase, alignment and trend thresholds of an algorithm all in use.
Strict == [P EXCEPT !.min = 1, !.minSpread = 1, !.needLag = TRUE, !.lag = 2, !.align = TRUE,
                    !.minImb = 1, !.needOfi = TRUE, !.minOfi = 1, !.agree5 = TRUE, !.fade = 2]

MCStrategy == [algorithm |-> "meanrev", invert |-> FALSE, minDepth |-> 1, maxFair |-> 1,
               maxVelocity |-> 3, ofiAlign |-> TRUE, params |-> [a \in Algorithms |-> P],
               micro |-> NoLimits]

MCInverted == [MCStrategy EXCEPT !.invert = TRUE, !.params = [a \in Algorithms |-> Strict]]

Base == [books |-> TRUE, warm |-> TRUE, spread |-> 0, z |-> 0, bbz |-> 0, fv |-> 0, fv5 |-> 1,
         fv30 |-> 0, ofi |-> 0, imb |-> 0, depth |-> 2, cur |-> 4, avg |-> 2, burst |-> 0,
         longBook |-> Half(3, 2), shortBook |-> Half(2, 1)]

StatsOfA ==
    {[Base EXCEPT !.z = 2 * d, !.bbz = 2 * d, !.burst = 2 * d, !.fv = v, !.imb = i, !.ofi = o,
                  !.spread = p] :
       d \in {-1, 1}, v \in {-3, 2}, i \in {-2, 2}, o \in {-6000, 2}, p \in {-2, 1}}
    \cup {[Base EXCEPT !.fv = 2, !.fv30 = t, !.bbz = 3, !.imb = 3, !.ofi = 3, !.z = 3] : t \in {-3, 6, None}}
    \cup {[Base EXCEPT !.fv = f, !.imb = 2, !.ofi = f, !.spread = None] : f \in {2, None}}
    \cup {[Base EXCEPT !.books = FALSE], [Base EXCEPT !.warm = FALSE, !.z = None],
          [Base EXCEPT !.depth = None, !.z = 3, !.fv = 2, !.imb = 2, !.ofi = 2, !.bbz = 2, !.burst = 2],
          [Base EXCEPT !.depth = 0, !.fv = -2, !.imb = -2, !.ofi = -2, !.bbz = -2, !.burst = -2]}

Ov == [enabled |-> TRUE, algorithms |-> Algorithms, mode |-> "ANY", long |-> TRUE, short |-> FALSE,
       minSpread |-> 0, lag |-> 0, chase |-> 1, fade |-> 0, micro |-> NoLimits, params |-> [a \in Algorithms |-> None],
       sizing |-> [pct |-> None, leverage |-> None, consume |-> None, maxNotional |-> None]]

Sized == [pct |-> 50, leverage |-> 2, consume |-> 10, maxNotional |-> 3]

OverridesOfA ==
    {None, [Ov EXCEPT !.enabled = FALSE], [Ov EXCEPT !.algorithms = {}]}
    \cup {[Ov EXCEPT !.algorithms = {a}, !.sizing = Sized] : a \in Algorithms}
    \cup {[Ov EXCEPT !.mode = m, !.algorithms = {"raw_momentum", "imbalance", "sweep"},
                     !.params["raw_momentum"] = Strict, !.long = (m # "ANY"), !.short = TRUE,
                     !.lag = 1, !.fade = 4, !.minSpread = 1, !.micro = Limits] :
             m \in {"ANY", "BEST", "CONSENSUS"}}

CONSTANTS A, B

MCStrategies == {MCStrategy, MCInverted}

MCStats     == A :> StatsOfA @@ B :> {[Base EXCEPT !.z = 2]}
MCOverrides == A :> OverridesOfA @@ B :> {None}
MCRisk      == [share |-> 100, pct |-> 20, minBalance |-> 5, minMargin |-> 1, useMax |-> TRUE,
                fixed |-> 3, consume |-> 5]
================================================================================
