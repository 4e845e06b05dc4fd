------------------------------- MODULE StopRules -------------------------------
(***************************************************************************)
(* The trailing stops of backend/paper.py, which backend/real.py imports:  *)
(* the sigma rule and the R rule, each written once per side in the code.  *)
(*                                                                         *)
(* Prices are integers in ticks fine enough for every product and for half *)
(* of R; None is a stop that has not been set.                             *)
(***************************************************************************)
EXTENDS Integers

CONSTANT None

ASSUME NoneIsNoPrice == None \notin Int

Larger(a, b)  == IF a >= b THEN a ELSE b
Smaller(a, b) == IF a <= b THEN a ELSE b
OrElse(prev, sl) == IF prev = None THEN sl ELSE prev

\* "if prev_stop is not None": a stop once set only moves in favour of the trade.
RatchetUp(sl, prev)   == IF prev = None THEN sl ELSE Larger(sl, prev)
RatchetDown(sl, prev) == IF prev = None THEN sl ELSE Smaller(sl, prev)

\* best is the most favourable mid so far, hard the distance of the first stop;
\* from a profit of be (breakeven_at_sigma * sigma) on the stop follows best at
\* the distance trail (trail_dist_sigma * sigma).
TrailLong(entry, best, sigma, hard, be, trail, prev) ==
    LET profit == Larger(0, best - entry) IN
    RatchetUp(IF sigma <= 0 \/ profit < be THEN OrElse(prev, entry - hard)
              ELSE Larger(entry, best - trail), prev)

TrailShort(entry, best, sigma, hard, be, trail, prev) ==
    LET profit == Larger(0, entry - best) IN
    RatchetDown(IF sigma <= 0 \/ profit < be THEN OrElse(prev, entry + hard)
                ELSE Smaller(entry, best + trail), prev)

\* R is the distance of the first stop; be, lock and trail are multiples of it,
\* half is R/2.
RTrailLong(entry, best, R, half, be, lock, trail, prev) ==
    LET profit == Larger(0, best - entry) IN
    IF R <= 0 THEN OrElse(prev, entry)
    ELSE RatchetUp(IF profit < be THEN OrElse(prev, entry - R)
                   ELSE IF profit < lock THEN entry
                   ELSE Larger(entry + half, best - trail), prev)

RTrailShort(entry, best, R, half, be, lock, trail, prev) ==
    LET profit == Larger(0, entry - best) IN
    IF R <= 0 THEN OrElse(prev, entry)
    ELSE RatchetDown(IF profit < be THEN OrElse(prev, entry + R)
                     ELSE IF profit < lock THEN entry
                     ELSE Smaller(entry - half, best + trail), prev)
===============================================================================
