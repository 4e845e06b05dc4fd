-------------------------------- MODULE Scoring --------------------------------
(***************************************************************************)
(* Engine._scoring_loop of backend/engine.py: every symbol is scored, the  *)
(* ones with a signal are ranked, and each signal is handed to the         *)
(* executor, whose on_signal the loop awaits before it takes the next.     *)
(*                                                                         *)
(* Time is counted from the ranking of the round (elapsed), and gap is     *)
(* what the rate limit compares: now - last_emit_ts, where `now` stays the *)
(* time of the ranking for the whole round.                                *)
(***************************************************************************)
EXTENDS Opportunity, FiniteSets

CONSTANTS Symbols, Stats, Strategies, Overrides, Risk, Frees, Depths, Hints,
          Gap,      \* the least time between two signals of a symbol (0.5 s)
          Cap,      \* signals per round (10)
          Pause,    \* the sleep between two rounds
          MaxWait   \* bound on the time of one on_signal and its insert_candidate

ASSUME ScoringConstantsOK ==
    /\ IsFiniteSet(Symbols) /\ None \notin Symbols
    /\ \A x \in Symbols : \A st \in Stats[x] : st \in StatsType
    /\ \A s \in Strategies : s \in StrategyType
    /\ \A x \in Symbols : \A ov \in Overrides[x] : ov = None \/ ov \in OverrideType
    /\ Risk \in RiskType
    /\ Frees \subseteq Nat /\ Depths \subseteq Nat /\ Hints \subseteq Nat
    /\ Gap \in Nat /\ Cap \in Nat \ {0} /\ Pause \in Nat /\ MaxWait \in Nat

VARIABLES running, kill, \* state.engine_running and state.kill_switch
          phase,         \* "idle", "scoring", "emitting", "signalling"
          todo,          \* symbols the current for loop has not reached
          scored,        \* what was computed for each symbol this round
          elapsed,       \* time since the ranking
          gap,           \* `now` minus the symbol's last_emit_ts, up to Gap
          emitted,       \* signals the executor took this round
          opp,           \* the opportunity being handed over
          order          \* the sizing of the last one that was accepted

vars == <<running, kill, phase, todo, scored, elapsed, gap, emitted, opp, order>>

NoScore == [st |-> None, s |-> None, ov |-> None, side |-> "none"]
NoOpp   == [symbol |-> None, side |-> "none"]
NoOrder == [notional |-> 0, free |-> 0, depth |-> 0, sizing |-> None]

Init == /\ running \in BOOLEAN /\ kill = FALSE
        /\ phase = "idle" /\ todo = {}
        /\ scored = [x \in Symbols |-> NoScore]
        /\ elapsed = 0 /\ gap = [x \in Symbols |-> Gap]
        /\ emitted = 0 /\ opp = NoOpp /\ order = NoOrder

(* ------------------------------ the operator ------------------------------ *)
\* run, run_stop, and the kill switch of the executors and of the operator.
Switch == /\ \/ running' = ~running /\ UNCHANGED kill
             \/ kill' = ~kill /\ UNCHANGED running
          /\ UNCHANGED <<phase, todo, scored, elapsed, gap, emitted, opp, order>>

(* -------------------------------- the loop -------------------------------- *)
StartRound ==
    /\ phase = "idle" /\ running /\ ~kill
    /\ phase' = "scoring" /\ todo' = Symbols
    /\ UNCHANGED <<running, kill, scored, elapsed, gap, emitted, opp, order>>

\* The statistics, the strategy and the override as the loop finds them: both
\* may be patched at any time.  A disabled symbol is passed over.
Score(x) ==
    /\ phase = "scoring" /\ x \in todo
    /\ todo' = todo \ {x}
    /\ \E st \in Stats[x], s \in Strategies, ov \in Overrides[x] :
         IF ov # None /\ ~ov.enabled THEN UNCHANGED scored
         ELSE \E side \in Verdicts(st, s, ov) :
                scored' = [scored EXCEPT ![x] = [st |-> st, s |-> s, ov |-> ov, side |-> side]]
    /\ UNCHANGED <<running, kill, phase, elapsed, gap, emitted, opp, order>>

\* now = time.time(); emitted = 0
Rank ==
    /\ phase = "scoring" /\ todo = {}
    /\ phase' = "emitting"
    /\ todo' = {x \in Symbols : scored[x].side # "none"}
    /\ gap' = [x \in Symbols |-> IF gap[x] + elapsed > Gap THEN Gap ELSE gap[x] + elapsed]
    /\ elapsed' = 0 /\ emitted' = 0
    /\ UNCHANGED <<running, kill, scored, opp, order>>

\* The order of the ranking is left open: any candidate may be next.
RateLimited(x) ==
    /\ phase = "emitting" /\ x \in todo /\ gap[x] < Gap
    /\ todo' = todo \ {x}
    /\ UNCHANGED <<running, kill, phase, scored, elapsed, gap, emitted, opp, order>>

Signal(x) ==
    /\ phase = "emitting" /\ x \in todo /\ gap[x] >= Gap
    /\ phase' = "signalling"
    /\ todo' = todo \ {x}
    /\ gap' = [gap EXCEPT ![x] = 0]
    /\ opp' = [symbol |-> x, side |-> scored[x].side]
    /\ UNCHANGED <<running, kill, scored, elapsed, emitted, order>>

\* What the symbol's override, as on_signal finds it, says of the size.
SizingOf(ov) == IF ov = None
                THEN [pct |-> None, leverage |-> None, consume |-> None, maxNotional |-> None]
                ELSE ov.sizing

Decide(sizing, free, hint, depth) ==
    LET n == IF kill \/ ~running THEN 0 ELSE Notional(Risk, sizing, free, hint, depth) IN
    order' = IF n = 0 THEN order
             ELSE [notional |-> n, free |-> free, depth |-> depth, sizing |-> sizing]

\* What on_signal came to is persisted before the loop takes the next signal;
\* both calls take their time.
Returned(took) ==
    /\ phase = "signalling"
    /\ phase' = "emitting" /\ opp' = NoOpp
    /\ emitted' = emitted + took
    /\ todo' = IF took = 1 /\ emitted' >= Cap THEN {} ELSE todo
    /\ \E t \in 0 .. MaxWait : elapsed' = elapsed + t
    /\ UNCHANGED <<running, kill, scored, gap>>

\* on_signal asks the allocator and returns; depth is the book at that time.
Answer == /\ phase = "signalling"
          /\ \E sizing \in {SizingOf(ov) : ov \in Overrides[opp.symbol]},
                free \in Frees, hint \in Hints, depth \in Depths :
               Decide(sizing, free, hint, depth)
          /\ Returned(1)

Fail == Returned(0) /\ UNCHANGED order

EndRound ==
    /\ phase = "emitting" /\ todo = {}
    /\ phase' = "idle"
    /\ elapsed' = elapsed + Pause
    /\ scored' = [x \in Symbols |-> NoScore] /\ order' = NoOrder
    /\ UNCHANGED <<running, kill, todo, gap, emitted, opp>>

\* Off, or killed: the loop sleeps and looks again.
SleepOff ==
    /\ phase = "idle" /\ (~running \/ kill) /\ elapsed < Gap
    /\ elapsed' = elapsed + Pause
    /\ UNCHANGED <<running, kill, phase, todo, scored, gap, emitted, opp, order>>

Next == \/ Switch \/ SleepOff \/ StartRound \/ Rank \/ Answer \/ Fail \/ EndRound
        \/ \E x \in Symbols : Score(x) \/ RateLimited(x) \/ Signal(x)

Spec == Init /\ [][Next]_vars

(* ------------------------------- properties ------------------------------- *)
\* Every variable has its type.
TypeOK ==
    /\ running \in BOOLEAN /\ kill \in BOOLEAN
    /\ phase \in {"idle", "scoring", "emitting", "signalling"}
    /\ todo \subseteq Symbols
    /\ \A x \in Symbols : scored[x] = NoScore \/
           /\ scored[x].st \in Stats[x] /\ scored[x].s \in Strategies
           /\ scored[x].ov \in Overrides[x] /\ scored[x].side \in {"LONG", "SHORT", "none"}
    /\ elapsed \in Nat /\ gap \in [Symbols -> 0 .. Gap]
    /\ emitted \in 0 .. Cap
    /\ opp \in [symbol : Maybe(Symbols), side : {"LONG", "SHORT", "none"}]
    /\ order \in [notional : Nat, free : Nat, depth : Nat, sizing : Maybe(SizingType)]

\* The mirror image of a market: every direction reversed, both sides of the
\* book exchanged; and of an override.
Neg(x) == IF x = None THEN None ELSE -x

MirrorStats(st) ==
    [st EXCEPT !.spread = Neg(@), !.z = Neg(@), !.bbz = Neg(@), !.fv = Neg(@),
               !.fv5 = Neg(@), !.fv30 = Neg(@), !.ofi = Neg(@), !.imb = Neg(@),
               !.burst = Neg(@), !.longBook = st.shortBook, !.shortBook = st.longBook]

MirrorOverride(ov) ==
    IF ov = None THEN None ELSE [ov EXCEPT !.long = ov.short, !.short = ov.long]

\* LONG and SHORT are written out one by one in every algorithm and filter: a
\* mirrored market must get the mirrored verdicts.
SidesMirror ==
    \A x \in Symbols : scored[x] # NoScore =>
      LET r == scored[x] IN
      Verdicts(MirrorStats(r.st), r.s, MirrorOverride(r.ov)) = {Flip(v) : v \in Verdicts(r.st, r.s, r.ov)}

\* No route to a signal goes round the thin-book guard or an override's limits:
\* none of the algorithms, nor the inversion after them, nor the pick by score.
SignalsPassFilters ==
    \A x \in Symbols : scored[x].side # "none" =>
      LET st == scored[x].st  ov == scored[x].ov  side == scored[x].side IN
      /\ st.books /\ Or0(st.depth) >= scored[x].s.minDepth
      /\ ov # None => ov.enabled
      /\ ov # None /\ ov.algorithms # {} =>
            /\ IF side = "LONG" THEN ov.long ELSE ov.short
            /\ st.spread # None => (IF side = "LONG" THEN st.spread ELSE -st.spread) <= ov.chase

\* README.md:75: an order takes no more than its share of the book it was sized
\* on; nor of the balance; nor more than the symbol's cap.
SizedWithinLimits ==
    LET n == order.notional  o == order.sizing IN
    n # 0 =>
      /\ \E hint \in Hints : n <= Margin(Risk, Given(o.pct, Risk.pct), order.free)
                                   * Leverage(Risk, o.leverage, hint)
      /\ LET share == Given(o.consume, Risk.consume) * order.depth IN
           share > 0 => n <= 100 * share
      /\ Given(o.maxNotional, 0) > 0 => n <= 10000 * o.maxNotional

================================================================================
