------------------------------ MODULE StopOrders ------------------------------
(***************************************************************************)
(* The stop order of a live position and its record in the sidecar file    *)
(* (backend/real.py, backend/persistence.py) over crashes and restarts:    *)
(* adoption of a fill, the task that attaches the first stop, the trailing *)
(* of every pass, and the recovery of a position found on the venue.       *)
(*                                                                         *)
(* One symbol.  Prices of a position count in the direction of its trade,  *)
(* so that a better price is a larger one on either side.  The snapshots   *)
(* of the venue are current here; stale ones, and the tasks that race over *)
(* a close, are in RealExecutor.                                           *)
(*                                                                         *)
(* A definition introduced by "Mutant:" is a wrong form of the one after   *)
(* it, which a property must reject; the specification does not use it.    *)
(***************************************************************************)
EXTENDS StopRules, FiniteSets

CONSTANTS
    Sides,          \* sides the signals have
    Prices,         \* mids
    EntryTolerance, \* how far the entry of a record may be off
    Tick, Initial, Sigma, Breakeven, Trail,    \* of prices and of the stop rule
    PidKnown,       \* does the venue's row of a position carry a position id?
    Cached,         \* may the contract details be cached when a position is recovered?
    SlowTicks,      \* paper_tick_sec >= sl_update_throttle_sec
    MaxPositions, MaxCrashes, MaxFaults   \* bounds: positions, crashes, failing calls

ASSUME StopOrdersConstantsOK ==
    /\ Sides \subseteq {"LONG", "SHORT"} /\ Prices \subseteq Int
    /\ {EntryTolerance, Initial, Sigma, Breakeven, Trail} \subseteq Nat /\ Tick \in Nat \ {0}
    /\ PidKnown \subseteq BOOLEAN /\ Cached \subseteq BOOLEAN /\ SlowTicks \in BOOLEAN
    /\ {MaxPositions, MaxCrashes, MaxFaults} \subseteq Nat

\* A ManagedPosition: the position it is ON by the venue's word, the one whose
\* history it has (of), whether no ids were compared when it was restored
\* (guess), the plan id it knows, and whether its throttle has passed (due).
Ids == 0..MaxPositions
ObjType ==
    [pid : Ids, on : Ids, of : Ids, guess : BOOLEAN, side : Sides, entry : Int, best : Int,
     stop : Int \cup {None}, plan : Nat, due : BOOLEAN]

ASSUME NoneIsNoObject == None \notin ObjType /\ None \notin Sides

VARIABLES
    mid,
    venue,      \* the open position, id 0 for none
    plans,      \* its stop orders
    order,      \* the side of an entry order not yet ended, None
    pending,    \* is the quote in _quotes?
    pos,        \* state.positions[symbol], None
    held,       \* the object a recovery is building, None
    record,     \* the symbol's entry of the sidecar file, None
    attach,     \* _attach_initial_stop_loss tasks
    pc,         \* where the loop is
    want,       \* the stop a change asks for
    torn,       \* has a crash struck between a change and its record?
    bare,       \* has a position been met for which no stop order is asked, or in vain?
    count       \* positions, plans, crashes and faults so far

vars == <<mid, venue, plans, order, pending, pos, held, record, attach, pc, want, torn, bare, count>>

Dir(side)    == IF side = "LONG" THEN 1 ELSE -1
Fav(side, p) == Dir(side) * p

\* Rounding goes against the trade on either side.
Snap(x)      == (x \div Tick) * Tick
First(entry) == Snap(entry - Initial)
Follow(entry, best, stop) == TrailLong(entry, best, Sigma, Initial, Breakeven, Trail, stop)

NoPosition == [id |-> 0, side |-> "LONG", entry |-> 0]
Idle == pc = "idle"

Init ==
    /\ mid \in Prices /\ venue = NoPosition /\ plans = {} /\ order = None
    /\ pending = FALSE /\ pos = None /\ held = None /\ record = None
    /\ attach = {} /\ pc = "idle" /\ want = 0 /\ torn = FALSE /\ bare = FALSE
    /\ count = [positions |-> 0, plans |-> 0, crashes |-> 0, faults |-> 0]

Faults == count.faults < MaxFaults /\ count' = [count EXCEPT !.faults = @ + 1]

-----------------------------------------------------------------------------
(***************************************************************************)
(* The market and the venue.                                                *)
(***************************************************************************)
MidMoves(p) ==
    /\ p # mid /\ mid' = p
    /\ UNCHANGED <<venue, plans, order, pending, pos, held, record, attach, pc, want, torn, bare, count>>

Gone == venue' = NoPosition /\ plans' = {}

\* A stop order the price has reached closes the position.
StopFires ==
    /\ \E p \in plans : Fav(venue.side, mid) <= p.stop
    /\ Gone
    /\ UNCHANGED <<mid, order, pending, pos, held, record, attach, pc, want, torn, bare, count>>

Fill ==
    /\ order # None /\ venue.id = 0
    /\ venue' = [id |-> count.positions, side |-> order, entry |-> Fav(order, mid)]
    /\ order' = None
    /\ UNCHANGED <<mid, plans, pending, pos, held, record, attach, pc, want, torn, bare, count>>

-----------------------------------------------------------------------------
(***************************************************************************)
(* Entry and adoption of the fill.  An order is sent with nothing open: the *)
(* entries over an unmanaged position are in RealExecutor.                  *)
(***************************************************************************)
Enter(side) ==
    /\ count.positions < MaxPositions
    /\ pos = None /\ ~pending /\ held = None /\ order = None /\ venue.id = 0
    /\ order' = side /\ pending' = TRUE
    /\ count' = [count EXCEPT !.positions = @ + 1]
    /\ UNCHANGED <<mid, venue, plans, pos, held, record, attach, pc, want, torn, bare>>

OrderEnds ==
    /\ order # None
    /\ order' = None /\ pending' = FALSE
    /\ UNCHANGED <<mid, venue, plans, pos, held, record, attach, pc, want, torn, bare, count>>

\* A reply that is lost drops the quote, whatever became of the order.
ReplyLost ==
    /\ pending /\ Faults /\ pending' = FALSE
    /\ UNCHANGED <<mid, venue, plans, order, pos, held, record, attach, pc, want, torn, bare>>

Spawn(id, stop) ==
    attach' = IF \E t \in attach : t.id = id THEN attach
              ELSE attach \cup {[id |-> id, stop |-> stop, plan |-> 0]}

NewObj(pid, stop) ==
    [pid |-> pid, on |-> venue.id, of |-> venue.id, guess |-> FALSE, side |-> venue.side,
     entry |-> venue.entry, best |-> venue.entry, stop |-> stop, plan |-> 0, due |-> TRUE]

\* What state.positions gets, the sidecar gets.
Manage(o) == pos' = o /\ record' = o

\* _open_position_from_exchange: without a position id no stop is attached.
Adopt ==
    /\ pending /\ venue.id # 0 /\ pos = None
    /\ \E known \in PidKnown :
         /\ Manage(NewObj(IF known THEN venue.id ELSE 0, First(venue.entry)))
         /\ IF known THEN Spawn(venue.id, First(venue.entry)) ELSE UNCHANGED attach
         /\ bare' = (bare \/ ~known)
    /\ pending' = FALSE
    /\ UNCHANGED <<mid, venue, plans, order, held, pc, want, torn, count>>

\* The venue takes the stop of an open position, unless the call fails.
AttachCall(t) ==
    /\ t.plan = 0
    /\ \/ /\ venue.id = t.id
          /\ count' = [count EXCEPT !.plans = @ + 1]
          /\ plans' = plans \cup {[n |-> count'.plans, stop |-> t.stop]}
          /\ attach' = (attach \ {t}) \cup {[t EXCEPT !.plan = count'.plans]}
          /\ UNCHANGED bare
       \/ venue.id # t.id /\ attach' = attach \ {t} /\ UNCHANGED <<plans, bare, count>>
       \/ Faults /\ attach' = attach \ {t} /\ bare' = TRUE /\ UNCHANGED plans
    /\ UNCHANGED <<mid, venue, order, pending, pos, held, record, pc, want, torn>>

\* The answer is put on whatever position the symbol has by then: the position
\* id, and the plan id if it carries one.  A call that raises says nothing.
AttachAnswer(t) ==
    /\ t.plan # 0
    /\ attach' = attach \ {t}
    /\ \/ \E named \in BOOLEAN :
            /\ IF named THEN UNCHANGED count ELSE Faults
            /\ IF pos = None THEN UNCHANGED <<pos, record>>
               ELSE Manage([pos EXCEPT !.pid = t.id, !.plan = IF named THEN t.plan ELSE @])
       \/ Faults /\ UNCHANGED <<pos, record>>
    /\ UNCHANGED <<mid, venue, plans, order, pending, held, pc, want, torn, bare>>

-----------------------------------------------------------------------------
(***************************************************************************)
(* Recovery of a position the executor does not know.                       *)
(***************************************************************************)
Size(x) == IF x < 0 THEN -x ELSE x

\* Mutant: the position ids are not compared.
MatchesUnidentified(known, soon) ==
    record.side = venue.side /\ soon /\ Size(record.entry - venue.entry) <= EntryTolerance

\* soon: the two open times are less than 30 s apart.
Matches(known, soon) ==
    /\ record.side = venue.side
    /\ known /\ record.pid # 0 => record.pid = venue.id
    /\ soon /\ Size(record.entry - venue.entry) <= EntryTolerance

\* Mutant: the best price so far is started again.
RestoredAnew(known) ==
    [record EXCEPT !.on = venue.id, !.guess = @ \/ ~known \/ record.pid = 0,
                   !.entry = venue.entry, !.best = venue.entry, !.due = TRUE]

\* The record, with what the venue says of the position now.
Restored(known) ==
    [record EXCEPT !.on = venue.id, !.guess = @ \/ ~known \/ record.pid = 0,
                   !.entry = venue.entry, !.due = TRUE]

\* What is recovered has the first stop price and the id of the venue's row.
Priced(o, known) ==
    [o EXCEPT !.pid = IF known THEN venue.id ELSE 0, !.stop = First(venue.entry)]

\* Mutant: a restored position keeps the stop it had, and none is attached.
RebuildKept(o, known) ==
    /\ bare' = (bare \/ o.stop = None)
    /\ Manage([o EXCEPT !.stop = First(venue.entry)]) /\ UNCHANGED <<held, attach, pc>>

\* A stop is attached when the object has a price and no plan: a new object
\* has no price yet.  Then the price is set to the first stop, for which the
\* tick size may have to be fetched.
Rebuild(o, known) ==
    /\ IF known /\ o.plan = 0 /\ o.stop # None
       THEN Spawn(venue.id, o.stop) /\ UNCHANGED bare
       ELSE UNCHANGED attach /\ bare' = (bare \/ o.plan = 0 \/ o.guess)
    /\ \/ TRUE \in Cached /\ Manage(Priced(o, known)) /\ UNCHANGED <<held, pc>>
       \/ /\ FALSE \in Cached /\ held' = Priced(o, known) /\ pc' = "recovering" /\ UNCHANGED pos
          /\ record' = IF o.stop = None THEN None ELSE record

Found == Idle /\ venue.id # 0 /\ pos = None /\ ~pending

\* Mutant: only what has a record is recovered.
RecoverRecorded ==
    /\ Found /\ record # None
    /\ \E known \in PidKnown, soon \in IF record.of = venue.id THEN {TRUE} ELSE BOOLEAN :
         /\ Matches(known, soon) /\ Rebuild(Restored(known), known)
    /\ UNCHANGED <<mid, venue, plans, order, pending, want, torn, count>>

\* A record that does not match is deleted.
Recover ==
    /\ Found
    /\ \E known \in PidKnown,
         soon \in IF record # None /\ record.of = venue.id THEN {TRUE} ELSE BOOLEAN :
         Rebuild(IF record # None /\ Matches(known, soon) THEN Restored(known)
                 ELSE NewObj(0, None), known)
    /\ UNCHANGED <<mid, venue, plans, order, pending, want, torn, count>>

Recovered ==
    /\ pc = "recovering"
    /\ Manage(held) /\ held' = None /\ pc' = "idle"
    /\ UNCHANGED <<mid, venue, plans, order, pending, attach, want, torn, bare, count>>

-----------------------------------------------------------------------------
(***************************************************************************)
(* A pass of the loop over the position.                                    *)
(***************************************************************************)
Here == Idle /\ pos # None /\ venue.id = pos.on

\* slow: this pass comes a throttle's time after the last one.  Every pass
\* restarts the throttle, whether it looked at the stop or not.
Look(slow) ==
    /\ Here
    /\ LET best == Larger(pos.best, Fav(pos.side, mid))
           new  == Follow(pos.entry, best, pos.stop)
           moved == (pos.due \/ SlowTicks \/ slow) /\ new # pos.stop
       IN IF moved /\ pos.plan # 0
          THEN /\ pos' = [pos EXCEPT !.best = best]
               /\ want' = Snap(new) /\ pc' = "changing" /\ UNCHANGED record
          ELSE /\ Manage([pos EXCEPT !.best = best, !.due = FALSE,
                                     !.stop = IF moved THEN Snap(new) ELSE @])
               /\ UNCHANGED <<want, pc>>
    /\ UNCHANGED <<mid, venue, plans, order, pending, held, attach, torn, bare, count>>

Changes(n) == plans' = {IF p.n = n THEN [p EXCEPT !.stop = want] ELSE p : p \in plans}
Known == pos # None /\ \E p \in plans : p.n = pos.plan

\* change_stop_plan_price: done, refused, or done with the reply lost.
ChangeCall ==
    /\ pc = "changing"
    /\ \/ Known /\ Changes(pos.plan) /\ pc' = "changed" /\ UNCHANGED count
       \/ ~Known /\ pc' = "unchanged" /\ UNCHANGED <<plans, count>>
       \/ Faults /\ pc' = "unchanged" /\ (UNCHANGED plans \/ Changes(pos.plan))
    /\ UNCHANGED <<mid, venue, order, pending, pos, held, record, attach, want, torn, bare>>

\* Mutant: a change that was refused is taken for done.
PassEndsMoved ==
    /\ pc \in {"changed", "unchanged"} /\ pc' = "idle"
    /\ Manage([pos EXCEPT !.due = FALSE, !.stop = want])
    /\ UNCHANGED <<mid, venue, plans, order, pending, held, attach, want, torn, bare, count>>

PassEnds ==
    /\ pc \in {"changed", "unchanged"} /\ pc' = "idle"
    /\ Manage([pos EXCEPT !.due = FALSE, !.stop = IF pc = "changed" THEN want ELSE @])
    /\ UNCHANGED <<mid, venue, plans, order, pending, held, attach, want, torn, bare, count>>

\* An exit rule closes the position; the books are done when the call is back.
Exit ==
    /\ Here /\ pc' = "closing"
    /\ UNCHANGED <<mid, venue, plans, order, pending, pos, held, record, attach, want, torn, bare, count>>

CloseCall ==
    /\ pc = "closing"
    /\ \/ Gone /\ pc' = "closed" /\ UNCHANGED count
       \/ Faults /\ pc' = "idle" /\ UNCHANGED <<venue, plans>>
    /\ UNCHANGED <<mid, order, pending, pos, held, record, attach, want, torn, bare>>

\* Closed by the executor, or missing from two snapshots.
Release ==
    /\ pc = "closed" \/ (Idle /\ pos # None /\ venue.id # pos.on)
    /\ pos' = None /\ record' = None /\ pc' = "idle"
    /\ UNCHANGED <<mid, venue, plans, order, pending, held, attach, want, torn, bare, count>>

\* Everything in memory is lost; the loop of the next process starts idle.
Crash ==
    /\ count.crashes < MaxCrashes
    /\ count' = [count EXCEPT !.crashes = @ + 1]
    /\ pos' = None /\ held' = None /\ pending' = FALSE /\ attach' = {} /\ pc' = "idle"
    /\ torn' = (torn \/ pc \in {"changed", "unchanged"})
    /\ UNCHANGED <<mid, venue, plans, order, record, want, bare>>

Loop == Recover \/ Recovered \/ (\E slow \in BOOLEAN : Look(slow)) \/ ChangeCall \/ PassEnds
          \/ CloseCall \/ Release

Next ==
    \/ \E p \in Prices : MidMoves(p)
    \/ \E side \in Sides : Enter(side)
    \/ StopFires \/ Fill \/ OrderEnds \/ ReplyLost \/ Adopt \/ Exit \/ Loop \/ Crash
    \/ \E t \in attach : AttachCall(t) \/ AttachAnswer(t)

\* The loop keeps running, a quote's owner looks at its fill, and calls are
\* answered.
Fairness ==
    /\ WF_vars(Loop) /\ WF_vars(Adopt)
    /\ WF_vars(\E t \in attach : AttachCall(t) \/ AttachAnswer(t))

Spec == Init /\ [][Next]_vars /\ Fairness

-----------------------------------------------------------------------------
\* Every variable keeps its type; what is persisted has a stop price, and the
\* loop is past its first await only with an object to go on with.
TypeOK ==
    /\ mid \in Prices
    /\ venue = NoPosition \/ venue \in [id : Ids, side : Sides, entry : Int]
    /\ plans \subseteq [n : Nat, stop : Int]
    /\ order \in Sides \cup {None} /\ pending \in BOOLEAN
    /\ \A o \in {pos, held, record} \ {None} : o \in ObjType /\ o.stop # None
    /\ attach \subseteq [id : Ids, stop : Int, plan : Nat]
    /\ pc \in {"idle", "recovering", "changing", "changed", "unchanged", "closing", "closed"}
    /\ pc = "recovering" <=> held # None
    /\ pc \in {"changing", "changed", "unchanged", "closing", "closed"} => pos # None
    /\ want \in Int /\ {torn, bare} \subseteq BOOLEAN
    /\ count \in [positions : Ids, plans : Nat, crashes : Nat, faults : Nat]

\* A managed position never has the history of another one, unless the record
\* had no position id to compare (_persisted_position_matches).
RevivedIsOwn == pos # None /\ pos.of # pos.on => pos.guess

\* A stop at the venue never moves back, over any crashes and failing calls,
\* unless a crash strikes between a change and its record, or the position has been
\* restored from the record of another one, whose stop was set from another entry.
StopNeverBack ==
    [][\A p \in plans, q \in plans' : p.n = q.n =>
          q.stop >= p.stop \/ torn \/ (pos # None /\ pos.of # pos.on)]_vars

\* Whatever is open on the venue is managed in the end (_recover_untracked_positions).
ManagedInTheEnd == venue.id # 0 ~> venue.id = 0 \/ (pos # None /\ pos.on = venue.id)

Rule == Snap(Follow(pos.entry, pos.best, First(pos.entry)))

\* When every pass is due, a stop price behind the rule for the best price seen
\* does not stay behind: the known stop order gets there.
StopFollows ==
    \A i \in 1..MaxPositions :
        (Known /\ pos.on = i /\ pos.stop < Rule) ~>
            (Known /\ pos.on = i => \E p \in plans : p.n = pos.plan /\ p.stop >= Rule)

\* A position gets its stop at the venue, over any crashes, unless the call
\* fails or the executor meets it without a position id or without its record.
StopAttached == venue.id # 0 ~> venue.id = 0 \/ plans # {} \/ bare
=============================================================================
