---------------------- MODULE RealExecutorExposureProofs ----------------------
(***************************************************************************)
(* One unit per symbol: the steps of the loop on its positions and those   *)
(* of the venue keep the epochs of RealExecutorTradeProofs, and every step *)
(* keeps the shape of the state that this rests on.                        *)
(***************************************************************************)
EXTENDS RealExecutorTradeProofs

(***************************************************************************)
(* The loop adopts, goes through and closes positions.                     *)
(***************************************************************************)
LEMMA AdoptNew ==
    ASSUME TradeInv, NEW x \in Symbols, NEW row, NEW pnl, NEW closed, Adopt(x, row, pnl, closed),
           NEW o, o = made.objs + 1
    PROVE  /\ o \in Objs /\ o # 0 /\ made'.objs = o /\ made'.quotes = made.quotes
           /\ obj'[o].sym = x /\ obj'[o].truth = row.truth /\ obj'[o].qty = row.units
           /\ obj'[o].pnl = pnl /\ obj'[o].pid = row.pid /\ ~Booked(o)'
           /\ \A y \in Objs : y # o => obj'[y] = obj[y]
           /\ positions'[x] = o /\ \A s \in Symbols : s # x => positions'[s] = positions[s]
           /\ \A s \in Symbols : s # x => BookKept(s)
           /\ UNCHANGED closedKeys
<1> USE DEF TradeInv
<1>1. o \in Objs /\ o # 0 /\ o \notin 0..made.objs /\ made.objs \in Nat
  BY BoundsInNat DEF Adopt, Objs, TypeInv, ControlTyped
<1>2. made'.objs = o /\ made'.quotes = made.quotes
  BY DEF Adopt, TypeInv, ControlTyped
<1>3. /\ obj' = [obj EXCEPT ![o] = [NoObj EXCEPT !.sym = x, !.pid = row.pid, !.truth = row.truth,
                    !.qty = row.units, !.pnl = pnl, !.closed = closed]]
      /\ positions' = [positions EXCEPT ![x] = o] /\ UNCHANGED closedKeys
  BY DEF Adopt
<1>4. /\ obj'[o].sym = x /\ obj'[o].truth = row.truth /\ obj'[o].qty = row.units
      /\ obj'[o].pnl = pnl /\ obj'[o].pid = row.pid /\ obj'[o].key = NoKey
      /\ \A y \in Objs : y # o => obj'[y] = obj[y]
  BY <1>1, <1>3 DEF NoObj, TypeInv, BookTyped
<1>5. positions'[x] = o /\ \A s \in Symbols : s # x => positions'[s] = positions[s]
  BY <1>3 DEF TypeInv, BookTyped
<1>6. \A y \in Objs : y <= made.objs => y # o
  BY <1>1, BoundsInNat DEF Objs
<1>7. \A s \in Symbols : s # x => BookKept(s)
  BY <1>4, <1>5, <1>6 DEF BookKept
<1> QED BY <1>1, <1>2, <1>3, <1>4, <1>5, <1>7 DEF Booked

LEMMA LoopAdoptEpoch ==
    ASSUME TradeConditions, TradeInv, LoopAdopt, NEW s \in Symbols, NEW c, NEW m, Epoch(s, c, m)
    PROVE  Epoch(s, c, m)'
<1> USE TaskNames DEF TradeInv
<1>0. PICK row, x, o : row = task["loop"].raw /\ x = order[row.pid].sym /\ o = made.objs + 1
  OBVIOUS
<1>1. /\ task["loop"].pc = "adopt" /\ At("loop", task["loop"].pc)
      /\ UNCHANGED <<order, venue, quotes, quote, cache>> /\ ComesBack("loop")
  BY BackGoes DEF LoopAdopt, At, venueVars, quoteVars
<1>2. PICK closed : Adopt(x, row, task["loop"].q = 0, closed)
  BY <1>0 DEF LoopAdopt
<1>3. task["loop"].then = "recover" /\ row.pid \in Orders /\ x \in Symbols
  BY <1>0, <1>1, LoopTask DEF Steady, TypeInv, VenueTyped, Order
<1>4. /\ row = RowOf(task["loop"].snap.pos[x]) /\ Shows(task["loop"].snap, x)
      /\ task["loop"].q # 0 => SymOf(task["loop"].q) = x
  BY <1>0, <1>1 DEF ShapeInv, LoopShape, Adopting
<1>5. /\ o \in Objs /\ o # 0 /\ made'.objs = o /\ made'.quotes = made.quotes
      /\ obj'[o].sym = x /\ obj'[o].truth = row.truth /\ obj'[o].qty = row.units
      /\ obj'[o].pnl = (task["loop"].q = 0)
      /\ positions'[x] = o /\ (s # x => BookKept(s))
  BY <1>0, <1>2, <1>3, AdoptNew
<1>6. /\ Others("loop") /\ task'["loop"].pc = "recover" /\ task'["loop"].then = "recover"
      /\ task'["loop"].snap = task["loop"].snap
  BY <1>1, <1>3 DEF ComesBack, GoesTo
<1>7. /\ SameQuotes /\ OrdersEnd /\ Looks
      /\ CloseOf(task["loop"], s)' /\ CancelOf(task["loop"], s, c, m)'
      /\ TodoOf(task["loop"], s, c)' /\ task'["loop"].pc \notin Entering \cup Asking
  BY <1>1, <1>6 DEF SameQuotes, SameQuote, OrdersEnd, Looks, CloseOf, CancelOf, TodoOf, On,
     Leaving, Entering, Asking
<1>8. VenueOf(s, m)' /\ ViewsOf(s, m)' /\ PositionOf(s, m)' /\ AgeOf(s)' /\ FreeOf(s, m)'
  <2>1. CASE s # x
    <3>1. ~RunsOn("loop") \/ SymOf(task["loop"].q) # s
      BY <1>1, <1>4, <2>1 DEF RunsOn
    <3> QED BY <1>1, <1>5, <1>6, <1>7, <2>1, <3>1, RestsKept
  <2>2. CASE s = x
    <3>1. VenueOf(s, m)' /\ ViewsOf(s, m)'
      BY <1>7, LooksShow DEF Epoch
    <3>2. row = Row(m)
      BY <1>4, <2>2 DEF Epoch, ViewsOf, Views, RowOf, Unit, Row
    <3>3. PositionOf(s, m)'
      BY <1>5, <2>2, <3>2 DEF PositionOf, Row
    <3>4. FreeOf(s, m)'
      BY <1>5, <2>2 DEF FreeOf, Free
    <3>5. Shows(task["loop"].snap, s)' /\ ~Shows(cache, s)' => venue'[s].units = 0
      BY <1>1, <1>6 DEF Epoch, AgeOf, Shows
    <3>7. ASSUME NEW S \in Views', S.ok, obj'[o].pnl \/ o <= S.upto, ~Shows(S, s)
          PROVE  venue'[s].units = 0
      <4>1. S \in {cache, task["loop"].snap}
        BY <1>1, <1>6 DEF Views
      <4>2. S = cache
        BY <1>4, <2>2, <3>7, <4>1
      <4> QED BY <1>1, <1>4, <1>6, <2>2, <3>5, <3>7, <4>2 DEF Shows
    <3>8. AgeOf(s)'
      BY <1>5, <2>2, <3>5, <3>7 DEF AgeOf, Shows
    <3> QED BY <3>1, <3>3, <3>4, <3>8
  <2> QED BY <2>1, <2>2
<1> QED BY <1>1, <1>5, <1>6, <1>7, <1>8, LoopRests DEF Asking

\* The object that the loop goes through or closes is the one managed.
LEMMA HeldIsManaged ==
    ASSUME TradeInv, NEW o \in Held
    PROVE  /\ o \in Objs /\ o # 0 /\ o <= made.objs /\ obj[o].sym \in Symbols
           /\ positions[obj[o].sym] = o /\ ~obj[o].closed
<1> USE DEF TradeInv
<1>1. o \in Objs /\ o <= made.objs /\ ~obj[o].closed /\ positions[obj[o].sym] = o
  BY DEF BookInv, HeldInv, ShapeInv, LoopShape
<1> QED BY <1>1, BoundsInNat DEF Objs, TypeInv, BookTyped, Object

LEMMA ManageWorks ==
    ASSUME TradeInv, NEW o \in Objs, LoopHold(o) \/ LoopMove(o) \/ LoopRule(o)
    PROVE  /\ o \in Held /\ task["loop"].then = "manage" /\ Others("loop") /\ ~RunsOn("loop")
           /\ UNCHANGED <<order, venue, quotes, quote, cache, positions, made>>
           /\ task'["loop"].then = "manage" /\ task'["loop"].snap = task["loop"].snap
           /\ task'["loop"].pc \in {"manage", "trail", "close"}
           /\ task'["loop"].pc = "close" =>
                /\ task'["loop"].o = o
                /\ task'["loop"].raw = IF Seen(o) THEN RowOf(task["loop"].snap.pos[obj[o].sym])
                                                  ELSE MadeUp(o)
           /\ \A y \in Objs : y # o => obj'[y] = obj[y]
           /\ obj'[o].sym = obj[o].sym /\ obj'[o].truth = obj[o].truth /\ obj'[o].qty = obj[o].qty
           /\ obj'[o].pid = obj[o].pid /\ obj'[o].closed = obj[o].closed
           /\ obj'[o].key = obj[o].key /\ UNCHANGED closedKeys
           /\ obj'[o].pnl = (obj[o].pnl \/ Seen(o))
<1> USE TaskNames DEF TradeInv
<1> DEFINE H == task["loop"]
           M == [task["loop"] EXCEPT !.pc = "trail", !.o = o]
           R == [task["loop"] EXCEPT !.pc = "close", !.o = o, !.left = 3,
                   !.raw = IF Seen(o) THEN RowOf(task["loop"].snap.pos[obj[o].sym]) ELSE MadeUp(o)]
<1>1. PICK T \in {H, M, R} : Manage(o, T)
  BY DEF LoopHold, LoopMove, LoopRule
<1>2. task["loop"].pc = "manage" /\ At("loop", "manage") /\ o \in task["loop"].todo
  BY <1>1 DEF Manage, ManageBelow, At
<1>3. task["loop"] \in Task /\ task["loop"].then = "manage"
  BY <1>2 DEF MadeInv, MadeTasks, MadeTask, TypeInv, TaskTyped
<1>4. /\ T.then = "manage" /\ T.snap = task["loop"].snap /\ T.pc \in {"manage", "trail", "close"}
      /\ T.pc = "close" =>
           /\ T.o = o
           /\ T.raw = IF Seen(o) THEN RowOf(task["loop"].snap.pos[obj[o].sym]) ELSE MadeUp(o)
  <2>1. CASE T = H
    BY <1>2, <1>3, <2>1
  <2>2. CASE T = M
    <3>1. M.then = "manage" /\ M.snap = task["loop"].snap /\ M.pc = "trail"
      BY <1>3 DEF Task
    <3> QED BY <2>2, <3>1
  <2>3. CASE T = R
    <3>1. /\ R.then = "manage" /\ R.snap = task["loop"].snap /\ R.pc = "close" /\ R.o = o
          /\ R.raw = IF Seen(o) THEN RowOf(task["loop"].snap.pos[obj[o].sym]) ELSE MadeUp(o)
      BY <1>3 DEF Task
    <3> QED BY <2>3, <3>1
  <2> QED BY <1>1, <2>1, <2>2, <2>3
<1> HIDE DEF H, M, R
<1> DEFINE U == [T EXCEPT !.todo = T.todo \ {o}]
<1>5. task' = [task EXCEPT !["loop"] = U]
  BY <1>1 DEF Manage, ManageBelow
<1>6. /\ U.then = T.then /\ U.snap = T.snap /\ U.pc = T.pc /\ U.o = T.o /\ U.raw = T.raw
  OBVIOUS
<1> HIDE DEF U
<1>7. task'["loop"] = U /\ Others("loop") /\ ~RunsOn("loop")
  BY <1>2, <1>5 DEF TypeInv, TaskTyped, Others, At, RunsOn
<1>8. UNCHANGED <<order, venue, quotes, quote, cache, positions, made, closedKeys>>
  BY <1>1 DEF Manage, ManageBelow, venueVars, quoteVars
<1>9. /\ \A y \in Objs : y # o => obj'[y] = obj[y]
      /\ obj'[o].sym = obj[o].sym /\ obj'[o].truth = obj[o].truth /\ obj'[o].qty = obj[o].qty
      /\ obj'[o].pid = obj[o].pid /\ obj'[o].closed = obj[o].closed
      /\ obj'[o].key = obj[o].key
      /\ obj'[o].pnl = (obj[o].pnl \/ Seen(o))
  BY <1>1 DEF Manage, ManageBelow, TypeInv, BookTyped, Object
<1>10. o \in Held
  BY <1>2, <1>3 DEF Held, HeldOf
<1> QED BY <1>3, <1>4, <1>6, <1>7, <1>8, <1>9, <1>10

LEMMA ManageEpoch ==
    ASSUME TradeConditions, TradeInv, NEW o \in Objs, LoopHold(o) \/ LoopMove(o) \/ LoopRule(o),
           NEW s \in Symbols, NEW c, NEW m, Epoch(s, c, m)
    PROVE  Epoch(s, c, m)'
<1> USE TaskNames DEF TradeInv
<1>0. PICK x : x = obj[o].sym
  OBVIOUS
<1>1. /\ o \in Held /\ task["loop"].then = "manage" /\ Others("loop") /\ ~RunsOn("loop")
      /\ UNCHANGED <<order, venue, quotes, quote, cache, positions, made>>
      /\ task'["loop"].then = "manage" /\ task'["loop"].snap = task["loop"].snap
      /\ task'["loop"].pc \in {"manage", "trail", "close"}
      /\ task'["loop"].pc = "close" =>
           /\ task'["loop"].o = o
           /\ task'["loop"].raw = IF Seen(o) THEN RowOf(task["loop"].snap.pos[x]) ELSE MadeUp(o)
      /\ \A y \in Objs : y # o => obj'[y] = obj[y]
      /\ obj'[o].sym = x /\ obj'[o].truth = obj[o].truth /\ obj'[o].qty = obj[o].qty
      /\ obj'[o].pnl = (obj[o].pnl \/ Seen(o))
  BY <1>0, ManageWorks
<1>2. o # 0 /\ x \in Symbols /\ positions[x] = o
  BY <1>0, <1>1, HeldIsManaged
<1>3. /\ SameQuotes /\ OrdersEnd /\ Looks /\ CancelOf(task["loop"], s, c, m)'
      /\ TodoOf(task["loop"], s, c)' /\ task'["loop"].pc \notin Entering \cup Asking
  BY <1>1 DEF SameQuotes, SameQuote, OrdersEnd, Looks, CancelOf, TodoOf, On, Entering, Asking
<1>4. CASE x # s
  <2>1. BookKept(s)
    BY <1>0, <1>1, <1>4 DEF BookKept
  <2>2. VenueOf(s, m)' /\ ViewsOf(s, m)' /\ PositionOf(s, m)' /\ AgeOf(s)' /\ FreeOf(s, m)'
    BY <1>1, <1>3, <2>1, RestsKept
  <2>3. CloseOf(task["loop"], s)'
    BY <1>1, <1>4 DEF CloseOf, Leaving
  <2> QED BY <1>1, <1>3, <2>2, <2>3, LoopRests DEF Asking
<1>5. CASE x = s
  <2>1. VenueOf(s, m)' /\ ViewsOf(s, m)'
    BY <1>3, LooksShow DEF Epoch
  <2>2. obj[o].truth = m /\ obj[o].qty = 1
    BY <1>2, <1>5 DEF Epoch, PositionOf
  <2>3. PositionOf(s, m)' /\ FreeOf(s, m)'
    BY <1>1, <1>2, <1>5, <2>2 DEF PositionOf, FreeOf, Free
  <2>4. Shows(task["loop"].snap, s)' /\ ~Shows(cache, s)' => venue'[s].units = 0
    BY <1>1 DEF Epoch, AgeOf, Shows
  <2>5. ASSUME NEW S \in Views', S.ok, obj'[o].pnl \/ o <= S.upto, ~Shows(S, s)
        PROVE  venue'[s].units = 0
    <3>1. S \in Views
      BY <1>1 DEF Views
    <3>2. CASE obj[o].pnl \/ o <= S.upto
      BY <1>1, <1>2, <1>5, <2>5, <3>1, <3>2 DEF Epoch, AgeOf, Shows
    <3>3. CASE Seen(o)
      <4>1. Shows(task["loop"].snap, s)
        BY <1>0, <1>5, <3>3 DEF Seen, Shows
      <4>2. S = cache
        BY <2>5, <3>1, <4>1 DEF Views
      <4> QED BY <1>1, <2>4, <2>5, <4>1, <4>2 DEF Shows
    <3> QED BY <1>1, <2>5, <3>2, <3>3
  <2>6. AgeOf(s)'
    BY <1>1, <1>2, <1>5, <2>4, <2>5 DEF AgeOf, Shows
  <2>7. CloseOf(task["loop"], s)'
    <3> SUFFICES ASSUME task'["loop"].pc = "close" PROVE task'["loop"].raw.units = 1
      BY <1>1 DEF CloseOf, Leaving
    <3>1. CASE Seen(o)
      <4>1. task["loop"].snap.pos[s] = Unit(m)
        BY <1>0, <1>5, <3>1 DEF Seen, Epoch, ViewsOf, Views, Shows
      <4> QED BY <1>1, <1>5, <3>1, <4>1 DEF RowOf, Unit
    <3>2. CASE ~Seen(o)
      BY <1>1, <2>2, <3>2 DEF MadeUp
    <3> QED BY <3>1, <3>2
  <2> QED BY <1>1, <1>3, <2>1, <2>3, <2>6, <2>7, LoopRests DEF Asking
<1> QED BY <1>4, <1>5

\* A close: the venue and its replies.
LEMMA ClosingWorks ==
    ASSUME TradeConditions, TradeInv, CloseSend("loop") \/ CloseReply("loop"),
           NEW o, o = task["loop"].o, NEW x, x = obj[o].sym
    PROVE  /\ o \in Held /\ Others("loop") /\ ~RunsOn("loop")
           /\ task["loop"].pc \in Leaving /\ task["loop"].then = "manage"
           /\ UNCHANGED <<order, quotes, quote, cache, made>> /\ UNCHANGED bookVars
           /\ task'["loop"].then = "manage" /\ task'["loop"].snap = task["loop"].snap
           /\ task'["loop"].pc \in Leaving \cup {"manage"}
           /\ task'["loop"].pc \in Leaving =>
                task'["loop"].o = o /\ task'["loop"].raw = task["loop"].raw
           /\ \/ /\ UNCHANGED <<venue, hist>>
                 /\ task'["loop"].pc \in Leaving \ {"close"} => task["loop"].pc \in Leaving \ {"close"}
              \/ VenueTakesClose(x, ClosePid("loop"), CloseVol("loop")) /\ task["loop"].pc = "close"
<1> USE TaskNames DEF TradeInv
<1>1. /\ task["loop"].pc \in {"close", "closing"} /\ At("loop", task["loop"].pc)
      /\ task["loop"] \in Task
      /\ UNCHANGED <<order, quotes, quote, cache, made>> /\ UNCHANGED bookVars
  BY DEF CloseSend, CloseReply, At, VenueTakesClose, venueVars, quoteVars, TypeInv, TaskTyped
<1>2. task["loop"].then = "manage" /\ o # 0 /\ task["loop"].pc \in Leaving
  BY <1>1 DEF ShapeInv, LoopShape, Phases, Leaving
<1>3. o \in Held
  BY <1>2 DEF Held, HeldOf
<1>4. Others("loop") /\ ~RunsOn("loop")
  <2>1. \A u \in Tasks : u # "loop" => task'[u] = task[u]
    BY DEF CloseSend, CloseReply, Goto, Back, TypeInv, TaskTyped
  <2> QED BY <1>1, <2>1 DEF Others, At, RunsOn
<1>5. PICK T : T = task["loop"]
  OBVIOUS
<1>6. /\ Return(T).pc = "manage" /\ Return(T).then = "manage" /\ Return(T).snap = T.snap
  BY <1>1, <1>2, <1>5 DEF Return, Task
<1>7. ASSUME NEW pc, NEW left
      PROVE  /\ [T EXCEPT !.pc = pc, !.left = left].pc = pc
             /\ [T EXCEPT !.pc = pc, !.left = left].then = "manage"
             /\ [T EXCEPT !.pc = pc, !.left = left].snap = T.snap
             /\ [T EXCEPT !.pc = pc, !.left = left].o = o
             /\ [T EXCEPT !.pc = pc, !.left = left].raw = T.raw
  BY <1>1, <1>2, <1>5 DEF Task
<1>8. ASSUME NEW pc
      PROVE  /\ [T EXCEPT !.pc = pc].pc = pc /\ [T EXCEPT !.pc = pc].then = "manage"
             /\ [T EXCEPT !.pc = pc].snap = T.snap /\ [T EXCEPT !.pc = pc].o = o
             /\ [T EXCEPT !.pc = pc].raw = T.raw
  BY <1>1, <1>2, <1>5 DEF Task
<1>9. ASSUME NEW left
      PROVE  /\ [T EXCEPT !.left = left].pc = T.pc /\ [T EXCEPT !.left = left].then = "manage"
             /\ [T EXCEPT !.left = left].snap = T.snap /\ [T EXCEPT !.left = left].o = o
             /\ [T EXCEPT !.left = left].raw = T.raw
  BY <1>1, <1>2, <1>5 DEF Task
<1>10. CASE CloseSend("loop")
  <2>1. /\ task["loop"].pc = "close"
        /\ \/ /\ VenueTakesClose(x, ClosePid("loop"), CloseVol("loop"))
              /\ task' = [task EXCEPT !["loop"] = [T EXCEPT !.pc = "closing", !.left = T.left - 1]]
           \/ task' = [task EXCEPT !["loop"] = Return(T)] /\ UNCHANGED <<venue, hist>>
           \/ /\ UNCHANGED <<venue, hist>>
              /\ task' = [task EXCEPT !["loop"] = [T EXCEPT !.left = T.left - 1]]
    <3>1. task["loop"].pc = "close"
      BY <1>10 DEF CloseSend, At
    <3>2. Back("loop") => task' = [task EXCEPT !["loop"] = Return(T)]
      BY <1>5 DEF Back
    <3> QED BY <1>5, <1>10, <3>1, <3>2 DEF CloseSend, venueVars
  <2>2. task["loop"].pc = "close" /\ "loop" \in DOMAIN task
    BY <2>1 DEF TypeInv, TaskTyped
  <2>3. CASE /\ VenueTakesClose(x, ClosePid("loop"), CloseVol("loop"))
             /\ task' = [task EXCEPT !["loop"] = [T EXCEPT !.pc = "closing", !.left = T.left - 1]]
    <3>1. task'["loop"] = [T EXCEPT !.pc = "closing", !.left = T.left - 1]
      BY <2>2, <2>3
    <3>2. /\ task'["loop"].pc = "closing" /\ task'["loop"].then = "manage"
          /\ task'["loop"].snap = T.snap /\ task'["loop"].o = o /\ task'["loop"].raw = T.raw
      BY <1>7, <3>1
    <3> QED BY <1>1, <1>2, <1>3, <1>4, <1>5, <2>2, <2>3, <3>2 DEF Leaving
  <2>4. CASE task' = [task EXCEPT !["loop"] = Return(T)] /\ UNCHANGED <<venue, hist>>
    <3>1. task'["loop"] = Return(T)
      BY <2>2, <2>4
    <3> QED BY <1>1, <1>2, <1>3, <1>4, <1>5, <1>6, <2>2, <2>4, <3>1 DEF Leaving
  <2>5. CASE /\ UNCHANGED <<venue, hist>>
             /\ task' = [task EXCEPT !["loop"] = [T EXCEPT !.left = T.left - 1]]
    <3>1. task'["loop"] = [T EXCEPT !.left = T.left - 1]
      BY <2>2, <2>5
    <3> QED BY <1>1, <1>2, <1>3, <1>4, <1>5, <1>9, <2>2, <2>5, <3>1 DEF Leaving
  <2> QED BY <2>1, <2>3, <2>4, <2>5
<1>11. CASE CloseReply("loop")
  <2>1. /\ task["loop"].pc = "closing" /\ UNCHANGED <<venue, hist>>
        /\ \/ Goto("loop", "resolve")
           \/ task' = [task EXCEPT !["loop"] = Return(T)]
           \/ task' = [task EXCEPT !["loop"] = [T EXCEPT !.pc = "close"]]
    <3>1. task["loop"].pc = "closing" /\ UNCHANGED <<venue, hist>>
      BY <1>11 DEF CloseReply, At, venueVars
    <3> QED BY <1>5, <1>11, <3>1 DEF CloseReply
  <2>2. task["loop"].pc = "closing" /\ "loop" \in DOMAIN task
    BY <2>1 DEF TypeInv, TaskTyped
  <2>3. CASE Goto("loop", "resolve")
    <3>1. task' = [task EXCEPT !["loop"] = [T EXCEPT !.pc = "resolve"]]
      BY <1>1, <1>5, <2>3, SetPc DEF TypeInv, TaskTyped
    <3>2. task'["loop"] = [T EXCEPT !.pc = "resolve"]
      BY <2>2, <3>1
    <3> QED BY <1>1, <1>2, <1>3, <1>4, <1>5, <1>8, <2>1, <3>2 DEF Leaving
  <2>4. CASE task' = [task EXCEPT !["loop"] = Return(T)]
    <3>1. task'["loop"] = Return(T)
      BY <2>2, <2>4
    <3> QED BY <1>1, <1>2, <1>3, <1>4, <1>5, <1>6, <2>1, <3>1 DEF Leaving
  <2>5. CASE task' = [task EXCEPT !["loop"] = [T EXCEPT !.pc = "close"]]
    <3>1. task'["loop"] = [T EXCEPT !.pc = "close"]
      BY <2>2, <2>5
    <3> QED BY <1>1, <1>2, <1>3, <1>4, <1>5, <1>8, <2>1, <3>1 DEF Leaving
  <2> QED BY <2>1, <2>3, <2>4, <2>5
<1> QED BY <1>10, <1>11

\* A symbol of which the venue closes the position, if it does anything.
LEMMA SymbolRests ==
    ASSUME TradeInv, NEW s \in Symbols, NEW c, NEW m, Epoch(s, c, m),
           venue'[s] = venue[s] \/ venue'[s].units = 0, UNCHANGED cache,
           task'["loop"].snap = task["loop"].snap, BookKept(s),
           Pending(m)' => Pending(m), Free(s)' => Free(s)
    PROVE  VenueOf(s, m)' /\ ViewsOf(s, m)' /\ PositionOf(s, m)' /\ AgeOf(s)' /\ FreeOf(s, m)'
<1> USE DEF TradeInv
<1>0. \A S \in Views' : S \in Views
  BY DEF Views
<1>1. VenueOf(s, m)'
  BY DEF Epoch, VenueOf, Unit
<1>2. ViewsOf(s, m)'
  BY <1>0 DEF Epoch, ViewsOf, Shows
<1>3. PositionOf(s, m)'
  BY KeptPosition DEF Epoch, PositionOf
<1>4. venue[s].units = 0 => venue'[s].units = 0
  OBVIOUS
<1>5. AgeOf(s)'
  <2>1. Shows(task["loop"].snap, s)' /\ ~Shows(cache, s)' => venue'[s].units = 0
    BY <1>4 DEF Epoch, AgeOf, Shows
  <2>2. ASSUME NEW S \in Views', positions'[s] # 0,
               obj'[positions'[s]].pnl \/ positions'[s] <= S.upto, S.ok, ~Shows(S, s)
        PROVE  venue'[s].units = 0
    BY <1>0, <1>4, <2>2, KeptPosition DEF Epoch, AgeOf, Shows
  <2> QED BY <2>1, <2>2 DEF AgeOf, Shows
<1>6. FreeOf(s, m)'
  <2> SUFFICES ASSUME Free(s)'
               PROVE  /\ ~Pending(m)' /\ venue'[s].units = 0
                      /\ \A S \in Views' : Shows(S, s)' => Done(s, m)'
    BY DEF FreeOf
  <2>1. ~Pending(m) /\ venue[s].units = 0 /\ \A S \in Views : Shows(S, s) => Done(s, m)
    BY DEF Epoch, FreeOf
  <2>2. \A S \in Views' : Shows(S, s)' => Done(s, m)
    BY <1>0, <2>1 DEF Shows
  <2> QED BY <1>4, <2>1, <2>2, KeptDone DEF ShapeInv
<1> QED BY <1>1, <1>2, <1>3, <1>5, <1>6

\* A close order of the whole unit leaves nothing, and nothing of another symbol changes.
LEMMA CloseTakes ==
    ASSUME TradeInv, NEW x \in Symbols, NEW pid, NEW vol, VenueTakesClose(x, pid, vol)
    PROVE  /\ \A s \in Symbols : s # x => venue'[s] = venue[s]
           /\ vol >= venue[x].units => /\ venue' = [venue EXCEPT ![x] = Flat]
                                       /\ venue'[x] = Flat /\ hist' = hist \cup {venue[x].pid}
           /\ venue[x].units > 0 /\ UNCHANGED order
BY DEF TradeInv, TypeInv, VenueTyped, VenueTakesClose

LEMMA ClosingEpoch ==
    ASSUME TradeConditions, TradeInv, CloseSend("loop") \/ CloseReply("loop"),
           NEW s \in Symbols, NEW c, NEW m, Epoch(s, c, m)
    PROVE  Epoch(s, c, m)'
<1> USE TaskNames DEF TradeInv
<1>0. PICK o, x : o = task["loop"].o /\ x = obj[o].sym
  OBVIOUS
<1>1. /\ o \in Held /\ Others("loop") /\ ~RunsOn("loop")
      /\ task["loop"].pc \in Leaving /\ task["loop"].then = "manage"
      /\ UNCHANGED <<order, quotes, quote, cache, made>> /\ UNCHANGED bookVars
      /\ task'["loop"].then = "manage" /\ task'["loop"].snap = task["loop"].snap
      /\ task'["loop"].pc \in Leaving \cup {"manage"}
      /\ task'["loop"].pc \in Leaving =>
           task'["loop"].o = o /\ task'["loop"].raw = task["loop"].raw
      /\ \/ /\ UNCHANGED <<venue, hist>>
            /\ task'["loop"].pc \in Leaving \ {"close"} => task["loop"].pc \in Leaving \ {"close"}
         \/ VenueTakesClose(x, ClosePid("loop"), CloseVol("loop")) /\ task["loop"].pc = "close"
  BY <1>0, ClosingWorks
<1>2. o # 0 /\ x \in Symbols /\ positions[x] = o
  BY <1>0, <1>1, HeldIsManaged
<1>3. /\ SameQuotes /\ OrdersEnd /\ CancelOf(task["loop"], s, c, m)' /\ BookKept(s)
      /\ TodoOf(task["loop"], s, c)' /\ task'["loop"].pc \notin Entering \cup Asking
  BY <1>1 DEF SameQuotes, SameQuote, OrdersEnd, BookKept, CancelOf, TodoOf, On, Entering, Asking,
     Leaving, bookVars
<1>4. /\ s = x => task["loop"].raw.units = 1
      /\ s = x /\ task["loop"].pc # "close" => venue[s].units = 0
  BY <1>0, <1>1 DEF Epoch, CloseOf
<1>5. /\ venue'[s] = venue[s] \/ venue'[s].units = 0
      /\ s = x => \/ /\ UNCHANGED <<venue, hist>>
                     /\ task'["loop"].pc \in Leaving \ {"close"} => task["loop"].pc # "close"
                  \/ venue'[s].units = 0
  <2>1. CASE /\ UNCHANGED <<venue, hist>>
             /\ task'["loop"].pc \in Leaving \ {"close"} => task["loop"].pc \in Leaving \ {"close"}
    BY <2>1
  <2>2. CASE VenueTakesClose(x, ClosePid("loop"), CloseVol("loop")) /\ s # x
    BY <1>2, <2>2, CloseTakes
  <2>3. CASE VenueTakesClose(x, ClosePid("loop"), CloseVol("loop")) /\ s = x
    <3>1. venue[x].units > 0
      BY <1>2, <2>3, CloseTakes
    <3>2. venue[x].units = 1 /\ CloseVol("loop") = 1
      BY <1>4, <2>3, <3>1 DEF Epoch, VenueOf, Unit, CloseVol
    <3>3. venue'[x] = Flat
      BY <1>2, <2>3, <3>2, CloseTakes
    <3> QED BY <2>3, <3>3 DEF Flat
  <2> QED BY <1>1, <2>1, <2>2, <2>3
<1>6. Free(s)' => Free(s)
  <2>1. ~Busy(s)
    BY <1>1 DEF Busy, Others
  <2> QED BY <1>1, <2>1 DEF Free, bookVars
<1>7. VenueOf(s, m)' /\ ViewsOf(s, m)' /\ PositionOf(s, m)' /\ AgeOf(s)' /\ FreeOf(s, m)'
  <2>1. Pending(m)' => Pending(m)
    BY <1>1 DEF Pending
  <2> QED BY <1>1, <1>3, <1>5, <1>6, <2>1, SymbolRests
<1>8. CloseOf(task["loop"], s)'
  <2> SUFFICES ASSUME task'["loop"].pc \in Leaving, obj'[o].sym = s
               PROVE  task'["loop"].raw.units = 1 /\ (task'["loop"].pc # "close" => venue'[s].units = 0)
    BY <1>1 DEF CloseOf
  <2>1. s = x
    BY <1>0, <1>1 DEF bookVars
  <2>2. task'["loop"].raw.units = 1
    BY <1>1, <1>4, <2>1
  <2>3. CASE /\ UNCHANGED <<venue, hist>>
             /\ task'["loop"].pc \in Leaving \ {"close"} => task["loop"].pc # "close"
    BY <1>4, <2>1, <2>2, <2>3
  <2>4. CASE venue'[s].units = 0
    BY <2>2, <2>4
  <2> QED BY <1>5, <2>1, <2>3, <2>4
<1> QED BY <1>1, <1>3, <1>7, <1>8, LoopRests DEF Asking

\* A booked object is released as closed, or the trade with its key is another one.
LEMMA MarkedFacts ==
    ASSUME TradeInv, NEW o \in Held, NEW id \in HistoryIds(o), NEW why, MarkClosed(o, id, why),
           NEW x, x = obj[o].sym
    PROVE  /\ positions'[x] = 0 /\ \A s \in Symbols : s # x => positions'[s] = positions[s] /\ BookKept(s)
           /\ \A y \in Objs : y # o => obj'[y] = obj[y]
           /\ obj'[o].sym = x /\ obj'[o].truth = obj[o].truth /\ obj'[o].pid # 0
           /\ obj'[o].pid \in {id, obj[o].pid}
           /\ \/ obj'[o].closed
              \/ \E p \in Objs : /\ p # o /\ Booked(p) /\ obj[p].closed /\ p <= made.objs
                                 /\ obj[p].pid = obj'[o].pid
<1> USE DEF TradeInv
<1>1. o \in Objs /\ o <= made.objs /\ x \in Symbols /\ positions[x] = o /\ ~obj[o].closed
  BY HeldIsManaged
<1>2. PICK pid : pid = IF id # 0 THEN id ELSE obj[o].pid
  OBVIOUS
<1>3. pid # 0 /\ pid \in {id, obj[o].pid} /\ CloseKey(o, pid) = [kind |-> "pid", id |-> pid]
  BY <1>1, <1>2, BoundsInNat DEF NamedInv, BookedAsNamed, CloseKey, Filled, Orders
<1>4. positions'[x] = 0 /\ \A s \in Symbols : s # x => positions'[s] = positions[s]
  BY <1>1 DEF MarkClosed, Release, TypeInv, BookTyped
<1>5. /\ \A y \in Objs : y # o => obj'[y] = obj[y]
      /\ obj'[o].sym = x /\ obj'[o].truth = obj[o].truth /\ obj'[o].pid = pid
      /\ Duplicate(o, pid) \/ obj'[o].closed
  <2>1. CASE Duplicate(o, pid)
    <3>1. obj' = [obj EXCEPT ![o].pid = pid]
      BY <1>2, <2>1 DEF MarkClosed
    <3> QED BY <1>1, <2>1, <3>1 DEF TypeInv, BookTyped, Object
  <2>2. CASE ~Duplicate(o, pid)
    <3>1. obj' = [obj EXCEPT ![o] = [obj[o] EXCEPT !.pid = pid, !.closed = TRUE, !.reason = why,
                                        !.key = CloseKey(o, pid)]]
      BY <1>2, <2>2 DEF MarkClosed, Book
    <3> QED BY <1>1, <3>1 DEF TypeInv, BookTyped, Object
  <2> QED BY <2>1, <2>2
<1>6. ASSUME Duplicate(o, pid)
      PROVE  \E p \in Objs : /\ p # o /\ Booked(p) /\ obj[p].closed /\ p <= made.objs
                             /\ obj[p].pid = pid
  <2>1. CloseKey(o, pid) \in closedKeys
    BY <1>1, <1>6 DEF Duplicate
  <2>2. PICK p \in Objs : Booked(p) /\ obj[p].key = [kind |-> "pid", id |-> pid]
    BY <1>3, <2>1 DEF ShapeInv, KeysSpent
  <2>3. obj[p].closed /\ p <= made.objs /\ obj[p].key = [kind |-> "pid", id |-> obj[p].pid]
    BY <2>2 DEF LedgerInv, Recorded, NamedInv, BookedAsNamed
  <2>4. obj[p].pid = pid
    BY <2>2, <2>3
  <2> QED BY <1>1, <2>2, <2>3, <2>4
<1>7. \A s \in Symbols : s # x => BookKept(s)
  BY <1>4, <1>5 DEF BookKept
<1> QED BY <1>3, <1>4, <1>5, <1>6, <1>7

\* A position found in the history, or looked for there after its close, is gone.
LEMMA MarkedGone ==
    ASSUME TradeInv, NEW o \in Held, NEW id \in HistoryIds(o), NEW s, s = obj[o].sym, NEW c, NEW m,
           Epoch(s, c, m), id = 0 => venue[s].units = 0
    PROVE  /\ venue[s].units = 0 /\ obj[o].truth = m /\ FillOf(m, s) /\ m \in Orders
           /\ id \in {0, m}
<1> USE DEF TradeInv
<1>1. o \in Objs /\ o # 0 /\ o <= made.objs /\ s \in Symbols /\ positions[s] = o
  BY HeldIsManaged
<1>2. obj[o].truth = m
  BY <1>1 DEF Epoch, PositionOf
<1>3. FillOf(m, s) /\ m \in Orders
  BY <1>1, <1>2 DEF ShapeInv, FillsHeld, FillOf
<1>4. ASSUME id # 0 PROVE id = m /\ venue[s].pid # m
  <2>1. id \in hist /\ order[id].sym = s /\ id >= m
    BY <1>2, <1>4 DEF HistoryIds
  <2>2. FillOf(id, s) /\ venue[s].pid # id
    BY <2>1 DEF ShapeInv, FillsShown
  <2>3. id <= m
    BY <1>3, <2>2, BoundsInNat DEF Epoch, OrdersOf, FillOf, Orders
  <2>4. id \in Nat /\ m \in Nat
    BY <1>3, <2>2, BoundsInNat DEF FillOf, Orders
  <2> QED BY <2>1, <2>2, <2>3, <2>4
<1>5. venue[s].units \in Nat
  BY <1>1 DEF TypeInv, VenueTyped, Position
<1> QED BY <1>2, <1>3, <1>4, <1>5 DEF Epoch, VenueOf, Unit

LEMMA MarkedEpoch ==
    ASSUME TradeConditions, TradeInv, NEW o \in Held, NEW id \in HistoryIds(o), NEW why,
           MarkClosed(o, id, why), ComesBack("loop"), Others("loop"), ~RunsOn("loop"),
           UNCHANGED <<order, venue, quotes, quote, cache, made>>,
           NEW s \in Symbols, NEW c, NEW m, Epoch(s, c, m),
           s = obj[o].sym /\ id = 0 => venue[s].units = 0
    PROVE  Epoch(s, c, m)' \/ Lost(s)'
<1> USE TaskNames DEF TradeInv
<1>0. PICK x : x = obj[o].sym
  OBVIOUS
<1>1. /\ o \in Objs /\ o # 0 /\ o <= made.objs /\ x \in Symbols /\ positions[x] = o
      /\ ~obj[o].closed
  BY <1>0, HeldIsManaged
<1>2. /\ positions'[x] = 0
      /\ \A y \in Symbols : y # x => positions'[y] = positions[y] /\ BookKept(y)
      /\ \A y \in Objs : y # o => obj'[y] = obj[y]
      /\ obj'[o].sym = x /\ obj'[o].truth = obj[o].truth /\ obj'[o].pid # 0
      /\ obj'[o].pid \in {id, obj[o].pid}
      /\ \/ obj'[o].closed
         \/ \E p \in Objs : /\ p # o /\ Booked(p) /\ obj[p].closed /\ p <= made.objs
                            /\ obj[p].pid = obj'[o].pid
  BY <1>0, MarkedFacts
<1>3. /\ task["loop"].then = "manage" /\ task'["loop"].then = "manage"
      /\ task'["loop"].pc = "manage" /\ task'["loop"].snap = task["loop"].snap
  <2>1. task["loop"].then = "manage"
    BY DEF Held, HeldOf
  <2> QED BY <2>1 DEF ComesBack, GoesTo
<1>4. /\ SameQuotes /\ OrdersEnd /\ CancelOf(task["loop"], s, c, m)' /\ CloseOf(task["loop"], s)'
      /\ TodoOf(task["loop"], s, c)' /\ task'["loop"].pc \notin Entering \cup Asking /\ Looks
  BY <1>3 DEF SameQuotes, SameQuote, OrdersEnd, CancelOf, TodoOf, On, Entering, Asking, CloseOf,
     Leaving, Looks
<1>5. CASE s # x
  <2>1. VenueOf(s, m)' /\ ViewsOf(s, m)' /\ PositionOf(s, m)' /\ AgeOf(s)' /\ FreeOf(s, m)'
    BY <1>2, <1>4, <1>5, RestsKept
  <2> QED BY <1>4, <2>1, LoopRests DEF Asking
<1>6. CASE s = x
  <2>1. /\ venue[s].units = 0 /\ obj[o].truth = m /\ FillOf(m, s) /\ m \in Orders
        /\ id \in {0, m}
    BY <1>0, <1>6, MarkedGone
  <2>2. VenueOf(s, m)' /\ ViewsOf(s, m)'
    BY <1>4, LooksShow DEF Epoch
  <2>3. PositionOf(s, m)' /\ AgeOf(s)'
    BY <1>2, <1>6, <2>1 DEF PositionOf, AgeOf
  <2>4. Done(s, m)' \/ Lost(s)'
    <3>1. CASE obj'[o].closed
      BY <1>1, <1>2, <1>6, <2>1, <3>1 DEF Done
    <3>2. ASSUME NEW p \in Objs, p # o, Booked(p), obj[p].closed, p <= made.objs,
                 obj[p].pid = obj'[o].pid
          PROVE  Done(s, m)' \/ Lost(s)'
      <4>1. CASE obj'[o].pid # m
        <5>1. Misnamed(o)'
          BY <1>2, <2>1, <4>1 DEF Misnamed
        <5>2. Confused(s)'
          BY <1>1, <1>2, <1>6, <5>1 DEF Confused
        <5> QED BY <5>2 DEF Lost
      <4>2. CASE obj'[o].pid = m
        <5>1. obj'[p] = obj[p] /\ obj[p].pid = m /\ m # 0
          BY <1>2, <3>2, <4>2
        <5>2. obj[p].sym = s
          BY <2>1, <3>2, <5>1 DEF ShapeInv, FillsHeld, FillOf
        <5>3. p # 0
          BY BoundsInNat DEF Objs
        <5>4. CASE obj[p].truth = m
          BY <3>2, <5>1, <5>2, <5>4 DEF Done
        <5>5. CASE obj[p].truth # m
          <6>1. Misnamed(p)'
            BY <5>1, <5>5 DEF Misnamed
          <6>2. Confused(s)'
            BY <1>2, <1>6, <5>1, <5>2, <5>3, <6>1 DEF Confused
          <6> QED BY <6>2 DEF Lost
        <5> QED BY <5>4, <5>5
      <4> QED BY <4>1, <4>2
    <3> QED BY <1>2, <3>1, <3>2
  <2>5. CASE Done(s, m)'
    <3>1. ~Pending(m)' /\ venue'[s].units = 0
      BY <2>1 DEF Pending, FillOf
    <3>2. FreeOf(s, m)'
      BY <2>5, <3>1 DEF FreeOf
    <3> QED BY <1>4, <2>2, <2>3, <3>2, LoopRests DEF Asking
  <2> QED BY <2>4, <2>5
<1> QED BY <1>5, <1>6

LEMMA CloseBookEpoch ==
    ASSUME TradeConditions, TradeInv, CloseBook("loop"),
           NEW s \in Symbols, NEW c, NEW m, Epoch(s, c, m)
    PROVE  Epoch(s, c, m)' \/ Lost(s)'
<1> USE TaskNames DEF TradeInv
<1>0. PICK o : o = task["loop"].o
  OBVIOUS
<1>1. /\ task["loop"].pc = "resolve" /\ At("loop", task["loop"].pc) /\ ComesBack("loop")
      /\ UNCHANGED <<order, venue, quotes, quote, cache, made>>
  BY BackGoes DEF CloseBook, At, venueVars, quoteVars
<1>2. task["loop"].then = "manage" /\ o # 0
  BY <1>0, <1>1 DEF ShapeInv, LoopShape, Phases, Leaving
<1>3. o \in Held /\ Others("loop") /\ ~RunsOn("loop")
  BY <1>0, <1>1, <1>2 DEF Held, HeldOf, ComesBack, GoesTo, RunsOn
<1>4. PICK id \in HistoryIds(o) : MarkClosed(o, id, "exit")
  BY <1>0 DEF CloseBook
<1>5. s = obj[o].sym => venue[s].units = 0
  BY <1>0, <1>1 DEF Epoch, CloseOf, Leaving
<1> QED BY <1>1, <1>3, <1>4, <1>5, MarkedEpoch

LEMMA LoopVanishedEpoch ==
    ASSUME TradeConditions, TradeInv, LoopVanished,
           NEW s \in Symbols, NEW c, NEW m, Epoch(s, c, m)
    PROVE  Epoch(s, c, m)' \/ Lost(s)'
<1> USE TaskNames DEF TradeInv
<1>0. PICK o : o = task["loop"].o
  OBVIOUS
<1>1. /\ task["loop"].pc = "history" /\ At("loop", task["loop"].pc) /\ ComesBack("loop")
      /\ UNCHANGED <<order, venue, quotes, quote, cache, made>>
  BY BackGoes DEF LoopVanished, Vanished, At, venueVars, quoteVars
<1>2. /\ task["loop"].then = "manage" /\ o # 0 /\ task["loop"].snap.ok
      /\ ~Shows(task["loop"].snap, obj[o].sym)
  BY <1>0, <1>1 DEF ShapeInv, LoopShape, Phases
<1>3. o \in Held /\ Others("loop") /\ ~RunsOn("loop")
  BY <1>0, <1>1, <1>2 DEF Held, HeldOf, ComesBack, GoesTo, RunsOn
<1>4. PICK longGone : longGone = (obj[o].pnl \/ o <= task["loop"].snap.upto)
  OBVIOUS
<1>5. \/ UNCHANGED bookVars
      \/ \E id \in HistoryIds(o) : (id = 0 => longGone) /\ MarkClosed(o, id, "exchange_close")
  BY <1>0, <1>4 DEF LoopVanished, Vanished
<1>6. CASE UNCHANGED bookVars
  <2>1. task'["loop"].pc = "manage" /\ task'["loop"].then = "manage"
        /\ task'["loop"].snap = task["loop"].snap
    BY <1>1, <1>2 DEF ComesBack, GoesTo
  <2>2. Passes /\ TodoOf(task["loop"], s, c)'
    BY <1>1, <1>3, <1>6, <2>1 DEF Passes, Looks, BookKept, bookVars, Entering, Asking, Leaving, TodoOf
  <2> QED BY <2>2, PassesEpoch
<1>7. ASSUME NEW id \in HistoryIds(o), id = 0 => longGone, MarkClosed(o, id, "exchange_close")
      PROVE  Epoch(s, c, m)' \/ Lost(s)'
  <2>1. o # 0 /\ positions[obj[o].sym] = o
    BY <1>3, HeldIsManaged
  <2>2. s = obj[o].sym /\ id = 0 => venue[s].units = 0
    BY <1>2, <1>4, <1>7, <2>1 DEF Epoch, AgeOf, Views
  <2> QED BY <1>1, <1>3, <1>7, <2>2, MarkedEpoch
<1> QED BY <1>5, <1>6, <1>7

(***************************************************************************)
(* The venue and the answers of stops: no task moves.                      *)
(***************************************************************************)
LEMMA StillEpoch ==
    ASSUME TradeInv, NEW s \in Symbols, NEW c, NEW m, Epoch(s, c, m),
           UNCHANGED <<task, quotes, quote, cache, made>>, positions'[s] = positions[s],
           m # 0 /\ order'[m].st = "sent" => order[m].st = "sent",
           OrdersOf(s, m)', VenueOf(s, m)', ViewsOf(s, m)', PositionOf(s, m)', AgeOf(s)', FreeOf(s, m)',
           CloseOf(task["loop"], s)', CancelOf(task["loop"], s, c, m)'
    PROVE  Epoch(s, c, m)'
<1> USE TaskNames DEF TradeInv
<1>1. \A k : SymOf(k)' = SymOf(k)
  BY DEF SymOf
<1>2. \A T, pcs : On(T, pcs, s)' <=> On(T', pcs, s)
  BY <1>1 DEF On
<1>3. Latest(s, c, m)' /\ PendingOf(s, c, m)'
  BY <1>1 DEF Epoch, Latest, OrderOf, PendingOf
<1>4. EntryOf(task["sig"], s, c, m)' /\ EntryOf(task["loop"], s, c, m)'
  BY <1>1 DEF Epoch, EntryOf, On
<1>5. Current(s, c)' <=> Current(s, c)
  BY DEF Current
<1>6. CopyOf(s, c, m)'
  BY <1>1, <1>5 DEF Epoch, CopyOf, CancelOf, Over, On
<1> QED BY <1>3, <1>4, <1>6 DEF Epoch

\* An order that is not of s is not m.
LEMMA OrderElse ==
    ASSUME TradeInv, NEW s \in Symbols, NEW c, NEW m, Epoch(s, c, m), m # 0
    PROVE  m \in Orders /\ order[m].sym = s /\ order[m].st # "none"
<1>1. c \in Quotes /\ m = quote[c].ord
  BY BoundsInNat DEF TradeInv, Epoch, Latest, OrderOf, TypeInv, ControlTyped, Quotes
<1>2. SymOf(c) = s
  BY <1>1, BoundsInNat DEF Epoch, Latest, Quotes
<1> QED BY <1>1, <1>2, BoundsInNat DEF TradeInv, ShapeInv, Numbered, TypeInv, QuoteTyped, Quote, Orders

\* Nothing of s moves but the state of its orders and what the venue holds.
LEMMA VenueEpoch ==
    ASSUME TradeInv, NEW s \in Symbols, NEW c, NEW m, Epoch(s, c, m),
           UNCHANGED <<task, quotes, quote, cache, made, positions, obj>>,
           m # 0 /\ order'[m].st = "sent" => order[m].st = "sent",
           OrdersOf(s, m)', Pending(m)' => Pending(m),
           venue'[s] = venue[s] \/ venue'[s].units = 0
    PROVE  Epoch(s, c, m)'
<1> USE DEF TradeInv
<1>1. BookKept(s)
  BY DEF BookKept
<1>2. Free(s)' <=> Free(s)
  BY DEF Free, Busy, RunsOn, SymOf
<1>3. VenueOf(s, m)' /\ ViewsOf(s, m)' /\ PositionOf(s, m)' /\ AgeOf(s)' /\ FreeOf(s, m)'
  BY <1>1, <1>2, SymbolRests
<1>4. CloseOf(task["loop"], s)' /\ CancelOf(task["loop"], s, c, m)'
  BY DEF Epoch, CloseOf, CopyOf, CancelOf, Over, On, SymOf, Views, Shows
<1> QED BY <1>3, <1>4, StillEpoch

LEMMA VenueCloseEpoch ==
    ASSUME TradeConditions, TradeInv, NEW x \in Symbols, VenueClose(x),
           NEW s \in Symbols, NEW c, NEW m, Epoch(s, c, m)
    PROVE  Epoch(s, c, m)'
<1> USE DEF TradeInv
<1>1. UNCHANGED <<task, quotes, quote, cache, made, positions, obj>>
  BY DEF VenueClose, quoteVars, bookVars
<1>2. venue[x].units \in Nat
  BY DEF TypeInv, VenueTyped, Position
<1>3. UNCHANGED order /\ (venue'[s] = venue[s] \/ venue'[s].units = 0)
  BY <1>2, CloseTakes DEF VenueClose, Flat
<1>4. OrdersOf(s, m)' /\ (Pending(m)' <=> Pending(m))
  BY <1>3 DEF Epoch, OrdersOf, Pending, FillOf
<1> QED BY <1>1, <1>3, <1>4, VenueEpoch

LEMMA VenueAcceptEpoch ==
    ASSUME TradeConditions, TradeInv, NEW k \in Orders, VenueAccept(k) \/ VenueExpire(k),
           NEW s \in Symbols, NEW c, NEW m, Epoch(s, c, m)
    PROVE  Epoch(s, c, m)'
<1> USE DEF TradeInv
<1>1. UNCHANGED <<task, quotes, quote, cache, made, positions, obj, venue>>
  BY DEF VenueAccept, VenueExpire, quoteVars, bookVars
<1>2. /\ \A y \in Orders : y # k => order'[y] = order[y]
      /\ order[k].st \in {"sent", "live"} /\ order'[k].st \in {"live", "dead"}
      /\ order'[k].sym = order[k].sym
  BY DEF VenueAccept, VenueExpire, TypeInv, VenueTyped, Order
<1>3. \A y \in Orders : /\ order'[y].sym = order[y].sym
                        /\ Pending(y)' => Pending(y) /\ (order'[y].st = "sent" => order[y].st = "sent")
                        /\ FillOf(y, s)' => FillOf(y, s) /\ order'[y] = order[y]
  BY <1>2 DEF Pending, FillOf
<1>4. m # 0 => m \in Orders
  BY OrderElse
<1>5. OrdersOf(s, m)'
  BY <1>3, <1>4, BoundsInNat DEF Epoch, OrdersOf, FillOf, Orders
<1>6. /\ Pending(m)' => Pending(m)
      /\ m # 0 /\ order'[m].st = "sent" => order[m].st = "sent"
  BY <1>2, <1>3, <1>4 DEF Pending
<1> QED BY <1>1, <1>5, <1>6, VenueEpoch

LEMMA VenueFillEpoch ==
    ASSUME TradeConditions, TradeInv, NEW k \in Orders, VenueFill(k),
           NEW s \in Symbols, NEW c, NEW m, Epoch(s, c, m)
    PROVE  Epoch(s, c, m)'
<1> USE DEF TradeInv
<1>0. PICK x, pid : x = order[k].sym /\ pid = IF venue[x].units = 0 THEN k ELSE venue[x].pid
  OBVIOUS
<1>1. UNCHANGED <<task, quotes, quote, cache, made, positions, obj>>
  BY DEF VenueFill, quoteVars, bookVars
<1>2. /\ x \in Symbols /\ order[k].st = "live"
      /\ \A y \in Orders : y # k => order'[y] = order[y]
      /\ order'[k].st = "filled" /\ order'[k].sym = x /\ order'[k].pid = pid
      /\ \A y \in Symbols : y # x => venue'[y] = venue[y]
      /\ venue'[x] = [pid |-> pid, units |-> venue[x].units + 1]
  BY <1>0 DEF VenueFill, TypeInv, VenueTyped, Order
<1>3. CASE x # s
  <2>1. m # k /\ (m # 0 => m \in Orders /\ order'[m] = order[m])
    <3>1. k # 0
      BY BoundsInNat DEF Orders
    <3> QED BY <1>0, <1>2, <1>3, <3>1, OrderElse
  <2>2. \A y \in Orders : order'[y].sym = s => order'[y] = order[y]
    BY <1>2, <1>3
  <2>3. OrdersOf(s, m)' /\ (Pending(m)' => Pending(m))
    BY <2>1, <2>2, BoundsInNat DEF Epoch, OrdersOf, FillOf, Pending, Orders
  <2> QED BY <1>1, <1>2, <1>3, <2>1, <2>3, VenueEpoch
<1>4. CASE x = s
  <2>1. Pending(k) /\ k = m /\ k # 0 /\ ~FillOf(m, s)
    <3>1. Pending(k)
      BY <1>2 DEF Pending
    <3>2. k = m
      BY <1>0, <1>4, <3>1 DEF Epoch, OrdersOf
    <3>3. k # 0
      BY BoundsInNat DEF Orders
    <3>4. ~FillOf(m, s)
      BY <1>2, <3>2 DEF FillOf
    <3> QED BY <3>1, <3>2, <3>3, <3>4
  <2>2. /\ venue[s].units = 0 /\ positions[s] = 0 /\ \A S \in Views : ~Shows(S, s)
    BY <2>1, NothingYet DEF ShapeInv
  <2>3. pid = m /\ venue'[s] = Unit(m)
    BY <1>0, <1>2, <1>4, <2>1, <2>2 DEF Unit
  <2>4. VenueOf(s, m)' /\ PositionOf(s, m)'
    BY <1>1, <2>2, <2>3 DEF VenueOf, PositionOf
  <2>5. ViewsOf(s, m)' /\ AgeOf(s)'
    BY <1>1, <2>2 DEF ViewsOf, AgeOf, Views, Shows
  <2>6. OrdersOf(s, m)'
    <3>1. \A y \in Orders : Pending(y)' /\ order'[y].sym = s => Pending(y) /\ order[y].sym = s
      BY <1>0, <1>2, <1>4, <2>1 DEF Pending
    <3>2. \A y \in Orders : FillOf(y, s)' => y = k \/ FillOf(y, s)
      BY <1>2 DEF FillOf
    <3>3. m <= m
      BY <2>1, BoundsInNat DEF Orders
    <3> QED BY <1>2, <2>1, <2>3, <3>1, <3>2, <3>3 DEF Epoch, OrdersOf
  <2>7. FreeOf(s, m)'
    <3>1. ~Free(s)
      BY <2>1 DEF Epoch, FreeOf
    <3>2. Free(s)' <=> Free(s)
      BY <1>1 DEF Free, Busy, RunsOn, SymOf
    <3> QED BY <3>1, <3>2 DEF FreeOf
  <2>8. CloseOf(task["loop"], s)'
    <3> SUFFICES ASSUME task["loop"].pc \in Leaving, obj[task["loop"].o].sym = s PROVE FALSE
      BY <1>1 DEF CloseOf
    <3>1. task["loop"].then = "manage" /\ task["loop"].o # 0
      BY DEF ShapeInv, LoopShape, Phases
    <3>2. task["loop"].o \in Held
      BY <3>1 DEF Held, HeldOf
    <3> QED BY <2>2, <3>2, HeldIsManaged
  <2>9. CancelOf(task["loop"], s, c, m)'
    BY <1>1, <2>1 DEF Epoch, CopyOf, CancelOf, On, SymOf
  <2>10. order'[m].st # "sent"
    BY <1>2, <2>1
  <2> QED BY <1>1, <2>4, <2>5, <2>6, <2>7, <2>8, <2>9, <2>10, StillEpoch
<1> QED BY <1>3, <1>4

LEMMA AttachWorks ==
    ASSUME TradeInv, NEW x \in Symbols, NEW pid \in Orders, AttachDone(x, pid)
    PROVE  /\ UNCHANGED <<order, venue, hist, quotes, quote, positions, closedKeys, cache, ctl, task, made>>
           /\ <<x, pid>> \in attach /\ attach' \subseteq attach
           /\ \A y \in Objs : /\ obj'[y].sym = obj[y].sym /\ obj'[y].truth = obj[y].truth
                              /\ obj'[y].qty = obj[y].qty /\ obj'[y].pnl = obj[y].pnl
                              /\ obj'[y].closed = obj[y].closed /\ obj'[y].key = obj[y].key
                              /\ obj'[y].pid # obj[y].pid => y = positions[x] /\ obj'[y].pid = pid
<1> USE DEF TradeInv
<1>1. /\ UNCHANGED <<order, venue, hist, quotes, quote, positions, closedKeys, cache, ctl, task, made>>
      /\ <<x, pid>> \in attach /\ attach' \subseteq attach
  BY DEF AttachDone, venueVars, quoteVars
<1>2. obj \in [Objs -> Object]
  BY DEF TypeInv, BookTyped
<1>3. UNCHANGED obj \/ obj' = [obj EXCEPT ![positions[x]].pid = pid]
  BY DEF AttachDone
<1> QED BY <1>1, <1>2, <1>3 DEF Object

LEMMA AttachDoneEpoch ==
    ASSUME TradeConditions, TradeInv, NEW x \in Symbols, NEW pid \in Orders, AttachDone(x, pid),
           NEW s \in Symbols, NEW c, NEW m, Epoch(s, c, m)
    PROVE  Epoch(s, c, m)'
<1> USE TaskNames DEF TradeInv
<1>1. /\ UNCHANGED <<order, venue, hist, quotes, quote, positions, cache, task, made>>
      /\ \A y \in Objs : /\ obj'[y].sym = obj[y].sym /\ obj'[y].truth = obj[y].truth
                         /\ obj'[y].qty = obj[y].qty /\ obj'[y].pnl = obj[y].pnl
                         /\ obj'[y].closed = obj[y].closed
  BY AttachWorks
<1>2. positions[s] # 0 => positions[s] \in Objs
  BY ManagedMade DEF Managed
<1>3. task["loop"].pc \in Leaving => task["loop"].o \in Objs
  BY DEF TypeInv, TaskTyped, Steady, Leaving
<1>4. OrdersOf(s, m)' /\ VenueOf(s, m)' /\ ViewsOf(s, m)'
  BY <1>1 DEF Epoch, OrdersOf, Pending, FillOf, VenueOf, ViewsOf, Views, Shows
<1>5. PositionOf(s, m)' /\ AgeOf(s)' /\ CloseOf(task["loop"], s)'
  BY <1>1, <1>2, <1>3 DEF Epoch, PositionOf, AgeOf, CloseOf, Views, Shows
<1>6. (Free(s)' <=> Free(s)) /\ (Done(s, m) => Done(s, m)')
  BY <1>1 DEF Free, Busy, RunsOn, SymOf, Done
<1>7. FreeOf(s, m)'
  BY <1>1, <1>6 DEF Epoch, FreeOf, Pending, Views, Shows
<1>8. CancelOf(task["loop"], s, c, m)'
  BY <1>1 DEF Epoch, CopyOf, CancelOf, Over, On, SymOf, Views, Shows, Pending
<1> QED BY <1>1, <1>4, <1>5, <1>7, <1>8, StillEpoch

(***************************************************************************)
(* A new epoch.                                                            *)
(***************************************************************************)
\* A quote n is made for x, which nothing holds.
Decides(x, n) ==
    /\ n \in Quotes /\ n # 0 /\ made'.quotes = n /\ made'.objs = made.objs
    /\ made'.orders = made.orders /\ quote[n] = NoQuote
    /\ quote'[n] = [NoQuote EXCEPT !.sym = x] /\ quote'[n].sym = x
    /\ quote'[n].ord = 0 /\ quote'[n].st = "armed" /\ quote'[n].syn = NoRaw
    /\ \A k \in Quotes : k # n => quote'[k] = quote[k]
    /\ \A t \in Tasks : ~RunsOn(t)
    /\ quotes[x] = 0 /\ positions[x] = 0 /\ CooledDown(x)
    /\ task["sig"].pc = "idle" /\ task'["sig"].pc = "tick" /\ task'["sig"].q = n
    /\ task'["sig"].then = task["sig"].then
    /\ \A t \in Tasks : t # "sig" => task'[t] = task[t]
    /\ UNCHANGED <<order, venue, hist, quotes, cache, ctl>>
    /\ UNCHANGED bookVars /\ UNCHANGED <<positions, obj, attach>>

LEMMA DecideWorks ==
    ASSUME TradeConditions, TradeInv, NEW x \in Symbols, Decide(x), NEW n, n = made.quotes + 1
    PROVE  Decides(x, n)
<1> USE TaskNames DEF TradeInv
<1>1. made.quotes \in Nat /\ made.quotes < MaxQuotes
  BY BoundsInNat DEF Decide, DecideIf, TypeInv, ControlTyped
<1>2. n \in Quotes /\ n # 0 /\ n > made.quotes
  BY <1>1, BoundsInNat DEF Quotes
<1>3. quote[n] = NoQuote
  BY <1>2 DEF ShapeInv, Numbered
<1>4. quote' = [quote EXCEPT ![n].sym = x] /\ quote \in [Quotes -> Quote]
  BY DEF Decide, DecideIf, TypeInv, QuoteTyped
<1>5. /\ quote'[n] = [NoQuote EXCEPT !.sym = x]
      /\ \A k \in Quotes : k # n => quote'[k] = quote[k]
  BY <1>2, <1>3, <1>4
<1>6. /\ quote'[n].sym = x /\ quote'[n].ord = 0 /\ quote'[n].st = "armed"
      /\ quote'[n].syn = NoRaw
  BY <1>5 DEF NoQuote
<1>7. /\ made'.quotes = n /\ made'.objs = made.objs /\ made'.orders = made.orders
  BY DEF Decide, DecideIf, TypeInv, ControlTyped
<1>8. At("sig", "idle") /\ quotes[x] = 0 /\ positions[x] = 0 /\ CooledDown(x)
  BY DEF Decide, DecideIf
<1>9. \A t \in Tasks : ~RunsOn(t)
  BY <1>8 DEF At, RunsOn
<1>10. /\ task'["sig"].pc = "tick" /\ task'["sig"].q = n
       /\ task'["sig"].then = task["sig"].then
       /\ \A t \in Tasks : t # "sig" => task'[t] = task[t]
  BY DEF Decide, DecideIf, TypeInv, TaskTyped, Task
<1>11. /\ UNCHANGED venueVars /\ UNCHANGED <<order, venue, hist, quotes, cache, ctl>>
       /\ UNCHANGED bookVars /\ UNCHANGED <<positions, obj, attach>>
  BY DEF Decide, DecideIf, venueVars, bookVars
<1> QED BY <1>2, <1>3, <1>5, <1>6, <1>7, <1>8, <1>9, <1>10, <1>11 DEF At, Decides

LEMMA DecideElse ==
    ASSUME TradeConditions, TradeInv, NEW x \in Symbols, Decide(x), NEW s \in Symbols, s # x,
           NEW c, NEW m, Epoch(s, c, m)
    PROVE  Epoch(s, c, m)'
<1> USE TaskNames DEF TradeInv
<1>0. PICK n : n = made.quotes + 1
  OBVIOUS
<1>1. /\ n \in Quotes /\ n # 0 /\ made'.quotes = n /\ made'.objs = made.objs
      /\ quote'[n].sym = x
      /\ \A k \in Quotes : k # n => quote'[k] = quote[k]
      /\ \A k : k <= made.quotes => k # n
      /\ \A t \in Tasks : ~RunsOn(t)
      /\ task["sig"].pc = "idle" /\ task'["sig"].pc = "tick" /\ task'["sig"].q = n
      /\ task'["loop"] = task["loop"]
      /\ UNCHANGED <<order, venue, quotes, cache, positions, obj>>
  <2>1. Decides(x, n)
    BY <1>0, DecideWorks
  <2>2. \A k : k <= made.quotes => k # n
    BY <1>0, BoundsInNat DEF TypeInv, ControlTyped
  <2> QED BY <2>1, <2>2 DEF Decides
<1>2. c \in 0..made.quotes /\ made.quotes \in Nat /\ made.quotes <= MaxQuotes
  BY BoundsInNat DEF Epoch, Latest, TypeInv, ControlTyped
<1>3. c # 0 => c \in Quotes /\ c # n /\ quote'[c] = quote[c]
  BY <1>0, <1>1, <1>2, BoundsInNat DEF Quotes
<1>4. Latest(s, c, m)'
  BY <1>0, <1>1, <1>2, <1>3 DEF Epoch, Latest, OrderOf, SymOf
<1>5. OrdersOf(s, m)' /\ VenueOf(s, m)' /\ ViewsOf(s, m)' /\ PositionOf(s, m)' /\ AgeOf(s)'
      /\ CloseOf(task["loop"], s)'
  BY <1>1 DEF Epoch, OrdersOf, Pending, FillOf, VenueOf, ViewsOf, PositionOf, AgeOf, CloseOf,
     Views, Shows
<1>6. PendingOf(s, c, m)'
  BY <1>1, <1>3 DEF Epoch, PendingOf
<1>7. ~On(task["sig"], Entering \cup Asking, s)'
  BY <1>1 DEF On, SymOf
<1>8. \A pcs \in SUBSET (Entering \cup Asking) :
         On(task["loop"], pcs, s)' <=> On(task["loop"], pcs, s)
  <2>1. task["loop"].pc \in Entering \cup Asking => task["loop"].q \in Quotes /\ task["loop"].q # n
    BY <1>1 DEF ShapeInv, QuotesMade, TypeInv, TaskTyped, Steady, Entering, Asking
  <2> QED BY <1>1, <2>1 DEF On, SymOf
<1>9. EntryOf(task["sig"], s, c, m)'
  BY <1>7 DEF EntryOf, On
<1>10. EntryOf(task["loop"], s, c, m)'
  <2> SUFFICES ASSUME On(task["loop"], Entering, s)' PROVE EntryOf(task["loop"], s, c, m)'
    BY DEF EntryOf
  <2>1. On(task["loop"], Entering, s)
    BY <1>8
  <2>2. task["loop"].q = c /\ c \in Quotes /\ EntryOf(task["loop"], s, c, m)
    BY <2>1, EntryHere
  <2>3. c # 0
    BY <2>2, BoundsInNat DEF Quotes
  <2> QED BY <1>1, <1>3, <2>1, <2>2, <2>3 DEF EntryOf
<1>11. Current(s, c) => Current(s, c)'
  BY <1>1 DEF Current
<1>12. CopyOf(s, c, m)'
  <2>1. On(task["loop"], {"submit", "ack", "find", "check"}, s)' => Current(s, c)'
    BY <1>8, <1>11 DEF Epoch, CopyOf, Entering, Asking
  <2>2. On(task["loop"], {"ack"}, s)' => ~On(task["sig"], {"ack"}, s)'
    BY <1>1 DEF On
  <2>3. On(task["loop"], {"check"}, s)' => task'["loop"].q = c /\ quote'[c].st = "acked"
    <3> SUFFICES ASSUME On(task["loop"], {"check"}, s)'
                 PROVE  task'["loop"].q = c /\ quote'[c].st = "acked"
      OBVIOUS
    <3>1. On(task["loop"], {"check"}, s)
      BY <1>8 DEF Entering, Asking
    <3>2. task["loop"].q = c /\ quote[c].st = "acked" /\ task["loop"].pc = "check"
      BY <3>1 DEF Epoch, CopyOf, On
    <3>3. c \in Quotes /\ c # 0
      BY <3>2, BoundsInNat DEF TypeInv, TaskTyped, Steady, Quotes
    <3> QED BY <1>1, <1>3, <3>2, <3>3
  <2>4. On(task["loop"], {"cancel"}, s)' /\ task'["loop"].q = c =>
          m # 0 /\ ~Pending(m)' /\ venue'[s].units = 0 /\ \A S \in Views' : ~Shows(S, s)
    <3>1. On(task["loop"], {"cancel"}, s)' => On(task["loop"], {"cancel"}, s)
      BY <1>8 DEF Entering, Asking
    <3> QED BY <1>1, <3>1 DEF Epoch, CopyOf, Pending, Views, Shows
  <2>5. task'["loop"].then = "quotes" =>
          \A k \in task'["loop"].todo : SymOf(k)' = s =>
              quote'[k].st = "armed" \/ (k = c /\ Current(s, c)')
    <3> SUFFICES ASSUME task["loop"].then = "quotes", NEW k \in task["loop"].todo, SymOf(k)' = s
                 PROVE  quote'[k].st = "armed" \/ (k = c /\ Current(s, c)')
      BY <1>1
    <3>1. k \in Quotes /\ k # n
      BY <1>1 DEF ShapeInv, QuotesMade
    <3>2. quote'[k] = quote[k] /\ SymOf(k) = s
      BY <1>1, <3>1 DEF SymOf
    <3> QED BY <1>11, <3>2 DEF Epoch, CopyOf
  <2> QED BY <2>1, <2>2, <2>3, <2>4, <2>5 DEF CopyOf, Shows
<1>13. FreeOf(s, m)'
  <2>1. Free(s)' => Free(s)
    BY <1>1 DEF Free, Busy
  <2>2. Done(s, m) => Done(s, m)'
    BY <1>1 DEF Done
  <2> QED BY <1>1, <2>1, <2>2 DEF Epoch, FreeOf, Pending, Views, Shows
<1> QED BY <1>4, <1>5, <1>6, <1>9, <1>10, <1>12, <1>13 DEF Epoch

LEMMA NothingShown ==
    ASSUME TradeConditions, TradeInv, NEW s \in Symbols, NEW c, NEW m, Epoch(s, c, m),
           quotes[s] = 0, positions[s] = 0, CooledDown(s), \A t \in Tasks : ~RunsOn(t)
    PROVE  ~Pending(m) /\ venue[s].units = 0 /\ \A S \in Views : ~Shows(S, s)
<1> USE TaskNames DEF TradeInv
<1>1. Free(s)
  BY DEF Free, Busy
<1>2. ~Pending(m) /\ venue[s].units = 0 /\ \A S \in Views : Shows(S, s) => Done(s, m)
  BY <1>1 DEF Epoch, FreeOf
<1>3. ASSUME NEW S \in Views, Shows(S, s) PROVE FALSE
  <2>1. PICK o \in Objs : obj[o].sym = s /\ obj[o].closed /\ obj[o].truth = m
    BY <1>2, <1>3 DEF Done
  <2>2. S.pos[s].units = 0 \/ S.pos[s].pid # m
    BY <2>1 DEF CooledDown, TradeConditions, Views
  <2>3. S.pos[s] = Unit(m)
    BY <1>3 DEF Epoch, ViewsOf
  <2> QED BY <2>2, <2>3 DEF Unit
<1> QED BY <1>2, <1>3

LEMMA DecideHere ==
    ASSUME TradeConditions, TradeInv, NEW s \in Symbols, Decide(s), NEW c, NEW m, Epoch(s, c, m)
    PROVE  \E n : Epoch(s, n, 0)'
<1> USE TaskNames DEF TradeInv
<1>0. PICK n : n = made.quotes + 1
  OBVIOUS
<1>1. Decides(s, n)
  BY <1>0, DecideWorks
<1>2. /\ n \in Quotes /\ n # 0 /\ made'.quotes = n
      /\ quote'[n].sym = s /\ quote'[n].ord = 0 /\ quote'[n].st = "armed" /\ quote'[n].syn = NoRaw
      /\ \A k \in Quotes : k # n => quote'[k] = quote[k]
      /\ task["sig"].pc = "idle" /\ task'["sig"].pc = "tick" /\ task'["sig"].q = n
      /\ task'["loop"] = task["loop"] /\ \A t \in Tasks : ~RunsOn(t)
      /\ UNCHANGED <<order, venue, quotes, cache, positions, obj>>
      /\ quotes[s] = 0 /\ positions[s] = 0
  BY <1>1 DEF Decides
<1>3. ~Pending(m) /\ venue[s].units = 0 /\ \A S \in Views : ~Shows(S, s)
  BY <1>1, NothingShown DEF Decides
<1>4. \A k : k <= made.quotes => k # n
  BY <1>0, BoundsInNat DEF TypeInv, ControlTyped
<1>5. ~Pending(0) /\ ~FillOf(0, s)
  BY BoundsInNat DEF Pending, FillOf, Orders
<1>6. Latest(s, n, 0)'
  BY <1>2, BoundsInNat DEF Latest, OrderOf, SymOf, Quotes
<1>7. OrdersOf(s, 0)' /\ VenueOf(s, 0)' /\ ViewsOf(s, 0)' /\ PositionOf(s, 0)' /\ AgeOf(s)'
  BY <1>2, <1>3, <1>5 DEF Epoch, OrdersOf, Pending, FillOf, VenueOf, ViewsOf, PositionOf, AgeOf,
     Views, Shows
<1>9. PendingOf(s, n, 0)'
  BY <1>2 DEF PendingOf
<1>10. EntryOf(task["sig"], s, n, 0)'
  BY <1>2 DEF EntryOf
<1>11. ~Current(s, c) \/ c = 0
  BY <1>2 DEF Current
<1>12. ~On(task["loop"], Entering \cup {"check"}, s)
  <2>1. ~On(task["loop"], Entering, s)
    <3> SUFFICES ASSUME On(task["loop"], Entering, s) PROVE FALSE
      OBVIOUS
    <3>1. c # 0 /\ task["loop"].pc \notin {"tick", "submit", "open"}
      BY <1>2, EntryHere DEF RunsOn, TradeConditions
    <3>2. On(task["loop"], {"submit", "ack", "find", "check"}, s)
      BY <3>1 DEF On, Entering
    <3> QED BY <1>11, <3>1, <3>2 DEF Epoch, CopyOf
  <2>2. ~On(task["loop"], {"check"}, s)
    <3> SUFFICES ASSUME On(task["loop"], {"check"}, s) PROVE FALSE
      OBVIOUS
    <3>1. task["loop"].q = c /\ Current(s, c) /\ task["loop"].pc = "check"
      BY DEF Epoch, CopyOf, On
    <3>2. c # 0
      BY <3>1, BoundsInNat DEF TypeInv, TaskTyped, Steady, Quotes
    <3> QED BY <1>11, <3>1, <3>2
  <2> QED BY <2>1, <2>2 DEF On
<1>13. task["loop"].pc \in Entering \cup Asking => task["loop"].q \in Quotes /\ task["loop"].q # n
  BY <1>4 DEF ShapeInv, QuotesMade, TypeInv, TaskTyped, Steady, Entering, Asking
<1>14. ~On(task["loop"], Entering \cup {"check"}, s)'
  BY <1>2, <1>12, <1>13 DEF On, SymOf, Asking
<1>15. EntryOf(task["loop"], s, n, 0)'
  BY <1>14 DEF EntryOf, On
<1>16. CopyOf(s, n, 0)'
  <2>1. ~On(task["loop"], {"submit", "ack", "find", "check"}, s)' /\ ~On(task["loop"], {"ack"}, s)'
        /\ ~On(task["loop"], {"check"}, s)'
    BY <1>14 DEF On, Entering
  <2>2. ~(On(task["loop"], {"cancel"}, s)' /\ task'["loop"].q = n)
    BY <1>2, <1>13 DEF On, Asking
  <2>3. ASSUME task["loop"].then = "quotes", NEW k \in task["loop"].todo, SymOf(k)' = s
        PROVE  quote'[k].st = "armed"
    <3>1. k \in Quotes /\ k # n /\ k # 0
      BY <1>4, <2>3, BoundsInNat DEF ShapeInv, QuotesMade, Quotes
    <3>2. quote'[k] = quote[k] /\ SymOf(k) = s
      BY <1>2, <2>3, <3>1 DEF SymOf
    <3> QED BY <1>11, <2>3, <3>1, <3>2 DEF Epoch, CopyOf
  <2> QED BY <1>2, <2>1, <2>2, <2>3 DEF CopyOf
<1>17. CloseOf(task["loop"], s)'
  <2> SUFFICES ASSUME task["loop"].pc \in Leaving, obj[task["loop"].o].sym = s PROVE FALSE
    BY <1>2 DEF CloseOf
  <2>1. task["loop"].then = "manage" /\ task["loop"].o # 0
    BY DEF ShapeInv, LoopShape, Phases
  <2>2. task["loop"].o \in Held
    BY <2>1 DEF Held, HeldOf
  <2> QED BY <1>2, <2>2, HeldIsManaged
<1>18. FreeOf(s, 0)'
  BY <1>2, <1>3, <1>5 DEF FreeOf, Pending, Views, Shows
<1> QED BY <1>6, <1>7, <1>9, <1>10, <1>15, <1>16, <1>17, <1>18 DEF Epoch

(***************************************************************************)
(* Every step keeps an epoch, or starts one, or ends the account.          *)
(***************************************************************************)
\* What does not happen under the conditions.
LEMMA NeverSteps ==
    ASSUME TradeConditions, TradeInv
    PROVE  /\ ~AckMaker /\ ~Closing("sig") /\ ~LoopExit /\ ~LoopAdoptFails
           /\ ~Flattening("loop") /\ ~Flattening("op") /\ ~OpKillAll /\ ~OpRunStop /\ ~OpRun
<1> USE TaskNames DEF TradeInv
<1>1. ~AckMaker
  BY DEF AckMaker, TradeConditions
<1>2. ~Closing("sig")
  BY DEF OnlyLoop, Leaving, Closing, CloseSend, CloseReply, CloseBook, At
<1>3. ~LoopExit
  BY DEF OnlyLoop, LoopExit
<1>4. ~LoopAdoptFails
  BY DEF LoopAdoptFails, Fault, TradeConditions
<1>5. \A t \in {"loop", "op"} : task[t].pc \notin FlattenOrLock
  BY DEF OnlyLoop, Hands
<1>6. \A t \in {"loop", "op"} : ~Flattening(t)
  BY <1>5 DEF Flattening, FlattenLock, FlattenSnapshot, FlattenCheck, FlattenAgain, FlattenDone,
     FlattenEnds, FlattenCancel, FlattenClose, FlattenBook, At, FlattenOrLock, FlattenPcs
<1>7. ~OpKillAll /\ ~OpRunStop /\ ~OpRun
  BY DEF OpKillAll, OpRunStop, OpRun, Request, TradeConditions
<1> QED BY <1>1, <1>2, <1>3, <1>4, <1>6, <1>7

\* What the tasks and the environment do.
EntryStep(t) == SubmitRefused(t) \/ NotAcked(t) \/ Send(t) \/ AckTaker(t) \/ Find(t) \/ OpenDone(t)
QuotesStep   == \/ \E n \in Quotes : LoopQuoteUnsent(n) \/ LoopQuoteAsk(n)
                \/ LoopQuoteFilled \/ LoopQuoteUnfilled \/ LoopCancel
TickStep     == LoopPassing \/ LoopQuotes \/ LoopAdopt \/ \E s \in Symbols : LoopRecover(s)
ManageStep   == \E o \in Objs : LoopHold(o) \/ LoopMove(o) \/ LoopRule(o)
LeaveStep    == CloseSend("loop") \/ CloseReply("loop") \/ CloseBook("loop") \/ LoopVanished
TradeStep ==
    \/ (\E s \in Symbols : Decide(s)) \/ ArmTaker
    \/ (\E t \in {"sig", "loop"} : EntryStep(t))
    \/ QuotesStep \/ TickStep \/ ManageStep \/ LeaveStep \/ Environment

LEMMA TradeSteps ==
    ASSUME TradeConditions, TradeInv, Next PROVE TradeStep
<1> USE NeverSteps
<1>1. CASE SigStep
  BY <1>1 DEF SigStep, SigWork, Submitting, Opening, TradeStep, EntryStep
<1>2. CASE LoopStep
  <2>1. CASE LoopStart \/ LoopTick \/ LoopQuotes \/ LoopSnapshot \/ LoopAdopt \/ LoopRecovered
             \/ LoopTrail \/ LoopKillCheck \/ (\E o \in Objs : LoopMissing(o))
             \/ \E s \in Symbols : LoopRecover(s)
    BY <2>1 DEF TradeStep, TickStep, LoopPassing
  <2>2. CASE (\E n \in Quotes : LoopQuoteUnsent(n) \/ LoopQuoteAsk(n))
             \/ LoopQuoteFilled \/ LoopQuoteUnfilled \/ LoopCancel
    BY <2>2 DEF TradeStep, QuotesStep
  <2>3. CASE Submitting("loop") \/ Opening("loop")
    BY <2>3 DEF TradeStep, EntryStep, Submitting, Opening
  <2>4. CASE Closing("loop") \/ LoopVanished
    BY <2>4 DEF TradeStep, LeaveStep, Closing
  <2>5. CASE \E o \in Objs : LoopHold(o) \/ LoopMove(o) \/ LoopRule(o)
    BY <2>5 DEF TradeStep, ManageStep
  <2> QED BY <1>2, <2>1, <2>2, <2>3, <2>4, <2>5 DEF LoopStep
<1>3. CASE OpStep
  BY <1>3 DEF OpStep
<1>4. CASE Environment
  BY <1>4 DEF TradeStep
<1> QED BY <1>1, <1>2, <1>3, <1>4 DEF Next

LEMMA EntryStepEpoch ==
    ASSUME TradeConditions, TradeInv, NEW t \in {"sig", "loop"}, EntryStep(t),
           NEW s \in Symbols, NEW c, NEW m, Epoch(s, c, m)
    PROVE  Accounted(s)'
<1>1. CASE Send(t)
  BY <1>1, SendEpoch DEF Accounted
<1>2. CASE ~Send(t)
  BY <1>2, RefusedEpoch, NotAckedEpoch, AckTakerEpoch, FindEpoch, OpenDoneEpoch
     DEF EntryStep, Accounted
<1> QED BY <1>1, <1>2

LEMMA LoopStepEpoch ==
    ASSUME TradeConditions, TradeInv, QuotesStep \/ TickStep \/ ManageStep \/ LeaveStep,
           NEW s \in Symbols, NEW c, NEW m, Epoch(s, c, m)
    PROVE  Accounted(s)'
<1>1. CASE QuotesStep
  BY <1>1, LoopQuoteUnsentEpoch, LoopQuoteAskEpoch, LoopQuoteFilledEpoch, LoopQuoteUnfilledEpoch,
     LoopCancelEpoch DEF QuotesStep, Accounted
<1>2. CASE TickStep
  BY <1>2, LoopPassingEpoch, LoopQuotesEpoch, LoopAdoptEpoch, LoopRecoverEpoch
     DEF TickStep, Accounted
<1>3. CASE ManageStep
  BY <1>3, ManageEpoch DEF ManageStep, Accounted
<1>4. CASE LeaveStep
  BY <1>4, ClosingEpoch, CloseBookEpoch, LoopVanishedEpoch DEF LeaveStep, Accounted
<1> QED BY <1>1, <1>2, <1>3, <1>4

LEMMA EnvironmentEpoch ==
    ASSUME TradeConditions, TradeInv, Environment,
           NEW s \in Symbols, NEW c, NEW m, Epoch(s, c, m)
    PROVE  Accounted(s)'
BY VenueAcceptEpoch, VenueFillEpoch, VenueCloseEpoch, AttachDoneEpoch DEF Environment, Accounted

LEMMA EpochNext ==
    ASSUME TradeConditions, TradeInv, Next, NEW s \in Symbols, NEW c, NEW m, Epoch(s, c, m)
    PROVE  Accounted(s)'
<1>1. ASSUME NEW x \in Symbols, Decide(x) PROVE Accounted(s)'
  <2>1. CASE x = s
    BY <1>1, <2>1, DecideHere DEF Accounted
  <2>2. CASE x # s
    BY <1>1, <2>2, DecideElse DEF Accounted
  <2> QED BY <2>1, <2>2
<1>2. CASE ArmTaker
  BY <1>2, ArmTakerEpoch DEF Accounted
<1> QED BY <1>1, <1>2, EntryStepEpoch, LoopStepEpoch, EnvironmentEpoch, TradeSteps DEF TradeStep

(***************************************************************************)
(* The shape is kept: first by the steps that handle a quote n.            *)
(***************************************************************************)
\* The caller of a task at a quote.
Caller(t) == IF t = "loop" THEN "quotes" ELSE "idle"

Handles(t, n) ==
    /\ n \in Quotes /\ n <= made.quotes /\ Works(t, n) /\ Looks
    /\ quotes'[SymOf(n)] \in {0, quotes[SymOf(n)], n}
    /\ task[t].then = Caller(t) /\ task'[t].q \in {0, n, task[t].q}
    /\ task'[t].pc \in {Caller(t)} \cup (Entering \ {"tick"}) \cup Asking
    /\ task'[t].pc \in Asking => t = "loop"
    /\ t = "loop" /\ task'[t].pc \in Entering \cup Asking => n \notin task'[t].todo
    /\ \/ quote'[n].ord = quote[n].ord
       \/ order'[quote'[n].ord].sym = SymOf(n) /\ order'[quote'[n].ord].st = "sent"
    /\ \/ quote'[n].syn \in {NoRaw, quote[n].syn}
       \/ FillOf(quote'[n].syn.pid, SymOf(n)) /\ FillOf(quote'[n].syn.truth, SymOf(n))
    /\ task'[t].pc = "open" =>
         /\ positions'[SymOf(n)] = 0
         /\ FillOf(task'[t].raw.pid, SymOf(n)) /\ FillOf(task'[t].raw.truth, SymOf(n))

LEMMA CallerIs ==
    ASSUME TradeInv, NEW t \in {"sig", "loop"}, task[t].pc \in Entering \cup Asking
    PROVE  /\ task[t].then = Caller(t) /\ task[t].q \in Quotes /\ task[t].q <= made.quotes
           /\ t = "loop" => task[t].q \notin task[t].todo
<1> USE TaskNames DEF TradeInv
<1>1. task[t].q \in Quotes
  BY DEF TypeInv, TaskTyped, Steady, Entering, Asking
<1>2. task[t].q <= made.quotes
  BY DEF ShapeInv, QuotesMade
<1>3. task[t].then = Caller(t) /\ (t = "loop" => task[t].q \notin task[t].todo)
  BY DEF ShapeInv, LoopShape, Phases, Caller
<1> QED BY <1>1, <1>2, <1>3

LEMMA OpenFromQuote ==
    ASSUME TypeInv, NEW t \in Tasks, NEW n, NEW row, NEW q, OpenFrom(t, n, row, q)
    PROVE  task'[t].q \in {0, n}
<1> DEFINE T == [task[t] EXCEPT !.pc = "open", !.q = n, !.raw = row]
           R == Return(task[t])
<1>1. task' = [task EXCEPT ![t] = R] \/ task' = [task EXCEPT ![t] = T]
  BY DEF OpenFrom
<1>2. task[t] \in Task
  BY DEF TypeInv, TaskTyped
<1>3. T.q = n /\ R.q = 0
  BY <1>2 DEF Task, Return
<1> HIDE DEF T, R
<1> QED BY <1>1, <1>3 DEF TypeInv, TaskTyped

LEMMA DropHandles ==
    ASSUME TradeConditions, TradeInv, NEW t \in {"sig", "loop"}, SubmitRefused(t) \/ NotAcked(t),
           NEW n, n = task[t].q
    PROVE  Handles(t, n)
<1> USE TaskNames DEF TradeInv
<1>1. /\ task[t].pc \in {"submit", "ack"} /\ At(t, task[t].pc) /\ Drop(t, n)
      /\ made'.quotes = made.quotes
  BY DEF SubmitRefused, NotAcked, At, TradeConditions
<1>2. /\ task[t].then = Caller(t) /\ n \in Quotes /\ n <= made.quotes
      /\ Works(t, n) /\ ComesBack(t)
  BY <1>1, CallerIs, DropWorks, BackGoes DEF ShapeInv, Entering, Drop
<1>3. Looks
  <2>1. UNCHANGED <<venue, cache>>
    BY DEF SubmitRefused, NotAcked, venueVars
  <2>2. task'["loop"].snap = task["loop"].snap
    BY <1>2 DEF Works, Others
  <2> QED BY <2>1, <2>2 DEF Looks
<1>4. quotes'[SymOf(n)] = 0 /\ quote'[n].ord = quote[n].ord /\ quote'[n].syn = quote[n].syn
  BY <1>1, <1>2 DEF Drop, TypeInv, QuoteTyped, Quote, SymOf
<1>5. task'[t].pc = Caller(t) /\ task'[t].q = 0
  BY <1>2 DEF ComesBack, GoesTo
<1> QED BY <1>2, <1>3, <1>4, <1>5 DEF Handles, Caller, Entering, Asking

LEMMA SendHandles ==
    ASSUME TradeConditions, TradeInv, NEW t \in {"sig", "loop"}, Send(t), NEW n, n = task[t].q
    PROVE  Handles(t, n)
<1> USE TaskNames DEF TradeInv
<1>1. /\ task[t].pc = "submit" /\ n \in Quotes /\ Works(t, n) /\ task'[t].pc = "ack"
      /\ task'[t].q = n /\ task'[t].todo = task[t].todo
      /\ made.orders + 1 \in Orders /\ order[made.orders + 1].st = "none"
      /\ order'[made.orders + 1] = [sym |-> SymOf(n), st |-> "sent", pid |-> 0]
      /\ quote'[n].syn = quote[n].syn /\ quote'[n].ord = made.orders + 1 /\ Looks
  BY SendWorks
<1>2. /\ task[t].then = Caller(t) /\ n <= made.quotes /\ (t = "loop" => n \notin task[t].todo)
  BY <1>1, CallerIs DEF Entering
<1>3. quotes' = quotes
  BY DEF Send
<1> QED BY <1>1, <1>2, <1>3 DEF Handles, Entering, Asking

LEMMA AckTakerHandles ==
    ASSUME TradeConditions, TradeInv, NEW t \in {"sig", "loop"}, AckTaker(t), NEW n, n = task[t].q
    PROVE  Handles(t, n)
<1> USE TaskNames DEF TradeInv
<1>0. PICK m, s, had : m = quote[n].ord /\ s = SymOf(n) /\ had = (positions[s] # 0)
  OBVIOUS
<1>1. /\ task[t].pc = "ack" /\ n \in Quotes /\ s \in Symbols /\ Works(t, n)
      /\ UNCHANGED order /\ Looks /\ quote'[n].ord = m /\ task'[t].todo = task[t].todo
      /\ \/ /\ FillOf(m, s) /\ quotes'[s] = 0 /\ quote'[n].syn = Row(order[m].pid)
            /\ task'[t].pc = IF had THEN task[t].then ELSE "open"
            /\ ~had => task'[t].raw = Row(order[m].pid) /\ task'[t].q = n
         \/ quotes' = quotes /\ quote'[n].syn = NoRaw /\ task'[t].pc = "find"
  BY <1>0, AckTakerWorks
<1>2. /\ task[t].then = Caller(t) /\ n <= made.quotes /\ (t = "loop" => n \notin task[t].todo)
  BY <1>1, CallerIs DEF Entering
<1>3. task'[t].q \in {0, n, task[t].q}
  <2>1. (\E row, q : OpenFrom(t, n, row, q)) \/ Goto(t, "find")
    BY DEF AckTaker
  <2>2. Goto(t, "find") => task'[t].q = n
    BY <1>0, GotoGoes DEF AckTaker, GoesTo
  <2> QED BY <2>1, <2>2, OpenFromQuote
<1>4. UNCHANGED positions
  BY DEF AckTaker, bookVars
<1>5. FillOf(m, s) => FillOf(order[m].pid, s) /\ Row(order[m].pid).pid = order[m].pid
                      /\ Row(order[m].pid).truth = order[m].pid
  BY DEF ShapeInv, FillsShown, FillOf, Row
<1>6. \/ quote'[n].syn = NoRaw
      \/ FillOf(quote'[n].syn.pid, SymOf(n)) /\ FillOf(quote'[n].syn.truth, SymOf(n))
  BY <1>0, <1>1, <1>5
<1>7. task'[t].pc = "open" =>
         /\ positions'[SymOf(n)] = 0
         /\ FillOf(task'[t].raw.pid, SymOf(n)) /\ FillOf(task'[t].raw.truth, SymOf(n))
  BY <1>0, <1>1, <1>2, <1>4, <1>5 DEF Caller
<1>8. task'[t].pc \in {Caller(t), "find", "open"} /\ quotes'[SymOf(n)] \in {0, quotes[SymOf(n)]}
  BY <1>0, <1>1, <1>2
<1> QED BY <1>0, <1>1, <1>2, <1>3, <1>6, <1>7, <1>8 DEF Handles, Entering, Asking, Caller

LEMMA FindHandles ==
    ASSUME TradeConditions, TradeInv, NEW t \in {"sig", "loop"}, Find(t), NEW n, n = task[t].q
    PROVE  Handles(t, n)
<1> USE TaskNames DEF TradeInv
<1>0. PICK s, had : s = SymOf(n) /\ had = (positions[s] # 0)
  OBVIOUS
<1>1. /\ task[t].pc = "find" /\ n \in Quotes /\ s \in Symbols /\ Works(t, n)
      /\ UNCHANGED order /\ Looks /\ SameQuote(n) /\ task'[t].todo = task[t].todo
      /\ \/ \E snap : /\ snap.pos[s].units > 0 /\ quotes'[s] = 0
                      /\ FillOf(snap.pos[s].pid, s)
                      /\ task'[t].pc = IF had THEN task[t].then ELSE "open"
                      /\ ~had => task'[t].raw = RowOf(snap.pos[s]) /\ task'[t].q = n
         \/ quotes' = quotes /\ ComesBack(t)
  BY <1>0, FindWorks
<1>2. /\ task[t].then = Caller(t) /\ n <= made.quotes /\ (t = "loop" => n \notin task[t].todo)
  BY <1>1, CallerIs DEF Entering
<1>3. task'[t].q \in {0, n, task[t].q}
  <2>1. (\E row, q : OpenFrom(t, n, row, q)) \/ Back(t)
    BY DEF Find
  <2>2. Back(t) => task'[t].q = 0
    BY BackGoes DEF Find, ComesBack, GoesTo
  <2> QED BY <2>1, <2>2, OpenFromQuote
<1>4. UNCHANGED positions
  BY DEF Find, bookVars
<1>5. task'[t].pc \in {Caller(t), "open"} /\ quotes'[SymOf(n)] \in {0, quotes[SymOf(n)]}
  BY <1>0, <1>1, <1>2 DEF ComesBack, GoesTo
<1>6. task'[t].pc = "open" =>
         /\ positions'[SymOf(n)] = 0
         /\ FillOf(task'[t].raw.pid, SymOf(n)) /\ FillOf(task'[t].raw.truth, SymOf(n))
  <2> SUFFICES ASSUME task'[t].pc = "open"
               PROVE  /\ positions'[s] = 0
                      /\ FillOf(task'[t].raw.pid, s) /\ FillOf(task'[t].raw.truth, s)
    BY <1>0
  <2>1. ~ComesBack(t)
    BY <1>2 DEF ComesBack, GoesTo, Caller
  <2>2. PICK snap : /\ FillOf(snap.pos[s].pid, s)
                    /\ task'[t].pc = IF had THEN task[t].then ELSE "open"
                    /\ ~had => task'[t].raw = RowOf(snap.pos[s]) /\ task'[t].q = n
    BY <1>1, <2>1
  <2>3. ~had
    BY <1>2, <2>2 DEF Caller
  <2>4. RowOf(snap.pos[s]).pid = snap.pos[s].pid /\ RowOf(snap.pos[s]).truth = snap.pos[s].pid
    BY DEF RowOf
  <2> QED BY <1>0, <1>4, <2>2, <2>3, <2>4
<1> QED BY <1>0, <1>1, <1>2, <1>3, <1>5, <1>6 DEF Handles, Entering, Asking, Caller, SameQuote

LEMMA OpenDoneHandles ==
    ASSUME TradeConditions, TradeInv, NEW t \in {"sig", "loop"}, OpenDone(t), NEW n, n = task[t].q
    PROVE  Handles(t, n)
<1> USE TaskNames DEF TradeInv
<1>0. PICK s, o : s = SymOf(n) /\ o = made.objs + 1
  OBVIOUS
<1>1. /\ task[t].pc = "open" /\ n \in Quotes /\ Works(t, n) /\ ComesBack(t)
      /\ UNCHANGED <<order, quotes>> /\ SameQuote(n) /\ Looks
  BY <1>0, OpenDoneWorks
<1>2. /\ task[t].then = Caller(t) /\ n <= made.quotes /\ (t = "loop" => n \notin task[t].todo)
  BY <1>1, CallerIs DEF Entering
<1>3. task'[t].pc = Caller(t) /\ task'[t].q = 0
  BY <1>1, <1>2 DEF ComesBack, GoesTo
<1> QED BY <1>1, <1>2, <1>3 DEF Handles, Entering, Asking, Caller, SameQuote

LEMMA SubmitQuote ==
    ASSUME TypeInv, NEW t \in Tasks, NEW n, NEW armed, NEW T \in Task, SubmitHead(t, n, armed, T)
    PROVE  task'[t].q \in {0, n}
<1> DEFINE S == [T EXCEPT !.pc = "submit", !.q = n]
           R == Return(T)
<1>1. task' = [task EXCEPT ![t] = R] \/ task' = [task EXCEPT ![t] = S]
  BY DEF SubmitHead, SubmitIf
<1>2. R.q = 0 /\ S.q = n
  BY DEF Return, Task
<1> HIDE DEF R, S
<1> QED BY <1>1, <1>2 DEF TypeInv, TaskTyped

LEMMA ArmTakerHandles ==
    ASSUME TradeConditions, TradeInv, ArmTaker, NEW n, n = task["sig"].q
    PROVE  Handles("sig", n)
<1> USE TaskNames DEF TradeInv
<1>0. PICK s : s = SymOf(n)
  OBVIOUS
<1>1. /\ task["sig"].pc = "tick" /\ n \in Quotes /\ Works("sig", n) /\ Looks
      /\ quote'[n].ord = quote[n].ord /\ quote'[n].syn = quote[n].syn /\ quotes'[s] \in {0, n}
      /\ task'["sig"].pc \in {task["sig"].then, "submit"}
  BY <1>0, ArmTakerWorks
<1>2. task["sig"].then = Caller("sig") /\ n <= made.quotes
  BY <1>1, CallerIs DEF Entering
<1>3. task'["sig"].q \in {0, n}
  BY SubmitQuote DEF ArmTaker, TypeInv, TaskTyped
<1> QED BY <1>0, <1>1, <1>2, <1>3 DEF Handles, Entering, Asking, Caller

LEMMA QuotesCaller ==
    ASSUME TradeInv, task["loop"].pc = "quotes", NEW n \in task["loop"].todo
    PROVE  /\ task["loop"].then = Caller("loop") /\ n \in Quotes /\ n <= made.quotes
<1>1. task["loop"].then = "quotes"
  BY DEF TradeInv, ShapeInv, LoopShape, Phases
<1> QED BY <1>1 DEF TradeInv, ShapeInv, QuotesMade, Caller

LEMMA UnsentHandles ==
    ASSUME TradeConditions, TradeInv, NEW n \in Quotes, LoopQuoteUnsent(n)
    PROVE  Handles("loop", n)
<1> USE TaskNames DEF TradeInv
<1>0. PICK s : s = SymOf(n)
  OBVIOUS
<1>1. /\ task["loop"].pc = "quotes" /\ n \in task["loop"].todo /\ Works("loop", n)
      /\ task'["loop"].todo = task["loop"].todo \ {n} /\ Looks
      /\ quote'[n].ord = quote[n].ord /\ quote'[n].syn = quote[n].syn
      /\ quotes'[s] \in {0, quotes[s]} /\ task'["loop"].pc \in {"quotes", "submit"}
  BY <1>0, LoopQuoteUnsentWorks
<1>2. /\ task["loop"].then = Caller("loop") /\ n <= made.quotes
  BY <1>1, QuotesCaller
<1>3. PICK T : T = [task["loop"] EXCEPT !.todo = task["loop"].todo \ {n}]
  OBVIOUS
<1>4. T \in Task /\ T.q = task["loop"].q
  BY <1>3 DEF TypeInv, TaskTyped, Task
<1>5. SubmitHead("loop", n, quotes, T) \/ task' = [task EXCEPT !["loop"] = T]
  BY <1>3 DEF LoopQuoteUnsent
<1>6. task'["loop"].q \in {0, n, task["loop"].q}
  BY <1>4, <1>5, SubmitQuote DEF TypeInv, TaskTyped
<1> QED BY <1>0, <1>1, <1>2, <1>6 DEF Handles, Entering, Asking, Caller

LEMMA AskHandles ==
    ASSUME TradeConditions, TradeInv, NEW n \in Quotes, LoopQuoteAsk(n)
    PROVE  Handles("loop", n)
<1> USE TaskNames DEF TradeInv
<1>1. /\ task["loop"].pc = "quotes" /\ At("loop", task["loop"].pc) /\ n \in task["loop"].todo
      /\ UNCHANGED <<order, venue, quotes, quote, bookVars, cache, made>>
  BY DEF LoopQuoteAsk, At, venueVars, quoteVars
<1>2. task["loop"].then = Caller("loop") /\ n <= made.quotes /\ task["loop"] \in Task
  BY <1>1, QuotesCaller DEF TypeInv, TaskTyped
<1> DEFINE U == [task["loop"] EXCEPT !.todo = task["loop"].todo \ {n}, !.pc = "check", !.q = n]
<1>3. /\ U.pc = "check" /\ U.q = n /\ U.then = task["loop"].then /\ U.snap = task["loop"].snap
      /\ U.todo = task["loop"].todo \ {n}
  BY <1>2 DEF Task
<1>4. task' = [task EXCEPT !["loop"] = U]
  BY DEF LoopQuoteAsk
<1> HIDE DEF U
<1>5. task'["loop"] = U /\ Others("loop")
  BY <1>1, <1>4 DEF TypeInv, TaskTyped, Others, At
<1>6. Works("loop", n) /\ Looks
  BY <1>1, <1>3, <1>5 DEF Works, Entering, Asking, Leaving, Looks
<1> QED BY <1>1, <1>2, <1>3, <1>5, <1>6 DEF Handles, Entering, Asking, Caller

LEMMA FilledHandles ==
    ASSUME TradeConditions, TradeInv, LoopQuoteFilled, NEW n, n = task["loop"].q
    PROVE  Handles("loop", n)
<1> USE TaskNames DEF TradeInv
<1>0. PICK s, had : s = SymOf(n) /\ had = (positions[s] # 0)
  OBVIOUS
<1>1. /\ task["loop"].pc = "check" /\ n \in Quotes /\ s \in Symbols /\ Works("loop", n)
      /\ Looks /\ SameQuote(n) /\ task'["loop"].todo = task["loop"].todo
      /\ \/ quotes' = quotes /\ task'["loop"].pc \in {task["loop"].then, "find"}
         \/ /\ quote[n].syn # NoRaw /\ quotes'[s] = 0
            /\ task'["loop"].pc = IF had THEN task["loop"].then ELSE "open"
            /\ ~had => task'["loop"].raw = quote[n].syn /\ task'["loop"].q = n
  BY <1>0, LoopQuoteFilledWorks
<1>2. task["loop"].then = Caller("loop") /\ n <= made.quotes /\ n \notin task["loop"].todo
  BY <1>1, CallerIs DEF Asking
<1>3. task'["loop"].q \in {0, n}
  <2>1. (\E row, q : OpenFrom("loop", n, row, q)) \/ Goto("loop", "find") \/ Back("loop")
    BY <1>0 DEF LoopQuoteFilled
  <2>2. Goto("loop", "find") => task'["loop"].q = n
    BY GotoGoes DEF LoopQuoteFilled, GoesTo
  <2>3. Back("loop") => task'["loop"].q = 0
    BY BackGoes DEF LoopQuoteFilled, ComesBack, GoesTo
  <2> QED BY <2>1, <2>2, <2>3, OpenFromQuote
<1>4. UNCHANGED positions
  BY DEF LoopQuoteFilled, bookVars
<1>5. quote[n].syn # NoRaw => FillOf(quote[n].syn.pid, s) /\ FillOf(quote[n].syn.truth, s)
  BY <1>0, <1>1 DEF ShapeInv, FillsHeld
<1>6. task'["loop"].pc = "open" =>
         /\ positions'[SymOf(n)] = 0
         /\ FillOf(task'["loop"].raw.pid, SymOf(n)) /\ FillOf(task'["loop"].raw.truth, SymOf(n))
  BY <1>0, <1>1, <1>2, <1>4, <1>5 DEF Caller
<1>7. task'["loop"].pc \in {Caller("loop"), "find", "open"}
      /\ quotes'[SymOf(n)] \in {0, quotes[SymOf(n)]}
  BY <1>0, <1>1, <1>2
<1> QED BY <1>1, <1>2, <1>3, <1>6, <1>7 DEF Handles, Entering, Asking, Caller, SameQuote

LEMMA UnfilledHandles ==
    ASSUME TradeConditions, TradeInv, LoopQuoteUnfilled \/ LoopCancel, NEW n, n = task["loop"].q
    PROVE  Handles("loop", n)
<1> USE TaskNames DEF TradeInv
<1>0. PICK s : s = SymOf(n)
  OBVIOUS
<1>1. /\ task["loop"].pc \in Asking /\ n \in Quotes /\ s \in Symbols /\ Works("loop", n)
      /\ Looks /\ SameQuote(n) /\ quotes'[s] \in {0, quotes[s]}
      /\ task'["loop"].pc \in {"quotes", "cancel"} /\ task'["loop"].todo = task["loop"].todo
  <2>1. CASE LoopQuoteUnfilled
    BY <1>0, <2>1, LoopQuoteUnfilledWorks DEF Asking, SameQuotes
  <2>2. CASE LoopCancel
    BY <1>0, <2>2, LoopCancelWorks DEF Asking, SameQuotes, ComesBack, GoesTo
  <2> QED BY <2>1, <2>2
<1>2. task["loop"].then = Caller("loop") /\ n <= made.quotes /\ n \notin task["loop"].todo
  BY <1>1, CallerIs
<1>3. task'["loop"].q \in {0, n}
  <2>1. (Goto("loop", "cancel") \/ Back("loop")) /\ \E pc : At("loop", pc)
    BY DEF LoopQuoteUnfilled, LoopCancel
  <2>2. Goto("loop", "cancel") => task'["loop"].q = n
    BY <2>1, GotoGoes DEF GoesTo
  <2>3. Back("loop") => task'["loop"].q = 0
    BY <2>1, BackGoes DEF ComesBack, GoesTo
  <2> QED BY <2>1, <2>2, <2>3
<1> QED BY <1>0, <1>1, <1>2, <1>3 DEF Handles, Entering, Asking, Caller, SameQuote

\* A step that handles a quote.
HandleStep(t) == \/ EntryStep(t) \/ (t = "sig" /\ ArmTaker) \/ (t = "loop" /\ QuotesStep)

LEMMA HandleSteps ==
    ASSUME TradeConditions, TradeInv, NEW t \in {"sig", "loop"}, HandleStep(t)
    PROVE  \E n : Handles(t, n)
<1>1. CASE EntryStep(t)
  BY <1>1, DropHandles, SendHandles, AckTakerHandles, FindHandles, OpenDoneHandles DEF EntryStep
<1>2. CASE t = "sig" /\ ArmTaker
  BY <1>2, ArmTakerHandles
<1>3. CASE t = "loop" /\ QuotesStep
  BY <1>3, UnsentHandles, AskHandles, FilledHandles, UnfilledHandles DEF QuotesStep
<1> QED BY <1>1, <1>2, <1>3 DEF HandleStep

(***************************************************************************)
(* What every step does to the flags, the history and the book.            *)
(***************************************************************************)
LEMMA FlagsStay ==
    ASSUME TradeConditions, TradeStep PROVE UNCHANGED ctl
<1>1. CASE (\E s \in Symbols : Decide(s)) \/ ArmTaker \/ \E t \in {"sig", "loop"} : EntryStep(t)
  BY <1>1 DEF Decide, DecideIf, ArmTaker, SubmitHead, SubmitIf, EntryStep, SubmitRefused, NotAcked,
     Send, AckTaker, Find, OpenDone
<1>2. CASE QuotesStep
  BY <1>2 DEF QuotesStep, LoopQuoteUnsent, SubmitHead, SubmitIf, LoopQuoteAsk, LoopQuoteFilled,
     LoopQuoteUnfilled, LoopCancel
<1>3. CASE TickStep
  BY <1>3 DEF TickStep, LoopPassing, LoopStart, LoopTick, LoopSnapshot, LoopRecovered, ManageAll,
     LoopTrail, LoopKillCheck, LoopMissing, LoopQuotes, LoopAdopt, LoopRecover, RecoverUnless,
     TradeConditions
<1>4. CASE ManageStep
  BY <1>4 DEF ManageStep, LoopHold, LoopMove, LoopRule, Manage, ManageBelow
<1>5. CASE LeaveStep
  BY <1>5 DEF LeaveStep, CloseSend, CloseReply, CloseBook, LoopVanished, Vanished
<1>6. CASE Environment
  BY <1>6 DEF Environment, VenueAccept, VenueFill, VenueExpire, VenueClose, AttachDone
<1> QED BY <1>1, <1>2, <1>3, <1>4, <1>5, <1>6 DEF TradeStep

\* The book stays, but for a profit reported and an id stamped on a managed object.
BookUnmoved ==
    /\ UNCHANGED <<positions, closedKeys>> /\ made'.objs = made.objs /\ attach' \subseteq attach
    /\ \A y \in Objs :
          /\ obj'[y].sym = obj[y].sym /\ obj'[y].truth = obj[y].truth /\ obj'[y].key = obj[y].key
          /\ y > made.objs => obj'[y] = obj[y]
          /\ \/ obj'[y].pid = obj[y].pid
             \/ y = positions[obj[y].sym] /\ FillOf(obj'[y].pid, obj[y].sym)
\* A position is adopted, of a filled order; not over another, but by the loop.
Adopts ==
    \E x \in Symbols : \E row, pnl, closed :
       /\ Adopt(x, row, pnl, closed) /\ FillOf(row.pid, x) /\ FillOf(row.truth, x)
       /\ attach' \subseteq attach \cup {<<x, row.pid>>}
       /\ positions[x] = 0 \/ Held' = {}
\* The loop releases a position it held.
CloseReasons == {"exit", "exchange_close"}
Marks ==
    \E o \in Held : \E id \in HistoryIds(o), why \in CloseReasons :
       MarkClosed(o, id, why) /\ ComesBack("loop") /\ UNCHANGED <<made, attach>>

LEMMA OpenAdopts ==
    ASSUME TradeConditions, TradeInv, NEW t \in {"sig", "loop"}, OpenDone(t) PROVE Adopts
<1> USE TaskNames DEF TradeInv
<1>1. PICK n, s, row : n = task[t].q /\ s = SymOf(n) /\ row = task[t].raw
  OBVIOUS
<1>2. task[t].pc = "open" /\ Adopt(s, row, FALSE, FALSE) /\ StartAttach(s, row.pid, TRUE)
  BY <1>1 DEF OpenDone, At
<1>3. s \in Symbols /\ positions[s] = 0
  BY <1>1, OpenDoneWorks
<1>4. FillOf(row.pid, s) /\ FillOf(row.truth, s)
  BY <1>1, <1>2 DEF ShapeInv, FillsHeld
<1>5. attach' \subseteq attach \cup {<<s, row.pid>>}
  BY <1>2 DEF StartAttach
<1> QED BY <1>2, <1>3, <1>4, <1>5 DEF Adopts

LEMMA AdoptAdopts ==
    ASSUME TradeConditions, TradeInv, LoopAdopt PROVE Adopts
<1> USE TaskNames DEF TradeInv
<1>0. PICK row, x : row = task["loop"].raw /\ x = order[row.pid].sym
  OBVIOUS
<1>1. task["loop"].pc = "adopt" /\ ComesBack("loop")
  BY BackGoes DEF LoopAdopt, At
<1>2. PICK pnl, closed : Adopt(x, row, pnl, closed)
  BY <1>0 DEF LoopAdopt
<1>3. task["loop"].then = "recover" /\ row.pid \in Orders /\ x \in Symbols
  BY <1>0, <1>1, LoopTask DEF Steady, TypeInv, VenueTyped, Order
<1>4. row = RowOf(task["loop"].snap.pos[x]) /\ Shows(task["loop"].snap, x)
  BY <1>0, <1>1 DEF ShapeInv, LoopShape, Adopting
<1>5. FillOf(task["loop"].snap.pos[x].pid, x)
  BY <1>3, <1>4 DEF ShapeInv, FillsShown, Views
<1>6. FillOf(row.pid, x) /\ FillOf(row.truth, x)
  BY <1>4, <1>5 DEF RowOf
<1>7. attach' \subseteq attach \cup {<<x, row.pid>>}
  BY <1>0 DEF LoopAdopt, StartAttach
<1>8. Held' = {}
  BY <1>1, <1>3 DEF ComesBack, GoesTo, Held, HeldOf
<1> QED BY <1>2, <1>3, <1>6, <1>7, <1>8 DEF Adopts

LEMMA TradeBookSteps ==
    ASSUME TradeConditions, TradeInv, TradeStep PROVE BookUnmoved \/ Adopts \/ Marks
<1> USE TaskNames DEF TradeInv
<1>0. ASSUME UNCHANGED <<positions, obj, closedKeys, attach>>, made'.objs = made.objs
      PROVE  BookUnmoved
  BY <1>0 DEF BookUnmoved
<1>1. CASE (\E s \in Symbols : Decide(s)) \/ ArmTaker
  BY <1>0, <1>1 DEF Decide, DecideIf, ArmTaker, SubmitHead, SubmitIf, bookVars, TypeInv, ControlTyped
<1>2. ASSUME NEW t \in {"sig", "loop"}, EntryStep(t) PROVE BookUnmoved \/ Adopts
  <2>1. CASE OpenDone(t)
    BY <2>1, OpenAdopts
  <2>2. CASE Send(t)
    BY <1>0, <2>2 DEF Send, bookVars, TypeInv, ControlTyped
  <2>3. CASE SubmitRefused(t) \/ NotAcked(t) \/ AckTaker(t) \/ Find(t)
    BY <1>0, <2>3 DEF SubmitRefused, NotAcked, AckTaker, Find, bookVars
  <2> QED BY <1>2, <2>1, <2>2, <2>3 DEF EntryStep
<1>3. CASE QuotesStep
  BY <1>0, <1>3 DEF QuotesStep, LoopQuoteUnsent, SubmitHead, SubmitIf, LoopQuoteAsk,
     LoopQuoteFilled, LoopQuoteUnfilled, LoopCancel, bookVars
<1>4. CASE TickStep
  <2>1. CASE LoopAdopt
    BY <2>1, AdoptAdopts
  <2>2. CASE ~LoopAdopt
    BY <1>0, <1>4, <2>2 DEF TickStep, LoopPassing, LoopStart, LoopTick, LoopSnapshot,
       LoopRecovered, ManageAll, LoopTrail, LoopKillCheck, LoopMissing, LoopQuotes, LoopRecover,
       RecoverUnless, bookVars
  <2> QED BY <2>1, <2>2
<1>5. CASE ManageStep
  <2>1. PICK o \in Objs : LoopHold(o) \/ LoopMove(o) \/ LoopRule(o)
    BY <1>5 DEF ManageStep
  <2>2. /\ o \in Held /\ UNCHANGED <<positions, made, closedKeys>>
        /\ \A y \in Objs : y # o => obj'[y] = obj[y]
        /\ obj'[o].sym = obj[o].sym /\ obj'[o].truth = obj[o].truth
        /\ obj'[o].pid = obj[o].pid /\ obj'[o].key = obj[o].key
    BY <2>1, ManageWorks
  <2>3. o <= made.objs /\ made.objs \in Nat /\ o \in Nat
    BY <2>2, HeldIsManaged, BoundsInNat DEF TypeInv, ControlTyped, Objs
  <2>4. UNCHANGED attach
    BY <2>1 DEF LoopHold, LoopMove, LoopRule, Manage, ManageBelow
  <2>5. \A y \in Objs : y > made.objs => y # o
    BY <2>3
  <2> QED BY <2>2, <2>4, <2>5 DEF BookUnmoved
<1>6. CASE LeaveStep
  <2>1. CASE CloseSend("loop") \/ CloseReply("loop")
    BY <1>0, <2>1 DEF CloseSend, CloseReply, bookVars
  <2>2. ASSUME NEW o, o = task["loop"].o, task["loop"].pc \in {"resolve", "history"} PROVE o \in Held
    <3>1. task["loop"].then = "manage" /\ o # 0
      BY <2>2 DEF ShapeInv, LoopShape, Phases, Leaving
    <3> QED BY <2>2, <3>1 DEF Held, HeldOf
  <2>3. CASE CloseBook("loop")
    <3>1. task["loop"].pc = "resolve" /\ ComesBack("loop") /\ UNCHANGED <<made, attach>>
      BY <2>3, BackGoes DEF CloseBook, At
    <3>2. PICK o : o = task["loop"].o /\ \E id \in HistoryIds(o) : MarkClosed(o, id, "exit")
      BY <2>3 DEF CloseBook
    <3> QED BY <2>2, <3>1, <3>2 DEF Marks, CloseReasons
  <2>4. CASE LoopVanished
    <3>1. task["loop"].pc = "history" /\ ComesBack("loop") /\ UNCHANGED <<made, attach>>
      BY <2>4, BackGoes DEF LoopVanished, Vanished, At
    <3>2. PICK o : /\ o = task["loop"].o
                   /\ \/ \E id \in HistoryIds(o) : MarkClosed(o, id, "exchange_close")
                      \/ UNCHANGED bookVars
      BY <2>4 DEF LoopVanished, Vanished
    <3>3. CASE UNCHANGED bookVars
      BY <1>0, <3>1, <3>3 DEF bookVars
    <3> QED BY <2>2, <3>1, <3>2, <3>3 DEF Marks, CloseReasons
  <2> QED BY <1>6, <2>1, <2>3, <2>4 DEF LeaveStep
<1>7. CASE Environment
  <2>1. ASSUME NEW x \in Symbols, NEW pid \in Orders, AttachDone(x, pid) PROVE BookUnmoved
    <3>1. /\ UNCHANGED <<positions, closedKeys, made>> /\ <<x, pid>> \in attach
          /\ attach' \subseteq attach
          /\ \A y \in Objs : /\ obj'[y].sym = obj[y].sym /\ obj'[y].truth = obj[y].truth
                             /\ obj'[y].key = obj[y].key
                             /\ obj'[y].pid # obj[y].pid => y = positions[x] /\ obj'[y].pid = pid
      BY <2>1, AttachWorks
    <3>2. FillOf(pid, x)
      BY <3>1 DEF ShapeInv, FillsHeld
    <3>3. positions[x] # 0 => positions[x] \in Objs /\ positions[x] <= made.objs /\ obj[positions[x]].sym = x
      BY ManagedMade DEF Managed, BookInv
    <3>4. \A y \in Objs : y # 0
      BY BoundsInNat DEF Objs
    <3>5. \A y \in Objs : obj'[y].pid = obj[y].pid
                          \/ (y = positions[obj[y].sym] /\ FillOf(obj'[y].pid, obj[y].sym))
      BY <3>1, <3>2, <3>3, <3>4
    <3>6. \A y \in Objs : y > made.objs => y # positions[x]
      <4>1. made.objs \in Nat /\ Objs \subseteq Nat
        BY BoundsInNat DEF TypeInv, ControlTyped, Objs
      <4> QED BY <3>3, <3>4, <4>1
    <3>7. \A y \in Objs : y > made.objs => obj'[y] = obj[y]
      BY <2>1, <3>6 DEF AttachDone, TypeInv, BookTyped
    <3> QED BY <3>1, <3>5, <3>7 DEF BookUnmoved
  <2>2. CASE ~ \E x \in Symbols, pid \in Orders : AttachDone(x, pid)
    BY <1>0, <1>7, <2>2 DEF Environment, VenueAccept, VenueFill, VenueExpire, VenueClose, bookVars
  <2> QED BY <2>1, <2>2
<1> QED BY <1>1, <1>2, <1>3, <1>4, <1>5, <1>6, <1>7 DEF TradeStep

\* Objects are only added, and keep their symbol and their position of the venue.
ObjsStay ==
    /\ made.objs <= made'.objs
    /\ \A y \in Objs : y <= made.objs => obj'[y].sym = obj[y].sym /\ obj'[y].truth = obj[y].truth
    /\ \A y \in Objs : y > made'.objs => obj'[y] = NoObj

LEMMA ObjsStaySo ==
    ASSUME TradeInv, BookUnmoved \/ Adopts \/ Marks PROVE ObjsStay
<1> USE DEF TradeInv
<1>0. made.objs \in Nat /\ Objs \subseteq Nat
  BY BoundsInNat DEF TypeInv, ControlTyped, Objs
<1>1. \A y \in Objs : y > made.objs => obj[y] = NoObj
  BY DEF ShapeInv, Numbered
<1>2. CASE BookUnmoved
  <2>1. /\ made'.objs = made.objs
        /\ \A y \in Objs : /\ obj'[y].sym = obj[y].sym /\ obj'[y].truth = obj[y].truth
                           /\ y > made.objs => obj'[y] = obj[y]
    BY <1>2 DEF BookUnmoved
  <2>2. made.objs <= made'.objs
    BY <1>0, <2>1
  <2> QED BY <1>1, <2>1, <2>2 DEF ObjsStay
<1>3. CASE Adopts
  <2>1. PICK x \in Symbols : \E row, pnl, closed : Adopt(x, row, pnl, closed)
    BY <1>3 DEF Adopts
  <2>2. PICK o : o = made.objs + 1
    OBVIOUS
  <2>3. made'.objs = o /\ \A y \in Objs : y # o => obj'[y] = obj[y]
    BY <2>1, <2>2, AdoptNew
  <2>4. /\ made.objs <= o /\ \A y \in Objs : y <= made.objs => y # o
        /\ \A y \in Objs : y > o => y # o /\ y > made.objs
    BY <1>0, <2>2
  <2> QED BY <1>1, <2>3, <2>4 DEF ObjsStay
<1>4. CASE Marks
  <2>1. PICK o \in Held : \E id \in HistoryIds(o), why \in CloseReasons :
            MarkClosed(o, id, why) /\ UNCHANGED made
    BY <1>4 DEF Marks
  <2>2. /\ \A y \in Objs : y # o => obj'[y] = obj[y]
        /\ obj'[o].sym = obj[o].sym /\ obj'[o].truth = obj[o].truth
    BY <2>1, MarkedFacts
  <2>3. o \in Objs /\ o <= made.objs
    BY HeldIsManaged
  <2>4. made.objs <= made.objs /\ \A y \in Objs : y > made.objs => y # o
    BY <1>0, <2>3
  <2>5. UNCHANGED made
    BY <2>1
  <2>6. \A y \in Objs : obj'[y].sym = obj[y].sym /\ obj'[y].truth = obj[y].truth
    BY <2>2
  <2> QED BY <1>1, <2>2, <2>4, <2>5, <2>6 DEF ObjsStay
<1> QED BY <1>2, <1>3, <1>4

\* A misnamed position that was released stays misnamed and released.
LEMMA ConfusedStays ==
    ASSUME TradeInv, BookUnmoved \/ Adopts \/ Marks, NEW s \in Symbols, Confused(s)
    PROVE  Confused(s)'
<1> USE DEF TradeInv
<1>0. made.objs \in Nat /\ Objs \subseteq Nat /\ 0 \notin Objs
  BY BoundsInNat DEF TypeInv, ControlTyped, Objs
<1>1. PICK o \in Objs : obj[o].sym = s /\ o # positions[s] /\ Misnamed(o)
  BY DEF Confused
<1>2. obj[o].pid \notin {0, obj[o].truth}
  BY <1>1 DEF Misnamed
<1>3. o <= made.objs
  BY <1>0, <1>2 DEF ShapeInv, Numbered, NoObj
<1>4. /\ obj'[o].sym = s /\ obj'[o].pid = obj[o].pid /\ obj'[o].truth = obj[o].truth
      /\ o # positions'[s]
  <2>1. CASE BookUnmoved
    BY <1>1, <2>1 DEF BookUnmoved
  <2>2. CASE Adopts
    <3>1. PICK x \in Symbols : \E row, pnl, closed : Adopt(x, row, pnl, closed)
      BY <2>2 DEF Adopts
    <3>2. PICK k : k = made.objs + 1
      OBVIOUS
    <3>3. /\ \A y \in Objs : y # k => obj'[y] = obj[y]
          /\ positions'[x] = k /\ \A y \in Symbols : y # x => positions'[y] = positions[y]
      BY <3>1, <3>2, AdoptNew
    <3> QED BY <1>0, <1>1, <1>3, <3>2, <3>3
  <2>3. CASE Marks
    <3>1. PICK k \in Held : \E id \in HistoryIds(k), why \in CloseReasons : MarkClosed(k, id, why)
      BY <2>3 DEF Marks
    <3>2. PICK x : x = obj[k].sym
      OBVIOUS
    <3>3. /\ \A y \in Objs : y # k => obj'[y] = obj[y]
          /\ positions'[x] = 0 /\ \A y \in Symbols : y # x => positions'[y] = positions[y]
      BY <3>1, <3>2, MarkedFacts
    <3>4. positions[x] = k
      BY <3>2, HeldIsManaged
    <3> QED BY <1>0, <1>1, <3>2, <3>3, <3>4
  <2> QED BY <2>1, <2>2, <2>3
<1> QED BY <1>2, <1>4 DEF Confused, Misnamed

\* Ids of positions that are filled orders of their symbol stay so.
HeldFills ==
    /\ \A s \in Symbols, p \in Orders : <<s, p>> \in attach => FillOf(p, s)
    /\ \A o \in Objs : o <= made.objs => /\ FillOf(obj[o].pid, obj[o].sym)
                                         /\ FillOf(obj[o].truth, obj[o].sym)

LEMMA HeldFillsKept ==
    ASSUME TradeInv, BookUnmoved \/ Adopts \/ Marks, OrdersStay PROVE HeldFills'
<1> USE DEF TradeInv
<1>0. made.objs \in Nat /\ Objs \subseteq Nat
  BY BoundsInNat DEF TypeInv, ControlTyped, Objs
<1>1. \A s \in Symbols, p \in Orders : <<s, p>> \in attach => FillOf(p, s)
  BY DEF ShapeInv, FillsHeld
<1>2. \A o \in Objs : o <= made.objs => /\ FillOf(obj[o].pid, obj[o].sym)
                                        /\ FillOf(obj[o].truth, obj[o].sym)
  BY DEF ShapeInv, FillsHeld
<1>3. \A k, s : FillOf(k, s) => FillOf(k, s)'
  BY FillsStay
<1>4. /\ \A s \in Symbols, p \in Orders : <<s, p>> \in attach' => FillOf(p, s)
      /\ \A o \in Objs : o <= made'.objs => /\ FillOf(obj'[o].pid, obj'[o].sym)
                                            /\ FillOf(obj'[o].truth, obj'[o].sym)
  <2>1. CASE BookUnmoved
    BY <1>1, <1>2, <2>1 DEF BookUnmoved
  <2>2. CASE Adopts
    <3>5. PICK x \in Symbols : \E row, pnl, closed :
             /\ Adopt(x, row, pnl, closed) /\ FillOf(row.pid, x) /\ FillOf(row.truth, x)
             /\ attach' \subseteq attach \cup {<<x, row.pid>>}
      BY <2>2 DEF Adopts
    <3>1. PICK row, pnl, closed :
             /\ Adopt(x, row, pnl, closed) /\ FillOf(row.pid, x) /\ FillOf(row.truth, x)
             /\ attach' \subseteq attach \cup {<<x, row.pid>>}
      BY <3>5
    <3>2. PICK k : k = made.objs + 1
      OBVIOUS
    <3>3. /\ \A y \in Objs : y # k => obj'[y] = obj[y]
          /\ obj'[k].sym = x /\ obj'[k].pid = row.pid /\ obj'[k].truth = row.truth /\ made'.objs = k
      BY <3>1, <3>2, AdoptNew
    <3>4. \A y \in Objs : y <= k => y = k \/ y <= made.objs
      BY <1>0, <3>2
    <3> QED BY <1>1, <1>2, <3>1, <3>3, <3>4
  <2>3. CASE Marks
    <3>1. PICK k \in Held :
            \E i \in HistoryIds(k), why \in CloseReasons :
               MarkClosed(k, i, why) /\ UNCHANGED <<made, attach>>
      BY <2>3 DEF Marks
    <3>7. PICK id \in HistoryIds(k), why \in CloseReasons :
               MarkClosed(k, id, why) /\ UNCHANGED <<made, attach>>
      BY <3>1
    <3>2. PICK x : x = obj[k].sym
      OBVIOUS
    <3>3. /\ \A y \in Objs : y # k => obj'[y] = obj[y]
          /\ obj'[k].sym = x /\ obj'[k].truth = obj[k].truth /\ obj'[k].pid \in {id, obj[k].pid}
          /\ obj'[k].pid # 0
      BY <3>2, <3>7, MarkedFacts
    <3>4. k \in Objs /\ k <= made.objs
      BY HeldIsManaged
    <3>5. id # 0 => FillOf(id, x)
      BY <3>2 DEF HistoryIds, ShapeInv, FillsShown
    <3>6. FillOf(obj'[k].pid, x) /\ FillOf(obj'[k].truth, x)
      BY <1>2, <3>2, <3>3, <3>4, <3>5
    <3>8. \A o \in Objs : o <= made.objs => FillOf(obj'[o].pid, obj'[o].sym) /\ FillOf(obj'[o].truth, obj'[o].sym)
      BY <1>2, <3>3, <3>6
    <3> QED BY <1>1, <3>7, <3>8
  <2> QED BY <2>1, <2>2, <2>3
<1>5. \A k, s : FillOf(k, s) => k \in Orders /\ order'[k].st = "filled" /\ order'[k].sym = s
  BY <1>3 DEF FillOf
<1> QED BY <1>4, <1>5 DEF HeldFills, FillOf

LEMMA KeysSpentNext ==
    ASSUME TradeInv, BookUnmoved \/ Adopts \/ Marks PROVE KeysSpent'
<1> USE DEF TradeInv
<1>0. /\ \A o \in Objs : Booked(o) => obj[o].closed /\ o <= made.objs
      /\ \A k \in closedKeys : \E o \in Objs : Booked(o) /\ obj[o].key = k
  BY DEF LedgerInv, Recorded, ShapeInv, KeysSpent
<1>1. CASE BookUnmoved
  BY <1>0, <1>1 DEF BookUnmoved, KeysSpent, Booked
<1>2. CASE Adopts
  <2>1. PICK x \in Symbols : \E row, pnl, closed : Adopt(x, row, pnl, closed)
    BY <1>2 DEF Adopts
  <2>2. PICK n : n = made.objs + 1
    OBVIOUS
  <2>3. (\A y \in Objs : y # n => obj'[y] = obj[y]) /\ UNCHANGED closedKeys
    BY <2>1, <2>2, AdoptNew
  <2>4. \A y \in Objs : y <= made.objs => y # n
    BY <2>2, BoundsInNat DEF TypeInv, ControlTyped, Objs
  <2> QED BY <1>0, <2>3, <2>4 DEF KeysSpent, Booked
<1>3. CASE Marks
  <2>1. PICK x \in Held : \E id \in HistoryIds(x), why \in CloseReasons : MarkClosed(x, id, why)
    BY <1>3 DEF Marks
  <2>2. PICK id \in HistoryIds(x), why \in CloseReasons : MarkClosed(x, id, why)
    BY <2>1
  <2>3. x \in Objs /\ ~Booked(x)
    BY <1>0, HeldIsManaged
  <2>4. PICK pid : pid = IF id # 0 THEN id ELSE obj[x].pid
    OBVIOUS
  <2>5. CASE Duplicate(x, pid)
    <3>1. obj' = [obj EXCEPT ![x].pid = pid] /\ UNCHANGED closedKeys
      BY <2>2, <2>4, <2>5 DEF MarkClosed
    <3>2. \A y \in Objs : obj'[y].key = obj[y].key
      BY <3>1 DEF TypeInv, BookTyped, Object
    <3> QED BY <1>0, <3>1, <3>2 DEF KeysSpent, Booked
  <2>6. CASE ~Duplicate(x, pid)
    <3>1. /\ closedKeys' = closedKeys \cup {CloseKey(x, pid)}
          /\ obj' = [obj EXCEPT ![x] = [obj[x] EXCEPT !.pid = pid, !.closed = TRUE, !.reason = why,
                                          !.key = CloseKey(x, pid)]]
      BY <2>2, <2>4, <2>6 DEF MarkClosed, Book
    <3>2. obj'[x].key = CloseKey(x, pid) /\ \A y \in Objs : y # x => obj'[y] = obj[y]
      BY <2>3, <3>1 DEF TypeInv, BookTyped, Object
    <3>3. CloseKey(x, pid) # NoKey
      BY DEF CloseKey, NoKey
    <3> QED BY <1>0, <2>3, <3>1, <3>2, <3>3 DEF KeysSpent, Booked
  <2> QED BY <2>5, <2>6
<1> QED BY <1>1, <1>2, <1>3

(***************************************************************************)
(* The quotes.                                                             *)
(***************************************************************************)
\* No quote is made or changed; an entry of _quotes may go, and the loop takes at most
\* what _quotes shows.
QuotesRest ==
    /\ UNCHANGED quote /\ made'.quotes = made.quotes
    /\ \A s \in Symbols : quotes'[s] \in {0, quotes[s]}
    /\ Others("loop")
    /\ \/ task'["loop"] = task["loop"] /\ ~RunsOn("loop")
       \/ /\ task'["loop"].pc \notin Entering \cup Asking
          /\ task'["loop"].q \in {0, task["loop"].q} \cup {quotes[s] : s \in Symbols}
          /\ task'["loop"].then = "quotes" =>
                task'["loop"].todo = {quotes[s] : s \in Symbols} \ {0}

LEMMA PassingRests ==
    ASSUME TradeConditions, TradeInv, LoopPassing PROVE QuotesRest
<1> USE TaskNames DEF TradeInv
<1>0. task["loop"] \in Task
  BY DEF TypeInv, TaskTyped
<1>1. Passes /\ task'["loop"].then # "quotes"
  BY LoopPassingPasses
<1>2. task'["loop"].q \in {0, task["loop"].q}
  <2>1. CASE LoopStart \/ LoopTick
    BY <2>1, GotoGoes DEF LoopStart, LoopTick, GoesTo
  <2>2. CASE LoopTrail
    BY <2>2, BackGoes DEF LoopTrail, ComesBack, GoesTo
  <2>3. CASE LoopSnapshot
    <3>1. PICK snap : task' = [task EXCEPT !["loop"] = [task["loop"] EXCEPT !.pc = "recover",
                          !.then = "recover", !.snap = snap,
                          !.syms = {s \in Symbols : snap.pos[s].units > 0}]]
      BY <2>3 DEF LoopSnapshot
    <3> QED BY <1>0, <3>1 DEF TypeInv, TaskTyped, Task
  <2>4. CASE LoopRecovered
    BY <1>0, <2>4 DEF LoopRecovered, ManageAll, TypeInv, TaskTyped, Task
  <2>5. CASE LoopKillCheck
    <3>1. task' = [task EXCEPT !["loop"] = IdleTask] /\ IdleTask.q = 0
      BY <2>5 DEF LoopKillCheck, TradeConditions, IdleTask
    <3> QED BY <3>1 DEF TypeInv, TaskTyped
  <2>6. CASE \E o \in Objs : LoopMissing(o)
    BY <1>0, <2>6 DEF LoopMissing, TypeInv, TaskTyped, Task
  <2> QED BY <2>1, <2>2, <2>3, <2>4, <2>5, <2>6 DEF LoopPassing
<1> QED BY <1>1, <1>2 DEF Passes, QuotesRest

LEMMA QuoteSteps ==
    ASSUME TradeConditions, TradeInv, TradeStep
    PROVE  \/ \E t \in {"sig", "loop"} : HandleStep(t)
           \/ \E x \in Symbols : Decide(x)
           \/ QuotesRest
<1> USE TaskNames DEF TradeInv
<1>0. task["loop"] \in Task
  BY DEF TypeInv, TaskTyped
<1>1. CASE ArmTaker \/ QuotesStep \/ \E t \in {"sig", "loop"} : EntryStep(t)
  BY <1>1 DEF HandleStep
<1>2. ASSUME Others("loop"), UNCHANGED quote, made'.quotes = made.quotes,
             \A s \in Symbols : quotes'[s] \in {0, quotes[s]},
             task'["loop"].pc \notin Entering \cup Asking,
             task'["loop"].q \in {0, task["loop"].q} \cup {quotes[s] : s \in Symbols},
             task'["loop"].then # "quotes"
      PROVE  QuotesRest
  BY <1>2 DEF QuotesRest
<1>3. ASSUME NEW x \in Symbols, LoopRecover(x) PROVE QuotesRest
  <2> DEFINE T == [task["loop"] EXCEPT !.syms = task["loop"].syms \ {x}]
             U == [T EXCEPT !.pc = "adopt", !.q = quotes[x], !.raw = RowOf(T.snap.pos[x])]
  <2>1. task["loop"].pc = "recover" /\ task["loop"].then = "recover"
    BY <1>3, LoopTask DEF LoopRecover, RecoverUnless, At, Steady
  <2>2. /\ T.pc = "recover" /\ T.then = "recover" /\ T.q = task["loop"].q
        /\ U.pc = "adopt" /\ U.then = "recover" /\ U.q = quotes[x]
    BY <1>0, <2>1 DEF Task
  <2>3. task' = [task EXCEPT !["loop"] = T] \/ task' = [task EXCEPT !["loop"] = U]
    BY <1>3 DEF LoopRecover, RecoverUnless
  <2>4. /\ UNCHANGED quote /\ made'.quotes = made.quotes
        /\ \A s \in Symbols : quotes'[s] \in {0, quotes[s]}
    BY <1>3 DEF LoopRecover, RecoverUnless, TypeInv, QuoteTyped
  <2> HIDE DEF T, U
  <2>5. Others("loop") /\ (task'["loop"] = T \/ task'["loop"] = U)
    BY <1>3, <2>3 DEF TypeInv, TaskTyped, LoopRecover, RecoverUnless, At, Others
  <2> QED BY <1>2, <2>2, <2>4, <2>5 DEF Entering, Asking
<1>4. CASE LoopAdopt
  <2>1. /\ ComesBack("loop") /\ task["loop"].pc = "adopt" /\ UNCHANGED <<quote, quotes>>
    BY <1>4, BackGoes DEF LoopAdopt, At, quoteVars
  <2>2. task["loop"].then = "recover"
    BY <2>1, LoopTask DEF Steady
  <2>3. made'.quotes = made.quotes
    BY <1>4 DEF LoopAdopt, Adopt, TypeInv, ControlTyped
  <2> QED BY <1>2, <2>1, <2>2, <2>3 DEF ComesBack, GoesTo, Entering, Asking
<1>5. CASE LoopQuotes
  <2> DEFINE U == [task["loop"] EXCEPT !.pc = "quotes", !.then = "quotes",
                    !.todo = {quotes[x] : x \in Symbols} \ {0}]
  <2>1. U.pc = "quotes" /\ U.q = task["loop"].q /\ U.todo = {quotes[x] : x \in Symbols} \ {0}
    BY <1>0 DEF Task
  <2>2. UNCHANGED <<quote, quotes, made>> /\ task' = [task EXCEPT !["loop"] = U]
    BY <1>5 DEF LoopQuotes, quoteVars
  <2> HIDE DEF U
  <2>3. Others("loop") /\ task'["loop"] = U
    BY <1>5, <2>2 DEF TypeInv, TaskTyped, LoopQuotes, At, Others
  <2> QED BY <2>1, <2>2, <2>3 DEF QuotesRest, Entering, Asking
<1>6. CASE ManageStep
  <2>1. PICK o \in Objs : LoopHold(o) \/ LoopMove(o) \/ LoopRule(o)
    BY <1>6 DEF ManageStep
  <2>2. /\ Others("loop") /\ UNCHANGED <<quotes, quote, made>>
        /\ task'["loop"].then = "manage" /\ task'["loop"].pc \in {"manage", "trail", "close"}
    BY <2>1, ManageWorks
  <2>3. task'["loop"].q = task["loop"].q
    <3>1. PICK T : /\ \/ T = task["loop"] \/ T = [task["loop"] EXCEPT !.pc = "trail", !.o = o]
                      \/ T = [task["loop"] EXCEPT !.pc = "close", !.o = o, !.left = 3,
                           !.raw = IF Seen(o) THEN RowOf(task["loop"].snap.pos[obj[o].sym])
                                              ELSE MadeUp(o)]
                   /\ task' = [task EXCEPT !["loop"] = [T EXCEPT !.todo = T.todo \ {o}]]
      BY <2>1 DEF LoopHold, LoopMove, LoopRule, Manage, ManageBelow
    <3>2. T.q = task["loop"].q /\ [T EXCEPT !.todo = T.todo \ {o}].q = T.q
      BY <1>0, <3>1 DEF Task
    <3>3. PICK U : U = [T EXCEPT !.todo = T.todo \ {o}]
      OBVIOUS
    <3> QED BY <3>1, <3>2, <3>3 DEF TypeInv, TaskTyped
  <2> QED BY <1>2, <2>2, <2>3 DEF Entering, Asking
<1>7. CASE LeaveStep
  <2>1. CASE CloseSend("loop") \/ CloseReply("loop")
    <3>1. PICK o, x : o = task["loop"].o /\ x = obj[o].sym
      OBVIOUS
    <3>2. /\ Others("loop") /\ UNCHANGED <<quotes, quote, made>>
          /\ task'["loop"].then = "manage" /\ task'["loop"].pc \in Leaving \cup {"manage"}
      BY <2>1, <3>1, ClosingWorks
    <3>3. task'["loop"].q \in {0, task["loop"].q}
      <4> DEFINE R == Return(task["loop"])
                 A == [task["loop"] EXCEPT !.pc = "closing", !.left = task["loop"].left - 1]
                 B == [task["loop"] EXCEPT !.left = task["loop"].left - 1]
                 C == [task["loop"] EXCEPT !.pc = "resolve"]
                 D == [task["loop"] EXCEPT !.pc = "close"]
      <4>1. R.q = 0 /\ \A U \in {A, B, C, D} : U.q = task["loop"].q
        BY <1>0 DEF Return, Task
      <4>2. \E U \in {R, A, B, C, D} : task' = [task EXCEPT !["loop"] = U]
        BY <1>0, <2>1, SetPc DEF CloseSend, CloseReply, Back, TypeInv, TaskTyped
      <4> HIDE DEF R, A, B, C, D
      <4>3. task'["loop"] \in {R, A, B, C, D}
        BY <4>2 DEF TypeInv, TaskTyped
      <4> QED BY <4>1, <4>3
    <3> QED BY <1>2, <3>2, <3>3 DEF Entering, Asking, Leaving
  <2>2. CASE CloseBook("loop") \/ LoopVanished
    <3>1. /\ ComesBack("loop") /\ task["loop"].pc \in {"resolve", "history"}
          /\ UNCHANGED <<quote, quotes, made>>
      BY <2>2, BackGoes DEF CloseBook, LoopVanished, Vanished, At, quoteVars
    <3>2. task["loop"].then = "manage"
      BY <3>1 DEF ShapeInv, LoopShape, Phases, Leaving
    <3> QED BY <1>2, <3>1, <3>2 DEF ComesBack, GoesTo, Entering, Asking
  <2> QED BY <1>7, <2>1, <2>2 DEF LeaveStep
<1>8. CASE Environment
  BY <1>8 DEF Environment, VenueAccept, VenueFill, VenueExpire, VenueClose, AttachDone, QuotesRest,
     quoteVars, Quiet, Others
<1> QED BY <1>1, <1>3, <1>4, <1>5, <1>6, <1>7, <1>8, PassingRests DEF TradeStep, TickStep

LEMMA QuotesMadeNext ==
    ASSUME TradeConditions, TradeInv, TradeStep PROVE QuotesMade'
<1> USE TaskNames DEF TradeInv
<1>0. /\ made.quotes \in Nat /\ 0 <= made.quotes /\ Quotes \subseteq Nat
      /\ \A s \in Symbols : quotes[s] # 0 => quotes[s] \in Quotes
      /\ quotes \in [Symbols -> 0..MaxQuotes]
  BY BoundsInNat DEF TypeInv, ControlTyped, QuoteTyped, Quotes
<1>1. /\ \A s \in Symbols : quotes[s] # 0 => quotes[s] <= made.quotes /\ SymOf(quotes[s]) = s
      /\ \A t \in {"sig", "loop"} : task[t].q <= made.quotes
      /\ task["loop"].then = "quotes" =>
            \A n \in task["loop"].todo : n \in Quotes /\ n <= made.quotes
  BY DEF ShapeInv, QuotesMade
<1>2. ASSUME NEW t \in {"sig", "loop"}, NEW n, Handles(t, n) PROVE QuotesMade'
  <2>1. /\ n \in Quotes /\ n <= made.quotes /\ Works(t, n) /\ made'.quotes = made.quotes
        /\ quotes'[SymOf(n)] \in {0, quotes[SymOf(n)], n} /\ task'[t].q \in {0, n, task[t].q}
    BY <1>2 DEF Handles, Works
  <2>2. \A k \in Quotes : SymOf(k)' = SymOf(k)
    BY <2>1 DEF Works, SymOf
  <2>3. ASSUME NEW s \in Symbols, quotes'[s] # 0
        PROVE  quotes'[s] <= made.quotes /\ quote'[quotes'[s]].sym = s
    <3>1. CASE quotes'[s] = quotes[s]
      BY <1>0, <1>1, <2>2, <2>3, <3>1 DEF SymOf
    <3>2. CASE quotes'[s] # quotes[s]
      <4>1. s = SymOf(n) /\ quotes'[s] = n
        BY <2>1, <2>3, <3>2 DEF Works
      <4> QED BY <2>1, <2>2, <4>1 DEF SymOf
    <3> QED BY <3>1, <3>2
  <2>4. \A u \in {"sig", "loop"} : task'[u].q <= made.quotes
    BY <1>0, <1>1, <2>1 DEF Works, Others
  <2>5. task'["loop"].then = task["loop"].then /\ task'["loop"].todo \subseteq task["loop"].todo
    BY <2>1 DEF Works, Others
  <2> QED BY <1>1, <2>1, <2>3, <2>4, <2>5 DEF QuotesMade, SymOf
<1>3. ASSUME NEW x \in Symbols, Decide(x) PROVE QuotesMade'
  <2>1. PICK n : n = made.quotes + 1
    OBVIOUS
  <2>2. Decides(x, n)
    BY <1>3, <2>1, DecideWorks
  <2>3. /\ n \in Quotes /\ made'.quotes = n /\ UNCHANGED quotes
        /\ \A k \in Quotes : k # n => quote'[k] = quote[k]
        /\ task'["sig"].q = n /\ task'["loop"] = task["loop"]
    BY <2>2 DEF Decides
  <2>4. n \in Nat /\ \A k \in Nat : k <= made.quotes => k <= n /\ k # n
    BY <1>0, <2>1
  <2>5. \A s \in Symbols : quotes'[s] # 0 => quotes'[s] <= n /\ quote'[quotes'[s]].sym = s
    BY <1>0, <1>1, <2>3, <2>4 DEF SymOf
  <2>6. task["loop"].q \in Nat
    BY BoundsInNat DEF TypeInv, TaskTyped, Task
  <2>7. \A u \in {"sig", "loop"} : task'[u].q <= n
    BY <1>1, <2>3, <2>4, <2>6
  <2>8. task'["loop"].then = "quotes" => \A k \in task'["loop"].todo : k \in Quotes /\ k <= n
    BY <1>0, <1>1, <2>3, <2>4
  <2> QED BY <2>3, <2>5, <2>7, <2>8 DEF QuotesMade, SymOf
<1>4. CASE QuotesRest
  <2>1. /\ UNCHANGED quote /\ made'.quotes = made.quotes
        /\ \A s \in Symbols : quotes'[s] \in {0, quotes[s]}
        /\ task'["sig"] = task["sig"]
    BY <1>4 DEF QuotesRest, Others
  <2>2. \A s \in Symbols : quotes'[s] # 0 => quotes'[s] <= made.quotes /\ quote'[quotes'[s]].sym = s
    BY <1>1, <2>1 DEF SymOf
  <2>3. CASE task'["loop"] = task["loop"]
    BY <1>1, <2>1, <2>2, <2>3 DEF QuotesMade, SymOf
  <2>4. CASE /\ task'["loop"].q \in {0, task["loop"].q} \cup {quotes[s] : s \in Symbols}
             /\ task'["loop"].then = "quotes" =>
                   task'["loop"].todo = {quotes[s] : s \in Symbols} \ {0}
    <3>1. \A q \in {quotes[s] : s \in Symbols} : q = 0 \/ (q \in Quotes /\ q <= made.quotes)
      BY <1>0, <1>1
    <3>2. task'["loop"].q <= made.quotes /\ task'["sig"].q <= made.quotes
      BY <1>0, <1>1, <2>1, <2>4, <3>1
    <3>3. task'["loop"].then = "quotes" => \A n \in task'["loop"].todo : n \in Quotes /\ n <= made.quotes
      BY <2>4, <3>1
    <3> QED BY <2>1, <2>2, <3>2, <3>3 DEF QuotesMade, SymOf
  <2> QED BY <1>4, <2>3, <2>4 DEF QuotesRest
<1> QED BY <1>2, <1>3, <1>4, QuoteSteps, HandleSteps

\* The quotes made keep their rows and their orders; the others are still to be made.
QuotesKeep ==
    /\ \A n \in Quotes : n > made.quotes => quote[n] = NoQuote
    /\ \A n \in Quotes : quote[n].ord # 0 =>
          order[quote[n].ord].sym = SymOf(n) /\ order[quote[n].ord].st # "none"
    /\ \A n \in Quotes : quote[n].syn # NoRaw => FillOf(quote[n].syn.pid, SymOf(n))
                                             /\ FillOf(quote[n].syn.truth, SymOf(n))

LEMMA QuotesKeepNext ==
    ASSUME TradeConditions, TradeInv, TradeStep, OrdersStay PROVE QuotesKeep'
<1> USE TaskNames DEF TradeInv
<1>0. made.quotes \in Nat /\ Quotes \subseteq Nat
  BY BoundsInNat DEF TypeInv, ControlTyped, Quotes
<1>1. /\ \A k \in Quotes : k > made.quotes => quote[k] = NoQuote
      /\ \A k \in Quotes : quote[k].ord # 0 =>
            order[quote[k].ord].sym = SymOf(k) /\ order[quote[k].ord].st # "none"
      /\ \A k \in Quotes : quote[k].syn # NoRaw => FillOf(quote[k].syn.pid, SymOf(k))
                                               /\ FillOf(quote[k].syn.truth, SymOf(k))
  BY DEF ShapeInv, Numbered, FillsHeld
<1>2. \A k, s : FillOf(k, s) => FillOf(k, s)'
  BY FillsStay
<1>3. \A k \in Quotes : quote[k].ord # 0 => quote[k].ord \in Orders
  BY BoundsInNat DEF TypeInv, QuoteTyped, Quote, Orders
<1>4. ASSUME NEW k \in Quotes, quote'[k].ord = quote[k].ord, quote'[k].sym = quote[k].sym,
             quote'[k].ord # 0
      PROVE  order'[quote'[k].ord].sym = quote'[k].sym /\ order'[quote'[k].ord].st # "none"
  BY <1>1, <1>3, <1>4 DEF OrdersStay, SymOf
<1>5. ASSUME NEW k \in Quotes, quote'[k].syn = quote[k].syn, quote'[k].sym = quote[k].sym,
             quote'[k].syn # NoRaw
      PROVE  FillOf(quote[k].syn.pid, SymOf(k))' /\ FillOf(quote[k].syn.truth, SymOf(k))'
  <2>1. FillOf(quote[k].syn.pid, SymOf(k)) /\ FillOf(quote[k].syn.truth, SymOf(k))
    BY <1>1, <1>5
  <2> QED BY <1>5, <2>1 DEF OrdersStay, FillOf, SymOf
<1>6. ASSUME NEW t \in {"sig", "loop"}, NEW n, Handles(t, n) PROVE QuotesKeep'
  <2>1. /\ n \in Quotes /\ n <= made.quotes /\ made'.quotes = made.quotes
        /\ quote'[n].sym = quote[n].sym /\ \A k \in Quotes : k # n => quote'[k] = quote[k]
    BY <1>6 DEF Handles, Works
  <2>2. quote'[n].ord # 0 => order'[quote'[n].ord].sym = quote'[n].sym /\ order'[quote'[n].ord].st # "none"
    BY <1>4, <1>6, <2>1 DEF Handles, SymOf
  <2>3. quote'[n].syn # NoRaw => FillOf(quote[n].syn.pid, SymOf(n))' /\ FillOf(quote[n].syn.truth, SymOf(n))'
    <3>1. CASE quote'[n].syn \in {NoRaw, quote[n].syn}
      BY <1>5, <2>1, <3>1
    <3>2. CASE FillOf(quote'[n].syn.pid, SymOf(n)) /\ FillOf(quote'[n].syn.truth, SymOf(n))
      <4>1. FillOf(quote'[n].syn.pid, SymOf(n)) /\ FillOf(quote'[n].syn.truth, SymOf(n))
        BY <3>2
      <4> QED BY <2>1, <4>1 DEF OrdersStay, FillOf, SymOf
    <3> QED BY <1>6, <3>1, <3>2 DEF Handles
  <2>4. \A k \in Quotes : k > made.quotes => k # n
    BY <1>0, <2>1
  <2>5. \A k \in Quotes : k > made'.quotes => quote'[k] = NoQuote
    BY <1>1, <2>1, <2>4
  <2>6. ASSUME NEW k \in Quotes, k # n
        PROVE  /\ quote'[k].ord # 0 =>
                    order'[quote'[k].ord].sym = quote'[k].sym /\ order'[quote'[k].ord].st # "none"
               /\ quote'[k].syn # NoRaw =>
                    FillOf(quote[k].syn.pid, SymOf(k))' /\ FillOf(quote[k].syn.truth, SymOf(k))'
    BY <1>4, <1>5, <2>1, <2>6
  <2>7. ASSUME NEW k \in Quotes
        PROVE  (quote[k].ord # 0 =>
                  order[quote[k].ord].sym = SymOf(k) /\ order[quote[k].ord].st # "none")'
    BY <2>2, <2>6 DEF SymOf
  <2>8. ASSUME NEW k \in Quotes
        PROVE  (quote[k].syn # NoRaw => FillOf(quote[k].syn.pid, SymOf(k))
                                     /\ FillOf(quote[k].syn.truth, SymOf(k)))'
    BY <2>3, <2>6
  <2> QED BY <2>5, <2>7, <2>8 DEF QuotesKeep
<1>7. ASSUME NEW x \in Symbols, Decide(x) PROVE QuotesKeep'
  <2>1. PICK n : n = made.quotes + 1
    OBVIOUS
  <2>2. Decides(x, n)
    BY <1>7, <2>1, DecideWorks
  <2>3. /\ n \in Quotes /\ made'.quotes = n /\ quote'[n].ord = 0 /\ quote'[n].syn = NoRaw
        /\ \A k \in Quotes : k # n => quote'[k] = quote[k]
    BY <2>2 DEF Decides
  <2>4. \A k \in Quotes : k > n => k # n /\ k > made.quotes
    BY <1>0, <2>1
  <2>5. \A k \in Quotes : k > made'.quotes => quote'[k] = NoQuote
    BY <1>1, <2>3, <2>4
  <2>6. ASSUME NEW k \in Quotes, k # n
        PROVE  /\ quote'[k].ord # 0 =>
                    order'[quote'[k].ord].sym = quote'[k].sym /\ order'[quote'[k].ord].st # "none"
               /\ quote'[k].syn # NoRaw =>
                    FillOf(quote[k].syn.pid, SymOf(k))' /\ FillOf(quote[k].syn.truth, SymOf(k))'
    BY <1>4, <1>5, <2>3, <2>6
  <2>7. ASSUME NEW k \in Quotes
        PROVE  (quote[k].ord # 0 =>
                  order[quote[k].ord].sym = SymOf(k) /\ order[quote[k].ord].st # "none")'
    BY <2>3, <2>6 DEF SymOf
  <2>8. ASSUME NEW k \in Quotes
        PROVE  (quote[k].syn # NoRaw => FillOf(quote[k].syn.pid, SymOf(k))
                                     /\ FillOf(quote[k].syn.truth, SymOf(k)))'
    BY <2>3, <2>6
  <2> QED BY <2>5, <2>7, <2>8 DEF QuotesKeep
<1>8. CASE QuotesRest
  <2>1. UNCHANGED quote /\ made'.quotes = made.quotes
    BY <1>8 DEF QuotesRest
  <2>6. ASSUME NEW k \in Quotes
        PROVE  /\ quote'[k].ord # 0 =>
                    order'[quote'[k].ord].sym = quote'[k].sym /\ order'[quote'[k].ord].st # "none"
               /\ quote'[k].syn # NoRaw =>
                    FillOf(quote[k].syn.pid, SymOf(k))' /\ FillOf(quote[k].syn.truth, SymOf(k))'
    BY <1>4, <1>5, <2>1, <2>6
  <2>5. \A k \in Quotes : k > made'.quotes => quote'[k] = NoQuote
    BY <1>1, <2>1
  <2>7. ASSUME NEW k \in Quotes
        PROVE  (quote[k].ord # 0 =>
                  order[quote[k].ord].sym = SymOf(k) /\ order[quote[k].ord].st # "none")'
    BY <2>6 DEF SymOf
  <2>8. ASSUME NEW k \in Quotes
        PROVE  (quote[k].syn # NoRaw => FillOf(quote[k].syn.pid, SymOf(k))
                                     /\ FillOf(quote[k].syn.truth, SymOf(k)))'
    BY <2>6
  <2> QED BY <2>5, <2>7, <2>8 DEF QuotesKeep
<1> QED BY <1>6, <1>7, <1>8, QuoteSteps, HandleSteps

\* A quote that strayed stays so.
StraysKept == \A n \in Quotes : quote[n].stray => quote'[n].stray

LEMMA OpenFromStrays ==
    ASSUME TypeInv, NEW t, NEW n, NEW row, NEW q, OpenFrom(t, n, row, q),
           q \in Quote, q.stray = quote[n].stray
    PROVE  StraysKept
<1>1. \E b : quote' = [quote EXCEPT ![n] = [q EXCEPT !.mat = b]]
  BY DEF OpenFrom
<1> QED BY <1>1 DEF StraysKept, TypeInv, QuoteTyped, Quote

LEMMA SubmitStrays ==
    ASSUME TypeInv, NEW t, NEW n, NEW armed, NEW T, SubmitHead(t, n, armed, T) PROVE StraysKept
<1>1. \E st, b : /\ quote' = [quote EXCEPT ![n] = [quote[n] EXCEPT !.st = st, !.stray = b]]
                 /\ quote[n].stray => b
  BY DEF SubmitHead, SubmitIf, Astray
<1> QED BY <1>1 DEF StraysKept, TypeInv, QuoteTyped, Quote

LEMMA AckTakerStrays ==
    ASSUME TypeInv, NEW t \in {"sig", "loop"}, AckTaker(t) PROVE StraysKept
<1> USE TaskNames
<1>1. PICK n : n = task[t].q
  OBVIOUS
<1>2. n \in Quotes /\ quote[n] \in Quote
  BY <1>1 DEF AckTaker, At, TypeInv, TaskTyped, Steady, QuoteTyped
<1>3. PICK row \in SyntheticRows(quote[n].ord) :
        \E b : quote' = [quote EXCEPT ![n] = [[quote[n] EXCEPT !.st = "acked", !.syn = row] EXCEPT !.mat = b]]
  BY <1>1 DEF AckTaker, OpenFrom
<1> DEFINE q == [quote[n] EXCEPT !.st = "acked", !.syn = row]
<1>4. PICK b : quote' = [quote EXCEPT ![n] = [q EXCEPT !.mat = b]]
  BY <1>3
<1>5. [q EXCEPT !.mat = b].stray = quote[n].stray
  BY <1>2 DEF Quote
<1> HIDE DEF q
<1>6. /\ quote'[n].stray = quote[n].stray
      /\ \A k \in Quotes : k # n => quote'[k] = quote[k]
  BY <1>2, <1>4, <1>5 DEF TypeInv, QuoteTyped
<1> QED BY <1>6 DEF StraysKept

LEMMA StraysKeptSo ==
    ASSUME TradeConditions, TradeInv, TradeStep PROVE StraysKept
<1> USE TaskNames DEF TradeInv
<1>1. CASE UNCHANGED quote
  BY <1>1 DEF StraysKept
<1>2. ASSUME NEW n, NEW st, quote' = [quote EXCEPT ![n].st = st] PROVE StraysKept
  BY <1>2 DEF StraysKept, TypeInv, QuoteTyped, Quote
<1>3. ASSUME NEW n, NEW b, quote' = [quote EXCEPT ![n].mat = b] PROVE StraysKept
  BY <1>3 DEF StraysKept, TypeInv, QuoteTyped, Quote
<1>4. ASSUME NEW n, DropEntry(n) PROVE StraysKept
  BY <1>4 DEF DropEntry, Astray, StraysKept, TypeInv, QuoteTyped, Quote
<1>5. ASSUME NEW t \in {"sig", "loop"}, EntryStep(t) PROVE StraysKept
  <2>1. CASE Send(t)
    BY <2>1 DEF Send, StraysKept, TypeInv, QuoteTyped, Quote
  <2>2. CASE SubmitRefused(t) \/ NotAcked(t)
    BY <1>1, <1>2, <2>2 DEF SubmitRefused, NotAcked, Drop, quoteVars
  <2>3. CASE Find(t)
    <3>1. task[t].q \in Quotes
      BY <2>3 DEF Find, At, TypeInv, TaskTyped, Steady
    <3> QED BY <1>3, <2>3, <3>1, OpenFromStrays DEF Find, TypeInv, QuoteTyped
  <2>4. CASE OpenDone(t)
    BY <1>3, <2>4 DEF OpenDone
  <2>5. CASE AckTaker(t)
    BY <2>5, AckTakerStrays
  <2> QED BY <1>5, <2>1, <2>2, <2>3, <2>4, <2>5 DEF EntryStep
<1>6. ASSUME NEW x \in Symbols, Decide(x) PROVE StraysKept
  BY <1>6 DEF Decide, DecideIf, StraysKept, TypeInv, QuoteTyped, Quote
<1>7. CASE ArmTaker
  BY <1>7, SubmitStrays DEF ArmTaker
<1>8. CASE QuotesStep
  <2>1. ASSUME NEW n \in Quotes, LoopQuoteUnsent(n) PROVE StraysKept
    BY <1>1, <2>1, SubmitStrays DEF LoopQuoteUnsent
  <2>2. CASE LoopQuoteFilled
    <3>1. task["loop"].q \in Quotes
      BY <2>2 DEF LoopQuoteFilled, At, TypeInv, TaskTyped, Steady
    <3> QED BY <1>1, <1>3, <2>2, <3>1, OpenFromStrays
            DEF LoopQuoteFilled, quoteVars, TypeInv, QuoteTyped
  <2>3. CASE LoopQuoteUnfilled \/ LoopCancel
    BY <1>1, <1>4, <2>3 DEF LoopQuoteUnfilled, LoopCancel, quoteVars
  <2>4. ASSUME NEW n \in Quotes, LoopQuoteAsk(n) PROVE StraysKept
    BY <1>1, <2>4 DEF LoopQuoteAsk, quoteVars
  <2> QED BY <1>8, <2>1, <2>2, <2>3, <2>4 DEF QuotesStep
<1>9. CASE QuotesRest
  BY <1>1, <1>9 DEF QuotesRest
<1> QED BY <1>5, <1>6, <1>7, <1>8, <1>9, QuoteSteps DEF HandleStep

LEMMA LostStays ==
    ASSUME TradeConditions, TradeInv, TradeStep, NEW s \in Symbols, Lost(s) PROVE Lost(s)'
<1> USE TaskNames DEF TradeInv
<1>1. CASE Confused(s)
  BY <1>1, TradeBookSteps, ConfusedStays DEF Lost
<1>2. CASE Strayed(s)
  <2>1. PICK n \in Quotes : SymOf(n) = s /\ quote[n].stray
    BY <1>2 DEF Strayed
  <2>2. quote'[n].stray
    BY <2>1, StraysKeptSo DEF StraysKept
  <2>3. quote'[n].sym = quote[n].sym
    <3>1. ASSUME NEW t \in {"sig", "loop"}, NEW k, Handles(t, k) PROVE quote'[n].sym = quote[n].sym
      BY <3>1 DEF Handles, Works
    <3>2. ASSUME NEW x \in Symbols, Decide(x) PROVE quote'[n].sym = quote[n].sym
      <4>1. PICK k : k = made.quotes + 1
        OBVIOUS
      <4>2. Decides(x, k)
        BY <3>2, <4>1, DecideWorks
      <4>3. n # k
        BY <2>1, <4>2 DEF Decides, NoQuote
      <4> QED BY <4>2, <4>3 DEF Decides
    <3>3. CASE QuotesRest
      BY <3>3 DEF QuotesRest
    <3> QED BY <3>1, <3>2, <3>3, QuoteSteps, HandleSteps
  <2> QED BY <2>1, <2>2, <2>3 DEF Lost, Strayed, SymOf
<1> QED BY <1>1, <1>2 DEF Lost

(***************************************************************************)
(* The venue, and the snapshots of it.                                     *)
(***************************************************************************)
\* A snapshot may be refreshed, used by the loop or put away.
ViewsMove == /\ cache' \in {cache, FreshSnap}
             /\ task'["loop"].snap \in {task["loop"].snap, cache', NoSnap}

LEMMA ViewsMoveSo ==
    ASSUME TradeConditions, TradeInv, TradeStep PROVE ViewsMove
<1> USE TaskNames DEF TradeInv
<1>1. ASSUME NEW t \in {"sig", "loop"}, HandleStep(t) PROVE ViewsMove
  <2>1. PICK n : Handles(t, n)
    BY <1>1, HandleSteps
  <2> QED BY <2>1 DEF Handles, Looks, ViewsMove
<1>2. ASSUME NEW x \in Symbols, Decide(x) PROVE ViewsMove
  <2>1. PICK n : n = made.quotes + 1
    OBVIOUS
  <2>2. Decides(x, n)
    BY <1>2, <2>1, DecideWorks
  <2> QED BY <2>2 DEF Decides, ViewsMove
<1>3. CASE LoopPassing
  BY <1>3, LoopPassingPasses DEF Passes, Looks, ViewsMove
<1>4. CASE LoopQuotes
  <2> DEFINE U == [task["loop"] EXCEPT !.pc = "quotes", !.then = "quotes",
                    !.todo = {quotes[x] : x \in Symbols} \ {0}]
  <2>1. U.snap = task["loop"].snap
    BY DEF TypeInv, TaskTyped, Task
  <2>2. task' = [task EXCEPT !["loop"] = U] /\ UNCHANGED cache
    BY <1>4 DEF LoopQuotes
  <2> HIDE DEF U
  <2>3. task'["loop"] = U
    BY <2>2 DEF TypeInv, TaskTyped
  <2> QED BY <2>1, <2>2, <2>3 DEF ViewsMove
<1>5. ASSUME NEW x \in Symbols, LoopRecover(x) PROVE ViewsMove
  <2> DEFINE T == [task["loop"] EXCEPT !.syms = task["loop"].syms \ {x}]
             U == [T EXCEPT !.pc = "adopt", !.q = quotes[x], !.raw = RowOf(T.snap.pos[x])]
  <2>1. T.snap = task["loop"].snap /\ U.snap = task["loop"].snap
    BY DEF TypeInv, TaskTyped, Task
  <2>2. (task' = [task EXCEPT !["loop"] = T] \/ task' = [task EXCEPT !["loop"] = U])
        /\ UNCHANGED cache
    BY <1>5 DEF LoopRecover, RecoverUnless
  <2> HIDE DEF T, U
  <2>3. task'["loop"] = T \/ task'["loop"] = U
    BY <2>2 DEF TypeInv, TaskTyped
  <2> QED BY <2>1, <2>2, <2>3 DEF ViewsMove
<1>6. CASE LoopAdopt \/ CloseBook("loop") \/ LoopVanished
  <2>1. ComesBack("loop") /\ UNCHANGED cache
    BY <1>6, BackGoes DEF LoopAdopt, CloseBook, LoopVanished, Vanished
  <2> QED BY <2>1 DEF ComesBack, GoesTo, ViewsMove
<1>7. CASE ManageStep
  <2>1. UNCHANGED cache /\ task'["loop"].snap = task["loop"].snap
    BY <1>7, ManageWorks DEF ManageStep
  <2> QED BY <2>1 DEF ViewsMove
<1>8. CASE CloseSend("loop") \/ CloseReply("loop")
  <2>1. PICK o, x : o = task["loop"].o /\ x = obj[o].sym
    OBVIOUS
  <2>2. UNCHANGED cache /\ task'["loop"].snap = task["loop"].snap
    BY <1>8, <2>1, ClosingWorks
  <2> QED BY <2>2 DEF ViewsMove
<1>9. CASE Environment
  BY <1>9 DEF Environment, VenueAccept, VenueFill, VenueExpire, VenueClose, AttachDone, ViewsMove
<1> QED BY <1>1, <1>2, <1>3, <1>4, <1>5, <1>6, <1>7, <1>8, <1>9
        DEF TradeStep, HandleStep, TickStep, LeaveStep

\* The venue fills an order, closes a position or rests.
VenueRowsMove ==
    \/ UNCHANGED <<venue, hist>>
    \/ (\E m \in Orders : VenueFill(m))
    \/ (\E s \in Symbols, vol \in Nat : \E pid : VenueTakesClose(s, pid, vol))

LEMMA VenueRowsMoveSo ==
    ASSUME TradeConditions, TradeInv, TradeStep PROVE VenueRowsMove
<1> USE TaskNames DEF TradeInv
<1>1. CASE (\E s \in Symbols : Decide(s)) \/ ArmTaker \/ QuotesStep
           \/ \E t \in {"sig", "loop"} : EntryStep(t)
  BY <1>1 DEF Decide, DecideIf, ArmTaker, SubmitHead, SubmitIf, EntryStep, SubmitRefused, NotAcked,
     Send, AckTaker, Find, OpenDone, QuotesStep, LoopQuoteUnsent, LoopQuoteAsk, LoopQuoteFilled,
     LoopQuoteUnfilled, LoopCancel, venueVars, VenueRowsMove
<1>2. CASE TickStep \/ ManageStep
  BY <1>2 DEF TickStep, LoopPassing, LoopStart, LoopTick, LoopSnapshot, LoopRecovered, ManageAll,
     LoopTrail, LoopKillCheck, LoopMissing, LoopQuotes, LoopAdopt, LoopRecover, RecoverUnless,
     ManageStep, LoopHold, LoopMove, LoopRule, Manage, ManageBelow, venueVars, VenueRowsMove
<1>3. CASE LeaveStep
  <2>1. CASE CloseSend("loop")
    <3>1. PICK x : x = obj[task["loop"].o].sym
      OBVIOUS
    <3>2. x \in Symbols /\ CloseVol("loop") \in Nat
      BY <2>1, <3>1 DEF CloseSend, At, TypeInv, TaskTyped, Steady, Task, RawRow, BookTyped, Object, CloseVol
    <3> QED BY <2>1, <3>1, <3>2 DEF CloseSend, venueVars, VenueRowsMove
  <2> QED BY <1>3, <2>1 DEF LeaveStep, CloseReply, CloseBook, LoopVanished, Vanished, venueVars,
          VenueRowsMove
<1>4. CASE Environment
  <2>1. \A x \in Symbols : venue[x].units \in Nat
    BY DEF TypeInv, VenueTyped, Position
  <2> QED BY <1>4, <2>1 DEF Environment, VenueAccept, VenueFill, VenueExpire, VenueClose, AttachDone,
          venueVars, VenueRowsMove
<1> QED BY <1>1, <1>2, <1>3, <1>4 DEF TradeStep

LEMMA FillsAreVenueFills ==
    ASSUME TypeInv, [Next]_vars, NEW m \in Orders, order'[m].st = "filled"
    PROVE  order'[m] = order[m] \/ VenueFill(m)
<1>0. order \in [Orders -> Order]
  BY DEF TypeInv, VenueTyped
<1>1. CASE UNCHANGED order
  BY <1>1
<1>2. ASSUME NEW k \in Orders, VenueAccept(k) \/ VenueExpire(k) PROVE order'[m] = order[m]
  BY <1>0, <1>2 DEF VenueAccept, VenueExpire, Order
<1>3. ASSUME NEW k \in Orders, VenueFill(k) PROVE order'[m] = order[m] \/ VenueFill(m)
  BY <1>0, <1>3 DEF VenueFill
<1>4. ASSUME NEW t \in Tasks, Send(t) PROVE order'[m] = order[m]
  <2>1. PICK k, r : k = made.orders + 1 /\ r = [sym |-> SymOf(task[t].q), st |-> "sent", pid |-> 0]
    OBVIOUS
  <2>2. r.st = "sent" /\ order' = [order EXCEPT ![k] = r]
    BY <1>4, <2>1 DEF Send
  <2> QED BY <1>0, <2>2
<1>5. ASSUME NEW t \in Tasks, NotAcked(t) PROVE order'[m] = order[m]
  BY <1>0, <1>5 DEF NotAcked, Order
<1>6. ASSUME NEW s, CancelOrders(s) PROVE order'[m] = order[m]
  BY <1>0, <1>6 DEF CancelOrders, Order
<1> QED BY <1>1, <1>2, <1>3, <1>4, <1>5, <1>6, OrderChanges DEF OrderMoves

\* The venue's own record of what it holds, has held and has filled.
VenueShown ==
    /\ \A s \in Symbols : IF venue[s].units = 0 THEN venue[s].pid = 0
                                               ELSE FillOf(venue[s].pid, s)
    /\ \A p \in hist : FillOf(p, order[p].sym) /\ venue[order[p].sym].pid # p
    /\ \A m \in Orders : order[m].st = "filled" => FillOf(order[m].pid, order[m].sym)

LEMMA VenueFillShown ==
    ASSUME TradeInv, NEW m \in Orders, VenueFill(m), OrdersStay PROVE VenueShown'
<1> USE DEF TradeInv
<1>0. PICK s : s = order[m].sym
  OBVIOUS
<1>1. PICK pid : pid = IF venue[s].units = 0 THEN m ELSE venue[s].pid
  OBVIOUS
<1>2. /\ order[m].st = "live" /\ UNCHANGED hist
      /\ order' = [order EXCEPT ![m] = [order[m] EXCEPT !.st = "filled", !.pid = pid]]
      /\ venue' = [venue EXCEPT ![s] = [pid |-> pid, units |-> venue[s].units + 1]]
  BY <1>0, <1>1 DEF VenueFill
<1>3. s \in Symbols /\ venue[s].units \in Nat /\ m # 0
  BY <1>0, BoundsInNat DEF TypeInv, VenueTyped, Order, Position, Orders
<1>4. /\ order'[m].st = "filled" /\ order'[m].pid = pid /\ order'[m].sym = s
      /\ \A k \in Orders : k # m => order'[k] = order[k]
      /\ venue'[s].pid = pid /\ venue'[s].units # 0
      /\ \A x \in Symbols : x # s => venue'[x] = venue[x]
  BY <1>0, <1>2, <1>3 DEF TypeInv, VenueTyped, Order
<1>5. /\ \A x \in Symbols : IF venue[x].units = 0 THEN venue[x].pid = 0
                                                 ELSE FillOf(venue[x].pid, x)
      /\ \A p \in hist : FillOf(p, order[p].sym) /\ venue[order[p].sym].pid # p
      /\ \A k \in Orders : order[k].st = "filled" => FillOf(order[k].pid, order[k].sym)
  BY DEF ShapeInv, FillsShown
<1>6. \A k, x : FillOf(k, x) => FillOf(k, x)'
  BY FillsStay
<1>7. FillOf(m, s)' /\ FillOf(pid, s)'
  <2>1. FillOf(m, s)'
    BY <1>4 DEF FillOf
  <2> QED BY <1>1, <1>3, <1>5, <1>6, <2>1
<1>8. \A x \in Symbols : IF venue'[x].units = 0 THEN venue'[x].pid = 0
                                               ELSE FillOf(venue[x].pid, x)'
  <2> SUFFICES ASSUME NEW x \in Symbols
               PROVE  IF venue'[x].units = 0 THEN venue'[x].pid = 0 ELSE FillOf(venue[x].pid, x)'
    OBVIOUS
  <2>1. CASE x = s
    BY <1>4, <1>7, <2>1 DEF FillOf
  <2>2. CASE x # s
    BY <1>4, <1>5, <2>2, OrdersStay DEF FillOf, OrdersStay
  <2> QED BY <2>1, <2>2
<1>9. ASSUME NEW p \in hist' PROVE FillOf(p, order[p].sym)' /\ venue'[order'[p].sym].pid # p
  <2>1. p \in hist /\ FillOf(p, order[p].sym) /\ venue[order[p].sym].pid # p
    BY <1>2, <1>5, <1>9
  <2>2. p # m /\ p \in Orders /\ order'[p] = order[p] /\ order[p].sym \in Symbols
    BY <1>2, <1>4, <2>1 DEF FillOf, TypeInv, VenueTyped, Order
  <2>3. FillOf(p, order[p].sym)'
    BY <2>1, <2>2 DEF FillOf
  <2>4. venue'[order[p].sym].pid # p
    BY <1>1, <1>4, <2>1, <2>2
  <2> QED BY <2>2, <2>3, <2>4
<1>10. ASSUME NEW k \in Orders, order'[k].st = "filled" PROVE FillOf(order[k].pid, order[k].sym)'
  <2>1. CASE k = m
    BY <1>4, <1>7, <2>1 DEF FillOf
  <2>2. CASE k # m
    <3>1. FillOf(order[k].pid, order[k].sym) /\ order'[k] = order[k]
      BY <1>4, <1>5, <1>10, <2>2
    <3> QED BY <3>1 DEF OrdersStay, FillOf
  <2> QED BY <2>1, <2>2
<1> QED BY <1>8, <1>9, <1>10 DEF VenueShown

LEMMA TakesCloseShown ==
    ASSUME TradeInv, NEW s \in Symbols, NEW pid, NEW vol \in Nat, VenueTakesClose(s, pid, vol)
    PROVE  VenueShown'
<1> USE DEF TradeInv
<1>1. /\ venue[s].units > 0 /\ UNCHANGED order
      /\ \/ venue' = [venue EXCEPT ![s] = Flat] /\ hist' = hist \cup {venue[s].pid}
         \/ /\ ~(vol >= venue[s].units)
            /\ venue' = [venue EXCEPT ![s].units = @ - vol] /\ UNCHANGED hist
  BY DEF VenueTakesClose
<1>2. \A x \in Symbols : x # s => venue'[x] = venue[x]
  BY <1>1 DEF TypeInv, VenueTyped
<1>3. /\ \A x \in Symbols : IF venue[x].units = 0 THEN venue[x].pid = 0
                                                 ELSE FillOf(venue[x].pid, x)
      /\ \A p \in hist : FillOf(p, order[p].sym) /\ venue[order[p].sym].pid # p
      /\ \A k \in Orders : order[k].st = "filled" => FillOf(order[k].pid, order[k].sym)
  BY DEF ShapeInv, FillsShown
<1>4. FillOf(venue[s].pid, s) /\ venue[s].pid \in Orders /\ venue[s].pid # 0
      /\ order[venue[s].pid].sym = s
  BY <1>1, <1>3, BoundsInNat DEF FillOf, Orders
<1>5. CASE venue' = [venue EXCEPT ![s] = Flat] /\ hist' = hist \cup {venue[s].pid}
  <2>1. venue'[s].units = 0 /\ venue'[s].pid = 0
    BY <1>5 DEF Flat, TypeInv, VenueTyped
  <2>2. \A x \in Symbols : IF venue'[x].units = 0 THEN venue'[x].pid = 0
                                                 ELSE FillOf(venue'[x].pid, x)
    BY <1>2, <1>3, <2>1
  <2>3. ASSUME NEW p \in hist' PROVE FillOf(p, order[p].sym) /\ venue'[order[p].sym].pid # p
    <3>1. FillOf(p, order[p].sym) /\ p \in Orders /\ p # 0 /\ order[p].sym \in Symbols
      BY <1>3, <1>4, <1>5, BoundsInNat DEF FillOf, Orders, TypeInv, VenueTyped, Order
    <3>2. CASE order[p].sym = s
      BY <2>1, <3>1, <3>2
    <3>3. CASE order[p].sym # s
      BY <1>2, <1>3, <1>4, <1>5, <3>1, <3>3
    <3> QED BY <3>1, <3>2, <3>3
  <2> QED BY <1>1, <1>3, <2>2, <2>3 DEF VenueShown, FillOf
<1>6. CASE /\ ~(vol >= venue[s].units)
           /\ venue' = [venue EXCEPT ![s].units = @ - vol] /\ UNCHANGED hist
  <2>1. venue'[s].pid = venue[s].pid
    BY <1>6 DEF TypeInv, VenueTyped, Position
  <2>2. venue'[s].units # 0
    <3>1. venue[s].units \in Nat /\ vol < venue[s].units
      BY <1>6 DEF TypeInv, VenueTyped, Position
    <3>2. venue'[s].units = venue[s].units - vol
      BY <1>6 DEF TypeInv, VenueTyped, Position
    <3> QED BY <3>1, <3>2
  <2> QED BY <1>1, <1>2, <1>3, <1>6, <2>1, <2>2 DEF VenueShown, FillOf
<1> QED BY <1>1, <1>5, <1>6

LEMMA VenueShownNext ==
    ASSUME TradeConditions, TradeInv, Next, OrdersStay PROVE VenueShown'
<1> USE DEF TradeInv
<1>1. ASSUME NEW m \in Orders, VenueFill(m) PROVE VenueShown'
  BY <1>1, VenueFillShown
<1>2. ASSUME NEW s \in Symbols, NEW vol \in Nat, NEW pid, VenueTakesClose(s, pid, vol)
      PROVE  VenueShown'
  BY <1>2, TakesCloseShown
<1>3. CASE UNCHANGED <<venue, hist>> /\ ~ \E m \in Orders : VenueFill(m)
  <2>1. \A m \in Orders : order'[m].st = "filled" => order'[m] = order[m]
    BY <1>3, FillsAreVenueFills
  <2>2. /\ \A x \in Symbols : IF venue[x].units = 0 THEN venue[x].pid = 0
                                                   ELSE FillOf(venue[x].pid, x)
        /\ \A p \in hist : FillOf(p, order[p].sym) /\ venue[order[p].sym].pid # p
        /\ \A k \in Orders : order[k].st = "filled" => FillOf(order[k].pid, order[k].sym)
    BY DEF ShapeInv, FillsShown
  <2>3. \A x \in Symbols : IF venue'[x].units = 0 THEN venue'[x].pid = 0
                                                 ELSE FillOf(venue[x].pid, x)'
    BY <1>3, <2>2 DEF OrdersStay, FillOf
  <2>4. ASSUME NEW p \in hist' PROVE FillOf(p, order[p].sym)' /\ venue'[order'[p].sym].pid # p
    <3>1. p \in hist /\ FillOf(p, order[p].sym) /\ venue[order[p].sym].pid # p
      BY <1>3, <2>2, <2>4
    <3>2. order'[p] = order[p]
      BY <3>1 DEF OrdersStay, FillOf
    <3> QED BY <1>3, <3>1, <3>2 DEF FillOf
  <2>5. ASSUME NEW k \in Orders, order'[k].st = "filled" PROVE FillOf(order[k].pid, order[k].sym)'
    <3>1. FillOf(order[k].pid, order[k].sym) /\ order'[k] = order[k]
      BY <2>1, <2>2, <2>5
    <3> QED BY <3>1 DEF OrdersStay, FillOf
  <2> QED BY <2>3, <2>4, <2>5 DEF VenueShown
<1> QED BY <1>1, <1>2, <1>3, VenueRowsMoveSo, TradeSteps DEF VenueRowsMove

LEMMA FillsShownNext ==
    ASSUME TradeConditions, TradeInv, Next, OrdersStay PROVE FillsShown'
<1> USE DEF TradeInv
<1>1. VenueShown'
  BY VenueShownNext
<1>2. ViewsMove
  BY TradeSteps, ViewsMoveSo
<1>3. \A S \in Views' : S \in Views \cup {FreshSnap, NoSnap}
  BY <1>2 DEF ViewsMove, Views
<1>4. ASSUME NEW S \in Views', NEW s \in Symbols, Shows(S, s) PROVE FillOf(S.pos[s].pid, s)
  <2>1. CASE S \in Views
    BY <1>4, <2>1 DEF ShapeInv, FillsShown
  <2>2. CASE S = FreshSnap
    <3>1. S.pos[s] = venue[s]
      BY <2>2 DEF FreshSnap
    <3>2. venue[s].units # 0
      BY <1>4, <3>1 DEF Shows, TypeInv, VenueTyped, Position
    <3> QED BY <3>1, <3>2 DEF ShapeInv, FillsShown
  <2>3. S # NoSnap
    BY <1>4 DEF Shows, NoSnap, Flat
  <2> QED BY <1>3, <2>1, <2>2, <2>3
<1>5. ASSUME NEW S \in Views', NEW s \in Symbols, Shows(S, s)' PROVE FillOf(S.pos[s].pid, s)'
  <2>1. Shows(S, s) /\ S.pos[s].pid' = S.pos[s].pid
    BY <1>5 DEF Shows
  <2>2. FillOf(S.pos[s].pid, s)
    BY <1>4, <2>1
  <2> QED BY <2>2 DEF FillOf, OrdersStay
<1> QED BY <1>1, <1>5 DEF VenueShown, FillsShown

(***************************************************************************)
(* Nothing is there before it is made.                                     *)
(***************************************************************************)
LEMMA OrdersSent ==
    ASSUME TradeConditions, TradeInv, TradeStep
    PROVE  made'.orders = made.orders \/ \E t \in {"sig", "loop"} : Send(t)
<1> USE TaskNames DEF TradeInv
<1>0. made \in [quotes : 0..MaxQuotes, orders : 0..MaxOrders, objs : 0..MaxObjs]
  BY DEF TypeInv, ControlTyped
<1>1. ASSUME NEW s, NEW row, NEW pnl, NEW closed, Adopt(s, row, pnl, closed)
      PROVE  made'.orders = made.orders
  BY <1>0, <1>1 DEF Adopt
<1>2. CASE (\E s \in Symbols : Decide(s)) \/ ArmTaker \/ QuotesStep
           \/ \E t \in {"sig", "loop"} : EntryStep(t)
  BY <1>0, <1>1, <1>2 DEF Decide, DecideIf, ArmTaker, SubmitHead, SubmitIf, EntryStep,
     SubmitRefused, NotAcked, AckTaker, Find, OpenDone, QuotesStep, LoopQuoteUnsent,
     LoopQuoteAsk, LoopQuoteFilled, LoopQuoteUnfilled, LoopCancel
<1>3. CASE TickStep \/ ManageStep
  BY <1>0, <1>1, <1>3 DEF TickStep, LoopPassing, LoopStart, LoopTick, LoopSnapshot, LoopRecovered,
     ManageAll, LoopTrail, LoopKillCheck, LoopMissing, LoopQuotes, LoopAdopt, LoopRecover,
     RecoverUnless, ManageStep, LoopHold, LoopMove, LoopRule, Manage, ManageBelow
<1>4. CASE LeaveStep \/ Environment
  BY <1>4 DEF LeaveStep, CloseSend, CloseReply, CloseBook, LoopVanished, Vanished, Environment,
     VenueAccept, VenueFill, VenueExpire, VenueClose, AttachDone
<1> QED BY <1>2, <1>3, <1>4 DEF TradeStep

LEMMA OrdersNumbered ==
    ASSUME TradeConditions, TradeInv, Next
    PROVE  \A m \in Orders : m > made'.orders => order'[m].st = "none"
<1> USE TaskNames DEF TradeInv
<1>0. /\ order \in [Orders -> Order] /\ made.orders \in Nat /\ Orders \subseteq Nat
      /\ \A m \in Orders : m > made.orders => order[m].st = "none"
  BY BoundsInNat DEF TypeInv, VenueTyped, ControlTyped, Orders, ShapeInv, Numbered
<1> SUFFICES ASSUME NEW m \in Orders, m > made'.orders PROVE order'[m].st = "none"
  OBVIOUS
<1>1. CASE \E t \in {"sig", "loop"} : Send(t)
  <2>1. PICK k, r : /\ k = made.orders + 1 /\ order' = [order EXCEPT ![k] = r]
                    /\ made' = [made EXCEPT !.orders = k]
    BY <1>1 DEF Send
  <2>2. made'.orders = k
    BY <2>1 DEF TypeInv, ControlTyped
  <2>3. m # k /\ m > made.orders
    BY <1>0, <2>1, <2>2
  <2> QED BY <1>0, <2>1, <2>3
<1>2. CASE made'.orders = made.orders
  <2>1. order[m].st = "none"
    BY <1>0, <1>2
  <2>2. ASSUME NEW k \in Orders, VenueAccept(k) \/ VenueFill(k) \/ VenueExpire(k)
        PROVE  order'[m] = order[m]
    BY <1>0, <2>1, <2>2 DEF VenueAccept, VenueFill, VenueExpire
  <2>3. ASSUME NEW t \in Tasks, NotAcked(t) PROVE order'[m] = order[m]
    BY <1>0, <2>1, <2>3 DEF NotAcked
  <2>4. ASSUME NEW t \in Tasks, Send(t) PROVE FALSE
    <3>1. made' = [made EXCEPT !.orders = made.orders + 1]
      BY <2>4 DEF Send
    <3> QED BY <1>0, <1>2, <3>1 DEF TypeInv, ControlTyped
  <2>5. ASSUME NEW s, CancelOrders(s) PROVE order'[m] = order[m]
    BY <1>0, <2>1, <2>5 DEF CancelOrders
  <2> QED BY <2>1, <2>2, <2>3, <2>4, <2>5, OrderChanges DEF OrderMoves
<1> QED BY <1>1, <1>2, OrdersSent, TradeSteps

LEMMA NumberedNext ==
    ASSUME TradeConditions, TradeInv, Next, OrdersStay, ObjsStay PROVE Numbered'
<1> USE DEF TradeInv
<1>1. QuotesKeep'
  BY TradeSteps, QuotesKeepNext
<1>2. \A m \in Orders : m > made'.orders => order'[m].st = "none"
  BY OrdersNumbered
<1>3. \A o \in Objs : o > made'.objs => obj'[o] = NoObj
  BY DEF ObjsStay
<1>4. \A S \in Views' : S.upto <= made'.objs
  <2>1. /\ made.objs \in Nat /\ made'.objs \in Nat /\ made.objs <= made'.objs
        /\ \A S \in Views : S.upto \in Nat /\ S.upto <= made.objs
    <3>1. TypeInv'
      BY TypeInvNext
    <3>2. made.objs \in Nat /\ made'.objs \in Nat
      BY <3>1, BoundsInNat DEF TypeInv, ControlTyped
    <3>3. \A S \in Views : S \in Snapshot
      BY LoopTask DEF TypeInv, CacheTyped, Views, Task
    <3>4. \A S \in Snapshot : S.upto \in Nat
      BY BoundsInNat DEF Snapshot
    <3> QED BY <3>2, <3>3, <3>4 DEF ObjsStay, ShapeInv, Numbered
  <2>2. \A S \in Views' : S \in Views \cup {FreshSnap, NoSnap}
    BY TradeSteps, ViewsMoveSo DEF ViewsMove, Views
  <2>3. FreshSnap.upto = made.objs /\ NoSnap.upto = 0
    BY DEF FreshSnap, NoSnap
  <2> SUFFICES ASSUME NEW S \in Views' PROVE S.upto <= made'.objs
    OBVIOUS
  <2>4. S.upto \in Nat /\ S.upto <= made.objs
    BY <2>1, <2>2, <2>3
  <2> QED BY <2>1, <2>4
<1> QED BY <1>1, <1>2, <1>3, <1>4 DEF QuotesKeep, Numbered

(***************************************************************************)
(* Tasks that run on.                                                      *)
(***************************************************************************)
\* Only t can be about to run on, and what t opens is free and filled.
OpensAlone(t) ==
    /\ \A u \in Tasks : RunsOn(u)' => u = t
    /\ \A u \in Tasks : u # t => task'[u].pc # "open"
    /\ task'[t].pc = "open" =>
         /\ positions'[SymOf(task[t].q)'] = 0
         /\ FillOf(task[t].raw.pid, SymOf(task[t].q))'
         /\ FillOf(task[t].raw.truth, SymOf(task[t].q))'

LEMMA OpensAloneSo ==
    ASSUME TradeConditions, TradeInv, TradeStep, OrdersStay
    PROVE  \E t \in {"sig", "loop"} : OpensAlone(t)
<1> USE TaskNames DEF TradeInv
<1>0. \A u \in Tasks : ~RunsOn(u) => task[u].pc # "open"
  BY DEF RunsOn, TradeConditions
<1>1. ASSUME NEW t \in {"sig", "loop"}, NEW n, Handles(t, n) PROVE OpensAlone(t)
  <2>1. /\ Others(t) /\ quote'[n].sym = quote[n].sym
        /\ task'[t].pc = "open" =>
             /\ task'[t].q = n /\ positions'[SymOf(n)] = 0
             /\ FillOf(task'[t].raw.pid, SymOf(n)) /\ FillOf(task'[t].raw.truth, SymOf(n))
    BY <1>1 DEF Handles, Works, Entering
  <2>2. \A u \in Tasks : RunsOn(u)' => u = t
    BY <2>1, OneRuns
  <2>3. \A u \in Tasks : u # t => task'[u].pc # "open"
    BY <1>0, <2>1 DEF Others
  <2>4. ASSUME task'[t].pc = "open"
        PROVE  /\ positions'[SymOf(task[t].q)'] = 0
               /\ FillOf(task[t].raw.pid, SymOf(task[t].q))'
               /\ FillOf(task[t].raw.truth, SymOf(task[t].q))'
    <3>1. SymOf(task[t].q)' = SymOf(n) /\ positions'[SymOf(n)] = 0
      BY <2>1, <2>4 DEF SymOf
    <3>2. FillOf(task'[t].raw.pid, SymOf(n)) /\ FillOf(task'[t].raw.truth, SymOf(n))
      BY <2>1, <2>4
    <3> QED BY <3>1, <3>2 DEF OrdersStay, FillOf
  <2> QED BY <2>2, <2>3, <2>4 DEF OpensAlone
<1>2. ASSUME NEW x \in Symbols, Decide(x) PROVE OpensAlone("sig")
  <2>1. PICK n : n = made.quotes + 1
    OBVIOUS
  <2>2. Decides(x, n)
    BY <1>2, <2>1, DecideWorks
  <2>3. /\ \A u \in Tasks : ~RunsOn(u) /\ (u # "sig" => task'[u] = task[u])
        /\ task'["sig"].pc = "tick"
    BY <2>2 DEF Decides
  <2>4. \A u \in Tasks : RunsOn(u)' => u = "sig"
    BY <2>3 DEF RunsOn
  <2> QED BY <1>0, <2>3, <2>4 DEF OpensAlone
<1>3. CASE QuotesRest
  <2>1. /\ Others("loop")
        /\ \/ task'["loop"] = task["loop"] /\ ~RunsOn("loop")
           \/ task'["loop"].pc \notin Entering
    BY <1>3 DEF QuotesRest
  <2>2. \A u \in Tasks : RunsOn(u)' => u = "loop"
    BY <2>1, OneRuns
  <2>3. \A u \in Tasks : task'[u].pc # "open"
    BY <1>0, <2>1 DEF Others, Entering
  <2> QED BY <2>2, <2>3 DEF OpensAlone
<1> QED BY <1>1, <1>2, <1>3, QuoteSteps, HandleSteps

LEMMA RunsAloneNext ==
    ASSUME TradeConditions, TradeInv, TradeStep, OrdersStay PROVE RunsAlone'
<1>1. PICK t \in {"sig", "loop"} : OpensAlone(t)
  BY OpensAloneSo
<1>2. ASSUME NEW u \in Tasks, task'[u].pc = "open" PROVE positions'[SymOf(task[u].q)'] = 0
  BY <1>1, <1>2 DEF OpensAlone
<1>3. \A u, v \in Tasks : RunsOn(u)' /\ RunsOn(v)' => u = v
  BY <1>1 DEF OpensAlone
<1> QED BY <1>2, <1>3 DEF RunsAlone, SymOf

LEMMA FillsHeldNext ==
    ASSUME TradeConditions, TradeInv, TradeStep, OrdersStay PROVE FillsHeld'
<1>1. PICK t \in {"sig", "loop"} : OpensAlone(t)
  BY OpensAloneSo
<1>2. ASSUME NEW u \in Tasks, task'[u].pc = "open"
      PROVE  /\ FillOf(task[u].raw.pid, SymOf(task[u].q))'
             /\ FillOf(task[u].raw.truth, SymOf(task[u].q))'
  BY <1>1, <1>2 DEF OpensAlone
<1>3. HeldFills'
  BY TradeBookSteps, HeldFillsKept
<1>4. QuotesKeep'
  BY QuotesKeepNext
<1> QED BY <1>2, <1>3, <1>4 DEF FillsHeld, HeldFills, QuotesKeep

(***************************************************************************)
(* What the loop has at hand.                                              *)
(***************************************************************************)
\* A loop that takes no step and does not run on.
LEMMA LoopStaysShaped ==
    ASSUME TradeConditions, TradeInv, OrdersStay, ObjsStay,
           task'["loop"] = task["loop"], ~RunsOn("loop")
    PROVE  Phases(task["loop"])' /\ Adopting(task["loop"])'
<1> USE TaskNames DEF TradeInv
<1>0. PICK T : T = task["loop"]
  OBVIOUS
<1>1. Phases(T) /\ Adopting(T) /\ Steady(T) /\ T.o <= made.objs
  BY <1>0, LoopTask DEF ShapeInv, LoopShape, MadeInv, MadeTasks, MadeTask
<1>2. T.pc = "history" => obj'[T.o].sym = obj[T.o].sym
  BY <1>1 DEF Steady, ObjsStay
<1>3. Phases(task["loop"])'
  BY <1>0, <1>1, <1>2 DEF Phases, Shows
<1>4. ASSUME T.pc = "adopt" PROVE order'[T.raw.pid].sym = order[T.raw.pid].sym /\ T.q = 0
  <2>1. PICK s : s = order[T.raw.pid].sym
    OBVIOUS
  <2>2. T.raw.pid \in Orders /\ s \in Symbols
    BY <1>1, <1>4, <2>1 DEF Steady, TypeInv, VenueTyped, Order
  <2>3. T.raw = RowOf(T.snap.pos[s]) /\ Shows(T.snap, s)
    BY <1>1, <1>4, <2>1 DEF Adopting
  <2>4. FillOf(T.snap.pos[s].pid, s)
    BY <1>0, <2>2, <2>3 DEF ShapeInv, FillsShown, Views
  <2>5. FillOf(T.raw.pid, s)
    BY <2>3, <2>4 DEF RowOf
  <2>6. T.q = 0
    BY <1>0, <1>4 DEF RunsOn, TradeConditions
  <2> QED BY <2>1, <2>5, <2>6 DEF FillOf, OrdersStay
<1>5. Adopting(task["loop"])'
  BY <1>0, <1>1, <1>4 DEF Adopting, Shows
<1> QED BY <1>3, <1>5

\* The loop at work on a quote.
LEMMA HandlesShaped ==
    ASSUME TradeInv, NEW n, Handles("loop", n)
    PROVE  Phases(task["loop"])' /\ Adopting(task["loop"])' /\ Held' = {}
<1>1. PICK T : T = task'["loop"]
  OBVIOUS
<1>2. /\ task["loop"].then = "quotes" /\ T.then = "quotes" /\ T.snap = task["loop"].snap
      /\ T.pc \in {"quotes"} \cup (Entering \ {"tick"}) \cup Asking
      /\ T.pc \in Entering \cup Asking => T.q = n /\ n \notin T.todo
  BY <1>1 DEF Handles, Works, Caller
<1>3. T.snap = NoSnap
  BY <1>2 DEF TradeInv, ShapeInv, LoopShape, Phases
<1>4. Phases(T)'
  BY <1>2, <1>3 DEF Phases, Entering, Asking, Leaving
<1>5. Adopting(T)'
  BY <1>2 DEF Adopting, Entering, Asking
<1>6. Held' = {}
  BY <1>1, <1>2 DEF Held, HeldOf
<1> QED BY <1>1, <1>4, <1>5, <1>6 DEF Phases, Adopting

\* What every step leaves of the loop's locals.
LEMMA LoopNext ==
    ASSUME TradeConditions, TradeInv, Next
    PROVE  /\ task'["loop"].pc \in Leaving \cup {"trail", "history"} => task'["loop"].o # 0
           /\ task'["loop"].then = "recover" <=> task'["loop"].pc \in {"recover", "adopt"}
           /\ task'["loop"].pc = "manage" => task'["loop"].then = "manage"
<1>1. TypeInv' /\ MadeInv'
  BY TypeInvNext, MadeInvNext DEF TradeInv, TradeConditions
<1>2. Steady(task["loop"])' /\ MadeTask(task["loop"], made.objs)'
  BY <1>1, TaskNames DEF TypeInv, TaskTyped, MadeInv, MadeTasks
<1>3. \A o \in Objs : o # 0
  BY BoundsInNat DEF Objs
<1> QED BY <1>2, <1>3 DEF Steady, MadeTask, Leaving

\* The loop at rest in a phase, or at a position of which it has all it needs.
LEMMA ManagingShaped ==
    ASSUME TradeConditions, TradeInv, Next,
           task["loop"].then = "manage", task'["loop"].then = "manage",
           task'["loop"].snap = task["loop"].snap,
           task'["loop"].pc \in Leaving \cup {"manage", "trail"}
    PROVE  Phases(task["loop"])' /\ Adopting(task["loop"])'
<1>1. task["loop"].snap.ok
  BY DEF TradeInv, ShapeInv, LoopShape, Phases
<1>2. Phases(task["loop"])'
  BY <1>1, LoopNext DEF Phases, Leaving, Entering, Asking
<1>3. Adopting(task["loop"])'
  BY DEF Adopting, Leaving
<1> QED BY <1>2, <1>3

LEMMA PassingShaped ==
    ASSUME TradeConditions, TradeInv, Next, LoopPassing
    PROVE  Phases(task["loop"])' /\ Adopting(task["loop"])'
<1> USE TaskNames DEF TradeInv
<1>0. task["loop"] \in Task /\ Phases(task["loop"])
  BY DEF TypeInv, TaskTyped, ShapeInv, LoopShape
<1>1. CASE LoopStart \/ LoopTick
  <2>1. /\ task["loop"].pc \in {"start", "idle"}
        /\ \E pc \in {"idle", "balance"} : GoesTo("loop", pc, task["loop"].q)
    BY <1>1, GotoGoes DEF LoopStart, LoopTick, At
  <2>2. /\ task'["loop"].pc \in {"idle", "balance"} /\ task'["loop"].then = "idle"
        /\ task'["loop"].snap = NoSnap
    BY <1>0, <2>1 DEF GoesTo, Phases
  <2> QED BY <2>2 DEF Phases, Adopting, Leaving, Entering, Asking
<1>2. CASE LoopSnapshot
  <2>1. PICK snap : /\ PositionsCached(snap)
                    /\ task' = [task EXCEPT !["loop"] = [task["loop"] EXCEPT !.pc = "recover",
                          !.then = "recover", !.snap = snap,
                          !.syms = {s \in Symbols : snap.pos[s].units > 0}]]
    BY <1>2 DEF LoopSnapshot
  <2>2. snap.ok
    BY <2>1, LookSees
  <2> DEFINE U == [task["loop"] EXCEPT !.pc = "recover", !.then = "recover", !.snap = snap,
                          !.syms = {s \in Symbols : snap.pos[s].units > 0}]
  <2>3. /\ U.pc = "recover" /\ U.then = "recover" /\ U.snap = snap
        /\ U.syms = {s \in Symbols : snap.pos[s].units > 0}
    BY <1>0 DEF Task
  <2>4. task' = [task EXCEPT !["loop"] = U]
    BY <2>1
  <2> HIDE DEF U
  <2>5. task'["loop"] = U
    BY <2>4 DEF TypeInv, TaskTyped
  <2> QED BY <2>2, <2>3, <2>5 DEF Phases, Adopting, Leaving, Entering, Asking, Shows
<1>3. CASE LoopRecovered
  <2> DEFINE U == [task["loop"] EXCEPT !.pc = "manage", !.then = "manage",
                          !.todo = {positions[s] : s \in Managed}]
  <2>1. U.pc = "manage" /\ U.then = "manage" /\ U.snap = task["loop"].snap
    BY <1>0 DEF Task
  <2>2. task' = [task EXCEPT !["loop"] = U] /\ task["loop"].pc = "recover"
    BY <1>3 DEF LoopRecovered, ManageAll, At
  <2> HIDE DEF U
  <2>3. task'["loop"] = U /\ task["loop"].then = "recover"
    BY <2>2, LoopTask DEF TypeInv, TaskTyped, Steady
  <2>4. task["loop"].snap.ok
    BY <1>0, <2>3 DEF Phases
  <2> QED BY <2>1, <2>3, <2>4 DEF Phases, Adopting, Leaving, Entering, Asking
<1>4. CASE LoopTrail
  <2>1. ComesBack("loop") /\ task["loop"].pc = "trail"
    BY <1>4, BackGoes DEF LoopTrail, At
  <2>2. task["loop"].then = "manage"
    BY <1>0, <2>1 DEF Phases
  <2> QED BY <2>1, <2>2, ManagingShaped DEF ComesBack, GoesTo
<1>5. CASE LoopKillCheck
  <2>1. task' = [task EXCEPT !["loop"] = IdleTask]
    BY <1>5 DEF LoopKillCheck, TradeConditions
  <2>2. IdleTask.pc = "idle" /\ IdleTask.then = "idle" /\ IdleTask.snap = NoSnap
    BY DEF IdleTask
  <2>3. task'["loop"] = IdleTask
    BY <2>1 DEF TypeInv, TaskTyped
  <2> QED BY <2>2, <2>3 DEF Phases, Adopting, Leaving, Entering, Asking
<1>6. ASSUME NEW o \in Objs, LoopMissing(o)
      PROVE  Phases(task["loop"])' /\ Adopting(task["loop"])'
  <2> DEFINE U == [task["loop"] EXCEPT !.pc = "history", !.todo = task["loop"].todo \ {o}, !.o = o]
  <2>1. U.pc = "history" /\ U.then = task["loop"].then /\ U.snap = task["loop"].snap /\ U.o = o
    BY <1>0 DEF Task
  <2>2. /\ task' = [task EXCEPT !["loop"] = U] /\ task["loop"].pc = "manage"
        /\ UNCHANGED obj /\ ~Shows(task["loop"].snap, obj[o].sym)
    BY <1>6 DEF LoopMissing, At, Misses, Seen, Shows
  <2> HIDE DEF U
  <2>3. task'["loop"] = U /\ task["loop"].then = "manage"
    BY <2>2 DEF TypeInv, TaskTyped, MadeInv, MadeTasks, MadeTask
  <2>4. task["loop"].snap.ok /\ o # 0
    BY <1>0, <2>3, BoundsInNat DEF Phases, Objs
  <2> QED BY <2>1, <2>2, <2>3, <2>4 DEF Phases, Adopting, Leaving, Entering, Asking, Shows
<1> QED BY <1>1, <1>2, <1>3, <1>4, <1>5, <1>6 DEF LoopPassing

LEMMA RecoverShaped ==
    ASSUME TradeConditions, TradeInv, NEW x \in Symbols, LoopRecover(x)
    PROVE  Phases(task["loop"])' /\ Adopting(task["loop"])'
<1> USE TaskNames DEF TradeInv
<1>0. PICK T : T = task["loop"]
  OBVIOUS
<1>1. /\ T.pc = "recover" /\ x \in T.syms /\ T \in Task /\ UNCHANGED <<order, quote, positions>>
  BY <1>0 DEF LoopRecover, RecoverUnless, At, venueVars, bookVars, TypeInv, TaskTyped
<1>2. T.then = "recover" /\ Phases(T)
  BY <1>0, <1>1, LoopTask DEF Steady, ShapeInv, LoopShape
<1>3. T.snap.ok /\ \A s \in T.syms : Shows(T.snap, s)
  BY <1>2 DEF Phases
<1>4. CASE positions[x] # 0
  <2> DEFINE U == [T EXCEPT !.syms = T.syms \ {x}]
  <2>1. U.pc = "recover" /\ U.snap = T.snap /\ U.then = "recover" /\ U.syms = T.syms \ {x}
    BY <1>1, <1>2 DEF Task
  <2>2. task' = [task EXCEPT !["loop"] = U]
    BY <1>0, <1>4 DEF LoopRecover, RecoverUnless
  <2> HIDE DEF U
  <2>3. task'["loop"] = U
    BY <2>2 DEF TypeInv, TaskTyped
  <2> QED BY <1>3, <2>1, <2>3 DEF Phases, Adopting, Leaving, Entering, Asking, Shows
<1>5. CASE positions[x] = 0
  <2> DEFINE R == [T EXCEPT !.syms = T.syms \ {x}]
             U == [R EXCEPT !.pc = "adopt", !.q = quotes[x], !.raw = RowOf(R.snap.pos[x])]
  <2>1. /\ U.pc = "adopt" /\ U.snap = T.snap /\ U.then = "recover" /\ U.q = quotes[x]
        /\ U.raw = RowOf(T.snap.pos[x]) /\ U.syms = T.syms \ {x}
    BY <1>1, <1>2 DEF Task
  <2>2. task' = [task EXCEPT !["loop"] = U]
    BY <1>0, <1>5 DEF LoopRecover, RecoverUnless
  <2> HIDE DEF R, U
  <2>3. task'["loop"] = U
    BY <2>2 DEF TypeInv, TaskTyped
  <2>4. Phases(task["loop"])'
    BY <1>3, <2>1, <2>3 DEF Phases, Leaving, Entering, Asking, Shows
  <2>5. Shows(T.snap, x) /\ FillOf(T.snap.pos[x].pid, x)
    BY <1>0, <1>1, <1>3 DEF ShapeInv, FillsShown, Views
  <2>6. order'[U.raw.pid].sym = x
    BY <1>1, <2>1, <2>5 DEF RowOf, FillOf
  <2>7. quotes[x] # 0 => quote'[quotes[x]].sym = x
    BY <1>1 DEF ShapeInv, QuotesMade, SymOf
  <2>8. PICK V : V = task'["loop"]
    OBVIOUS
  <2>9. /\ V.raw = RowOf(V.snap.pos[x]) /\ V.snap.pos[x].units > 0
        /\ V.q # 0 => quote'[V.q].sym = x /\ positions'[x] = 0
        /\ order'[V.raw.pid].sym = x
    BY <1>1, <1>5, <2>1, <2>3, <2>5, <2>6, <2>7, <2>8 DEF Shows
  <2>10. Adopting(task["loop"])'
    BY <2>8, <2>9 DEF Adopting, Shows, SymOf
  <2> QED BY <2>4, <2>10
<1> QED BY <1>4, <1>5

LEMMA AdoptShaped ==
    ASSUME TradeConditions, TradeInv, LoopAdopt
    PROVE  Phases(task["loop"])' /\ Adopting(task["loop"])' /\ Held' = {}
<1> USE TaskNames DEF TradeInv
<1>1. task["loop"].pc = "adopt" /\ ComesBack("loop") /\ Phases(task["loop"])
  BY BackGoes DEF LoopAdopt, At, ShapeInv, LoopShape
<1>2. task["loop"].then = "recover" /\ task["loop"] \in Task
  BY <1>1, LoopTask DEF Steady
<1> DEFINE R == Return(task["loop"])
<1>3. R.syms = task["loop"].syms
  BY <1>2 DEF Return, Task
<1>4. task' = [task EXCEPT !["loop"] = R]
  BY DEF LoopAdopt, Back
<1> HIDE DEF R
<1>5. task'["loop"].syms = task["loop"].syms
  BY <1>3, <1>4 DEF TypeInv, TaskTyped
<1>6. /\ task'["loop"].pc = "recover" /\ task'["loop"].then = "recover"
      /\ task'["loop"].snap = task["loop"].snap
  BY <1>1, <1>2 DEF ComesBack, GoesTo
<1>7. Phases(task["loop"])'
  BY <1>1, <1>2, <1>5, <1>6 DEF Phases, Leaving, Entering, Asking, Shows
<1>8. Adopting(task["loop"])' /\ Held' = {}
  BY <1>6 DEF Adopting, Held, HeldOf
<1> QED BY <1>7, <1>8

LEMMA QuotesShaped ==
    ASSUME TradeConditions, TradeInv, LoopQuotes
    PROVE  Phases(task["loop"])' /\ Adopting(task["loop"])'
<1> USE TaskNames DEF TradeInv
<1> DEFINE U == [task["loop"] EXCEPT !.pc = "quotes", !.then = "quotes",
                    !.todo = {quotes[x] : x \in Symbols} \ {0}]
<1>1. /\ task["loop"].pc = "balance" /\ Phases(task["loop"])
      /\ task' = [task EXCEPT !["loop"] = U]
  BY DEF LoopQuotes, At, ShapeInv, LoopShape
<1>2. U.pc = "quotes" /\ U.then = "quotes" /\ U.snap = task["loop"].snap
  BY DEF TypeInv, TaskTyped, Task
<1> HIDE DEF U
<1>3. task'["loop"] = U /\ task["loop"].snap = NoSnap
  BY <1>1 DEF TypeInv, TaskTyped, Phases
<1> QED BY <1>2, <1>3 DEF Phases, Adopting, Leaving, Entering, Asking

\* What the loop does in a tick leaves its locals in shape.
LEMMA LoopKeepsShape ==
    ASSUME TradeConditions, TradeInv, Next, TickStep \/ ManageStep \/ LeaveStep
    PROVE  Phases(task["loop"])' /\ Adopting(task["loop"])'
<1> USE TaskNames DEF TradeInv
<1>1. CASE TickStep
  BY <1>1, PassingShaped, RecoverShaped, AdoptShaped, QuotesShaped DEF TickStep
<1>2. CASE ManageStep
  <2>1. PICK o \in Objs : LoopHold(o) \/ LoopMove(o) \/ LoopRule(o)
    BY <1>2 DEF ManageStep
  <2>2. /\ task["loop"].then = "manage" /\ task'["loop"].then = "manage"
        /\ task'["loop"].snap = task["loop"].snap
        /\ task'["loop"].pc \in {"manage", "trail", "close"}
    BY <2>1, ManageWorks
  <2> QED BY <2>2, ManagingShaped DEF Leaving
<1>3. CASE CloseSend("loop") \/ CloseReply("loop")
  <2>1. PICK o, x : o = task["loop"].o /\ x = obj[o].sym
    OBVIOUS
  <2>2. /\ task["loop"].then = "manage" /\ task'["loop"].then = "manage"
        /\ task'["loop"].snap = task["loop"].snap /\ task'["loop"].pc \in Leaving \cup {"manage"}
    BY <1>3, <2>1, ClosingWorks
  <2> QED BY <2>2, ManagingShaped
<1>4. CASE CloseBook("loop") \/ LoopVanished
  <2>1. ComesBack("loop") /\ task["loop"].pc \in {"resolve", "history"}
    BY <1>4, BackGoes DEF CloseBook, LoopVanished, Vanished, At
  <2>2. task["loop"].then = "manage"
    BY <2>1 DEF ShapeInv, LoopShape, Phases, Leaving
  <2> QED BY <2>1, <2>2, ManagingShaped DEF ComesBack, GoesTo
<1> QED BY <1>1, <1>2, <1>3, <1>4 DEF LeaveStep

\* A step that is not of the loop leaves it where it is.
LEMMA LoopWaits ==
    ASSUME TradeConditions, TradeInv,
           (\E s \in Symbols : Decide(s)) \/ HandleStep("sig") \/ Environment
    PROVE  task'["loop"] = task["loop"] /\ ~RunsOn("loop")
<1> USE TaskNames DEF TradeInv
<1>1. ASSUME NEW x \in Symbols, Decide(x) PROVE task'["loop"] = task["loop"] /\ ~RunsOn("loop")
  <2>1. PICK n : n = made.quotes + 1
    OBVIOUS
  <2>2. Decides(x, n)
    BY <1>1, <2>1, DecideWorks
  <2> QED BY <2>2 DEF Decides
<1>2. CASE HandleStep("sig")
  <2>1. PICK n : Handles("sig", n)
    BY <1>2, HandleSteps
  <2> QED BY <2>1 DEF Handles, Works, Others
<1>3. CASE Environment
  BY <1>3 DEF Environment, VenueAccept, VenueFill, VenueExpire, VenueClose, AttachDone, Quiet
<1> QED BY <1>1, <1>2, <1>3

\* The loop takes objects to go through only at the start of a pass.
LEMMA HeldShrinks ==
    ASSUME TradeConditions, TradeInv, TradeStep, ~LoopRecovered
    PROVE  Held' \subseteq Held
<1> USE TaskNames DEF TradeInv
<1>0. ~BadFills /\ Operations = {} /\ HeldInv
  BY DEF TradeConditions, BookInv
<1>1. CASE (\E s \in Symbols : Decide(s)) \/ HandleStep("sig") \/ Environment
  BY <1>1, LoopWaits DEF Held
<1>2. CASE HandleStep("loop")
  <2>1. PICK n : Handles("loop", n)
    BY <1>2, HandleSteps
  <2> QED BY <2>1, HandlesShaped
<1>3. CASE TickStep
  <2>1. CASE LoopStart \/ LoopTick \/ LoopQuotes \/ LoopSnapshot \/ LoopKillCheck
    BY <1>0, <2>1, PhaseMoves
  <2>2. CASE LoopTrail \/ LoopAdopt \/ \E s \in Symbols : LoopRecover(s)
    BY <2>2, TickMoves, LoopMoves
  <2>3. CASE \E o \in Objs : LoopMissing(o)
    BY <1>0, <2>3, ManageMoves
  <2> QED BY <1>3, <2>1, <2>2, <2>3 DEF TickStep, LoopPassing
<1>4. CASE ManageStep
  BY <1>0, <1>4, ManageMoves DEF ManageStep
<1>5. CASE LeaveStep
  <2>1. CASE Closing("loop")
    <3>1. Moves("loop", Midway)
      BY <2>1, ClosingMoves, WiderMoves DEF Midway
    <3> QED BY <3>1, LoopMoves
  <2>2. CASE LoopVanished
    BY <2>2, TickMoves, LoopMoves
  <2> QED BY <1>5, <2>1, <2>2 DEF LeaveStep, Closing
<1> QED BY <1>1, <1>2, <1>3, <1>4, <1>5 DEF TradeStep, HandleStep

\* An object held is the one managed of its symbol.
LEMMA HeldStays ==
    ASSUME TradeConditions, TradeInv, Next, TradeStep, BookUnmoved \/ Adopts \/ Marks
    PROVE  \A y \in Held' : positions'[obj'[y].sym] = y
<1> USE TaskNames DEF TradeInv
<1>1. CASE LoopRecovered
  <2> DEFINE U == [task["loop"] EXCEPT !.pc = "manage", !.then = "manage",
                          !.todo = {positions[s] : s \in Managed}]
  <2>1. U.then = "manage" /\ U.todo = {positions[s] : s \in Managed} /\ U.o = task["loop"].o
    BY DEF TypeInv, TaskTyped, Task
  <2>2. /\ task' = [task EXCEPT !["loop"] = U] /\ task["loop"].pc = "recover"
        /\ UNCHANGED <<positions, obj>>
    BY <1>1 DEF LoopRecovered, ManageAll, At, bookVars
  <2> HIDE DEF U
  <2>3. task'["loop"] = U
    BY <2>2 DEF TypeInv, TaskTyped
  <2>4. task["loop"].o = 0
    BY <2>2 DEF OnlyLoop, Hands, Resting
  <2>5. Held' = {positions[s] : s \in Managed}
    BY <2>1, <2>3, <2>4 DEF Held, HeldOf
  <2>6. \A s \in Managed : positions[obj[positions[s]].sym] = positions[s]
    BY DEF BookInv
  <2> QED BY <2>2, <2>5, <2>6
<1>2. CASE ~LoopRecovered
  <2>1. \A y \in Held' : /\ y \in Held /\ y \in Objs /\ y # 0 /\ y <= made.objs
                         /\ obj[y].sym \in Symbols /\ positions[obj[y].sym] = y
    BY <1>2, HeldShrinks, HeldIsManaged
  <2>2. CASE BookUnmoved
    BY <2>1, <2>2 DEF BookUnmoved
  <2>3. CASE Adopts
    <3>1. PICK x \in Symbols : /\ \E row, pnl, closed : Adopt(x, row, pnl, closed)
                               /\ positions[x] = 0 \/ Held' = {}
      BY <2>3 DEF Adopts
    <3>2. PICK o : o = made.objs + 1
      OBVIOUS
    <3>3. /\ \A y \in Objs : y # o => obj'[y] = obj[y]
          /\ \A s \in Symbols : s # x => positions'[s] = positions[s]
      BY <3>1, <3>2, AdoptNew
    <3>4. \A y \in Objs : y <= made.objs => y # o
      <4>1. made.objs \in Nat /\ Objs \subseteq Nat
        BY BoundsInNat DEF TypeInv, ControlTyped, Objs
      <4> QED BY <3>2, <4>1
    <3>5. ASSUME NEW y \in Held' PROVE positions'[obj'[y].sym] = y
      <4>1. obj'[y] = obj[y] /\ obj[y].sym # x
        BY <2>1, <3>1, <3>3, <3>4, <3>5
      <4> QED BY <2>1, <3>3, <3>5, <4>1
    <3> QED BY <3>5
  <2>4. CASE Marks
    <3>1. PICK o \in Held : \E id \in HistoryIds(o), why \in CloseReasons :
              MarkClosed(o, id, why)
      BY <2>4 DEF Marks
    <3>2. PICK x : x = obj[o].sym
      OBVIOUS
    <3>3. /\ positions'[x] = 0 /\ \A s \in Symbols : s # x => positions'[s] = positions[s]
          /\ \A y \in Objs : y # o => obj'[y] = obj[y]
          /\ obj'[o].sym = x
      BY <3>1, <3>2, MarkedFacts
    <3>4. \A y \in Held' : positions'[obj'[y].sym] # 0
      <4>1. BookInv'
        BY BookInvNext DEF TradeConditions
      <4> QED BY <4>1 DEF BookInv, HeldInv
    <3>5. ASSUME NEW y \in Held' PROVE positions'[obj'[y].sym] = y
      <4>1. y # o
        BY <3>3, <3>4, <3>5
      <4>2. obj'[y] = obj[y]
        BY <2>1, <3>3, <3>5, <4>1
      <4>3. obj[y].sym # x
        BY <3>3, <3>4, <3>5, <4>2
      <4> QED BY <2>1, <3>3, <3>5, <4>2, <4>3
    <3> QED BY <3>5
  <2> QED BY <2>2, <2>3, <2>4
<1> QED BY <1>1, <1>2

\* The scoring task.
LEMMA SigShaped ==
    ASSUME TradeConditions, TradeInv, TradeStep
    PROVE  task'["sig"].pc \in Entering \cup {"idle"} /\ task'["sig"].then = "idle"
<1> USE TaskNames DEF TradeInv
<1>0. task["sig"].pc \in Entering \cup {"idle"} /\ task["sig"].then = "idle"
  BY DEF ShapeInv, LoopShape
<1>1. ASSUME NEW n, Handles("sig", n)
      PROVE  task'["sig"].pc \in Entering \cup {"idle"} /\ task'["sig"].then = "idle"
  BY <1>0, <1>1 DEF Handles, Works, Caller
<1>2. ASSUME NEW n, Handles("loop", n)
      PROVE  task'["sig"].pc \in Entering \cup {"idle"} /\ task'["sig"].then = "idle"
  BY <1>0, <1>2 DEF Handles, Works, Others
<1>3. ASSUME NEW x \in Symbols, Decide(x)
      PROVE  task'["sig"].pc \in Entering \cup {"idle"} /\ task'["sig"].then = "idle"
  <2>1. PICK n : n = made.quotes + 1
    OBVIOUS
  <2>2. Decides(x, n)
    BY <1>3, <2>1, DecideWorks
  <2> QED BY <1>0, <2>2 DEF Decides, Entering
<1>4. CASE QuotesRest
  BY <1>0, <1>4 DEF QuotesRest, Others
<1> QED BY <1>1, <1>2, <1>3, <1>4, QuoteSteps, HandleSteps

LEMMA LoopShapeNext ==
    ASSUME TradeConditions, TradeInv, Next, TradeStep, OrdersStay, ObjsStay,
           BookUnmoved \/ Adopts \/ Marks
    PROVE  LoopShape'
<1> USE TaskNames DEF TradeInv
<1>1. Phases(task["loop"])' /\ Adopting(task["loop"])'
  <2>1. CASE (\E s \in Symbols : Decide(s)) \/ HandleStep("sig") \/ Environment
    BY <2>1, LoopWaits, LoopStaysShaped
  <2>2. CASE HandleStep("loop")
    BY <2>2, HandleSteps, HandlesShaped
  <2>3. CASE TickStep \/ ManageStep \/ LeaveStep
    BY <2>3, LoopKeepsShape
  <2> QED BY <2>1, <2>2, <2>3 DEF TradeStep, HandleStep
<1>2. \A y \in Held' : positions'[obj'[y].sym] = y
  BY HeldStays
<1>3. task'["sig"].pc \in Entering \cup {"idle"} /\ task'["sig"].then = "idle"
  BY SigShaped
<1>4. ~ctl'.stop /\ ~ctl'.emergency /\ ctl'.running
  BY FlagsStay DEF ShapeInv, LoopShape
<1> QED BY <1>1, <1>2, <1>3, <1>4 DEF LoopShape

(***************************************************************************)
(* The invariant.                                                          *)
(***************************************************************************)
LEMMA ShapeInvNext ==
    ASSUME TradeConditions, TradeInv, Next PROVE ShapeInv'
<1>1. TradeStep
  BY TradeSteps
<1>2. OrdersStay
  BY OrdersStaySo DEF TradeInv, NamedInv, RowsNamed
<1>3. BookUnmoved \/ Adopts \/ Marks
  BY <1>1, TradeBookSteps
<1>4. ObjsStay
  BY <1>3, ObjsStaySo
<1>5. Numbered' /\ QuotesMade' /\ RunsAlone' /\ FillsShown' /\ FillsHeld'
  BY <1>1, <1>2, <1>4, NumberedNext, QuotesMadeNext, RunsAloneNext, FillsShownNext, FillsHeldNext
<1>6. LoopShape'
  BY <1>1, <1>2, <1>3, <1>4, LoopShapeNext
<1>7. KeysSpent'
  BY <1>3, KeysSpentNext
<1> QED BY <1>5, <1>6, <1>7 DEF ShapeInv

LEMMA StutterShape ==
    ASSUME ShapeInv, UNCHANGED vars PROVE ShapeInv'
<1>0. /\ UNCHANGED <<order, venue, hist, quotes, quote, positions, obj, closedKeys>>
      /\ UNCHANGED <<cache, attach, ctl, task, made>>
  BY DEF vars
<1>1. Numbered'
  BY <1>0 DEF ShapeInv, Numbered, SymOf, Views
<1>2. QuotesMade'
  BY <1>0 DEF ShapeInv, QuotesMade, SymOf
<1>3. RunsAlone'
  BY <1>0 DEF ShapeInv, RunsAlone, RunsOn, SymOf
<1>4. FillsShown'
  BY <1>0 DEF ShapeInv, FillsShown, FillOf, Views, Shows
<1>5. FillsHeld'
  BY <1>0 DEF ShapeInv, FillsHeld, FillOf, SymOf
<1>6. LoopShape'
  BY <1>0 DEF ShapeInv, LoopShape, Phases, Adopting, Held, HeldOf, Shows, SymOf
<1>7. KeysSpent'
  BY <1>0 DEF ShapeInv, KeysSpent, Booked
<1> QED BY <1>1, <1>2, <1>3, <1>4, <1>5, <1>6, <1>7 DEF ShapeInv

LEMMA StutterAccounted ==
    ASSUME UNCHANGED vars, NEW s \in Symbols, Accounted(s) PROVE Accounted(s)'
<1>0. /\ UNCHANGED <<order, venue, hist, quotes, quote, positions, obj, closedKeys>>
      /\ UNCHANGED <<cache, attach, ctl, task, made>>
  BY DEF vars
<1>1. CASE Lost(s)
  BY <1>0, <1>1 DEF Accounted, Lost, Strayed, Confused, Misnamed, SymOf
<1>2. ASSUME NEW c, NEW m, Epoch(s, c, m) PROVE Epoch(s, c, m)'
  <2>1. Latest(s, c, m)'
    BY <1>0, <1>2 DEF Epoch, Latest, OrderOf, SymOf
  <2>2. OrdersOf(s, m)'
    BY <1>0, <1>2 DEF Epoch, OrdersOf, Pending, FillOf
  <2>3. VenueOf(s, m)' /\ ViewsOf(s, m)' /\ PositionOf(s, m)'
    BY <1>0, <1>2 DEF Epoch, VenueOf, ViewsOf, PositionOf, Views, Shows
  <2>4. PendingOf(s, c, m)'
    BY <1>0, <1>2 DEF Epoch, PendingOf
  <2>5. EntryOf(task["sig"], s, c, m)' /\ EntryOf(task["loop"], s, c, m)'
    BY <1>0, <1>2 DEF Epoch, EntryOf, On, SymOf
  <2>6. CopyOf(s, c, m)'
    BY <1>0, <1>2 DEF Epoch, CopyOf, On, SymOf, Current, Pending, Views, Shows
  <2>7. CloseOf(task["loop"], s)'
    BY <1>0, <1>2 DEF Epoch, CloseOf
  <2>8. AgeOf(s)'
    BY <1>0, <1>2 DEF Epoch, AgeOf, Views, Shows
  <2>9. FreeOf(s, m)'
    BY <1>0, <1>2 DEF Epoch, FreeOf, Free, Busy, RunsOn, SymOf, Pending, Views, Shows, Done
  <2> QED BY <2>1, <2>2, <2>3, <2>4, <2>5, <2>6, <2>7, <2>8, <2>9 DEF Epoch
<1> QED BY <1>1, <1>2 DEF Accounted

LEMMA ExposureInvNext ==
    ASSUME TradeConditions, ExposureInv, [Next]_vars PROVE ExposureInv'
<1> USE DEF ExposureInv, TradeInv
<1>1. TypeInv' /\ MadeInv'
  BY TypeInvNext, MadeInvNext
<1>2. LedgerInv' /\ NamedInv' /\ OnlyLoop' /\ BookInv'
  BY <1>1, LedgerInvNext, NamedInvNext, BookInvNext DEF TradeConditions
<1>3. CASE Next
  <2>1. ShapeInv'
    BY <1>3, ShapeInvNext
  <2>2. ASSUME NEW s \in Symbols PROVE Accounted(s)'
    <3>1. CASE Lost(s)
      BY <1>3, <3>1, TradeSteps, LostStays DEF Accounted
    <3>2. ASSUME NEW c, NEW m, Epoch(s, c, m) PROVE Accounted(s)'
      BY <1>3, <3>2, EpochNext
    <3> QED BY <3>1, <3>2 DEF Accounted
  <2> QED BY <1>1, <1>2, <2>1, <2>2
<1>4. CASE UNCHANGED vars
  BY <1>1, <1>2, <1>4, StutterShape, StutterAccounted
<1> QED BY <1>3, <1>4

LEMMA ExposureInvInit == Init => ExposureInv
<1> SUFFICES ASSUME Init PROVE ExposureInv
  OBVIOUS
<1> USE TaskNames
<1>0. /\ task["loop"] = [IdleTask EXCEPT !.pc = "start"]
      /\ task["sig"] = IdleTask /\ task["op"] = IdleTask
  BY DEF Init
<1>1. /\ task["loop"].pc = "start" /\ task["sig"].pc = "idle" /\ task["op"].pc = "idle"
      /\ \A t \in Tasks : /\ task[t].then = "idle" /\ task[t].q = 0 /\ task[t].o = 0
                          /\ task[t].todo = {} /\ task[t].snap = NoSnap /\ task[t].raw = NoRaw
  BY <1>0 DEF IdleTask, Tasks
<1>2. \A t \in Tasks : task[t].pc \in {"start", "idle"}
  BY <1>1 DEF Tasks
<1>3. /\ \A k \in Orders : order[k].st = "none"
      /\ \A s \in Symbols : /\ venue[s].units = 0 /\ venue[s].pid = 0
                            /\ quotes[s] = 0 /\ positions[s] = 0
      /\ hist = {} /\ closedKeys = {} /\ attach = {}
      /\ \A n \in Quotes : quote[n] = NoQuote
      /\ \A o \in Objs : obj[o] = NoObj
      /\ made.quotes = 0 /\ made.orders = 0 /\ made.objs = 0
      /\ cache = NoSnap
      /\ ~ctl.stop /\ ~ctl.emergency /\ ctl.running
  BY DEF Init, NoOrder, Flat
<1>4. /\ Views = {NoSnap} /\ NoSnap.upto = 0 /\ ~NoSnap.ok
      /\ \A s \in Symbols : ~Shows(NoSnap, s)
  BY <1>1, <1>3 DEF Views, NoSnap, Flat, Shows
<1>5. TypeInv /\ MadeInv /\ LedgerInv /\ NamedInv /\ OnlyLoop /\ BookInv
  BY TypeInvInit, LedgerInit, NamedInvInit, BookInvInit
<1>6. /\ NoQuote.ord = 0 /\ NoQuote.syn = NoRaw /\ ~NoQuote.stray /\ NoObj.key = NoKey
      /\ ~NoObj.closed
  BY DEF NoQuote, NoObj
<1>7. /\ \A n \in Quotes : n \in Nat /\ n # 0
      /\ \A o \in Objs : o \in Nat /\ o # 0 /\ ~(o <= 0)
  BY BoundsInNat DEF Quotes, Objs
<1>8. Numbered
  BY <1>3, <1>4, <1>6 DEF Numbered
<1>9. QuotesMade
  BY <1>1, <1>3 DEF QuotesMade
<1>10. RunsAlone
  BY <1>2 DEF RunsAlone, RunsOn
<1>11. FillsShown
  BY <1>3, <1>4 DEF FillsShown
<1>12. FillsHeld
  BY <1>2, <1>3, <1>6, <1>7 DEF FillsHeld
<1>13. Held = {}
  BY <1>1 DEF Held, HeldOf
<1>14. LoopShape
  BY <1>1, <1>2, <1>3, <1>13 DEF LoopShape, Phases, Adopting, Entering, Asking, Leaving
<1>15. KeysSpent
  BY <1>3 DEF KeysSpent
<1>16. ASSUME NEW s \in Symbols PROVE Epoch(s, 0, 0)
  <2>1. Latest(s, 0, 0) /\ OrdersOf(s, 0)
    BY <1>3 DEF Latest, OrderOf, OrdersOf, Pending, FillOf
  <2>2. VenueOf(s, 0) /\ ViewsOf(s, 0) /\ PositionOf(s, 0) /\ PendingOf(s, 0, 0)
    BY <1>3, <1>4 DEF VenueOf, ViewsOf, PositionOf, PendingOf
  <2>3. EntryOf(task["sig"], s, 0, 0) /\ EntryOf(task["loop"], s, 0, 0)
    BY <1>2 DEF EntryOf, On, Entering
  <2>4. CopyOf(s, 0, 0) /\ CloseOf(task["loop"], s)
    BY <1>1, <1>2 DEF CopyOf, CloseOf, On, Leaving
  <2>5. AgeOf(s)
    BY <1>1, <1>3, <1>4 DEF AgeOf
  <2>6. FreeOf(s, 0)
    BY <1>3, <1>4, BoundsInNat DEF FreeOf, Pending
  <2> QED BY <2>1, <2>2, <2>3, <2>4, <2>5, <2>6 DEF Epoch
<1>17. ShapeInv
  BY <1>8, <1>9, <1>10, <1>11, <1>12, <1>14, <1>15 DEF ShapeInv
<1> QED BY <1>5, <1>16, <1>17 DEF ExposureInv, TradeInv, Accounted

(***************************************************************************)
(* The theorems.                                                           *)
(***************************************************************************)
LEMMA ExposureInvHolds == ASSUME TradeConditions PROVE Spec => []ExposureInv
<1>1. ExposureInv /\ [Next]_vars => ExposureInv'
  BY ExposureInvNext
<1> QED BY <1>1, ExposureInvInit, PTL DEF Spec

\* Per-symbol exclusivity: the executor never holds two units on a symbol, unless one
\* of its quotes strayed or a misnamed position of it was released.
THEOREM OneUnitPerSymbol == ASSUME TradeConditions PROVE Spec => []SingleExposure
<1>1. ASSUME ExposureInv PROVE SingleExposure
  <2> SUFFICES ASSUME NEW s \in Symbols, ~Lost(s) PROVE venue[s].units <= 1
    BY DEF SingleExposure, Lost
  <2>1. PICK c, m : Epoch(s, c, m)
    BY <1>1 DEF ExposureInv, Accounted
  <2>2. venue[s].units \in Nat
    BY <1>1 DEF ExposureInv, TradeInv, TypeInv, VenueTyped, Position
  <2>3. venue[s].units > 0 => venue[s].units = 1
    BY <2>1 DEF Epoch, VenueOf, Unit
  <2> QED BY <2>2, <2>3
<1> QED BY <1>1, ExposureInvHolds, PTL

\* Only the loop books trades under these conditions: when a close is confirmed, or
\* when a position has vanished.
LEMMA ReasonStays ==
    ASSUME TradeConditions, TradeInv, TradeStep, ~CloseBook("loop"), ~LoopVanished,
           NEW o \in Objs
    PROVE  obj'[o].reason \in {obj[o].reason, "none"}
<1> USE TaskNames DEF TradeInv
<1>1. CASE Untouched
  BY <1>1 DEF Untouched
<1>2. CASE Adopted
  <2>1. PICK s \in Symbols, row \in RawRow, pnl \in BOOLEAN, closed \in BOOLEAN :
          Adopt(s, row, pnl, closed)
    BY <1>2 DEF Adopted
  <2>2. obj'[o] = obj[o] \/ obj'[o].reason = "none"
    BY <2>1 DEF Adopt, NoObj, TypeInv, BookTyped
  <2> QED BY <2>2
<1>3. CASE UNCHANGED obj
  BY <1>3
<1>4. CASE (\E s \in Symbols : Decide(s)) \/ ArmTaker
  BY <1>1, <1>4, EntryLedger
<1>5. CASE \E t \in {"sig", "loop"} : EntryStep(t)
  BY <1>1, <1>2, <1>5, EntryLedger, OpenDoneLedger DEF EntryStep
<1>6. CASE QuotesStep
  BY <1>3, <1>6 DEF QuotesStep, LoopQuoteUnsent, SubmitHead, SubmitIf, LoopQuoteAsk,
     LoopQuoteFilled, LoopQuoteUnfilled, LoopCancel, bookVars
<1>7. CASE TickStep
  <2>1. CASE LoopAdopt
    <3>1. PICK x, row, pnl, closed : Adopt(x, row, pnl, closed)
      BY <2>1 DEF LoopAdopt
    <3>2. obj'[o] = obj[o] \/ obj'[o].reason = "none"
      BY <3>1 DEF Adopt, NoObj, TypeInv, BookTyped
    <3> QED BY <3>2
  <2>2. CASE ~LoopAdopt
    BY <1>3, <1>7, <2>2 DEF TickStep, LoopPassing, LoopStart, LoopTick, LoopSnapshot,
       LoopRecovered, ManageAll, LoopTrail, LoopKillCheck, LoopMissing, LoopQuotes, LoopRecover,
       RecoverUnless, bookVars
  <2> QED BY <2>1, <2>2
<1>10. CASE ManageStep
  <2>1. PICK x \in Objs : LoopHold(x) \/ LoopMove(x) \/ LoopRule(x)
    BY <1>10 DEF ManageStep
  <2>2. PICK b : obj' = [obj EXCEPT ![x].pnl = b]
    BY <2>1 DEF LoopHold, LoopMove, LoopRule, Manage, ManageBelow
  <2> QED BY <2>2 DEF TypeInv, BookTyped, Object
<1>8. CASE CloseSend("loop") \/ CloseReply("loop")
  BY <1>3, <1>8 DEF CloseSend, CloseReply, bookVars
<1>9. CASE Environment
  <2>1. CASE \E s \in Symbols, pid \in Orders : AttachDone(s, pid)
    <3>1. PICK s \in Symbols, pid \in Orders : AttachDone(s, pid)
      BY <2>1
    <3>2. obj' = obj \/ obj' = [obj EXCEPT ![positions[s]].pid = pid]
      BY <3>1 DEF AttachDone
    <3> QED BY <3>2 DEF TypeInv, BookTyped, Object
  <2>2. CASE ~ \E s \in Symbols, pid \in Orders : AttachDone(s, pid)
    BY <1>3, <1>9, <2>2 DEF Environment, VenueAccept, VenueFill, VenueExpire, VenueClose, bookVars
  <2> QED BY <2>1, <2>2
<1> QED BY <1>4, <1>5, <1>6, <1>7, <1>8, <1>9, <1>10 DEF TradeStep, LeaveStep

\* The position of an object whose trade the loop books is gone.
LEMMA HeldIsOver ==
    ASSUME ExposureInv, NEW o \in Held, NEW id \in HistoryIds(o), NEW s, s = obj[o].sym,
           ~Lost(s), id = 0 => venue[s].units = 0
    PROVE  venue[s].pid # obj[o].truth
<1>1. s \in Symbols /\ TradeInv
  BY HeldIsManaged DEF ExposureInv, TradeInv
<1>2. PICK c, m : Epoch(s, c, m)
  BY <1>1 DEF ExposureInv, Accounted
<1>3. venue[s].units = 0 /\ obj[o].truth = m /\ m \in Orders
  BY <1>1, <1>2, MarkedGone
<1>4. venue[s].pid = 0
  BY <1>1, <1>3 DEF TradeInv, ShapeInv, FillsShown
<1> QED BY <1>3, <1>4, BoundsInNat DEF Orders

\* A trade enters the ledger only when its position is gone from the venue.
THEOREM TradesAreOver == ASSUME TradeConditions PROVE Spec => NoPhantomClose
<1> DEFINE Booking(o) == obj[o].reason = "none" /\ obj'[o].reason # "none"
           Over0(o) == venue[obj[o].sym].pid # obj[o].truth
<1>1. ASSUME ExposureInv, Next, NEW o \in Objs, Booking(o), ~Lost(obj[o].sym) PROVE Over0(o)
  <2> USE TaskNames DEF ExposureInv, TradeInv
  <2>1. TradeStep
    BY <1>1, TradeSteps
  <2>2. CloseBook("loop") \/ LoopVanished
    BY <1>1, <2>1, ReasonStays
  <2>3. PICK x : x = task["loop"].o
    OBVIOUS
  <2>4. /\ task["loop"].pc \in {"resolve", "history"}
        /\ CloseBook("loop") => task["loop"].pc = "resolve"
        /\ LoopVanished => task["loop"].pc = "history"
    BY <2>2 DEF CloseBook, LoopVanished, Vanished, At
  <2>5. /\ task["loop"].then = "manage" /\ x # 0
        /\ LoopVanished => task["loop"].snap.ok /\ ~Shows(task["loop"].snap, obj[x].sym)
    BY <1>1, <2>3, <2>4 DEF ShapeInv, LoopShape, Phases, Leaving
  <2>6. x \in Held
    BY <2>3, <2>4, <2>5 DEF Held, HeldOf
  <2>7. x \in Objs /\ positions[obj[x].sym] = x /\ obj[x].sym \in Symbols
    BY <1>1, <2>6, HeldIsManaged
  <2>8. PICK longGone : longGone = (obj[x].pnl \/ x <= task["loop"].snap.upto)
    OBVIOUS
  <2>9. PICK id \in HistoryIds(x), why \in CloseReasons :
          MarkClosed(x, id, why) /\ (LoopVanished /\ id = 0 => longGone)
    <3>1. CASE CloseBook("loop")
      <4>1. ~LoopVanished
        BY <2>4, <3>1
      <4> QED BY <2>3, <3>1, <4>1 DEF CloseBook, CloseReasons
    <3>2. CASE LoopVanished
      <4>1. \/ UNCHANGED bookVars
            \/ \E id \in HistoryIds(x) : (id = 0 => longGone) /\ MarkClosed(x, id, "exchange_close")
        BY <2>3, <2>8, <3>2 DEF LoopVanished, Vanished
      <4>2. ~UNCHANGED bookVars
        BY <1>1 DEF bookVars
      <4> QED BY <4>1, <4>2 DEF CloseReasons
    <3> QED BY <2>2, <3>1, <3>2
  <2>10. o = x
    BY <1>1, <2>6, <2>9, MarkedFacts
  <2>11. PICK s \in Symbols : s = obj[x].sym
    BY <2>7
  <2>12. id = 0 => venue[s].units = 0
    <3>1. PICK c, m : Epoch(s, c, m)
      BY <1>1, <2>10, <2>11 DEF Accounted
    <3>2. CASE CloseBook("loop")
      BY <2>3, <2>4, <2>11, <3>1, <3>2 DEF Epoch, CloseOf, Leaving
    <3>3. CASE LoopVanished
      BY <2>5, <2>7, <2>8, <2>9, <2>11, <3>1, <3>3 DEF Epoch, AgeOf, Views
    <3> QED BY <2>2, <3>2, <3>3
  <2> QED BY <1>1, <2>6, <2>9, <2>10, <2>11, <2>12, HeldIsOver
<1>2. ASSUME ExposureInv, [Next]_vars, NEW o \in Objs, Booking(o)
      PROVE  Over0(o) \/ Lost(obj[o].sym)
  <2>1. CASE UNCHANGED vars
    <3>1. obj' = obj
      BY <2>1 DEF vars
    <3> QED BY <1>2, <3>1
  <2> QED BY <1>1, <1>2, <2>1
<1>3. ExposureInv /\ [Next]_vars => [BooksNoPhantom]_vars
  BY <1>2 DEF BooksNoPhantom, Lost
<1> QED BY <1>3, ExposureInvHolds, PTL DEF Spec, NoPhantomClose
===============================================================================
