-------------------------- MODULE RealExecutorTradeProofs ---------------------
(***************************************************************************)
(* Trades from entry to close: records and managed objects, one trade per  *)
(* position of the venue, and the epochs of a symbol, as the steps on its  *)
(* quotes keep them.                                                       *)
(***************************************************************************)
EXTENDS RealExecutorProofs

(***************************************************************************)
(* The book of open positions, while only the loop closes positions: no    *)
(* fill is bad enough to be closed by the task that opened it, and nothing *)
(* flattens.  The loop takes its objects from state.positions at the start *)
(* of a pass and holds each until it has closed it or let it go.  What it  *)
(* still holds is open, of a symbol that is still managed, and no two of   *)
(* them share a symbol, though a position opened meanwhile may have taken  *)
(* the symbol over: so no close comes twice, no late write of the sidecar  *)
(* brings a record back, and a record revived is never one that was closed.*)
(***************************************************************************)
Resting  == {"start", "idle", "balance", "quotes", "recover", "manage"}
Leaving  == {"close", "closing", "resolve"}
Entering == {"tick", "submit", "ack", "find", "open"}
Midway   == Entering \cup Leaving \cup {"check", "cancel", "adopt"}

\* What the task T still has to go through, with what it is at.
HeldOf(T) == IF T.then = "manage" THEN T.todo \cup ({T.o} \ {0}) ELSE {}
Held      == HeldOf(task["loop"])

\* An object is in hand only while it is managed, and is then no longer to be done.
Grips(T) == /\ T.pc \in Resting => T.o = 0
            /\ T.o # 0 => T.then = "manage" /\ T.o \notin T.todo

Hands(T) ==
    /\ T.pc \notin FlattenOrLock \cup {"off"} /\ T.then # "off"
    /\ T.pc \in Resting => T.o = 0
    /\ T.o # 0 => T.then = "manage" /\ T.o \notin T.todo

OnlyLoop ==
    /\ Hands(task["loop"]) /\ ~ctl.stop
    /\ task["sig"].pc \notin Leaving
    /\ task["op"].pc \notin FlattenOrLock

HeldInv ==
    /\ \A x \in Held : /\ x \in Objs /\ x <= made.objs
                       /\ ~obj[x].closed /\ positions[obj[x].sym] # 0
    /\ \A x, y \in Held : obj[x].sym = obj[y].sym => x = y

BookInv ==
    /\ \A s \in Managed : obj[positions[s]].sym = s /\ ~obj[positions[s]].closed
    /\ \A s \in Symbols : store[s].kept => positions[s] # 0 /\ ~store[s].closed
    /\ HeldInv

(* What a step may do to the book.                                         *)
\* Objects stay what they are; a record is written for a managed symbol only.
Keeps ==
    /\ UNCHANGED positions /\ made'.objs = made.objs
    /\ \A o \in Objs : obj'[o].sym = obj[o].sym /\ obj'[o].closed = obj[o].closed
    /\ \/ UNCHANGED store
       \/ \E s \in Symbols, pid \in 0..MaxOrders :
            /\ positions[s] # 0
            /\ store' = [store EXCEPT ![s] = [pid |-> pid, closed |-> FALSE, kept |-> TRUE]]
Opens  == \E s \in Symbols, row \in RawRow, pnl \in BOOLEAN : Adopt(s, row, pnl, FALSE)
Ends   == /\ UNCHANGED made
          /\ \E x \in Held : /\ \E id, why : MarkClosed(x, id, why)
                            /\ Held' \subseteq Held \ {x}

LEMMA ManagedMade ==
    ASSUME TypeInv, MadeInv, NEW s \in Managed
    PROVE  positions[s] \in Objs /\ positions[s] <= made.objs
BY BoundsInNat DEF TypeInv, BookTyped, MadeInv, Managed, Objs

LEMMA KeepsBook ==
    ASSUME TypeInv, MadeInv, BookInv, Keeps, Held' \subseteq Held PROVE BookInv'
<1>1. Managed' = Managed /\ positions' = positions /\ made'.objs = made.objs
  BY DEF Keeps, Managed
<1>2. \A s \in Managed' : obj'[positions'[s]].sym = s /\ ~obj'[positions'[s]].closed
  BY <1>1, ManagedMade DEF BookInv, Keeps
<1>3. \A s \in Symbols : store'[s].kept => positions'[s] # 0 /\ ~store'[s].closed
  BY DEF BookInv, Keeps, TypeInv, BookTyped
<1>4. HeldInv'
  BY <1>1 DEF BookInv, HeldInv, Keeps
<1> QED BY <1>2, <1>3, <1>4 DEF BookInv

LEMMA OpensBook ==
    ASSUME TypeInv, MadeInv, BookInv, Opens, Held' \subseteq Held PROVE BookInv'
<1>1. PICK s \in Symbols, row \in RawRow, pnl \in BOOLEAN : Adopt(s, row, pnl, FALSE)
  BY DEF Opens
<1> DEFINE n == made.objs + 1
<1>2. /\ n \in Objs /\ made.objs \in Nat /\ made'.objs = n /\ \A o \in Objs : o \in Nat
      /\ n # 0 /\ ~(n <= made.objs)
  BY <1>1, BoundsInNat DEF TypeInv, ControlTyped, Adopt, Objs
<1>3. obj'[n].sym = s /\ ~obj'[n].closed /\ \A o \in Objs : o # n => obj'[o] = obj[o]
  BY <1>1, <1>2 DEF Adopt, TypeInv, BookTyped, NoObj
<1>4. positions'[s] = n /\ \A x \in Symbols : x # s => positions'[x] = positions[x]
  BY <1>1 DEF Adopt, TypeInv, BookTyped
<1>5. /\ ~store'[s].closed
      /\ \A x \in Symbols : x # s => store'[x] = store[x]
  BY <1>1 DEF Adopt, TypeInv, BookTyped
<1> HIDE DEF n
<1>6. ASSUME NEW x \in Managed'
      PROVE  obj'[positions'[x]].sym = x /\ ~obj'[positions'[x]].closed
  <2>1. x \in Symbols /\ positions'[x] # 0
    BY DEF Managed
  <2>2. CASE x = s
    BY <1>3, <1>4, <2>2
  <2>3. CASE x # s
    <3>1. x \in Managed /\ positions'[x] = positions[x]
      BY <1>4, <2>1, <2>3 DEF Managed
    <3>2. positions[x] \in Objs /\ positions[x] # n
      BY <1>2, <3>1, ManagedMade
    <3> QED BY <1>3, <3>1, <3>2 DEF BookInv
  <2> QED BY <2>2, <2>3
<1>7. \A x \in Symbols : store'[x].kept => positions'[x] # 0 /\ ~store'[x].closed
  BY <1>2, <1>4, <1>5 DEF BookInv
<1>8. \A x \in Held' : x \in Held /\ x \in Objs /\ x <= made.objs /\ obj'[x] = obj[x]
  BY <1>2, <1>3 DEF BookInv, HeldInv
<1>9. HeldInv'
  <2>1. ASSUME NEW x \in Held'
        PROVE  x <= made'.objs /\ ~obj'[x].closed /\ positions'[obj'[x].sym] # 0
    <3>1. /\ x \in Objs /\ x <= made.objs /\ obj'[x] = obj[x]
          /\ ~obj[x].closed /\ positions[obj[x].sym] # 0 /\ obj[x].sym \in Symbols
      BY <1>8 DEF BookInv, HeldInv, TypeInv, BookTyped, Object
    <3> QED BY <1>2, <1>4, <3>1
  <2> QED BY <1>8, <2>1 DEF BookInv, HeldInv
<1> QED BY <1>6, <1>7, <1>9 DEF BookInv

LEMMA EndsBook ==
    ASSUME TypeInv, MadeInv, BookInv, Ends PROVE BookInv'
<1>0. PICK x \in Held : (\E id, why : MarkClosed(x, id, why)) /\ Held' \subseteq Held \ {x}
  BY DEF Ends
<1>1. PICK id, why : MarkClosed(x, id, why) /\ Held' \subseteq Held \ {x}
  BY <1>0
<1> DEFINE s == obj[x].sym
<1>2. x \in Objs /\ s \in Symbols /\ made' = made
  BY DEF BookInv, HeldInv, TypeInv, BookTyped, Object, Ends
<1>3. /\ positions' = [positions EXCEPT ![s] = 0]
      /\ store' = [store EXCEPT ![s] = NoRecord]
  BY <1>1 DEF MarkClosed, Release
<1>4. \A o \in Objs : o # x => obj'[o] = obj[o]
  BY <1>1, <1>2 DEF MarkClosed, Book, TypeInv, BookTyped
<1>5. ASSUME NEW z \in Managed'
      PROVE  obj'[positions'[z]].sym = z /\ ~obj'[positions'[z]].closed
  <2>1. z # s /\ z \in Managed /\ positions'[z] = positions[z]
    BY <1>2, <1>3 DEF Managed, TypeInv, BookTyped
  <2>2. positions[z] \in Objs /\ positions[z] # x
    BY <2>1, ManagedMade DEF BookInv
  <2> QED BY <1>4, <2>1, <2>2 DEF BookInv
<1>6. \A z \in Symbols : store'[z].kept => positions'[z] # 0 /\ ~store'[z].closed
  BY <1>2, <1>3 DEF BookInv, TypeInv, BookTyped, NoRecord
<1>7. ASSUME NEW y \in Held'
      PROVE  /\ y \in Held /\ y \in Objs /\ y <= made'.objs /\ obj'[y] = obj[y]
             /\ ~obj'[y].closed /\ positions'[obj'[y].sym] # 0
  <2>1. y \in Held /\ y \in Objs /\ y # x
    BY <1>1 DEF BookInv, HeldInv
  <2>2. obj'[y] = obj[y] /\ obj[y].sym \in Symbols /\ obj[y].sym # s
    BY <1>4, <2>1 DEF BookInv, HeldInv, TypeInv, BookTyped, Object
  <2>3. y <= made.objs /\ ~obj[y].closed /\ positions[obj[y].sym] # 0
    BY <2>1 DEF BookInv, HeldInv
  <2> QED BY <1>2, <1>3, <2>1, <2>2, <2>3 DEF TypeInv, BookTyped
<1>8. HeldInv'
  BY <1>7 DEF BookInv, HeldInv
<1> QED BY <1>5, <1>6, <1>8 DEF BookInv

(* What a step may do to the task that takes it.                           *)
\* T returns, or goes on at one of pcs with what it holds.
GoesOn(T, U, pcs) ==
    /\ U.then = T.then /\ U.todo \subseteq T.todo
    /\ \/ U.pc = T.then /\ U.o = 0
       \/ U.pc \in pcs \cup {T.pc} /\ U.o = T.o

Moves(t, pcs) ==
    /\ UNCHANGED ctl
    /\ \E U : task' = [task EXCEPT ![t] = U] /\ GoesOn(task[t], U, pcs)

LEMMA BackMoves ==
    ASSUME TypeInv, NEW t \in Tasks, NEW pcs, Back(t), UNCHANGED ctl PROVE Moves(t, pcs)
<1> DEFINE U == Return(task[t])
<1>1. task[t] \in Task /\ task' = [task EXCEPT ![t] = U]
  BY DEF Back, TypeInv, TaskTyped
<1>2. GoesOn(task[t], U, pcs)
  BY <1>1 DEF Return, Task, GoesOn
<1> QED BY <1>1, <1>2 DEF Moves

LEMMA GotoMoves ==
    ASSUME TypeInv, NEW t \in Tasks, NEW pcs, NEW pc \in pcs, Goto(t, pc), UNCHANGED ctl
    PROVE  Moves(t, pcs)
<1> DEFINE U == [task[t] EXCEPT !.pc = pc]
<1>1. task[t] \in Task /\ task' = [task EXCEPT ![t] = U]
  BY SetPc DEF TypeInv, TaskTyped
<1>2. GoesOn(task[t], U, pcs)
  BY <1>1 DEF Task, GoesOn
<1> QED BY <1>1, <1>2 DEF Moves

LEMMA SubmitMoves ==
    ASSUME TypeInv, NEW t \in Tasks, NEW n, NEW armed, NEW T \in Task,
           T.then = task[t].then, T.todo \subseteq task[t].todo, T.o = task[t].o,
           SubmitHead(t, n, armed, T)
    PROVE  Moves(t, Entering)
<1> DEFINE R == Return(T)
           S == [T EXCEPT !.pc = "submit", !.q = n]
<1>1. UNCHANGED ctl /\ (task' = [task EXCEPT ![t] = R] \/ task' = [task EXCEPT ![t] = S])
  BY DEF SubmitHead, SubmitIf
<1>2. GoesOn(task[t], R, Entering)
  BY DEF Return, Task, GoesOn
<1>3. GoesOn(task[t], S, Entering)
  BY DEF Task, GoesOn, Entering
<1> HIDE DEF R, S
<1> QED BY <1>1, <1>2, <1>3 DEF Moves

LEMMA OpenFromMoves ==
    ASSUME TypeInv, NEW t \in Tasks, NEW n, NEW row, NEW q, OpenFrom(t, n, row, q),
           UNCHANGED ctl
    PROVE  Moves(t, Entering)
<1> DEFINE U == [task[t] EXCEPT !.pc = "open", !.q = n, !.raw = row]
<1>1. CASE Back(t)
  BY <1>1, BackMoves
<1>2. CASE task' = [task EXCEPT ![t] = U]
  <2>1. GoesOn(task[t], U, Entering)
    BY DEF TypeInv, TaskTyped, Task, GoesOn, Entering
  <2> QED BY <1>2, <2>1 DEF Moves
<1> QED BY <1>1, <1>2 DEF OpenFrom, Back

LEMMA EntryMoves ==
    ASSUME TypeInv, ~BadFills, NEW t \in Tasks, Submitting(t) \/ Opening(t)
    PROVE  Moves(t, Entering)
<1>1. UNCHANGED ctl
  BY DEF Submitting, Opening, SubmitRefused, Send, NotAcked, AckTaker, Find, OpenDone
<1>2. CASE Back(t)
  BY <1>1, <1>2, BackMoves
<1>3. CASE \E pc \in Entering : Goto(t, pc)
  BY <1>1, <1>3, GotoMoves
<1>4. CASE \E n, row, q : OpenFrom(t, n, row, q)
  BY <1>1, <1>4, OpenFromMoves
<1> QED BY <1>2, <1>3, <1>4 DEF Submitting, Opening, SubmitRefused, Drop, Send, NotAcked,
         AckTaker, Find, OpenDone, Entering

LEMMA ClosingMoves ==
    ASSUME TypeInv, NEW t \in Tasks, Closing(t) PROVE Moves(t, Leaving)
<1>1. task[t] \in Task /\ UNCHANGED ctl
  BY DEF TypeInv, TaskTyped, Closing, CloseSend, CloseReply, CloseBook
<1>2. CASE Back(t)
  BY <1>1, <1>2, BackMoves
<1>3. CASE Goto(t, "resolve")
  BY <1>1, <1>3, GotoMoves DEF Leaving
<1> DEFINE sent  == [task[t] EXCEPT !.pc = "closing", !.left = task[t].left - 1]
           again == [task[t] EXCEPT !.left = task[t].left - 1]
           retry == [task[t] EXCEPT !.pc = "close"]
<1>4. /\ GoesOn(task[t], sent, Leaving) /\ GoesOn(task[t], again, Leaving)
      /\ GoesOn(task[t], retry, Leaving)
  BY <1>1 DEF Task, GoesOn, Leaving
<1>5. CASE \E U \in {sent, again, retry} : task' = [task EXCEPT ![t] = U]
  <2> HIDE DEF sent, again, retry
  <2> QED BY <1>1, <1>4, <1>5 DEF Moves
<1> QED BY <1>2, <1>3, <1>5 DEF Closing, CloseSend, CloseReply, CloseBook, Back

LEMMA SigMoves ==
    ASSUME TypeInv, ArmTaker \/ AckMaker \/ \E s \in Symbols : Decide(s)
    PROVE  Moves("sig", Entering)
<1>1. "sig" \in Tasks /\ task["sig"] \in Task
  BY DEF TypeInv, TaskTyped, Tasks
<1>2. CASE ArmTaker
  BY <1>1, <1>2, SubmitMoves DEF ArmTaker
<1>3. CASE AckMaker
  BY <1>1, <1>3, BackMoves DEF AckMaker
<1>4. ASSUME NEW s \in Symbols, Decide(s) PROVE Moves("sig", Entering)
  <2> DEFINE U == [task["sig"] EXCEPT !.pc = "tick", !.q = made.quotes + 1]
  <2>1. UNCHANGED ctl /\ task' = [task EXCEPT !["sig"] = U]
    BY <1>4 DEF Decide, DecideIf
  <2>2. GoesOn(task["sig"], U, Entering)
    BY <1>1 DEF Task, GoesOn, Entering
  <2> QED BY <2>1, <2>2 DEF Moves
<1> QED BY <1>2, <1>3, <1>4

(* The loop: what it holds only shrinks, until a new pass.                 *)
LEMMA LoopMoves ==
    ASSUME TypeInv, OnlyLoop, Moves("loop", Midway)
    PROVE  OnlyLoop' /\ Held' \subseteq Held
<1>1. /\ "loop" \in Tasks /\ task["loop"] \in Task /\ Hands(task["loop"])
      /\ "sig" \in Tasks /\ "op" \in Tasks
  BY DEF OnlyLoop, TypeInv, TaskTyped, Tasks
<1>2. PICK U : task' = [task EXCEPT !["loop"] = U] /\ GoesOn(task["loop"], U, Midway)
  BY DEF Moves
<1>3. task'["loop"] = U /\ task'["sig"] = task["sig"] /\ task'["op"] = task["op"]
  BY <1>1, <1>2 DEF TypeInv, TaskTyped
<1>4. U.pc \in Midway => U.pc \notin Resting \cup FlattenOrLock \cup {"off"}
  BY DEF Midway, Entering, Leaving, Resting, FlattenOrLock, FlattenPcs
<1>5. U.pc = task["loop"].then => U.pc \notin FlattenOrLock \cup {"off"}
  BY <1>1 DEF Hands, Task, FlattenOrLock, FlattenPcs
<1>6. Hands(U)
  BY <1>1, <1>2, <1>4, <1>5 DEF Hands, GoesOn
<1>7. HeldOf(U) \subseteq HeldOf(task["loop"])
  BY <1>2 DEF GoesOn, HeldOf
<1> QED BY <1>3, <1>6, <1>7 DEF OnlyLoop, Held, Moves

LEMMA WiderMoves ==
    ASSUME NEW t, NEW pcs, Moves(t, pcs), pcs \subseteq Midway PROVE Moves(t, Midway)
BY DEF Moves, GoesOn

\* The scoring task leaves the loop's hands alone.
LEMMA SigLeaves ==
    ASSUME TypeInv, OnlyLoop, Moves("sig", Entering) PROVE OnlyLoop' /\ Held' = Held
<1>1. "loop" \in Tasks /\ "sig" \in Tasks /\ "op" \in Tasks /\ task["sig"] \in Task
  BY DEF TypeInv, TaskTyped, Tasks
<1>2. PICK U : task' = [task EXCEPT !["sig"] = U] /\ GoesOn(task["sig"], U, Entering)
  BY DEF Moves
<1>3. task'["loop"] = task["loop"] /\ task'["sig"] = U /\ task'["op"] = task["op"]
  BY <1>1, <1>2 DEF TypeInv, TaskTyped
<1>4. U.pc \notin Leaving
  BY <1>1, <1>2 DEF GoesOn, Entering, Leaving, OnlyLoop, Task
<1> QED BY <1>3, <1>4 DEF OnlyLoop, Held, Moves

LEMMA TickMoves ==
    ASSUME TypeInv,
           \/ \E n \in Quotes : LoopQuoteUnsent(n) \/ LoopQuoteAsk(n)
           \/ LoopQuoteFilled \/ LoopQuoteUnfilled \/ LoopCancel
           \/ (\E s \in Symbols : LoopRecover(s)) \/ LoopAdopt \/ LoopAdoptFails
           \/ LoopTrail \/ LoopVanished
    PROVE  Moves("loop", Midway)
<1>1. "loop" \in Tasks /\ task["loop"] \in Task
  BY LoopTask DEF TypeInv, TaskTyped
<1>2. UNCHANGED ctl
  BY DEF LoopQuoteUnsent, SubmitHead, SubmitIf, LoopQuoteAsk, LoopQuoteFilled,
     LoopQuoteUnfilled, LoopCancel, LoopRecover, RecoverUnless, LoopAdopt, LoopAdoptFails,
     LoopTrail, LoopVanished, Vanished
<1>3. CASE Back("loop")
  BY <1>1, <1>2, <1>3, BackMoves
<1>4. CASE Goto("loop", "find") \/ Goto("loop", "cancel")
  BY <1>1, <1>2, <1>4, GotoMoves DEF Midway, Entering
<1>5. CASE \E n, row, q : OpenFrom("loop", n, row, q)
  BY <1>1, <1>2, <1>5, OpenFromMoves, WiderMoves DEF Midway
<1>6. ASSUME NEW n \in Quotes, LoopQuoteUnsent(n) PROVE Moves("loop", Midway)
  <2> DEFINE T == [task["loop"] EXCEPT !.todo = task["loop"].todo \ {n}]
  <2>1. /\ T \in Task /\ T.then = task["loop"].then /\ T.todo \subseteq task["loop"].todo
        /\ T.o = task["loop"].o /\ T.pc = task["loop"].pc
    BY <1>1 DEF Task
  <2>2. SubmitHead("loop", n, quotes, T) \/ task' = [task EXCEPT !["loop"] = T]
    BY <1>6 DEF LoopQuoteUnsent
  <2>3. GoesOn(task["loop"], T, Midway)
    BY <2>1 DEF GoesOn
  <2> HIDE DEF T
  <2> QED BY <1>1, <1>2, <2>1, <2>2, <2>3, SubmitMoves, WiderMoves DEF Moves, Midway
<1>7. ASSUME NEW n \in Quotes, LoopQuoteAsk(n) PROVE Moves("loop", Midway)
  <2> DEFINE U == [task["loop"] EXCEPT !.todo = task["loop"].todo \ {n}, !.pc = "check",
                                       !.q = n]
  <2>1. task' = [task EXCEPT !["loop"] = U]
    BY <1>7 DEF LoopQuoteAsk
  <2>2. GoesOn(task["loop"], U, Midway)
    BY <1>1 DEF Task, GoesOn, Midway
  <2> QED BY <1>2, <2>1, <2>2 DEF Moves
<1>8. ASSUME NEW s \in Symbols, LoopRecover(s) PROVE Moves("loop", Midway)
  <2> DEFINE T == [task["loop"] EXCEPT !.syms = task["loop"].syms \ {s}]
             U == [T EXCEPT !.pc = "adopt", !.q = quotes[s], !.raw = RowOf(T.snap.pos[s])]
  <2>1. T \in Task /\ GoesOn(task["loop"], T, Midway)
    BY <1>1 DEF Task, GoesOn
  <2>2. /\ U.then = T.then /\ U.todo = T.todo /\ U.o = T.o /\ U.pc = "adopt"
        /\ T.then = task["loop"].then /\ T.todo = task["loop"].todo
        /\ T.o = task["loop"].o
    BY <1>1 DEF Task
  <2>3. GoesOn(task["loop"], U, Midway)
    BY <2>2 DEF GoesOn, Midway
  <2>4. task' = [task EXCEPT !["loop"] = T] \/ task' = [task EXCEPT !["loop"] = U]
    BY <1>8 DEF LoopRecover, RecoverUnless
  <2> HIDE DEF T, U
  <2> QED BY <1>2, <2>1, <2>3, <2>4 DEF Moves
<1> QED BY <1>3, <1>4, <1>5, <1>6, <1>7, <1>8
        DEF LoopQuoteFilled, LoopQuoteUnfilled, LoopCancel, LoopAdopt, LoopAdoptFails,
            LoopTrail, LoopVanished, Vanished

\* The loop becomes U, with its hands in order.
LEMMA LoopBecomes ==
    ASSUME TypeInv, OnlyLoop, NEW U, Hands(U), task' = [task EXCEPT !["loop"] = U],
           UNCHANGED ctl
    PROVE  OnlyLoop' /\ Held' = HeldOf(U)
<1>1. "loop" \in Tasks /\ "sig" \in Tasks /\ "op" \in Tasks
  BY DEF Tasks
<1>2. task'["loop"] = U /\ task'["sig"] = task["sig"] /\ task'["op"] = task["op"]
  BY <1>1 DEF TypeInv, TaskTyped
<1> QED BY <1>2 DEF OnlyLoop, Held

\* From one phase of a tick to the next the loop has nothing in its hands.
LEMMA PhaseMoves ==
    ASSUME TypeInv, OnlyLoop, Operations = {},
           LoopStart \/ LoopTick \/ LoopQuotes \/ LoopSnapshot \/ LoopKillCheck
    PROVE  OnlyLoop' /\ Held' \subseteq Held
<1>1. "loop" \in Tasks /\ task["loop"] \in Task /\ Hands(task["loop"])
  BY LoopTask DEF TypeInv, TaskTyped, OnlyLoop
<1>2. UNCHANGED ctl /\ task["loop"].o = 0
  BY <1>1 DEF LoopStart, LoopTick, LoopQuotes, LoopSnapshot, LoopKillCheck, At, Hands, Resting
<1>3. ASSUME NEW pc \in {"idle", "balance"}, Goto("loop", pc)
      PROVE  OnlyLoop' /\ Held' \subseteq Held
  <2> DEFINE U == [task["loop"] EXCEPT !.pc = pc]
  <2>1. task' = [task EXCEPT !["loop"] = U]
    BY <1>1, <1>3, SetPc DEF TypeInv, TaskTyped
  <2>2. U.pc = pc /\ U.o = 0 /\ U.then = task["loop"].then /\ U.todo = task["loop"].todo
    BY <1>1, <1>2 DEF Task
  <2>3. Hands(U) /\ HeldOf(U) = Held
    BY <1>1, <1>2, <2>2 DEF Hands, HeldOf, Held, FlattenOrLock, FlattenPcs
  <2> HIDE DEF U
  <2> QED BY <1>2, <2>1, <2>3, LoopBecomes
<1>4. CASE LoopQuotes
  <2> DEFINE U == [task["loop"] EXCEPT !.pc = "quotes", !.then = "quotes",
                     !.todo = {quotes[s] : s \in Symbols} \ {0}]
  <2>1. task' = [task EXCEPT !["loop"] = U] /\ U.pc = "quotes" /\ U.then = "quotes" /\ U.o = 0
    BY <1>1, <1>2, <1>4 DEF LoopQuotes, Task
  <2> HIDE DEF U
  <2>2. Hands(U) /\ HeldOf(U) = {}
    BY <2>1 DEF Hands, HeldOf, FlattenOrLock, FlattenPcs
  <2> QED BY <1>2, <2>1, <2>2, LoopBecomes
<1>5. CASE LoopSnapshot
  <2>1. PICK snap : task' = [task EXCEPT !["loop"] = [task["loop"] EXCEPT !.pc = "recover",
              !.then = "recover", !.snap = snap,
              !.syms = {s \in Symbols : snap.pos[s].units > 0}]]
    BY <1>5 DEF LoopSnapshot
  <2> DEFINE U == [task["loop"] EXCEPT !.pc = "recover", !.then = "recover", !.snap = snap,
                     !.syms = {s \in Symbols : snap.pos[s].units > 0}]
  <2>2. task' = [task EXCEPT !["loop"] = U] /\ U.pc = "recover" /\ U.then = "recover" /\ U.o = 0
    BY <1>1, <1>2, <2>1 DEF Task
  <2> HIDE DEF U
  <2>3. Hands(U) /\ HeldOf(U) = {}
    BY <2>2 DEF Hands, HeldOf, FlattenOrLock, FlattenPcs
  <2> QED BY <1>2, <2>2, <2>3, LoopBecomes
<1>6. CASE LoopKillCheck
  <2>1. task' = [task EXCEPT !["loop"] = IdleTask]
    BY <1>6 DEF LoopKillCheck
  <2>2. Hands(IdleTask) /\ HeldOf(IdleTask) = {}
    BY DEF Hands, HeldOf, IdleTask, FlattenOrLock, FlattenPcs
  <2> QED BY <1>2, <2>1, <2>2, LoopBecomes
<1> QED BY <1>3, <1>4, <1>5, <1>6 DEF LoopStart, LoopTick

\* One managed position: it is let go, or stays in hand.
LEMMA ManageHolds ==
    ASSUME TypeInv, MadeInv, Grips(task["loop"]), NEW o \in Objs,
           LoopHold(o) \/ LoopMove(o) \/ LoopRule(o) \/ LoopMissing(o)
    PROVE  /\ o \in Held /\ UNCHANGED ctl
           /\ \E U : /\ task' = [task EXCEPT !["loop"] = U] /\ U.then = "manage"
                     /\ U.pc \in {"manage", "trail", "close", "history"}
                     /\ Grips(U) /\ HeldOf(U) \subseteq Held
<1>1. /\ "loop" \in Tasks /\ task["loop"] \in Task
      /\ MadeTask(task["loop"], made.objs)
  BY LoopTask DEF TypeInv, TaskTyped, MadeInv, MadeTasks
<1>2. task["loop"].pc = "manage" /\ o \in task["loop"].todo /\ UNCHANGED ctl
  BY DEF LoopHold, LoopMove, LoopRule, LoopMissing, Manage, ManageBelow, At
<1>3. task["loop"].then = "manage" /\ task["loop"].o = 0
  BY <1>1, <1>2 DEF Grips, Resting, MadeTask
<1>4. o \in Held /\ o # 0
  BY <1>2, <1>3, BoundsInNat DEF Held, HeldOf, Objs
<1> DEFINE Goal == \E U : /\ task' = [task EXCEPT !["loop"] = U] /\ U.then = "manage"
                          /\ U.pc \in {"manage", "trail", "close", "history"}
                          /\ Grips(U) /\ HeldOf(U) \subseteq Held
<1> SUFFICES Goal
  BY <1>2, <1>4
<1>5. ASSUME NEW U, task' = [task EXCEPT !["loop"] = U], U.then = "manage",
             U.todo = task["loop"].todo \ {o},
             \/ U.pc = "manage" /\ U.o = 0
             \/ U.pc \in {"trail", "close", "history"} /\ U.o = o
      PROVE  Goal
  <2>1. Grips(U)
    BY <1>5 DEF Grips, Resting
  <2>2. HeldOf(U) \subseteq Held
    BY <1>2, <1>3, <1>5 DEF HeldOf, Held
  <2> QED BY <1>5, <2>1, <2>2
<1> HIDE DEF Goal
<1>6. CASE LoopHold(o)
  <2> DEFINE U == [task["loop"] EXCEPT !.todo = task["loop"].todo \ {o}]
  <2>1. task' = [task EXCEPT !["loop"] = U]
    BY <1>6 DEF LoopHold, Manage, ManageBelow
  <2>2. /\ U.then = "manage" /\ U.todo = task["loop"].todo \ {o}
        /\ U.pc = "manage" /\ U.o = 0
    BY <1>1, <1>2, <1>3 DEF Task
  <2> HIDE DEF U
  <2> QED BY <1>4, <1>5, <2>1, <2>2
<1>7. CASE LoopMove(o)
  <2> DEFINE T == [task["loop"] EXCEPT !.pc = "trail", !.o = o]
             U == [T EXCEPT !.todo = T.todo \ {o}]
  <2>1. task' = [task EXCEPT !["loop"] = U]
    BY <1>7 DEF LoopMove, Manage, ManageBelow
  <2>2. T.then = "manage" /\ T.todo = task["loop"].todo /\ T.pc = "trail" /\ T.o = o
    BY <1>1, <1>3 DEF Task
  <2>3. U.then = T.then /\ U.todo = T.todo \ {o} /\ U.pc = T.pc /\ U.o = T.o
    BY <1>1 DEF Task
  <2> HIDE DEF T, U
  <2> QED BY <1>4, <1>5, <2>1, <2>2, <2>3
<1>8. CASE LoopRule(o)
  <2>1. PICK raw : Manage(o, [task["loop"] EXCEPT !.pc = "close", !.o = o, !.left = 3,
                                                  !.raw = raw])
    BY <1>8 DEF LoopRule
  <2> DEFINE T == [task["loop"] EXCEPT !.pc = "close", !.o = o, !.left = 3, !.raw = raw]
             U == [T EXCEPT !.todo = T.todo \ {o}]
  <2>2. task' = [task EXCEPT !["loop"] = U]
    BY <2>1 DEF Manage, ManageBelow
  <2>3. T.then = "manage" /\ T.todo = task["loop"].todo /\ T.pc = "close" /\ T.o = o
    BY <1>1, <1>3 DEF Task
  <2>4. U.then = T.then /\ U.todo = T.todo \ {o} /\ U.pc = T.pc /\ U.o = T.o
    BY <1>1 DEF Task
  <2> HIDE DEF T, U
  <2> QED BY <1>4, <1>5, <2>2, <2>3, <2>4
<1>9. CASE LoopMissing(o)
  <2> DEFINE U == [task["loop"] EXCEPT !.pc = "history", !.todo = task["loop"].todo \ {o},
                                       !.o = o]
  <2>1. task' = [task EXCEPT !["loop"] = U]
    BY <1>9 DEF LoopMissing
  <2>2. /\ U.then = "manage" /\ U.todo = task["loop"].todo \ {o}
        /\ U.pc = "history" /\ U.o = o
    BY <1>1, <1>3 DEF Task
  <2> HIDE DEF U
  <2> QED BY <1>4, <1>5, <2>1, <2>2
<1> QED BY <1>6, <1>7, <1>8, <1>9

LEMMA ManageMoves ==
    ASSUME TypeInv, MadeInv, OnlyLoop, HeldInv, NEW o \in Objs,
           LoopHold(o) \/ LoopMove(o) \/ LoopRule(o) \/ LoopMissing(o)
    PROVE  o \in Held /\ OnlyLoop' /\ Held' \subseteq Held
<1>1. Grips(task["loop"])
  BY DEF OnlyLoop, Hands, Grips
<1>2. PICK U : /\ task' = [task EXCEPT !["loop"] = U] /\ U.then = "manage"
               /\ U.pc \in {"manage", "trail", "close", "history"}
               /\ Grips(U) /\ HeldOf(U) \subseteq Held
  BY <1>1, ManageHolds
<1>3. Hands(U)
  BY <1>2 DEF Hands, Grips, FlattenOrLock, FlattenPcs
<1> QED BY <1>1, <1>2, <1>3, ManageHolds, LoopBecomes

(* What every step does to the book.                                       *)
LEMMA Unbooked ==
    ASSUME UNCHANGED bookVars, made'.objs = made.objs PROVE Keeps
BY DEF Keeps, bookVars

LEMMA EntryBook ==
    ASSUME TypeInv, NEW t \in Tasks, Submitting(t) \/ Opening(t) PROVE Keeps \/ Opens
<1>1. CASE OpenDone(t)
  <2>1. Adopt(SymOf(task[t].q), task[t].raw, FALSE, FALSE) /\ task[t].pc = "open"
    BY <1>1 DEF OpenDone, At
  <2>2. task[t].q \in Quotes /\ task[t].raw \in RawRow
    BY <2>1 DEF TypeInv, TaskTyped, Steady, Task
  <2>3. SymOf(task[t].q) \in Symbols
    BY <2>2 DEF TypeInv, QuoteTyped, Quote, SymOf
  <2> QED BY <2>1, <2>2, <2>3 DEF Opens
<1>2. CASE ~OpenDone(t)
  <2>1. UNCHANGED bookVars /\ made'.objs = made.objs
    BY <1>2 DEF Submitting, Opening, SubmitRefused, Send, NotAcked, AckTaker, Find,
       TypeInv, ControlTyped
  <2> QED BY <2>1, Unbooked
<1> QED BY <1>1, <1>2

LEMMA SigBook ==
    ASSUME TypeInv, ~BadFills, OnlyLoop, SigStep
    PROVE  OnlyLoop' /\ Held' = Held /\ (Keeps \/ Opens)
<1>1. "sig" \in Tasks
  BY DEF Tasks
<1>2. ~Closing("sig")
  BY DEF Closing, CloseSend, CloseReply, CloseBook, At, OnlyLoop, Leaving
<1>3. CASE Submitting("sig") \/ Opening("sig")
  BY <1>1, <1>3, EntryMoves, EntryBook, SigLeaves
<1>4. CASE ArmTaker \/ AckMaker \/ \E s \in Symbols : Decide(s)
  <2>1. UNCHANGED bookVars /\ made'.objs = made.objs
    BY <1>4 DEF ArmTaker, SubmitHead, SubmitIf, AckMaker, Decide, DecideIf, TypeInv,
       ControlTyped
  <2> QED BY <1>4, <2>1, Unbooked, SigMoves, SigLeaves
<1> QED BY <1>2, <1>3, <1>4 DEF SigStep, SigWork

LEMMA EnvironmentBook ==
    ASSUME TypeInv, OnlyLoop, Environment
    PROVE  OnlyLoop' /\ Held' = Held /\ Keeps
<1>1. UNCHANGED <<task, ctl, made>>
  BY DEF Environment, VenueAccept, VenueFill, VenueExpire, VenueClose, AttachDone
<1>2. OnlyLoop' /\ Held' = Held
  BY <1>1 DEF OnlyLoop, Held
<1>3. ASSUME NEW s \in Symbols, NEW pid \in Orders, AttachDone(s, pid) PROVE Keeps
  <2> DEFINE o == positions[s]
  <2>1. UNCHANGED positions
    BY <1>3 DEF AttachDone
  <2>2. CASE UNCHANGED <<obj, store>>
    BY <1>1, <2>1, <2>2 DEF Keeps
  <2>3. CASE /\ o # 0 /\ obj' = [obj EXCEPT ![o].pid = pid]
             /\ store' = [store EXCEPT ![s] = [pid |-> pid, closed |-> FALSE, kept |-> TRUE]]
    <3>1. \A x \in Objs : obj'[x].sym = obj[x].sym /\ obj'[x].closed = obj[x].closed
      BY <2>3 DEF TypeInv, BookTyped, Object
    <3>2. pid \in 0..MaxOrders
      BY BoundsInNat DEF Orders
    <3> QED BY <1>1, <2>1, <2>3, <3>1, <3>2 DEF Keeps
  <2> QED BY <1>3, <2>2, <2>3 DEF AttachDone
<1>4. CASE ~ \E s \in Symbols, pid \in Orders : AttachDone(s, pid)
  <2>1. UNCHANGED bookVars /\ made'.objs = made.objs
    BY <1>1, <1>4 DEF Environment, VenueAccept, VenueFill, VenueExpire, VenueClose, bookVars
  <2> QED BY <1>2, <2>1, Unbooked
<1> QED BY <1>2, <1>3, <1>4

\* A record revived was never closed: Adopt opens.
LEMMA AdoptBook ==
    ASSUME TypeInv, BookInv, LoopAdopt PROVE Opens
<1> DEFINE T == task["loop"]
           s == order[T.raw.pid].sym
           revived == T.q = 0 /\ store[s].kept /\ store[s].pid \in {0, T.raw.pid}
<1>1. T.pc = "adopt" /\ Adopt(s, T.raw, T.q = 0, revived /\ store[s].closed)
  BY DEF LoopAdopt, At
<1>2. T.raw.pid \in Orders /\ T.raw \in RawRow
  BY <1>1, LoopTask DEF Steady
<1>3. s \in Symbols
  BY <1>2 DEF TypeInv, VenueTyped, Order
<1>4. (revived /\ store[s].closed) = FALSE
  BY <1>3 DEF BookInv
<1>5. (T.q = 0) \in BOOLEAN
  OBVIOUS
<1> HIDE DEF T, s, revived
<1> QED BY <1>1, <1>2, <1>3, <1>4, <1>5 DEF Opens

\* A pass begins with what state.positions shows, one object per symbol.
LEMMA RecoveredBook ==
    ASSUME TypeInv, MadeInv, OnlyLoop, BookInv, LoopRecovered
    PROVE  OnlyLoop' /\ BookInv'
<1>1. "loop" \in Tasks /\ task["loop"] \in Task /\ Hands(task["loop"])
  BY LoopTask DEF TypeInv, TaskTyped, OnlyLoop
<1> DEFINE U == [task["loop"] EXCEPT !.pc = "manage", !.then = "manage",
                   !.todo = {positions[s] : s \in Managed}]
<1>2. /\ task' = [task EXCEPT !["loop"] = U] /\ UNCHANGED <<ctl, made, bookVars>>
      /\ task["loop"].pc = "recover"
  BY DEF LoopRecovered, ManageAll, At
<1>3. /\ U.pc = "manage" /\ U.then = "manage" /\ U.o = 0
      /\ U.todo = {positions[s] : s \in Managed}
  BY <1>1, <1>2 DEF Task, Hands, Resting
<1> HIDE DEF U
<1>4. Hands(U) /\ HeldOf(U) = {positions[s] : s \in Managed}
  BY <1>3 DEF Hands, HeldOf, FlattenOrLock, FlattenPcs
<1>5. OnlyLoop' /\ Held' = {positions[s] : s \in Managed}
  BY <1>2, <1>4, LoopBecomes
<1>6. UNCHANGED <<positions, obj, store>> /\ Managed' = Managed
  BY <1>2 DEF bookVars, Managed
<1>7. HeldInv'
  <2>1. \A x \in Held' : \E s \in Managed : x = positions[s]
    BY <1>5
  <2>2. ASSUME NEW s \in Managed
        PROVE  /\ positions[s] \in Objs /\ positions[s] <= made.objs /\ positions[s] # 0
               /\ ~obj[positions[s]].closed /\ obj[positions[s]].sym = s
    BY ManagedMade DEF BookInv, Managed
  <2> QED BY <1>2, <1>6, <2>1, <2>2 DEF HeldInv
<1>8. BookInv'
  BY <1>6, <1>7 DEF BookInv
<1> QED BY <1>5, <1>8

\* The loop closes what it holds, and then no longer holds it.
LEMMA LoopEnds ==
    ASSUME TypeInv, OnlyLoop, NEW o, o = task["loop"].o, o \in Objs, NEW id, NEW why,
           MarkClosed(o, id, why), Back("loop"), UNCHANGED <<made, ctl>>
    PROVE  OnlyLoop' /\ Ends
<1>1. "loop" \in Tasks /\ task["loop"] \in Task /\ Hands(task["loop"]) /\ o # 0
  BY BoundsInNat DEF TypeInv, TaskTyped, OnlyLoop, Tasks, Objs
<1> DEFINE U == Return(task["loop"])
<1>2. task' = [task EXCEPT !["loop"] = U]
  BY DEF Back
<1>3. /\ U.o = 0 /\ U.pc = task["loop"].then /\ U.then = task["loop"].then
      /\ U.todo = task["loop"].todo
  BY <1>1 DEF Return, Task
<1> HIDE DEF U
<1>4. Hands(U)
  BY <1>1, <1>3 DEF Hands, Task, FlattenOrLock, FlattenPcs
<1>5. OnlyLoop' /\ Held' = HeldOf(U)
  BY <1>2, <1>4, LoopBecomes
<1>6. o \in Held /\ HeldOf(U) \subseteq Held \ {o}
  BY <1>1, <1>3 DEF Hands, HeldOf, Held
<1> QED BY <1>5, <1>6 DEF Ends

LEMMA LoopBook ==
    ASSUME TypeInv, MadeInv, ~BadFills, Operations = {}, OnlyLoop, BookInv, LoopStep
    PROVE  OnlyLoop' /\ BookInv'
<1>1. /\ "loop" \in Tasks /\ task["loop"] \in Task /\ Steady(task["loop"])
      /\ HeldInv /\ Hands(task["loop"])
  BY LoopTask DEF TypeInv, TaskTyped, BookInv, OnlyLoop
<1>2. ~Flattening("loop") /\ ~LoopExit
  <2>1. task["loop"].pc \notin FlattenOrLock
    BY <1>1 DEF Hands
  <2>2. ~Flattening("loop")
    BY <2>1 DEF Flattening, FlattenLock, FlattenSnapshot, FlattenCheck, FlattenAgain,
       FlattenDone, FlattenEnds, FlattenCancel, FlattenClose, FlattenBook, At,
       FlattenOrLock, FlattenPcs
  <2> QED BY <2>2 DEF LoopExit, OnlyLoop
<1>3. CASE Submitting("loop") \/ Opening("loop")
  <2>1. Moves("loop", Midway)
    BY <1>1, <1>3, EntryMoves, WiderMoves DEF Midway
  <2>2. OnlyLoop' /\ Held' \subseteq Held
    BY <2>1, LoopMoves
  <2> QED BY <1>1, <1>3, <2>2, EntryBook, KeepsBook, OpensBook
<1>4. CASE CloseSend("loop") \/ CloseReply("loop")
  <2>1. Moves("loop", Midway)
    BY <1>1, <1>4, ClosingMoves, WiderMoves DEF Closing, Midway
  <2>2. OnlyLoop' /\ Held' \subseteq Held
    BY <2>1, LoopMoves
  <2>3. UNCHANGED bookVars /\ made'.objs = made.objs
    BY <1>4 DEF CloseSend, CloseReply
  <2> QED BY <2>2, <2>3, Unbooked, KeepsBook
<1>5. CASE CloseBook("loop")
  <2> DEFINE o == task["loop"].o
  <2>1. task["loop"].pc = "resolve" /\ Back("loop") /\ UNCHANGED <<made, ctl>>
    BY <1>5 DEF CloseBook, At
  <2>2. o \in Objs
    BY <1>1, <2>1 DEF Steady
  <2>3. \E id \in HistoryIds(o) : MarkClosed(o, id, "exit")
    BY <1>5 DEF CloseBook
  <2> QED BY <2>1, <2>2, <2>3, LoopEnds, EndsBook
<1>6. CASE LoopVanished
  <2> DEFINE o == task["loop"].o
  <2>1. task["loop"].pc = "history" /\ Back("loop") /\ UNCHANGED <<made, ctl>>
    BY <1>6 DEF LoopVanished, Vanished, At
  <2>2. o \in Objs
    BY <1>1, <2>1 DEF Steady
  <2>3. CASE UNCHANGED bookVars
    <3>1. OnlyLoop' /\ Held' \subseteq Held
      BY <1>6, TickMoves, LoopMoves
    <3> QED BY <2>1, <2>3, <3>1, Unbooked, KeepsBook
  <2>4. CASE \E id : MarkClosed(o, id, "exchange_close")
    BY <2>1, <2>2, <2>4, LoopEnds, EndsBook
  <2> QED BY <1>6, <2>3, <2>4 DEF LoopVanished, Vanished
<1>7. CASE LoopAdopt
  <2>1. OnlyLoop' /\ Held' \subseteq Held
    BY <1>7, TickMoves, LoopMoves
  <2> QED BY <1>7, <2>1, AdoptBook, OpensBook
<1>8. CASE LoopTrail
  <2> DEFINE o == task["loop"].o
  <2>1. OnlyLoop' /\ Held' \subseteq Held
    BY <1>8, TickMoves, LoopMoves
  <2>2. task["loop"].pc = "trail" /\ store' = Persisted(o) /\ UNCHANGED <<positions, obj, made>>
    BY <1>8 DEF LoopTrail, At
  <2>3. o \in Objs /\ o \in Held
    BY <1>1, <2>2, BoundsInNat DEF Steady, Hands, Held, HeldOf, Objs
  <2>4. Keeps
    BY <1>1, <2>2, <2>3 DEF Keeps, Persisted, HeldInv, TypeInv, BookTyped, Object
  <2> QED BY <2>1, <2>4, KeepsBook
<1>9. ASSUME NEW o \in Objs, LoopHold(o) \/ LoopMove(o) \/ LoopRule(o) \/ LoopMissing(o)
      PROVE  OnlyLoop' /\ BookInv'
  <2>1. o \in Held /\ OnlyLoop' /\ Held' \subseteq Held
    BY <1>1, <1>9, ManageMoves
  <2>2. UNCHANGED <<positions, made>> /\ store' \in {store, Persisted(o)}
    BY <1>9 DEF LoopHold, LoopMove, LoopRule, LoopMissing, Manage, ManageBelow
  <2>3. \A x \in Objs : obj'[x].sym = obj[x].sym /\ obj'[x].closed = obj[x].closed
    <3>1. obj' = obj \/ \E b : obj' = [obj EXCEPT ![o].pnl = b]
      BY <1>9 DEF LoopHold, LoopMove, LoopRule, LoopMissing, Manage, ManageBelow
    <3> QED BY <3>1 DEF TypeInv, BookTyped, Object
  <2>4. Keeps
    BY <1>1, <2>1, <2>2, <2>3 DEF Keeps, Persisted, HeldInv, TypeInv, BookTyped, Object
  <2> QED BY <2>1, <2>4, KeepsBook
<1>10. CASE LoopRecovered
  BY <1>10, RecoveredBook
<1>11. CASE LoopStart \/ LoopTick \/ LoopQuotes \/ LoopSnapshot \/ LoopKillCheck
  <2>1. OnlyLoop' /\ Held' \subseteq Held
    BY <1>11, PhaseMoves
  <2>2. UNCHANGED bookVars /\ made'.objs = made.objs
    BY <1>11 DEF LoopStart, LoopTick, LoopQuotes, LoopSnapshot, LoopKillCheck
  <2> QED BY <2>1, <2>2, Unbooked, KeepsBook
<1>12. CASE \/ \E n \in Quotes : LoopQuoteUnsent(n) \/ LoopQuoteAsk(n)
            \/ LoopQuoteFilled \/ LoopQuoteUnfilled \/ LoopCancel
            \/ (\E s \in Symbols : LoopRecover(s)) \/ LoopAdoptFails
  <2>1. OnlyLoop' /\ Held' \subseteq Held
    BY <1>12, TickMoves, LoopMoves
  <2>2. UNCHANGED bookVars /\ made'.objs = made.objs
    BY <1>12 DEF LoopQuoteUnsent, SubmitHead, SubmitIf, LoopQuoteAsk, LoopQuoteFilled,
       LoopQuoteUnfilled, LoopCancel, LoopRecover, RecoverUnless, LoopAdoptFails
  <2> QED BY <2>1, <2>2, Unbooked, KeepsBook
<1> QED BY <1>2, <1>3, <1>4, <1>5, <1>6, <1>7, <1>8, <1>9, <1>10, <1>11, <1>12
        DEF LoopStep, Closing

LEMMA BookInvNext ==
    ASSUME TypeInv, MadeInv, ~BadFills, Operations = {}, OnlyLoop, BookInv, [Next]_vars
    PROVE  OnlyLoop' /\ BookInv'
<1>1. CASE UNCHANGED vars
  <2>1. UNCHANGED <<task, ctl, bookVars>> /\ made'.objs = made.objs
    BY <1>1 DEF vars, bookVars
  <2>2. OnlyLoop' /\ Held' = Held
    BY <2>1 DEF OnlyLoop, Held
  <2> QED BY <2>1, <2>2, Unbooked, KeepsBook
<1>2. CASE SigStep
  BY <1>2, SigBook, KeepsBook, OpensBook
<1>3. CASE LoopStep
  BY <1>3, LoopBook
<1>4. ~OpStep
  <2>1. ~Flattening("op")
    BY DEF OnlyLoop, Flattening, FlattenLock, FlattenSnapshot, FlattenCheck, FlattenAgain,
       FlattenDone, FlattenEnds, FlattenCancel, FlattenClose, FlattenBook, At,
       FlattenOrLock, FlattenPcs
  <2> QED BY <2>1 DEF OpStep, OpKillAll, OpRunStop, OpRun, Request
<1>5. CASE Environment
  BY <1>5, EnvironmentBook, KeepsBook
<1> QED BY <1>1, <1>2, <1>3, <1>4, <1>5 DEF Next

LEMMA BookInvInit == Init => OnlyLoop /\ BookInv
<1> SUFFICES ASSUME Init PROVE OnlyLoop /\ BookInv
  OBVIOUS
<1>1. /\ task["loop"] = [IdleTask EXCEPT !.pc = "start"]
      /\ task["sig"] = IdleTask /\ task["op"] = IdleTask /\ ~ctl.stop
  BY DEF Init, Tasks
<1>2. OnlyLoop /\ Held = {}
  BY <1>1 DEF OnlyLoop, Held, HeldOf, Hands, IdleTask, Leaving, FlattenOrLock, FlattenPcs
<1>3. Managed = {} /\ \A s \in Symbols : ~store[s].kept
  BY DEF Init, Managed, NoRecord
<1> QED BY <1>2, <1>3 DEF BookInv, HeldInv

(***************************************************************************)
(* The ids that the executor has in hand, when the detail of a fill names  *)
(* its position.  Whatever names a position, on the venue, in a snapshot,  *)
(* a quote, a row, an attach under way or an object, names an order that   *)
(* has filled.  So every row that becomes an object carries an id, the     *)
(* object is booked under the id it carries, and keeps it afterwards.      *)
(***************************************************************************)
Filled(p)    == p \in Orders /\ order[p].st = "filled"
FillOf(m, s) == m \in Orders /\ order[m].st = "filled" /\ order[m].sym = s
Honest(pos)  == \A s \in Symbols : IF pos[s].units = 0 THEN pos[s].pid = 0
                                                      ELSE FillOf(pos[s].pid, s)

OrdersMade == \A m \in Orders : m > made.orders => order[m].st = "none"

RowsNamed ==
    /\ OrdersMade /\ Honest(venue) /\ Honest(cache.pos)
    /\ \A m \in Orders : order[m].st = "filled" => Filled(order[m].pid)
    /\ \A n \in Quotes : quote[n].syn # NoRaw => Filled(quote[n].syn.pid)
    /\ \A t \in Tasks : task[t].pc = "open" => Filled(task[t].raw.pid)

\* The row that the loop adopts is one of the snapshot of its pass.
RecoversNamed ==
    LET T == task["loop"] IN
    /\ T.then = "recover" => Honest(T.snap.pos)
    /\ T.pc = "adopt" => /\ Filled(T.raw.pid)
                         /\ T.snap.pos[order[T.raw.pid].sym].pid = T.raw.pid

BookedAsNamed ==
    /\ \A x \in attach : Filled(x[2])
    /\ \A o \in Objs : /\ o <= made.objs => Filled(obj[o].pid)
                       /\ Booked(o) => obj[o].key = [kind |-> "pid", id |-> obj[o].pid]

NamedInv == RowsNamed /\ RecoversNamed /\ BookedAsNamed

\* The steps that touch an order of the venue.
OrderMoves ==
    \/ \E m \in Orders : VenueAccept(m) \/ VenueFill(m) \/ VenueExpire(m)
    \/ \E t \in Tasks : Send(t) \/ NotAcked(t)
    \/ \E s \in Symbols : CancelOrders(s)

LEMMA OrderChanges ==
    ASSUME TypeInv, [Next]_vars PROVE UNCHANGED order \/ OrderMoves
<1>0. "sig" \in Tasks /\ "loop" \in Tasks /\ "op" \in Tasks
  BY DEF Tasks
<1>1. CASE UNCHANGED vars
  BY <1>1 DEF vars
<1>2. ASSUME NEW t \in Tasks, Submitting(t) \/ Opening(t) \/ Closing(t)
      PROVE  UNCHANGED order \/ OrderMoves
  BY <1>2 DEF Submitting, SubmitRefused, AckTaker, Opening, Find, OpenDone, Closing, CloseSend,
     VenueTakesClose, CloseReply, CloseBook, venueVars, OrderMoves
<1>3. ASSUME NEW t \in Tasks, Flattening(t) PROVE UNCHANGED order \/ OrderMoves
  BY <1>3 DEF Flattening, FlattenLock, FlattenSnapshot, FlattenCheck, FlattenAgain, FlattenDone,
     FlattenEnds, FlattenCancel, FlattenClose, VenueTakesClose, FlattenBook, venueVars, OrderMoves
<1>4. CASE SigStep
  BY <1>0, <1>2, <1>4 DEF SigStep, SigWork, ArmTaker, SubmitHead, SubmitIf, AckMaker, Decide,
     DecideIf, venueVars
<1>5. CASE LoopCancel
  <2>1. task["loop"].q \in Quotes
    BY <1>0, <1>5 DEF LoopCancel, At, TypeInv, TaskTyped, Steady
  <2>2. SymOf(task["loop"].q) \in Symbols
    BY <2>1 DEF SymOf, TypeInv, QuoteTyped, Quote
  <2> QED BY <1>5, <2>2 DEF LoopCancel, OrderMoves
<1>6. CASE LoopStep /\ ~LoopCancel
  BY <1>0, <1>2, <1>3, <1>6 DEF LoopStep, LoopStart, LoopTick, LoopExit, LoopQuotes,
     LoopQuoteUnsent, SubmitHead, SubmitIf, LoopQuoteAsk, LoopQuoteFilled, LoopQuoteUnfilled,
     LoopSnapshot, LoopRecover, RecoverUnless, LoopAdopt, LoopAdoptFails,
     LoopRecovered, ManageAll, LoopHold, LoopMove, LoopRule, Manage, ManageBelow, LoopMissing,
     LoopTrail, LoopVanished, Vanished, LoopKillCheck, venueVars
<1>7. CASE OpStep
  BY <1>0, <1>3, <1>7 DEF OpStep, OpKillAll, OpRunStop, OpRun, Request, venueVars
<1>8. CASE Environment
  BY <1>8 DEF Environment, VenueClose, VenueTakesClose, AttachDone, OrderMoves, venueVars
<1> QED BY <1>1, <1>4, <1>5, <1>6, <1>7, <1>8 DEF Next

\* No order that was sent changes its symbol, no filled one changes.
OrdersStay ==
    \A k \in Orders : order[k].st # "none" =>
        /\ order'[k].sym = order[k].sym /\ order'[k].st # "none"
        /\ order[k].st = "filled" => order'[k] = order[k]

LEMMA OrdersStaySo ==
    ASSUME TypeInv, OrdersMade, [Next]_vars PROVE OrdersStay
<1> USE DEF OrdersStay
<1>0. order \in [Orders -> Order]
  BY DEF TypeInv, VenueTyped
<1>1. CASE UNCHANGED order
  BY <1>1
<1>2. ASSUME NEW m \in Orders, VenueAccept(m) \/ VenueFill(m) \/ VenueExpire(m)
      PROVE  OrdersStay
  <2>1. /\ order[m].st \notin {"none", "filled"}
        /\ order'[m].sym = order[m].sym /\ order'[m].st # "none"
        /\ \A k \in Orders : k # m => order'[k] = order[k]
    <3>1. CASE VenueAccept(m)
      BY <1>0, <3>1 DEF VenueAccept, Order
    <3>2. CASE VenueFill(m)
      BY <1>0, <3>2 DEF VenueFill, Order
    <3>3. CASE VenueExpire(m)
      BY <1>0, <3>3 DEF VenueExpire, Order
    <3> QED BY <1>2, <3>1, <3>2, <3>3
  <2> QED BY <2>1
<1>3. ASSUME NEW s, CancelOrders(s) PROVE OrdersStay
  BY <1>0, <1>3 DEF CancelOrders, Order
<1>4. ASSUME NEW t \in Tasks, NotAcked(t) PROVE OrdersStay
  <2>1. order' = order \/ /\ order[quote[task[t].q].ord].st = "sent"
                          /\ order' = [order EXCEPT ![quote[task[t].q].ord].st = "dead"]
    BY <1>4 DEF NotAcked
  <2> QED BY <1>0, <2>1 DEF Order
<1>5. ASSUME NEW t \in Tasks, Send(t) PROVE OrdersStay
  <2>1. /\ made.orders + 1 \in Orders /\ order[made.orders + 1].st = "none"
        /\ \A k \in Orders : k # made.orders + 1 => order'[k] = order[k]
    BY <1>0, <1>5, BoundsInNat DEF Send, OrdersMade, Orders, TypeInv, ControlTyped
  <2> QED BY <2>1
<1> QED BY <1>1, <1>2, <1>3, <1>4, <1>5, OrderChanges DEF OrderMoves

LEMMA FillsStay ==
    ASSUME OrdersStay, NEW k, NEW s, FillOf(k, s) PROVE FillOf(k, s)'
BY DEF OrdersStay, FillOf

LEMMA FilledStays ==
    ASSUME OrdersStay, NEW p, Filled(p) PROVE Filled(p)' /\ order'[p] = order[p]
BY DEF OrdersStay, Filled

(* What a step may do to the venue, to the cache and to the count of orders. *)
VenueMoves ==
    \/ UNCHANGED venue
    \/ \E m \in Orders : VenueFill(m)
    \/ \E s \in Symbols : \E pid : \E vol \in Nat : VenueTakesClose(s, pid, vol)

LEMMA VenueSteps ==
    ASSUME TypeInv, [Next]_vars PROVE VenueMoves
<1>0. "sig" \in Tasks /\ "loop" \in Tasks /\ "op" \in Tasks
  BY DEF Tasks
<1>1. CASE UNCHANGED vars
  BY <1>1 DEF vars, VenueMoves
<1>2. ASSUME NEW t \in Tasks, CloseSend(t) PROVE VenueMoves
  <2>1. task[t].o \in Objs /\ task[t].raw \in RawRow
    BY <1>2 DEF CloseSend, At, TypeInv, TaskTyped, Steady, Task
  <2>2. obj[task[t].o].sym \in Symbols /\ CloseVol(t) \in Nat
    BY <2>1 DEF CloseVol, TypeInv, BookTyped, Object, RawRow
  <2> QED BY <1>2, <2>2 DEF CloseSend, VenueMoves, venueVars
<1>3. ASSUME NEW t \in Tasks, NEW s \in Symbols, FlattenClose(t, s) PROVE VenueMoves
  <2>1. task[t].snap.pos[s].units \in Nat
    BY DEF TypeInv, TaskTyped, Task, Snapshot, Position
  <2> QED BY <1>3, <2>1 DEF FlattenClose, VenueMoves, venueVars
<1>4. ASSUME NEW s \in Symbols, VenueClose(s) PROVE VenueMoves
  BY <1>4 DEF VenueClose, VenueMoves, TypeInv, VenueTyped, Position
<1>5. ASSUME NEW t \in Tasks, Submitting(t) \/ Opening(t) \/ CloseReply(t) \/ CloseBook(t)
      PROVE  VenueMoves
  BY <1>5 DEF Submitting, SubmitRefused, Send, NotAcked, AckTaker, Opening, Find, OpenDone,
     CloseReply, CloseBook, venueVars, VenueMoves
<1>6. ASSUME NEW t \in Tasks, Flattening(t) PROVE VenueMoves
  BY <1>3, <1>6 DEF Flattening, FlattenLock, FlattenSnapshot, FlattenCheck, FlattenAgain,
     FlattenDone, FlattenEnds, FlattenCancel, FlattenBook, venueVars, VenueMoves
<1>7. CASE SigStep
  BY <1>0, <1>2, <1>5, <1>7 DEF SigStep, SigWork, Closing, ArmTaker, SubmitHead, SubmitIf,
     AckMaker, Decide, DecideIf, venueVars, VenueMoves
<1>8. CASE LoopStep
  BY <1>0, <1>2, <1>5, <1>6, <1>8 DEF LoopStep, Closing, LoopStart, LoopTick, LoopExit,
     LoopQuotes, LoopQuoteUnsent, SubmitHead, SubmitIf, LoopQuoteAsk, LoopQuoteFilled,
     LoopQuoteUnfilled, LoopCancel, LoopSnapshot, LoopRecover, RecoverUnless, LoopAdopt,
     LoopAdoptFails, LoopRecovered, ManageAll, LoopHold, LoopMove, LoopRule, Manage,
     ManageBelow, LoopMissing, LoopTrail, LoopVanished, Vanished, LoopKillCheck, venueVars,
     VenueMoves
<1>9. CASE OpStep
  BY <1>0, <1>6, <1>9 DEF OpStep, OpKillAll, OpRunStop, OpRun, Request, venueVars, VenueMoves
<1>10. CASE Environment
  BY <1>4, <1>10 DEF Environment, VenueAccept, VenueExpire, AttachDone, venueVars, VenueMoves
<1> QED BY <1>1, <1>7, <1>8, <1>9, <1>10 DEF Next

LEMMA CacheSteps ==
    ASSUME [Next]_vars PROVE cache' \in {cache, FreshSnap}
<1> DEFINE Goal == cache' = cache \/ cache' = FreshSnap
<1>0. "sig" \in Tasks /\ "loop" \in Tasks /\ "op" \in Tasks
  BY DEF Tasks
<1>1. ASSUME NEW snap, PositionsCached(snap) \/ PositionsForced(snap) PROVE Goal
  BY <1>1 DEF PositionsCached, PositionsForced, Fetched, CacheHit, FetchFails
<1>2. ASSUME NEW t \in Tasks, Submitting(t) \/ Opening(t) \/ Closing(t) PROVE Goal
  BY <1>1, <1>2 DEF Submitting, SubmitRefused, Send, NotAcked, AckTaker, Opening, Find,
     OpenDone, Closing, CloseSend, CloseReply, CloseBook
<1>3. ASSUME NEW t \in Tasks, Flattening(t) PROVE Goal
  BY <1>1, <1>3 DEF Flattening, FlattenLock, FlattenSnapshot, FlattenCheck, FlattenAgain,
     FlattenDone, FlattenEnds, FlattenCancel, FlattenClose, FlattenBook
<1>4. CASE SigStep
  BY <1>0, <1>2, <1>4 DEF SigStep, SigWork, ArmTaker, SubmitHead, SubmitIf, AckMaker, Decide,
     DecideIf
<1>5. CASE LoopStep
  BY <1>0, <1>1, <1>2, <1>3, <1>5 DEF LoopStep, LoopStart, LoopTick, LoopExit, LoopQuotes,
     LoopQuoteUnsent, SubmitHead, SubmitIf, LoopQuoteAsk, LoopQuoteFilled,
     LoopQuoteUnfilled, LoopCancel, LoopSnapshot, LoopRecover, RecoverUnless, LoopAdopt,
     LoopAdoptFails, LoopRecovered, ManageAll, LoopHold, LoopMove, LoopRule, Manage,
     ManageBelow, LoopMissing, LoopTrail, LoopVanished, Vanished, LoopKillCheck
<1>6. CASE OpStep
  BY <1>0, <1>3, <1>6 DEF OpStep, OpKillAll, OpRunStop, OpRun, Request
<1>7. CASE Environment \/ UNCHANGED vars
  BY <1>7 DEF Environment, VenueAccept, VenueFill, VenueExpire, VenueClose, AttachDone, vars
<1> QED BY <1>4, <1>5, <1>6, <1>7 DEF Next

LEMMA OrdersCounted ==
    ASSUME TypeInv, [Next]_vars
    PROVE  made'.orders = made.orders \/ \E t \in Tasks : Send(t)
<1> DEFINE Goal == made'.orders = made.orders \/ \E t \in Tasks : Send(t)
<1>0. /\ "sig" \in Tasks /\ "loop" \in Tasks /\ "op" \in Tasks
      /\ made \in [quotes : 0..MaxQuotes, orders : 0..MaxOrders, objs : 0..MaxObjs]
  BY DEF Tasks, TypeInv, ControlTyped
<1>1. ASSUME NEW t \in Tasks, Submitting(t) \/ Opening(t) \/ Closing(t) PROVE Goal
  BY <1>0, <1>1 DEF Submitting, SubmitRefused, NotAcked, AckTaker, Opening, Find,
     OpenDone, Adopt, Closing, CloseSend, CloseReply, CloseBook
<1>2. ASSUME NEW t \in Tasks, Flattening(t) PROVE Goal
  BY <1>2 DEF Flattening, FlattenLock, FlattenSnapshot, FlattenCheck, FlattenAgain,
     FlattenDone, FlattenEnds, FlattenCancel, FlattenClose, FlattenBook
<1>3. CASE SigStep
  BY <1>0, <1>1, <1>3 DEF SigStep, SigWork, ArmTaker, SubmitHead, SubmitIf, AckMaker, Decide,
     DecideIf
<1>4. CASE LoopStep
  BY <1>0, <1>1, <1>2, <1>4 DEF LoopStep, LoopStart, LoopTick, LoopExit, LoopQuotes,
     LoopQuoteUnsent, SubmitHead, SubmitIf, LoopQuoteAsk, LoopQuoteFilled,
     LoopQuoteUnfilled, LoopCancel, LoopSnapshot, LoopRecover, RecoverUnless, LoopAdopt,
     Adopt, LoopAdoptFails, LoopRecovered, ManageAll, LoopHold, LoopMove, LoopRule, Manage,
     ManageBelow, LoopMissing, LoopTrail, LoopVanished, Vanished, LoopKillCheck
<1>5. CASE OpStep
  BY <1>0, <1>2, <1>5 DEF OpStep, OpKillAll, OpRunStop, OpRun, Request
<1>6. CASE Environment \/ UNCHANGED vars
  BY <1>6 DEF Environment, VenueAccept, VenueFill, VenueExpire, VenueClose, AttachDone, vars
<1> QED BY <1>3, <1>4, <1>5, <1>6 DEF Next

LEMMA OrdersMadeKept ==
    ASSUME TypeInv, OrdersMade, [Next]_vars PROVE OrdersMade'
<1> USE DEF OrdersMade
<1>0. /\ order \in [Orders -> Order] /\ made.orders \in Nat /\ \A m \in Orders : m \in Nat
      /\ made \in [quotes : 0..MaxQuotes, orders : 0..MaxOrders, objs : 0..MaxObjs]
  BY BoundsInNat DEF TypeInv, VenueTyped, ControlTyped, Orders
<1>1. ASSUME NEW t \in Tasks, Send(t) PROVE OrdersMade'
  <2>1. /\ made'.orders = made.orders + 1
        /\ \A k \in Orders : k # made.orders + 1 => order'[k] = order[k]
    BY <1>0, <1>1 DEF Send
  <2> QED BY <1>0, <2>1
<1>2. CASE made'.orders = made.orders /\ ~ \E t \in Tasks : Send(t)
  <2>1. CASE UNCHANGED order
    BY <1>2, <2>1
  <2>2. ASSUME NEW m \in Orders, VenueAccept(m) \/ VenueFill(m) \/ VenueExpire(m)
        PROVE  OrdersMade'
    <3>1. order[m].st # "none" /\ \A k \in Orders : k # m => order'[k] = order[k]
      BY <1>0, <2>2 DEF VenueAccept, VenueFill, VenueExpire
    <3> QED BY <1>2, <3>1
  <2>3. ASSUME NEW s, CancelOrders(s) PROVE OrdersMade'
    BY <1>0, <1>2, <2>3 DEF CancelOrders, Order
  <2>4. ASSUME NEW t \in Tasks, NotAcked(t) PROVE OrdersMade'
    <3>1. order' = order \/ /\ order[quote[task[t].q].ord].st = "sent"
                            /\ order' = [order EXCEPT ![quote[task[t].q].ord].st = "dead"]
      BY <2>4 DEF NotAcked
    <3> QED BY <1>0, <1>2, <3>1 DEF Order
  <2> QED BY <1>2, <2>1, <2>2, <2>3, <2>4, OrderChanges DEF OrderMoves
<1> QED BY <1>1, <1>2, OrdersCounted

\* What the venue names is kept or new, and never an order filled before.
LEMMA VenuePids ==
    ASSUME TypeInv, [Next]_vars, NEW s \in Symbols
    PROVE  venue'[s].pid \in {0, venue[s].pid} \/ ~Filled(venue'[s].pid)
<1>0. venue \in [Symbols -> Position] /\ \A x \in Symbols : venue[x].units \in Nat
  BY DEF TypeInv, VenueTyped, Position
<1>1. CASE UNCHANGED venue
  BY <1>1
<1>2. ASSUME NEW m \in Orders, VenueFill(m)
      PROVE  venue'[s].pid \in {0, venue[s].pid} \/ ~Filled(venue'[s].pid)
  <2> DEFINE r == order[m].sym
             pid == IF venue[r].units = 0 THEN m ELSE venue[r].pid
             P == [pid |-> pid, units |-> venue[r].units + 1]
  <2>1. order[m].st = "live" /\ venue' = [venue EXCEPT ![r] = P]
    BY <1>2 DEF VenueFill
  <2>2. ~Filled(m)
    BY <2>1 DEF Filled
  <2>3. P.pid = pid /\ pid \in {m, venue[r].pid}
    OBVIOUS
  <2> HIDE DEF P, pid
  <2>4. s # r => venue'[s] = venue[s]
    BY <1>0, <2>1
  <2>5. s = r => venue'[s].pid = pid
    BY <1>0, <2>1, <2>3
  <2> QED BY <2>2, <2>3, <2>4, <2>5
<1>3. ASSUME NEW r \in Symbols, NEW pid, NEW vol \in Nat, VenueTakesClose(r, pid, vol)
      PROVE  venue'[s].pid \in {0, venue[s].pid}
  <2>1. CASE venue' = [venue EXCEPT ![r] = Flat]
    BY <1>0, <2>1 DEF Flat
  <2>2. CASE venue' = [venue EXCEPT ![r].units = venue[r].units - vol]
    BY <1>0, <2>2 DEF Position
  <2> QED BY <1>3, <2>1, <2>2 DEF VenueTakesClose
<1> QED BY <1>1, <1>2, <1>3, VenueSteps DEF VenueMoves

LEMMA VenueHonest ==
    ASSUME TypeInv, RowsNamed, OrdersStay, [Next]_vars PROVE Honest(venue)'
<1>0. /\ venue \in [Symbols -> Position] /\ \A x \in Symbols : venue[x].units \in Nat
      /\ order \in [Orders -> Order]
  BY DEF TypeInv, VenueTyped, Position
<1>1. \A s \in Symbols : IF venue[s].units = 0 THEN venue[s].pid = 0
                                               ELSE FillOf(venue[s].pid, s)
  BY DEF RowsNamed, Honest
<1>2. \A p, s : FillOf(p, s) => FillOf(p, s)'
  BY FillsStay
<1>3. CASE UNCHANGED venue
  BY <1>1, <1>2, <1>3 DEF Honest
<1>4. ASSUME NEW m \in Orders, VenueFill(m) PROVE Honest(venue)'
  <2>1. PICK r \in Symbols : r = order[m].sym
    BY <1>0 DEF Order
  <2>2. PICK pid : pid = IF venue[r].units = 0 THEN m ELSE venue[r].pid
    OBVIOUS
  <2>3. PICK M : M = [order[m] EXCEPT !.st = "filled", !.pid = pid]
    OBVIOUS
  <2>4. PICK P : P = [pid |-> pid, units |-> venue[r].units + 1]
    OBVIOUS
  <2>5. venue' = [venue EXCEPT ![r] = P] /\ order' = [order EXCEPT ![m] = M]
    BY <1>4, <2>1, <2>2, <2>3, <2>4 DEF VenueFill
  <2>6. M.st = "filled" /\ M.sym = r
    BY <1>0, <2>1, <2>3 DEF Order
  <2>7. P.pid = pid /\ P.units # 0
    BY <1>0, <2>4
  <2>8. FillOf(m, r)'
    BY <1>0, <2>5, <2>6 DEF FillOf
  <2>9. FillOf(pid, r)'
    BY <1>1, <1>2, <2>1, <2>2, <2>8
  <2>10. venue'[r] = P /\ \A s \in Symbols : s # r => venue'[s] = venue[s]
    BY <1>0, <2>5
  <2> QED BY <1>1, <1>2, <2>7, <2>9, <2>10 DEF Honest
<1>5. ASSUME NEW r \in Symbols, NEW pid, NEW vol \in Nat, VenueTakesClose(r, pid, vol)
      PROVE  Honest(venue)'
  <2>1. \A s \in Symbols : s # r => venue'[s] = venue[s]
    BY <1>0, <1>5 DEF VenueTakesClose
  <2>2. CASE venue' = [venue EXCEPT ![r] = Flat]
    <3>1. venue'[r].units = 0 /\ venue'[r].pid = 0
      BY <1>0, <2>2 DEF Flat
    <3> QED BY <1>1, <1>2, <2>1, <3>1 DEF Honest
  <2>3. CASE vol < venue[r].units /\ venue' = [venue EXCEPT ![r].units = venue[r].units - vol]
    <3>1. venue'[r].units # 0 /\ venue'[r].pid = venue[r].pid /\ venue[r].units # 0
      BY <1>0, <2>3 DEF Position
    <3> QED BY <1>1, <1>2, <2>1, <3>1 DEF Honest
  <2>4. ~(vol >= venue[r].units) => vol < venue[r].units
    BY <1>0
  <2> QED BY <1>5, <2>2, <2>3, <2>4 DEF VenueTakesClose
<1> QED BY <1>3, <1>4, <1>5, VenueSteps DEF VenueMoves

LEMMA CacheHonest ==
    ASSUME RowsNamed, OrdersStay, [Next]_vars PROVE Honest(cache.pos)'
<1>1. Honest(cache.pos) /\ Honest(venue) /\ FreshSnap.pos = venue
  BY DEF RowsNamed, FreshSnap
<1>2. cache' = cache \/ cache' = FreshSnap
  BY CacheSteps
<1>3. PICK pos : pos = cache'.pos
  OBVIOUS
<1>4. Honest(pos)
  BY <1>1, <1>2, <1>3
<1>5. \A p, s : FillOf(p, s) => FillOf(p, s)'
  BY FillsStay
<1> QED BY <1>3, <1>4, <1>5 DEF Honest

LEMMA FillsNamed ==
    ASSUME TypeInv, RowsNamed, OrdersStay, [Next]_vars
    PROVE  (\A m \in Orders : order[m].st = "filled" => Filled(order[m].pid))'
<1> DEFINE Named == \A m \in Orders : order'[m].st = "filled" =>
                      order'[m].pid \in Orders /\ order'[order'[m].pid].st = "filled"
<1>0. order \in [Orders -> Order]
  BY DEF TypeInv, VenueTyped
<1>1. \A p : Filled(p) => p \in Orders /\ order'[p].st = "filled"
  BY FilledStays DEF Filled
<1>2. \A m \in Orders : order[m].st = "filled" => Filled(order[m].pid)
  BY DEF RowsNamed
<1>3. ASSUME \A m \in Orders : order'[m].st = "filled" => order'[m] = order[m] PROVE Named
  BY <1>1, <1>2, <1>3
<1>4. ASSUME NEW m \in Orders, VenueAccept(m) \/ VenueExpire(m) PROVE Named
  <2>1. \E st \in {"live", "dead"} : order' = [order EXCEPT ![m].st = st]
    BY <1>4 DEF VenueAccept, VenueExpire
  <2> QED BY <1>0, <1>3, <2>1 DEF Order
<1>5. ASSUME NEW m \in Orders, VenueFill(m) PROVE Named
  <2>1. PICK r \in Symbols : r = order[m].sym
    BY <1>0 DEF Order
  <2>2. PICK pid : pid = IF venue[r].units = 0 THEN m ELSE venue[r].pid
    OBVIOUS
  <2>3. PICK M : M = [order[m] EXCEPT !.st = "filled", !.pid = pid]
    OBVIOUS
  <2>4. order' = [order EXCEPT ![m] = M]
    BY <1>5, <2>1, <2>2, <2>3 DEF VenueFill
  <2>5. M.st = "filled" /\ M.pid = pid
    BY <1>0, <2>3 DEF Order
  <2>6. order'[m] = M /\ \A k \in Orders : k # m => order'[k] = order[k]
    BY <1>0, <2>4
  <2>7. pid = m \/ Filled(pid)
    BY <2>2 DEF RowsNamed, Honest, FillOf, Filled
  <2>8. pid \in Orders /\ order'[pid].st = "filled"
    BY <1>1, <2>5, <2>6, <2>7
  <2> QED BY <1>1, <1>2, <2>5, <2>6, <2>8
<1>6. ASSUME NEW s, CancelOrders(s) PROVE Named
  BY <1>0, <1>3, <1>6 DEF CancelOrders, Order
<1>7. ASSUME NEW t \in Tasks, Send(t) \/ NotAcked(t) PROVE Named
  <2>1. \A k \in Orders : order'[k] = order[k] \/ order'[k].st # "filled"
    BY <1>0, <1>7 DEF Send, NotAcked, Order
  <2> QED BY <1>3, <2>1
<1>8. ASSUME UNCHANGED order PROVE Named
  BY <1>3, <1>8
<1> HIDE DEF Named
<1>9. Named
  BY <1>4, <1>5, <1>6, <1>7, <1>8, OrderChanges DEF OrderMoves
<1>10. \A m \in Orders : order'[m].st = "filled" =>
         order'[m].pid \in Orders /\ order'[order'[m].pid].st = "filled"
  BY <1>9 DEF Named
<1> QED BY <1>10 DEF Filled

\* Only the acknowledgement gives a quote a synthetic row.
SameSyns == \A n \in Quotes : quote'[n].syn = quote[n].syn

LEMMA SubmitSyns ==
    ASSUME TypeInv, NEW t, NEW n, NEW armed, NEW T, SubmitHead(t, n, armed, T) PROVE SameSyns
<1>1. \E st, b : quote' = [quote EXCEPT ![n] = [quote[n] EXCEPT !.st = st, !.stray = b]]
  BY DEF SubmitHead, SubmitIf
<1> QED BY <1>1 DEF SameSyns, TypeInv, QuoteTyped, Quote

LEMMA OpenFromSyns ==
    ASSUME TypeInv, NEW t, NEW n, NEW row, OpenFrom(t, n, row, quote[n]) PROVE SameSyns
<1>1. \E b \in BOOLEAN : quote' = [quote EXCEPT ![n] = [quote[n] EXCEPT !.mat = b]]
  BY DEF OpenFrom
<1> QED BY <1>1 DEF SameSyns, TypeInv, QuoteTyped, Quote

LEMMA SynsKept ==
    ASSUME TypeInv, [Next]_vars, ~ \E t \in Tasks : AckTaker(t) PROVE SameSyns
<1> USE DEF SameSyns
<1>0. "sig" \in Tasks /\ "loop" \in Tasks /\ "op" \in Tasks
  BY DEF Tasks
<1>1. CASE UNCHANGED quote
  BY <1>1
<1>2. ASSUME NEW n, NEW st, quote' = [quote EXCEPT ![n].st = st] PROVE SameSyns
  BY <1>2 DEF TypeInv, QuoteTyped, Quote
<1>3. ASSUME NEW n, NEW b, quote' = [quote EXCEPT ![n].mat = b] PROVE SameSyns
  BY <1>3 DEF TypeInv, QuoteTyped, Quote
<1>4. ASSUME NEW n, DropEntry(n) PROVE SameSyns
  BY <1>4 DEF DropEntry, TypeInv, QuoteTyped, Quote
<1>5. ASSUME NEW t \in Tasks, Submitting(t) \/ Opening(t) \/ Closing(t) PROVE SameSyns
  <2>1. CASE Send(t)
    BY <2>1 DEF Send, TypeInv, QuoteTyped, Quote
  <2>2. CASE SubmitRefused(t) \/ NotAcked(t)
    BY <1>1, <1>2, <2>2 DEF SubmitRefused, NotAcked, Drop, quoteVars
  <2>3. CASE Find(t)
    BY <1>3, <2>3, OpenFromSyns DEF Find
  <2>4. CASE OpenDone(t)
    BY <1>3, <2>4 DEF OpenDone
  <2>5. CASE Closing(t)
    BY <1>1, <2>5 DEF Closing, CloseSend, CloseReply, CloseBook, quoteVars
  <2> QED BY <1>5, <2>1, <2>2, <2>3, <2>4, <2>5 DEF Submitting, Opening
<1>6. ASSUME NEW t \in Tasks, Flattening(t) PROVE SameSyns
  BY <1>1, <1>6 DEF Flattening, FlattenLock, FlattenSnapshot, FlattenCheck, FlattenAgain,
     FlattenDone, FlattenEnds, FlattenCancel, FlattenClose, FlattenBook, quoteVars
<1>7. CASE SigStep
  <2>1. CASE ArmTaker
    BY <2>1, SubmitSyns DEF ArmTaker
  <2>2. CASE AckMaker
    BY <1>2, <2>2 DEF AckMaker
  <2>3. CASE \E s \in Symbols : Decide(s)
    BY <2>3 DEF Decide, DecideIf, TypeInv, QuoteTyped, Quote
  <2> QED BY <1>0, <1>5, <1>7, <2>1, <2>2, <2>3 DEF SigStep, SigWork
<1>8. CASE LoopStep
  <2>1. ASSUME NEW n \in Quotes, LoopQuoteUnsent(n) PROVE SameSyns
    BY <1>1, <2>1, SubmitSyns DEF LoopQuoteUnsent
  <2>2. CASE LoopQuoteFilled
    BY <1>1, <1>3, <2>2, OpenFromSyns DEF LoopQuoteFilled, quoteVars
  <2>3. CASE LoopQuoteUnfilled \/ LoopCancel
    BY <1>1, <1>4, <2>3 DEF LoopQuoteUnfilled, LoopCancel, quoteVars
  <2> QED BY <1>0, <1>1, <1>5, <1>6, <1>8, <2>1, <2>2, <2>3
          DEF LoopStep, LoopStart, LoopTick, LoopExit, LoopQuotes, LoopQuoteAsk,
     LoopSnapshot, LoopRecover, RecoverUnless, LoopAdopt, LoopAdoptFails,
     LoopRecovered, ManageAll, LoopHold, LoopMove, LoopRule, Manage, ManageBelow, LoopMissing,
     LoopTrail, LoopVanished, Vanished, LoopKillCheck, quoteVars
<1>9. CASE OpStep
  BY <1>0, <1>1, <1>6, <1>9 DEF OpStep, OpKillAll, OpRunStop, OpRun, Request, quoteVars
<1>10. CASE Environment \/ UNCHANGED vars
  BY <1>1, <1>10 DEF Environment, VenueAccept, VenueFill, VenueExpire, VenueClose, AttachDone,
     quoteVars, vars
<1> QED BY <1>7, <1>8, <1>9, <1>10 DEF Next

LEMMA SynsNamed ==
    ASSUME TypeInv, FillCarriesPid, RowsNamed, OrdersStay, [Next]_vars
    PROVE  (\A n \in Quotes : quote[n].syn # NoRaw => Filled(quote[n].syn.pid))'
<1>0. \A p : Filled(p) => p \in Orders /\ order'[p].st = "filled"
  BY FilledStays DEF Filled
<1>1. \A n \in Quotes : quote[n].syn # NoRaw => Filled(quote[n].syn.pid)
  BY DEF RowsNamed
<1>2. ASSUME NEW t \in Tasks, AckTaker(t)
      PROVE  \A n \in Quotes : quote'[n].syn # NoRaw =>
                quote'[n].syn.pid \in Orders /\ order'[quote'[n].syn.pid].st = "filled"
  <2> DEFINE n == task[t].q
             m == quote[n].ord
  <2>1. task[t].pc = "ack" /\ n \in Quotes /\ m \in Orders /\ quote[n] \in Quote
    BY <1>2 DEF AckTaker, At, TypeInv, TaskTyped, Steady, AcksOrdered, QuoteTyped
  <2>2. PICK row \in SyntheticRows(m) :
          \E b \in BOOLEAN : quote' = [quote EXCEPT ![n] =
              [[quote[n] EXCEPT !.st = "acked", !.syn = row] EXCEPT !.mat = b]]
    BY <1>2 DEF AckTaker, OpenFrom
  <2>3. row # NoRaw => Filled(row.pid)
    BY <2>1, <2>2 DEF SyntheticRows, RowsNamed
  <2>4. quote'[n].syn = row /\ \A x \in Quotes : x # n => quote'[x] = quote[x]
    BY <2>1, <2>2 DEF TypeInv, QuoteTyped, Quote
  <2> HIDE DEF n, m
  <2> QED BY <1>0, <1>1, <2>3, <2>4
<1>3. CASE ~ \E t \in Tasks : AckTaker(t)
  <2>1. SameSyns
    BY <1>3, SynsKept
  <2> QED BY <1>0, <1>1, <2>1 DEF SameSyns, Filled
<1>4. CASE \E t \in Tasks : AckTaker(t)
  BY <1>2, <1>4 DEF Filled
<1> QED BY <1>3, <1>4

\* The steps that take a row in hand, or a snapshot to recover from, are few; after
\* every other one a task is as before or apart from both.
Apart(T, U) == /\ U.pc \notin {"open", "adopt"}
               /\ U.then = "recover" => T.then = "recover" /\ U.snap = T.snap
NoOpening == \A t \in Tasks : task'[t] = task[t] \/ Apart(task[t], task'[t])

LEMMA BecomesNotOpen ==
    ASSUME TypeInv, NEW t \in Tasks, NEW U, task' = [task EXCEPT ![t] = U], Apart(task[t], U)
    PROVE  NoOpening
BY DEF TypeInv, TaskTyped, NoOpening

LEMMA BackNotOpen ==
    ASSUME TypeInv, NEW t \in Tasks, NEW T \in Task, task' = [task EXCEPT ![t] = Return(T)],
           T.then = task[t].then, T.snap = task[t].snap
    PROVE  NoOpening
<1> DEFINE R == Return(T)
<1>1. Apart(task[t], R)
  BY DEF Return, Task, Apart
<1> HIDE DEF R
<1> QED BY <1>1, BecomesNotOpen DEF R

LEMMA GotoNotOpen ==
    ASSUME TypeInv, NEW t \in Tasks, NEW pc, pc \notin {"open", "adopt"}, Goto(t, pc)
    PROVE  NoOpening
<1>1. task' = [task EXCEPT ![t] = [task[t] EXCEPT !.pc = pc]] /\ task[t] \in Task
  BY SetPc DEF TypeInv, TaskTyped
<1>2. Apart(task[t], [task[t] EXCEPT !.pc = pc])
  BY <1>1 DEF Task, Apart
<1> QED BY <1>1, <1>2, BecomesNotOpen

LEMMA SubmitNotOpen ==
    ASSUME TypeInv, NEW t \in Tasks, NEW n, NEW armed, NEW T \in Task,
           SubmitHead(t, n, armed, T), T.then = task[t].then, T.snap = task[t].snap
    PROVE  NoOpening
<1> DEFINE S == [T EXCEPT !.pc = "submit", !.q = n]
<1>1. task' = [task EXCEPT ![t] = Return(T)] \/ task' = [task EXCEPT ![t] = S]
  BY DEF SubmitHead, SubmitIf
<1>2. Apart(task[t], S)
  BY DEF Task, Apart
<1> HIDE DEF S
<1> QED BY <1>1, <1>2, BackNotOpen, BecomesNotOpen

LEMMA FlattenNotOpen ==
    ASSUME TypeInv, NEW t \in Tasks, NEW T \in Task, NEW c, EnterFlatten(t, T, c),
           T.then # "recover"
    PROVE  NoOpening
<1> DEFINE L == [T EXCEPT !.pc = "lock"]
           F == [T EXCEPT !.pc = "flatcancel", !.left = Retries,
                          !.syms = {s \in Symbols : quotes[s] # 0}]
<1>1. task' = [task EXCEPT ![t] = L] \/ task' = [task EXCEPT ![t] = F]
  BY DEF EnterFlatten, Flatten
<1>2. Apart(task[t], L) /\ Apart(task[t], F)
  BY DEF Task, Apart
<1> HIDE DEF L, F
<1> QED BY <1>1, <1>2, BecomesNotOpen

LEMMA FlatteningNotOpen ==
    ASSUME TypeInv, NEW t \in Tasks, Flattening(t) PROVE NoOpening
<1>0. task[t] \in Task /\ task[t].then # "recover"
  BY DEF TypeInv, TaskTyped, Steady, Flattening, FlattenLock, FlattenSnapshot, FlattenCheck,
     FlattenAgain, FlattenDone, FlattenEnds, FlattenCancel, FlattenClose, FlattenBook, At
<1>1. CASE FlattenLock(t)
  BY <1>0, <1>1, FlattenNotOpen DEF FlattenLock
<1>2. ASSUME NEW s \in Symbols, FlattenCancel(t, s) \/ FlattenClose(t, s) PROVE NoOpening
  BY <1>2 DEF FlattenCancel, FlattenClose, At, TypeInv, TaskTyped, Task, NoOpening, Apart
<1>3. CASE FlattenSnapshot(t)
  <2>1. PICK syms, snap :
          task' = [task EXCEPT ![t] = [task[t] EXCEPT
                 !.pc = IF syms = {} THEN "flatfinal" ELSE "flatclose",
                 !.syms = syms, !.snap = snap]]
    BY <1>3 DEF FlattenSnapshot
  <2> DEFINE pc == IF syms = {} THEN "flatfinal" ELSE "flatclose"
             U == [task[t] EXCEPT !.pc = pc, !.syms = syms, !.snap = snap]
  <2>2. task' = [task EXCEPT ![t] = U] /\ Apart(task[t], U)
    BY <1>0, <2>1 DEF Task, Apart
  <2> HIDE DEF U
  <2> QED BY <2>2, BecomesNotOpen
<1>4. CASE FlattenCheck(t)
  <2> DEFINE U(todo) == [task[t] EXCEPT !.pc = "flatbook", !.left = task[t].left - 1,
                                        !.todo = todo, !.snap = NoSnap]
  <2>1. PICK todo : task' = [task EXCEPT ![t] = U(todo)]
    BY <1>4 DEF FlattenCheck
  <2>2. Apart(task[t], U(todo))
    BY <1>0 DEF Task, Apart
  <2> HIDE DEF U
  <2> QED BY <2>1, <2>2, BecomesNotOpen
<1>5. ASSUME NEW o \in Objs, FlattenBook(t, o) PROVE NoOpening
  BY <1>5 DEF FlattenBook, At, TypeInv, TaskTyped, Task, NoOpening, Apart
<1>6. CASE FlattenAgain(t)
  <2>1. Goto(t, "flatfinal") \/ Goto(t, "flatsnap")
    BY <1>6 DEF FlattenAgain
  <2> QED BY <2>1, GotoNotOpen
<1>7. CASE FlattenDone(t)
  <2> DEFINE U == [IdleTask EXCEPT !.pc = task[t].then]
  <2>1. task' = [task EXCEPT ![t] = U]
    BY <1>7 DEF FlattenDone, FlattenEnds
  <2>2. Apart(task[t], U)
    BY <1>0 DEF IdleTask, Task, Apart
  <2> HIDE DEF U
  <2> QED BY <2>1, <2>2, BecomesNotOpen
<1> QED BY <1>1, <1>2, <1>3, <1>4, <1>5, <1>6, <1>7 DEF Flattening

LEMMA EntryNotOpen ==
    ASSUME TypeInv, NEW t \in Tasks,
           SubmitRefused(t) \/ Send(t) \/ NotAcked(t) \/ OpenDone(t) \/ Closing(t)
    PROVE  NoOpening
<1>0. task[t] \in Task
  BY DEF TypeInv, TaskTyped
<1>1. CASE Back(t) \/ task' = [task EXCEPT ![t] = Return(task[t])]
  BY <1>0, <1>1, BackNotOpen DEF Back
<1>2. CASE \E pc \in {"ack", "resolve"} : Goto(t, pc)
  BY <1>2, GotoNotOpen
<1>3. CASE CloseSend(t)
  <2> DEFINE V == [task[t] EXCEPT !.pc = "closing", !.left = task[t].left - 1]
             W == [task[t] EXCEPT !.left = task[t].left - 1]
  <2>1. task[t].pc = "close"
    BY <1>3 DEF CloseSend, At
  <2>2. Apart(task[t], V) /\ Apart(task[t], W)
    BY <1>0, <2>1 DEF Task, Apart
  <2>3. \/ task' = [task EXCEPT ![t] = V] \/ task' = [task EXCEPT ![t] = W]
        \/ Back(t) \/ task' = [task EXCEPT ![t] = Return(task[t])]
    BY <1>3 DEF CloseSend
  <2> HIDE DEF V, W
  <2> QED BY <1>1, <2>2, <2>3, BecomesNotOpen
<1>4. CASE CloseReply(t) \/ OpenDone(t)
  <2> DEFINE V == [task[t] EXCEPT !.pc = "close"]
             W == [task[t] EXCEPT !.pc = "close", !.o = made.objs + 1, !.left = 3]
  <2>1. Apart(task[t], V) /\ Apart(task[t], W)
    BY <1>0 DEF Task, Apart
  <2>2. \/ task' = [task EXCEPT ![t] = V] \/ task' = [task EXCEPT ![t] = W]
        \/ Back(t) \/ task' = [task EXCEPT ![t] = Return(task[t])] \/ Goto(t, "resolve")
    BY <1>4 DEF CloseReply, OpenDone
  <2> HIDE DEF V, W
  <2> QED BY <1>1, <1>2, <2>1, <2>2, BecomesNotOpen
<1> QED BY <1>1, <1>2, <1>3, <1>4 DEF SubmitRefused, Drop, Send, NotAcked, Closing, CloseBook

LEMMA LoopNotOpen ==
    ASSUME TypeInv, LoopStep, ~ \E t \in Tasks : AckTaker(t) \/ Find(t), ~LoopQuoteFilled,
           ~LoopSnapshot, ~ \E s \in Symbols : LoopRecover(s)
    PROVE  NoOpening
<1>1. "loop" \in Tasks /\ task["loop"] \in Task
  BY DEF TypeInv, TaskTyped, Tasks
<1>2. ASSUME NEW U, task' = [task EXCEPT !["loop"] = U], Apart(task["loop"], U)
      PROVE  NoOpening
  BY <1>1, <1>2, BecomesNotOpen
<1>3. CASE Back("loop") \/ \E pc \in {"idle", "balance", "off", "cancel"} : Goto("loop", pc)
  BY <1>1, <1>3, BackNotOpen, GotoNotOpen DEF Back
<1>4. CASE task' = [task EXCEPT !["loop"] = IdleTask]
  <2>1. Apart(task["loop"], IdleTask)
    BY DEF IdleTask, Apart
  <2> QED BY <1>2, <1>4, <2>1
<1>5. CASE LoopQuotes
  <2> DEFINE U == [task["loop"] EXCEPT !.pc = "quotes", !.then = "quotes",
                     !.todo = {quotes[s] : s \in Symbols} \ {0}]
  <2>1. task' = [task EXCEPT !["loop"] = U] /\ Apart(task["loop"], U)
    BY <1>1, <1>5 DEF LoopQuotes, Task, Apart
  <2> HIDE DEF U
  <2> QED BY <1>2, <2>1
<1>6. ASSUME NEW n \in Quotes, LoopQuoteUnsent(n) PROVE NoOpening
  <2> DEFINE T == [task["loop"] EXCEPT !.todo = task["loop"].todo \ {n}]
  <2>1. /\ T \in Task /\ T.then = task["loop"].then /\ T.snap = task["loop"].snap
        /\ Apart(task["loop"], T)
    BY <1>1, <1>6 DEF LoopQuoteUnsent, At, Task, Apart
  <2>2. SubmitHead("loop", n, quotes, T) \/ task' = [task EXCEPT !["loop"] = T]
    BY <1>6 DEF LoopQuoteUnsent
  <2> HIDE DEF T
  <2> QED BY <1>1, <1>2, <2>1, <2>2, SubmitNotOpen
<1>7. ASSUME NEW n \in Quotes, LoopQuoteAsk(n) PROVE NoOpening
  <2> DEFINE U == [task["loop"] EXCEPT !.todo = task["loop"].todo \ {n}, !.pc = "check",
                                       !.q = n]
  <2>1. task' = [task EXCEPT !["loop"] = U] /\ Apart(task["loop"], U)
    BY <1>1, <1>7 DEF LoopQuoteAsk, Task, Apart
  <2> HIDE DEF U
  <2> QED BY <1>2, <2>1
<1>8. CASE LoopRecovered
  <2> DEFINE U == [task["loop"] EXCEPT !.pc = "manage", !.then = "manage",
                   !.todo = {positions[s] : s \in Managed}]
  <2>1. task' = [task EXCEPT !["loop"] = U] /\ Apart(task["loop"], U)
    BY <1>1, <1>8 DEF LoopRecovered, ManageAll, Task, Apart
  <2> HIDE DEF U
  <2> QED BY <1>2, <2>1
<1>9. ASSUME NEW o \in Objs, LoopHold(o) \/ LoopMove(o) \/ LoopRule(o) \/ LoopMissing(o)
       PROVE  NoOpening
  <2> DEFINE V == [task["loop"] EXCEPT !.todo = task["loop"].todo \ {o}]
             M == [task["loop"] EXCEPT !.pc = "trail", !.o = o]
             C(raw) == [task["loop"] EXCEPT !.pc = "close", !.o = o, !.left = 3, !.raw = raw]
             H == [task["loop"] EXCEPT !.pc = "history", !.todo = task["loop"].todo \ {o},
                                       !.o = o]
             On(U) == [U EXCEPT !.todo = U.todo \ {o}]
  <2>1. task["loop"].pc = "manage"
    BY <1>9 DEF LoopHold, LoopMove, LoopRule, LoopMissing, Manage, ManageBelow, At
  <2>2. /\ Apart(task["loop"], V) /\ Apart(task["loop"], H) /\ Apart(task["loop"], On(M))
        /\ \A raw : Apart(task["loop"], On(C(raw)))
    BY <1>1, <2>1 DEF Task, Apart
  <2>3. \/ task' = [task EXCEPT !["loop"] = V] \/ task' = [task EXCEPT !["loop"] = H]
        \/ task' = [task EXCEPT !["loop"] = On(M)]
        \/ \E raw : task' = [task EXCEPT !["loop"] = On(C(raw))]
    BY <1>9 DEF LoopHold, LoopMove, LoopRule, LoopMissing, Manage, ManageBelow
  <2> HIDE DEF V, H, M, C, On
  <2> QED BY <1>2, <2>2, <2>3
<1>10. CASE LoopExit \/ LoopKillCheck
  <2> DEFINE V == [task["loop"] EXCEPT !.then = "off", !.why = "loop_exit"]
             W == [IdleTask EXCEPT !.why = "trip"]
  <2>1. V \in Task /\ W \in Task /\ V.then # "recover" /\ W.then # "recover"
    BY <1>1, IdleTaskMade DEF Task, IdleTask
  <2>2. \/ Goto("loop", "off") \/ task' = [task EXCEPT !["loop"] = IdleTask]
        \/ \E c : EnterFlatten("loop", V, c) \/ EnterFlatten("loop", W, c)
    BY <1>10 DEF LoopExit, LoopKillCheck
  <2> HIDE DEF V, W
  <2> QED BY <1>1, <1>3, <1>4, <2>1, <2>2, FlattenNotOpen
<1>11. CASE LoopAdopt \/ LoopAdoptFails \/ LoopCancel \/ LoopVanished \/ LoopTrail \/ LoopStart
            \/ LoopTick \/ LoopQuoteUnfilled
  BY <1>3, <1>11 DEF LoopAdopt, LoopAdoptFails, LoopCancel, LoopVanished, Vanished, LoopTrail,
     LoopStart, LoopTick, LoopQuoteUnfilled
<1> QED BY <1>1, <1>5, <1>6, <1>7, <1>8, <1>9, <1>10, <1>11, EntryNotOpen,
           FlatteningNotOpen
        DEF LoopStep, Submitting, Opening

LEMMA StepsNotOpen ==
    ASSUME TypeInv, [Next]_vars, ~ \E t \in Tasks : AckTaker(t) \/ Find(t), ~LoopQuoteFilled,
           ~LoopSnapshot, ~ \E s \in Symbols : LoopRecover(s)
    PROVE  NoOpening
<1>1. "sig" \in Tasks /\ "op" \in Tasks /\ "loop" \in Tasks /\ task["sig"] \in Task
  BY DEF TypeInv, TaskTyped, Tasks
<1>2. CASE UNCHANGED task
  BY <1>2 DEF NoOpening
<1>3. CASE SigStep
  <2>1. CASE ArmTaker
    BY <1>1, <2>1, SubmitNotOpen DEF ArmTaker
  <2>2. CASE AckMaker
    BY <1>1, <2>2, BackNotOpen DEF AckMaker, Back
  <2>3. ASSUME NEW s \in Symbols, Decide(s) PROVE NoOpening
    <3> DEFINE U == [task["sig"] EXCEPT !.pc = "tick", !.q = made.quotes + 1]
    <3>1. task' = [task EXCEPT !["sig"] = U] /\ Apart(task["sig"], U)
      BY <1>1, <2>3 DEF Decide, DecideIf, Task, Apart
    <3> HIDE DEF U
    <3> QED BY <1>1, <3>1, BecomesNotOpen
  <2> QED BY <1>1, <1>3, <2>1, <2>2, <2>3, EntryNotOpen
          DEF SigStep, SigWork, Submitting, Opening
<1>4. CASE OpStep
  <2> DEFINE T(why) == [IdleTask EXCEPT !.why = why]
             S == [IdleTask EXCEPT !.pc = "start"]
  <2>1. /\ Apart(task["loop"], S)
        /\ \A why \in {"kill_all", "run_stop"} : T(why) \in Task /\ T(why).then # "recover"
    BY IdleTaskMade DEF Task, IdleTask, Apart
  <2>2. \/ Flattening("op") \/ task' = [task EXCEPT !["loop"] = S]
        \/ \E why \in {"kill_all", "run_stop"} : \E c : EnterFlatten("op", T(why), c)
    BY <1>4 DEF OpStep, OpKillAll, OpRunStop, OpRun
  <2> HIDE DEF T, S
  <2> QED BY <1>1, <2>1, <2>2, FlatteningNotOpen, FlattenNotOpen, BecomesNotOpen
<1>5. CASE LoopStep
  BY <1>5, LoopNotOpen
<1>6. CASE Environment \/ UNCHANGED vars
  BY <1>2, <1>6 DEF Environment, VenueAccept, VenueFill, VenueExpire, VenueClose, AttachDone, vars
<1> QED BY <1>3, <1>4, <1>5, <1>6 DEF Next

LEMMA SnapHonest ==
    ASSUME RowsNamed, NEW snap, PositionsCached(snap) \/ PositionsForced(snap)
    PROVE  Honest(snap.pos)
<1>1. Honest(NoSnap.pos) /\ FreshSnap.pos = venue
  BY DEF Honest, NoSnap, Flat, FreshSnap
<1>2. snap \in {FreshSnap, cache, NoSnap}
  BY DEF PositionsCached, PositionsForced, Fetched, CacheHit, FetchFails
<1> QED BY <1>1, <1>2 DEF RowsNamed

\* The rows in hand, and the snapshot to recover from.
TakesNamed == /\ \A t \in Tasks : task[t].pc = "open" => Filled(task[t].raw.pid)
              /\ RecoversNamed

LEMMA HonestStays ==
    ASSUME OrdersStay, NEW pos, Honest(pos) PROVE Honest(pos)'
<1>1. \A p, s : FillOf(p, s) => FillOf(p, s)'
  BY FillsStay
<1> QED BY <1>1 DEF Honest

LEMMA TakesSo ==
    ASSUME TypeInv, TakesNamed, OrdersStay, NEW t \in Tasks, NEW U,
           task' = [task EXCEPT ![t] = U],
           U.pc \in {"open", "adopt"} => Filled(U.raw.pid),
           U.then = "recover" => Honest(U.snap.pos),
           U.pc = "adopt" => U.snap.pos[order[U.raw.pid].sym].pid = U.raw.pid
    PROVE  TakesNamed'
<1>0. \A p : Filled(p) => p \in Orders /\ order'[p].st = "filled" /\ order'[p] = order[p]
  BY FilledStays DEF Filled
<1>1. /\ task'[t] = U /\ \A u \in Tasks : u # t => task'[u] = task[u]
      /\ "loop" \in Tasks
  BY DEF TypeInv, TaskTyped, Tasks
<1>2. (\A u \in Tasks : task[u].pc = "open" => Filled(task[u].raw.pid))'
  BY <1>0, <1>1 DEF TakesNamed, Filled
<1>3. PICK V : V = task'["loop"]
  OBVIOUS
<1>4. V = U \/ V = task["loop"]
  BY <1>1, <1>3
<1>5. /\ V.then = "recover" => Honest(V.snap.pos)
      /\ V.pc = "adopt" => Filled(V.raw.pid) /\ V.snap.pos[order[V.raw.pid].sym].pid = V.raw.pid
  BY <1>4 DEF TakesNamed, RecoversNamed
<1>6. V.then = "recover" => Honest(V.snap.pos)'
  BY <1>5, HonestStays
<1>7. V.pc = "adopt" => Filled(V.raw.pid)' /\ V.snap.pos[order'[V.raw.pid].sym].pid = V.raw.pid
  BY <1>0, <1>5 DEF Filled
<1>8. RecoversNamed'
  BY <1>3, <1>6, <1>7 DEF RecoversNamed, Honest, Filled, FillOf
<1> QED BY <1>2, <1>8 DEF TakesNamed

LEMMA TakesKept ==
    ASSUME TypeInv, TakesNamed, OrdersStay, NoOpening PROVE TakesNamed'
<1>0. \A p : Filled(p) => p \in Orders /\ order'[p].st = "filled" /\ order'[p] = order[p]
  BY FilledStays DEF Filled
<1>1. (\A u \in Tasks : task[u].pc = "open" => Filled(task[u].raw.pid))'
  BY <1>0 DEF TakesNamed, Filled, NoOpening, Apart
<1>2. "loop" \in Tasks
  BY DEF Tasks
<1>3. PICK V : V = task'["loop"]
  OBVIOUS
<1>4. V = task["loop"] \/ Apart(task["loop"], V)
  BY <1>2, <1>3 DEF NoOpening
<1>5. /\ V.then = "recover" => Honest(V.snap.pos)
      /\ V.pc = "adopt" => Filled(V.raw.pid) /\ V.snap.pos[order[V.raw.pid].sym].pid = V.raw.pid
  BY <1>4 DEF TakesNamed, RecoversNamed, Apart
<1>6. V.then = "recover" => Honest(V.snap.pos)'
  BY <1>5, HonestStays
<1>7. V.pc = "adopt" => Filled(V.raw.pid)' /\ V.snap.pos[order'[V.raw.pid].sym].pid = V.raw.pid
  BY <1>0, <1>5 DEF Filled
<1>8. RecoversNamed'
  BY <1>3, <1>6, <1>7 DEF RecoversNamed, Honest, Filled, FillOf
<1> QED BY <1>1, <1>8 DEF TakesNamed

LEMMA OpenFromOpens ==
    ASSUME TypeInv, TakesNamed, OrdersStay, NEW t \in Tasks, NEW n, NEW row, NEW q,
           OpenFrom(t, n, row, q), Filled(row.pid), task[t].then # "recover"
    PROVE  TakesNamed'
<1> DEFINE U == [task[t] EXCEPT !.pc = "open", !.q = n, !.raw = row]
<1>0. task[t] \in Task /\ Steady(task[t])
  BY DEF TypeInv, TaskTyped
<1>1. CASE task' = [task EXCEPT ![t] = Return(task[t])]
  BY <1>0, <1>1, BackNotOpen, TakesKept
<1>2. CASE task' = [task EXCEPT ![t] = U]
  <2>1. U.raw = row /\ U.pc = "open" /\ U.then # "recover"
    BY <1>0, <1>2 DEF Task
  <2> HIDE DEF U
  <2> QED BY <1>2, <2>1, TakesSo
<1> QED BY <1>1, <1>2 DEF OpenFrom

LEMMA OpensNamed ==
    ASSUME TypeInv, FillCarriesPid, RowsNamed, RecoversNamed, OrdersStay, [Next]_vars
    PROVE  TakesNamed'
<1>0. TakesNamed
  BY DEF TakesNamed, RowsNamed
<1>1. CASE NoOpening
  BY <1>0, <1>1, TakesKept
<1>2. ASSUME NEW t \in Tasks, AckTaker(t) PROVE TakesNamed'
  <2> DEFINE n == task[t].q
             m == quote[n].ord
  <2>1. task[t].pc = "ack" /\ n \in Quotes /\ m \in Orders /\ task[t].then # "recover"
    BY <1>2 DEF AckTaker, At, TypeInv, TaskTyped, Steady, AcksOrdered
  <2>2. \/ Goto(t, "find")
        \/ \E row \in SyntheticRows(m) : \E q : row # NoRaw /\ OpenFrom(t, n, row, q)
    BY <1>2 DEF AckTaker
  <2>3. \A row \in SyntheticRows(m) : row # NoRaw => Filled(row.pid)
    BY <2>1 DEF SyntheticRows, RowsNamed
  <2>4. CASE Goto(t, "find")
    BY <1>1, <2>4, GotoNotOpen
  <2> HIDE DEF n, m
  <2> QED BY <1>0, <2>1, <2>2, <2>3, <2>4, OpenFromOpens
<1>3. ASSUME NEW t \in Tasks, Find(t) PROVE TakesNamed'
  <2> DEFINE n == task[t].q
             s == SymOf(n)
  <2>1. s \in Symbols /\ task[t].then # "recover"
    BY <1>3 DEF Find, At, TypeInv, TaskTyped, Steady, SymOf, QuoteTyped, Quote
  <2>2. PICK snap : /\ PositionsCached(snap)
                    /\ IF snap.pos[s].units > 0
                       THEN OpenFrom(t, n, RowOf(snap.pos[s]), quote[n])
                       ELSE Back(t)
    BY <1>3 DEF Find
  <2>3. CASE snap.pos[s].units > 0
    <3>1. Honest(snap.pos)
      BY <2>2, SnapHonest
    <3>2. snap.pos[s].units # 0
      BY <2>3
    <3>3. Filled(RowOf(snap.pos[s]).pid)
      BY <2>1, <3>1, <3>2 DEF Honest, FillOf, Filled, RowOf
    <3> HIDE DEF n, s
    <3> QED BY <1>0, <2>1, <2>2, <2>3, <3>3, OpenFromOpens
  <2>4. CASE ~(snap.pos[s].units > 0)
    BY <1>1, <2>2, <2>4, BackNotOpen DEF Back, TypeInv, TaskTyped
  <2> QED BY <2>3, <2>4
<1>4. CASE LoopQuoteFilled
  <2> DEFINE n == task["loop"].q
  <2>1. /\ "loop" \in Tasks /\ n \in Quotes /\ task["loop"] \in Task
        /\ task["loop"].then # "recover"
    BY <1>4, LoopTask DEF LoopQuoteFilled, At, Steady
  <2>2. \/ Back("loop") \/ Goto("loop", "find")
        \/ quote[n].syn # NoRaw /\ OpenFrom("loop", n, quote[n].syn, quote[n])
    BY <1>4 DEF LoopQuoteFilled
  <2> QED BY <1>0, <1>1, <2>1, <2>2, BackNotOpen, GotoNotOpen, OpenFromOpens DEF RowsNamed, Back
<1>5. CASE LoopSnapshot
  <2> DEFINE U(snap) == [task["loop"] EXCEPT !.pc = "recover", !.then = "recover",
                  !.snap = snap, !.syms = {s \in Symbols : snap.pos[s].units > 0}]
  <2>1. PICK snap : PositionsCached(snap) /\ task' = [task EXCEPT !["loop"] = U(snap)]
    BY <1>5 DEF LoopSnapshot
  <2>2. U(snap).pc = "recover" /\ U(snap).snap = snap
    BY LoopTask DEF Task
  <2>3. Honest(snap.pos)
    BY <2>1, SnapHonest
  <2>4. "loop" \in Tasks
    BY DEF Tasks
  <2> HIDE DEF U
  <2> QED BY <1>0, <2>1, <2>2, <2>3, <2>4, TakesSo
<1>6. ASSUME NEW s \in Symbols, LoopRecover(s) PROVE TakesNamed'
  <2> DEFINE T == [task["loop"] EXCEPT !.syms = task["loop"].syms \ {s}]
             U == [T EXCEPT !.pc = "adopt", !.q = quotes[s], !.raw = RowOf(T.snap.pos[s])]
  <2>1. /\ task["loop"] \in Task /\ Steady(task["loop"]) /\ task["loop"].pc = "recover"
        /\ s \in task["loop"].syms /\ "loop" \in Tasks
    BY <1>6, LoopTask DEF LoopRecover, RecoverUnless, At, Tasks
  <2>2. Honest(task["loop"].snap.pos) /\ task["loop"].snap.pos[s].pid \in Orders
    BY <2>1 DEF Steady, RecoversNamed
  <2>3. FillOf(task["loop"].snap.pos[s].pid, s)
    BY <2>2, BoundsInNat DEF Honest, Orders
  <2>4. T.pc = "recover" /\ T.snap = task["loop"].snap /\ T \in Task
    BY <2>1 DEF Task
  <2>5. U.pc = "adopt" /\ U.snap = T.snap /\ U.raw.pid = T.snap.pos[s].pid
    BY <2>1 DEF Task, RowOf
  <2>6. task' = [task EXCEPT !["loop"] = T] \/ task' = [task EXCEPT !["loop"] = U]
    BY <1>6 DEF LoopRecover, RecoverUnless
  <2>7. Filled(U.raw.pid) /\ U.snap.pos[order[U.raw.pid].sym].pid = U.raw.pid
    BY <2>3, <2>4, <2>5 DEF FillOf, Filled
  <2> HIDE DEF T, U
  <2> QED BY <1>0, <2>1, <2>2, <2>4, <2>5, <2>6, <2>7, TakesSo
<1> QED BY <1>1, <1>2, <1>3, <1>4, <1>5, <1>6, StepsNotOpen

LEMMA AttachSteps ==
    ASSUME [Next]_vars
    PROVE  attach' \subseteq attach \/ (\E t \in Tasks : OpenDone(t)) \/ LoopAdopt
<1> DEFINE Goal == attach' \subseteq attach \/ (\E t \in Tasks : OpenDone(t)) \/ LoopAdopt
<1>0. "sig" \in Tasks /\ "loop" \in Tasks /\ "op" \in Tasks
  BY DEF Tasks
<1>1. ASSUME NEW t \in Tasks, Submitting(t) \/ Opening(t) \/ Closing(t) PROVE Goal
  BY <1>1 DEF Submitting, SubmitRefused, Send, NotAcked, AckTaker, Opening, Find, Closing,
     CloseSend, CloseReply, CloseBook
<1>2. ASSUME NEW t \in Tasks, Flattening(t) PROVE Goal
  BY <1>2 DEF Flattening, FlattenLock, FlattenSnapshot, FlattenCheck, FlattenAgain,
     FlattenDone, FlattenEnds, FlattenCancel, FlattenClose, FlattenBook
<1>3. CASE SigStep
  BY <1>0, <1>1, <1>3 DEF SigStep, SigWork, ArmTaker, SubmitHead, SubmitIf, AckMaker, Decide,
     DecideIf
<1>4. CASE LoopStep
  BY <1>0, <1>1, <1>2, <1>4 DEF LoopStep, LoopStart, LoopTick, LoopExit, LoopQuotes,
     LoopQuoteUnsent, SubmitHead, SubmitIf, LoopQuoteAsk, LoopQuoteFilled,
     LoopQuoteUnfilled, LoopCancel, LoopSnapshot, LoopRecover, RecoverUnless, LoopAdoptFails,
     LoopRecovered, ManageAll, LoopHold, LoopMove, LoopRule, Manage, ManageBelow, LoopMissing,
     LoopTrail, LoopVanished, Vanished, LoopKillCheck
<1>5. CASE OpStep
  BY <1>0, <1>2, <1>5 DEF OpStep, OpKillAll, OpRunStop, OpRun, Request
<1>6. CASE Environment \/ UNCHANGED vars
  BY <1>6 DEF Environment, VenueAccept, VenueFill, VenueExpire, VenueClose, AttachDone, vars
<1> QED BY <1>3, <1>4, <1>5, <1>6 DEF Next

(* What a step does to the ids and keys of the objects.                    *)
Stamps == \E s \in Managed, pid \in Orders :
             <<s, pid>> \in attach /\ ~obj[positions[s]].closed /\ obj' = [obj EXCEPT ![positions[s]].pid = pid]
SamePids == \A o \in Objs : obj'[o].pid = obj[o].pid /\ obj'[o].key = obj[o].key
OpensNamedRow == \E s, row, pnl, closed : Filled(row.pid) /\ Adopt(s, row, pnl, closed)
ClosesByHistory ==
    \E o \in Objs : \E id \in HistoryIds(o) : \E why :
        o <= made.objs /\ MarkClosed(o, id, why)

LEMMA NamedSteps ==
    ASSUME TypeInv, MadeInv, RowsNamed, RecoversNamed, [Next]_vars
    PROVE  \/ made'.objs = made.objs /\ (SamePids \/ Stamps \/ ClosesByHistory)
           \/ OpensNamedRow
<1>0. "sig" \in Tasks /\ "loop" \in Tasks /\ "op" \in Tasks /\ task["loop"] \in Task
  BY DEF TypeInv, TaskTyped, Tasks
<1>1. CASE made'.objs = made.objs /\ UNCHANGED obj
  BY <1>1 DEF SamePids
<1>2. ASSUME NEW t \in Tasks, Submitting(t) \/ Opening(t) \/ Closing(t)
      PROVE  \/ made'.objs = made.objs /\ (SamePids \/ Stamps \/ ClosesByHistory)
             \/ OpensNamedRow
  <2>1. CASE OpenDone(t)
    BY <2>1 DEF OpenDone, At, RowsNamed, OpensNamedRow
  <2>2. CASE CloseBook(t)
    <3>1. task[t].o \in Objs /\ task[t].o <= made.objs /\ UNCHANGED made
      BY <2>2 DEF CloseBook, At, TypeInv, TaskTyped, Steady, MadeInv, MadeTasks, MadeTask
    <3> QED BY <2>2, <3>1 DEF CloseBook, ClosesByHistory
  <2>3. CASE ~OpenDone(t) /\ ~CloseBook(t)
    BY <1>1, <1>2, <2>3 DEF Submitting, SubmitRefused, Send, NotAcked, AckTaker, Opening, Find,
       Closing, CloseSend, CloseReply, bookVars, TypeInv, ControlTyped
  <2> QED BY <2>1, <2>2, <2>3
<1>3. ASSUME NEW t \in Tasks, Flattening(t)
      PROVE  made'.objs = made.objs /\ (SamePids \/ ClosesByHistory)
  <2>1. ASSUME NEW o \in Objs, FlattenBook(t, o) PROVE o <= made.objs /\ ClosesByHistory
    <3>1. o <= made.objs
      BY <2>1 DEF FlattenBook, At, MadeInv, MadeTasks, MadeTask
    <3> QED BY <2>1, <3>1 DEF FlattenBook, ClosesByHistory
  <2>2. UNCHANGED made
    BY <1>3 DEF Flattening, FlattenLock, FlattenSnapshot, FlattenCheck, FlattenAgain,
       FlattenDone, FlattenEnds, FlattenCancel, FlattenClose, FlattenBook
  <2>3. CASE ~ \E o \in Objs : FlattenBook(t, o)
    BY <1>3, <2>3 DEF Flattening, FlattenLock, FlattenSnapshot, FlattenCheck, FlattenAgain,
       FlattenDone, FlattenEnds, FlattenCancel, FlattenClose, bookVars, SamePids
  <2> QED BY <2>1, <2>2, <2>3
<1>4. CASE SigStep
  BY <1>0, <1>1, <1>2, <1>4 DEF SigStep, SigWork, ArmTaker, SubmitHead, SubmitIf, AckMaker,
     Decide, DecideIf, bookVars, TypeInv, ControlTyped
<1>5. CASE LoopAdopt
  <2>1. task["loop"].pc = "adopt"
    BY <1>5 DEF LoopAdopt, At
  <2>2. Filled(task["loop"].raw.pid)
    BY <2>1 DEF RecoversNamed
  <2> QED BY <1>5, <2>2 DEF LoopAdopt, OpensNamedRow
<1>6. CASE LoopVanished
  <2>1. UNCHANGED made /\ task["loop"].pc = "history"
    BY <1>6 DEF LoopVanished, Vanished, At
  <2>2. task["loop"].o \in Objs /\ task["loop"].o <= made.objs
    BY <1>0, <2>1, LoopTask DEF Steady, MadeInv, MadeTasks, MadeTask
  <2>3. \/ \E id \in HistoryIds(task["loop"].o) :
             MarkClosed(task["loop"].o, id, "exchange_close")
        \/ UNCHANGED bookVars
    BY <1>6 DEF LoopVanished, Vanished
  <2> QED BY <1>1, <2>1, <2>2, <2>3 DEF ClosesByHistory, bookVars
<1>7. ASSUME NEW o \in Objs, LoopHold(o) \/ LoopMove(o) \/ LoopRule(o)
      PROVE  made'.objs = made.objs /\ SamePids
  <2>1. PICK b : obj' = [obj EXCEPT ![o].pnl = b]
    BY <1>7 DEF LoopHold, LoopMove, LoopRule, Manage, ManageBelow
  <2>2. UNCHANGED made
    BY <1>7 DEF LoopHold, LoopMove, LoopRule, Manage, ManageBelow
  <2> QED BY <2>1, <2>2 DEF SamePids, TypeInv, BookTyped, Object
<1>8. CASE /\ LoopStep /\ ~LoopAdopt /\ ~LoopVanished
           /\ ~ \E o \in Objs : LoopHold(o) \/ LoopMove(o) \/ LoopRule(o)
  BY <1>0, <1>1, <1>2, <1>3, <1>8 DEF LoopStep, LoopStart, LoopTick, LoopExit, LoopQuotes,
     LoopQuoteUnsent, SubmitHead, SubmitIf, LoopQuoteAsk, LoopQuoteFilled, LoopQuoteUnfilled,
     LoopCancel, LoopSnapshot, LoopRecover, RecoverUnless, LoopAdoptFails, LoopRecovered,
     ManageAll, LoopMissing, LoopTrail, LoopKillCheck, bookVars
<1>9. CASE OpStep
  BY <1>0, <1>1, <1>3, <1>9 DEF OpStep, OpKillAll, OpRunStop, OpRun, Request, bookVars
<1>10. ASSUME NEW s \in Symbols, NEW pid \in Orders, AttachDone(s, pid)
       PROVE  made'.objs = made.objs /\ (SamePids \/ Stamps)
  <2>1. \/ UNCHANGED obj
        \/ /\ positions[s] # 0 /\ ~obj[positions[s]].closed
           /\ obj' = [obj EXCEPT ![positions[s]].pid = pid]
    BY <1>10 DEF AttachDone
  <2>2. UNCHANGED made /\ <<s, pid>> \in attach
    BY <1>10 DEF AttachDone
  <2> QED BY <2>1, <2>2 DEF SamePids, Stamps, Managed
<1>11. CASE UNCHANGED vars \/ Environment
  BY <1>1, <1>10, <1>11 DEF vars, Environment, VenueAccept, VenueFill, VenueExpire, VenueClose,
     bookVars
<1> QED BY <1>4, <1>5, <1>6, <1>7, <1>8, <1>9, <1>11 DEF Next

\* An attachment under way carries the id of a row that became an object.
LEMMA AttachNamed ==
    ASSUME TypeInv, RowsNamed, RecoversNamed, BookedAsNamed, [Next]_vars
    PROVE  \A x \in attach' : Filled(x[2])
<1>1. CASE attach' \subseteq attach
  BY <1>1 DEF BookedAsNamed
<1>2. ASSUME NEW s, NEW pid, NEW wanted, StartAttach(s, pid, wanted), Filled(pid)
      PROVE  \A x \in attach' : Filled(x[2])
  BY <1>2 DEF StartAttach, BookedAsNamed
<1>3. ASSUME NEW t \in Tasks, OpenDone(t) PROVE \A x \in attach' : Filled(x[2])
  BY <1>2, <1>3 DEF OpenDone, At, RowsNamed
<1>4. CASE LoopAdopt
  BY <1>2, <1>4 DEF LoopAdopt, At, RecoversNamed
<1>5. attach' \subseteq attach \/ (\E t \in Tasks : OpenDone(t)) \/ LoopAdopt
  BY AttachSteps
<1> QED BY <1>1, <1>3, <1>4, <1>5

LEMMA NamedInvNext ==
    ASSUME TypeInv, MadeInv, LedgerInv, FillCarriesPid, NamedInv, [Next]_vars
    PROVE  NamedInv'
<1>0. /\ obj \in [Objs -> Object] /\ made.objs \in Nat /\ \A o \in Objs : o \in Nat /\ o # 0
      /\ RowsNamed /\ RecoversNamed /\ BookedAsNamed /\ OrdersMade
  BY BoundsInNat DEF TypeInv, BookTyped, ControlTyped, Objs, NamedInv, RowsNamed
<1>1. OrdersStay
  BY <1>0, OrdersStaySo
<1>2. RowsNamed' /\ RecoversNamed'
  BY <1>0, <1>1, OrdersMadeKept, VenueHonest, CacheHonest, FillsNamed, SynsNamed, OpensNamed
     DEF RowsNamed, TakesNamed
<1>3. \A p : Filled(p) => Filled(p)' /\ p \in Orders
  BY <1>1, FilledStays DEF Filled
<1>4. (\A x \in attach : Filled(x[2]))'
  BY <1>0, <1>1, AttachNamed, FilledStays DEF Filled
<1> DEFINE Kept == \A o \in Objs :
             /\ o <= made'.objs => Filled(obj'[o].pid)
             /\ obj'[o].key # NoKey => obj'[o].key = [kind |-> "pid", id |-> obj'[o].pid]
<1>5. /\ \A x \in attach : Filled(x[2])
      /\ \A o \in Objs : o <= made.objs => Filled(obj[o].pid)
      /\ \A o \in Objs : obj[o].key # NoKey => obj[o].key = [kind |-> "pid", id |-> obj[o].pid]
  BY <1>0 DEF BookedAsNamed, Booked
<1>6. ASSUME made'.objs = made.objs, SamePids PROVE Kept
  BY <1>5, <1>6 DEF SamePids
<1>7. ASSUME made'.objs = made.objs, Stamps PROVE Kept
  <2>1. PICK s \in Managed, pid \in Orders :
          /\ <<s, pid>> \in attach /\ ~obj[positions[s]].closed
          /\ obj' = [obj EXCEPT ![positions[s]].pid = pid]
    BY <1>7 DEF Stamps
  <2>2. positions[s] \in Objs /\ Filled(pid)
    BY <1>5, <2>1, ManagedMade
  <2>3. obj[positions[s]].key = NoKey
    BY <2>1, <2>2 DEF LedgerInv, Recorded, Booked
  <2>4. /\ obj'[positions[s]].pid = pid /\ obj'[positions[s]].key = NoKey
        /\ \A o \in Objs : o # positions[s] => obj'[o] = obj[o]
    BY <1>0, <2>1, <2>2, <2>3 DEF Object
  <2> QED BY <1>5, <1>7, <2>2, <2>4
<1>8. ASSUME made'.objs = made.objs, ClosesByHistory PROVE Kept
  <2>1. PICK o \in Objs : \E id \in HistoryIds(o) : \E why :
                             o <= made.objs /\ MarkClosed(o, id, why)
    BY <1>8 DEF ClosesByHistory
  <2>2. PICK id \in HistoryIds(o) : \E why : o <= made.objs /\ MarkClosed(o, id, why)
    BY <2>1
  <2>3. PICK why : o <= made.objs /\ MarkClosed(o, id, why)
    BY <2>2
  <2>4. obj[o].pid # 0 /\ id \in {0, obj[o].pid} /\ obj[o] \in Object
    BY <1>0, <1>3, <1>5, <2>3, BoundsInNat DEF HistoryIds, Orders
  <2> DEFINE pid == IF id # 0 THEN id ELSE obj[o].pid
  <2>5. pid = obj[o].pid
    BY <2>4
  <2>6. CASE Duplicate(o, pid)
    <3>1. obj' = [obj EXCEPT ![o].pid = pid]
      BY <2>3, <2>6 DEF MarkClosed
    <3>2. \A x \in Objs : obj'[x].pid = obj[x].pid /\ obj'[x].key = obj[x].key
      BY <1>0, <2>5, <3>1 DEF Object
    <3> QED BY <1>5, <1>8, <3>2
  <2>7. CASE ~Duplicate(o, pid)
    <3>1. obj' = [obj EXCEPT ![o] = [obj[o] EXCEPT !.pid = pid, !.closed = TRUE, !.reason = why,
                                                   !.key = CloseKey(o, pid)]]
      BY <2>3, <2>7 DEF MarkClosed, Book
    <3>2. CloseKey(o, pid) = [kind |-> "pid", id |-> pid]
      BY <2>4, <2>5 DEF CloseKey
    <3>3. /\ obj'[o].pid = pid /\ obj'[o].key = [kind |-> "pid", id |-> pid]
          /\ \A x \in Objs : x # o => obj'[x] = obj[x]
      BY <1>0, <2>4, <3>1, <3>2 DEF Object
    <3> HIDE DEF pid
    <3> QED BY <1>5, <1>8, <2>5, <3>3
  <2> QED BY <2>6, <2>7
<1>9. ASSUME OpensNamedRow PROVE Kept
  <2>1. PICK s, row, pnl, closed : Filled(row.pid) /\ Adopt(s, row, pnl, closed)
    BY <1>9 DEF OpensNamedRow
  <2> DEFINE n == made.objs + 1
  <2>2. n \in Objs /\ made'.objs = n
    BY <1>0, <2>1, BoundsInNat DEF Adopt, Objs, TypeInv, ControlTyped
  <2>3. /\ obj'[n].pid = row.pid /\ obj'[n].key = NoKey
        /\ \A x \in Objs : x # n => obj'[x] = obj[x]
    BY <1>0, <2>1, <2>2 DEF Adopt, NoObj
  <2>4. \A x \in Objs : x <= n /\ x # n => x <= made.objs
    BY <1>0
  <2> HIDE DEF n
  <2> QED BY <1>5, <2>1, <2>2, <2>3, <2>4
<1> HIDE DEF Kept
<1>10. Kept
  BY <1>0, <1>6, <1>7, <1>8, <1>9, NamedSteps
<1>11. BookedAsNamed'
  BY <1>1, <1>4, <1>10, FilledStays DEF Kept, BookedAsNamed, Booked, Filled
<1> QED BY <1>2, <1>11 DEF NamedInv

LEMMA NamedInvInit == Init => NamedInv
<1> SUFFICES ASSUME Init PROVE NamedInv
  OBVIOUS
<1>1. Honest(venue) /\ Honest(cache.pos)
  BY DEF Init, Honest, NoSnap, Flat
<1>2. \A o \in Objs : ~(o <= made.objs) /\ ~Booked(o)
  BY BoundsInNat DEF Init, Booked, NoObj, Objs
<1>3. /\ \A m \in Orders : order[m].st = "none"
      /\ \A n \in Quotes : quote[n].syn = NoRaw
      /\ \A t \in Tasks : task[t].pc # "open"
      /\ task["loop"].then = "idle" /\ task["loop"].pc = "start" /\ attach = {}
  BY DEF Init, NoOrder, NoQuote, IdleTask, Tasks
<1> QED BY <1>1, <1>2, <1>3 DEF NamedInv, RowsNamed, RecoversNamed, BookedAsNamed, OrdersMade

\* No position of the venue is booked as two trades, though stale snapshots make the
\* executor adopt a closed position again (_recover_untracked_positions) and several tasks
\* close the same one: two trades of one position, neither misnamed, have the same id and
\* so the same close key.
THEOREM PositionBookedOnce ==
    ASSUME FillCarriesPid PROVE Spec => []BookedOncePerPosition
<1>1. Init => TypeInv /\ MadeInv /\ LedgerInv /\ NamedInv
  BY TypeInvInit, LedgerInit, NamedInvInit
<1>2. TypeInv /\ MadeInv /\ LedgerInv /\ NamedInv /\ [Next]_vars
        => (TypeInv /\ MadeInv /\ LedgerInv /\ NamedInv)'
  BY TypeInvNext, MadeInvNext, LedgerInvNext, NamedInvNext
<1>3. TypeInv /\ MadeInv /\ LedgerInv /\ NamedInv => BookedOncePerPosition
  <2> SUFFICES ASSUME LedgerInv, NamedInv, MadeInv, NEW o1 \in Objs, NEW o2 \in Objs, Booked(o1), Booked(o2),
                      obj[o1].truth = obj[o2].truth, ~Misnamed(o1), ~Misnamed(o2)
               PROVE  o1 = o2
    BY DEF BookedOncePerPosition
  <2>1. /\ obj[o1].pid # 0 /\ obj[o2].pid # 0
        /\ obj[o1].key = [kind |-> "pid", id |-> obj[o1].pid]
        /\ obj[o2].key = [kind |-> "pid", id |-> obj[o2].pid]
    BY BoundsInNat DEF NamedInv, BookedAsNamed, LedgerInv, Recorded, Filled, Orders
  <2>2. obj[o1].pid = obj[o2].pid
    BY <2>1 DEF Misnamed
  <2> QED BY <2>1, <2>2 DEF LedgerInv, BookedOncePerKey
<1> QED BY <1>1, <1>2, <1>3, PTL DEF Spec

(***************************************************************************)
(* What is closed stays closed, though the loop, the operator's flatten    *)
(* and the loop's own flattens close positions side by side.  A flatten    *)
(* books only what a fresh look at the venue does not show, so that        *)
(* the id under which it books is gone from the venue and the cache, for   *)
(* ever: the loop may still hold the object, and write its record again    *)
(* after the flatten has deleted it, but no snapshot shows that id any     *)
(* more and the record is never revived.                                   *)
(*                                                                         *)
(* The conditions: a look that fails is no empty one (no snapshot call     *)
(* fails), no fill is bad enough to be closed by the task that opened it,  *)
(* and the detail of a fill names its position.                            *)
(***************************************************************************)
Confirmed == ~BadFills /\ FillCarriesPid /\ "fetch" \notin FaultKinds

Past(s, p) == Filled(p) /\ venue[s].pid # p /\ cache.pos[s].pid # p

ManagedOpen == \A s \in Managed : obj[positions[s]].sym = s /\ ~obj[positions[s]].closed
HeldPast    == \A x \in Held : /\ x \in Objs
                               /\ obj[x].closed => Past(obj[x].sym, obj[x].pid)
RecordsPast ==
    \A s \in Symbols : store[s].kept /\ store[s].closed =>
        /\ Past(s, store[s].pid)
        /\ task["loop"].then = "recover" => task["loop"].snap.pos[s].pid # store[s].pid

\* What a flatten is about to book, under whichever id it has then.
TodoPast ==
    \A t \in Tasks : task[t].pc = "flatbook" => \A o \in task[t].todo :
        /\ o \in Objs /\ Past(obj[o].sym, obj[o].pid)
        /\ positions[obj[o].sym] = o =>
             \A p \in Orders : <<obj[o].sym, p>> \in attach => Past(obj[o].sym, p)

GoneInv == /\ Grips(task["loop"]) /\ task["sig"].pc \notin Leaving
           /\ ManagedOpen /\ HeldPast /\ RecordsPast /\ TodoPast

LEMMA PastStays ==
    ASSUME TypeInv, OrdersStay, [Next]_vars, NEW s \in Symbols, NEW p, Past(s, p)
    PROVE  Past(s, p)'
<1>1. Filled(p) /\ Filled(p)' /\ p # 0
  BY FilledStays, BoundsInNat DEF Past, Filled, Orders
<1>2. venue'[s].pid # p
  BY <1>1, VenuePids DEF Past
<1>3. cache' = cache \/ cache'.pos = venue
  BY CacheSteps DEF FreshSnap
<1>4. cache'.pos[s].pid # p
  BY <1>3 DEF Past
<1> QED BY <1>1, <1>2, <1>4 DEF Past

(* What a step does to the hands of the loop and to a flatten's list.      *)
LEMMA GripsFree ==
    ASSUME NEW U, U.o = 0, U.then # "manage" PROVE Grips(U) /\ HeldOf(U) = {}
BY DEF Grips, HeldOf

LEMMA GripsMoves ==
    ASSUME TypeInv, Grips(task["loop"]), Moves("loop", Midway)
    PROVE  Grips(task'["loop"]) /\ Held' \subseteq Held
<1>1. PICK U : task' = [task EXCEPT !["loop"] = U] /\ GoesOn(task["loop"], U, Midway)
  BY DEF Moves
<1>2. task'["loop"] = U
  BY <1>1 DEF TypeInv, TaskTyped, Tasks
<1>3. U.pc \in Midway => U.pc \notin Resting
  BY DEF Midway, Entering, Leaving, Resting
<1>4. Grips(U)
  BY <1>1, <1>3 DEF Grips, GoesOn
<1>5. HeldOf(U) \subseteq HeldOf(task["loop"])
  BY <1>1 DEF GoesOn, HeldOf
<1> QED BY <1>2, <1>4, <1>5 DEF Held

\* What t becomes with U: its list of positions to book shrinks, or is a new one.
Lists(t, U) == U.pc = "flatbook" =>
    \/ FlattenCheck(t)
    \/ task[t].pc = "flatbook" /\ U.todo \subseteq task[t].todo

LEMMA FlattenMoves ==
    ASSUME TypeInv, NEW t \in Tasks, Flattening(t)
    PROVE  \E U : /\ task' = [task EXCEPT ![t] = U]
                  /\ U.then \in {task[t].then, "idle"} /\ U.o \in {task[t].o, 0}
                  /\ Lists(t, U)
<1> USE DEF Lists
<1> DEFINE Fine(U) == U.then \in {task[t].then, "idle"} /\ U.o \in {task[t].o, 0} /\ Lists(t, U)
<1> SUFFICES \E U : task' = [task EXCEPT ![t] = U] /\ Fine(U)
  OBVIOUS
<1>0. task[t] \in Task
  BY DEF TypeInv, TaskTyped
<1>1. CASE FlattenLock(t)
  <2> DEFINE L == [task[t] EXCEPT !.pc = "lock"]
             F == [task[t] EXCEPT !.pc = "flatcancel", !.left = Retries,
                                  !.syms = {s \in Symbols : quotes[s] # 0}]
  <2>1. task' = [task EXCEPT ![t] = L] \/ task' = [task EXCEPT ![t] = F]
    BY <1>1 DEF FlattenLock, EnterFlatten, Flatten
  <2>2. Fine(L) /\ Fine(F)
    BY <1>0 DEF Task
  <2> HIDE DEF L, F
  <2> QED BY <2>1, <2>2
<1>2. ASSUME NEW s \in Symbols, FlattenCancel(t, s) \/ FlattenClose(t, s)
      PROVE  \E U : task' = [task EXCEPT ![t] = U] /\ Fine(U)
  <2> DEFINE U == [task[t] EXCEPT !.syms = task[t].syms \ {s}]
  <2>1. task' = [task EXCEPT ![t] = U]
    BY <1>2 DEF FlattenCancel, FlattenClose
  <2>2. Fine(U)
    BY <1>0, <1>2 DEF Task, FlattenCancel, FlattenClose, At
  <2> HIDE DEF U
  <2> QED BY <2>1, <2>2
<1>3. CASE FlattenSnapshot(t)
  <2>1. PICK syms, snap :
          task' = [task EXCEPT ![t] = [task[t] EXCEPT
                 !.pc = IF syms = {} THEN "flatfinal" ELSE "flatclose",
                 !.syms = syms, !.snap = snap]]
    BY <1>3 DEF FlattenSnapshot
  <2> DEFINE pc == IF syms = {} THEN "flatfinal" ELSE "flatclose"
             U == [task[t] EXCEPT !.pc = pc, !.syms = syms, !.snap = snap]
  <2>2. Fine(U) /\ task' = [task EXCEPT ![t] = U]
    BY <1>0, <2>1 DEF Task
  <2> HIDE DEF U
  <2> QED BY <2>2
<1>4. CASE FlattenCheck(t)
  <2> DEFINE U(todo) == [task[t] EXCEPT !.pc = "flatbook", !.left = task[t].left - 1,
                                        !.todo = todo, !.snap = NoSnap]
  <2>1. PICK todo : task' = [task EXCEPT ![t] = U(todo)]
    BY <1>4 DEF FlattenCheck
  <2>2. Fine(U(todo))
    BY <1>0, <1>4 DEF Task
  <2> HIDE DEF U
  <2> QED BY <2>1, <2>2
<1>5. ASSUME NEW o \in Objs, FlattenBook(t, o)
      PROVE  \E U : task' = [task EXCEPT ![t] = U] /\ Fine(U)
  <2> DEFINE U == [task[t] EXCEPT !.todo = task[t].todo \ {o}]
  <2>1. task' = [task EXCEPT ![t] = U] /\ task[t].pc = "flatbook"
    BY <1>5 DEF FlattenBook, At
  <2>2. Fine(U)
    BY <1>0, <2>1 DEF Task
  <2> HIDE DEF U
  <2> QED BY <2>1, <2>2
<1>6. CASE FlattenAgain(t)
  <2>1. PICK pc \in {"flatfinal", "flatsnap"} : Goto(t, pc)
    BY <1>6 DEF FlattenAgain
  <2> DEFINE U == [task[t] EXCEPT !.pc = pc]
  <2>2. Fine(U) /\ task' = [task EXCEPT ![t] = U]
    BY <1>0, <2>1, SetPc DEF Task, TypeInv, TaskTyped
  <2> HIDE DEF U
  <2> QED BY <2>2
<1>7. CASE FlattenDone(t)
  <2> DEFINE U == [IdleTask EXCEPT !.pc = task[t].then]
  <2>1. task' = [task EXCEPT ![t] = U]
    BY <1>7 DEF FlattenDone, FlattenEnds
  <2>2. Fine(U)
    BY <1>0 DEF IdleTask, Task
  <2> HIDE DEF U
  <2> QED BY <2>1, <2>2
<1> HIDE DEF Fine
<1> QED BY <1>1, <1>2, <1>3, <1>4, <1>5, <1>6, <1>7 DEF Flattening

LEMMA EntersFlatten ==
    ASSUME TypeInv, NEW t \in Tasks, NEW T \in Task, NEW c, EnterFlatten(t, T, c)
    PROVE  \E U : /\ task' = [task EXCEPT ![t] = U] /\ U.then = T.then /\ U.o = T.o
                  /\ U.pc \in {"lock", "flatcancel"}
<1> DEFINE L == [T EXCEPT !.pc = "lock"]
           F == [T EXCEPT !.pc = "flatcancel", !.left = Retries,
                          !.syms = {s \in Symbols : quotes[s] # 0}]
<1>1. task' = [task EXCEPT ![t] = L] \/ task' = [task EXCEPT ![t] = F]
  BY DEF EnterFlatten, Flatten
<1>2. /\ L.then = T.then /\ L.o = T.o /\ L.pc = "lock"
      /\ F.then = T.then /\ F.o = T.o /\ F.pc = "flatcancel"
  BY DEF Task
<1> HIDE DEF L, F
<1> QED BY <1>1, <1>2

\* The steps of the loop that leave it with nothing in hand.
Empties(U) == U.o = 0 /\ (U.then = "manage" => HeldOf(U) \subseteq Held)

LEMMA PhaseEmpties ==
    ASSUME TypeInv, MadeInv, Grips(task["loop"]),
           \/ LoopStart \/ LoopTick \/ LoopExit \/ LoopQuotes \/ LoopSnapshot \/ LoopKillCheck
           \/ Flattening("loop")
    PROVE  \E U : task' = [task EXCEPT !["loop"] = U] /\ Empties(U) /\ Lists("loop", U)
<1> DEFINE Fine(U) == Empties(U) /\ Lists("loop", U)
<1> SUFFICES \E U : task' = [task EXCEPT !["loop"] = U] /\ Fine(U)
  OBVIOUS
<1>1. /\ "loop" \in Tasks /\ task["loop"] \in Task /\ MadeTask(task["loop"], made.objs)
  BY LoopTask DEF TypeInv, TaskTyped, MadeInv, MadeTasks
<1>2. CASE LoopStart \/ LoopTick \/ (LoopExit /\ Goto("loop", "off"))
  <2>1. PICK pc \in {"idle", "balance", "off"} : Goto("loop", pc)
    BY <1>2 DEF LoopStart, LoopTick
  <2> DEFINE U == [task["loop"] EXCEPT !.pc = pc]
  <2>2. task' = [task EXCEPT !["loop"] = U] /\ task["loop"].o = 0
    BY <1>1, <1>2, <2>1, SetPc DEF TypeInv, TaskTyped, LoopStart, LoopTick, LoopExit, At, Grips,
       Resting
  <2>3. /\ U.pc = pc /\ U.o = task["loop"].o /\ U.then = task["loop"].then
        /\ U.todo = task["loop"].todo
    BY <1>1 DEF Task
  <2> HIDE DEF U
  <2> QED BY <2>2, <2>3 DEF Empties, Lists, HeldOf, Held
<1>3. CASE LoopQuotes
  <2> DEFINE U == [task["loop"] EXCEPT !.pc = "quotes", !.then = "quotes",
                     !.todo = {quotes[s] : s \in Symbols} \ {0}]
  <2>1. task' = [task EXCEPT !["loop"] = U] /\ U.pc = "quotes" /\ U.then = "quotes" /\ U.o = 0
    BY <1>1, <1>3 DEF LoopQuotes, At, Grips, Resting, Task
  <2> HIDE DEF U
  <2> QED BY <2>1 DEF Empties, Lists
<1>4. CASE LoopSnapshot
  <2> DEFINE U(snap) == [task["loop"] EXCEPT !.pc = "recover", !.then = "recover",
                  !.snap = snap, !.syms = {s \in Symbols : snap.pos[s].units > 0}]
  <2>1. PICK snap : task' = [task EXCEPT !["loop"] = U(snap)]
    BY <1>4 DEF LoopSnapshot
  <2>2. U(snap).pc = "recover" /\ U(snap).then = "recover" /\ U(snap).o = 0
    BY <1>1, <1>4 DEF LoopSnapshot, At, Grips, Resting, Task
  <2> HIDE DEF U
  <2> QED BY <2>1, <2>2 DEF Empties, Lists
<1>5. CASE task' = [task EXCEPT !["loop"] = IdleTask]
  <2>1. IdleTask.o = 0 /\ IdleTask.then = "idle" /\ IdleTask.pc = "idle"
    BY DEF IdleTask
  <2> QED BY <1>5, <2>1 DEF Empties, Lists
<1>6. ASSUME NEW T \in Task, T.o = 0, T.then # "manage", NEW c, EnterFlatten("loop", T, c)
      PROVE  \E U : task' = [task EXCEPT !["loop"] = U] /\ Fine(U)
  <2>1. PICK U : /\ task' = [task EXCEPT !["loop"] = U] /\ U.then = T.then /\ U.o = T.o
                 /\ U.pc \in {"lock", "flatcancel"}
    BY <1>1, <1>6, EntersFlatten
  <2> QED BY <1>6, <2>1 DEF Empties, Lists
<1>7. CASE LoopExit /\ ~Goto("loop", "off")
  <2> DEFINE V == [task["loop"] EXCEPT !.then = "off", !.why = "loop_exit"]
  <2>1. V \in Task /\ V.then = "off" /\ V.o = 0
    BY <1>1, <1>7 DEF LoopExit, At, Grips, Resting, Task
  <2>2. \E c : EnterFlatten("loop", V, c)
    BY <1>7 DEF LoopExit
  <2> HIDE DEF V
  <2> QED BY <1>6, <2>1, <2>2
<1>8. CASE LoopKillCheck /\ task' # [task EXCEPT !["loop"] = IdleTask]
  <2> DEFINE V == [IdleTask EXCEPT !.why = "trip"]
  <2>1. V \in Task /\ V.then = "idle" /\ V.o = 0
    BY IdleTaskMade DEF IdleTask, Task
  <2>2. \E c : EnterFlatten("loop", V, c)
    BY <1>8 DEF LoopKillCheck
  <2> HIDE DEF V
  <2> QED BY <1>6, <2>1, <2>2
<1>9. CASE Flattening("loop")
  <2>1. task["loop"].pc \in FlattenOrLock
    BY <1>9 DEF Flattening, FlattenLock, FlattenSnapshot, FlattenCheck, FlattenAgain,
       FlattenDone, FlattenEnds, FlattenCancel, FlattenClose, FlattenBook, At, FlattenOrLock,
       FlattenPcs
  <2>2. task["loop"].then \in {"idle", "off"} /\ task["loop"].o = 0
    BY <1>1, <2>1 DEF MadeTask, Grips
  <2>3. PICK U : /\ task' = [task EXCEPT !["loop"] = U] /\ Lists("loop", U)
                 /\ U.then \in {task["loop"].then, "idle"} /\ U.o \in {task["loop"].o, 0}
    BY <1>1, <1>9, FlattenMoves
  <2> QED BY <2>2, <2>3 DEF Empties
<1> HIDE DEF Fine
<1> QED BY <1>2, <1>3, <1>4, <1>5, <1>7, <1>8, <1>9

\* What a step may do to the tasks.
LEMMA TaskSteps ==
    ASSUME TypeInv, MadeInv, ~BadFills, Grips(task["loop"]), [Next]_vars
    PROVE  \/ UNCHANGED task
           \/ Moves("sig", Entering) \/ (Closing("sig") /\ Moves("sig", Leaving))
           \/ \E U : task' = [task EXCEPT !["op"] = U] /\ Lists("op", U)
           \/ Moves("loop", Midway)
           \/ \E U : task' = [task EXCEPT !["loop"] = U] /\ Empties(U) /\ Lists("loop", U)
           \/ \E U : /\ task' = [task EXCEPT !["loop"] = U] /\ U.then = "manage"
                     /\ U.pc \in {"manage", "trail", "close", "history"}
                     /\ Grips(U) /\ HeldOf(U) \subseteq Held
           \/ LoopRecovered
           \/ task' = [task EXCEPT !["loop"] = [IdleTask EXCEPT !.pc = "start"]]
<1>0. "sig" \in Tasks /\ "loop" \in Tasks /\ "op" \in Tasks
  BY DEF Tasks
<1>1. CASE UNCHANGED vars \/ Environment
  <2>1. UNCHANGED task
    BY <1>1 DEF vars, Environment, VenueAccept, VenueFill, VenueExpire, VenueClose, AttachDone
  <2> QED BY <2>1
<1>2. CASE SigStep
  <2>1. Moves("sig", Entering) \/ (Closing("sig") /\ Moves("sig", Leaving))
    BY <1>0, <1>2, SigMoves, EntryMoves, ClosingMoves DEF SigStep, SigWork
  <2> QED BY <2>1
<1>3. CASE OpStep
  <2>1. CASE Flattening("op")
    <3>1. \E U : task' = [task EXCEPT !["op"] = U] /\ Lists("op", U)
      BY <1>0, <2>1, FlattenMoves
    <3> QED BY <3>1
  <2>2. CASE OpKillAll \/ OpRunStop
    <3> DEFINE T(why) == [IdleTask EXCEPT !.why = why]
    <3>1. PICK why \in {"kill_all", "run_stop"} : \E c : EnterFlatten("op", T(why), c)
      BY <2>2 DEF OpKillAll, OpRunStop
    <3>2. T(why) \in Task
      BY IdleTaskMade DEF Task, IdleTask
    <3> HIDE DEF T
    <3>3. \E U : task' = [task EXCEPT !["op"] = U] /\ U.pc \in {"lock", "flatcancel"}
      BY <1>0, <3>1, <3>2, EntersFlatten
    <3>4. \E U : task' = [task EXCEPT !["op"] = U] /\ Lists("op", U)
      BY <3>3 DEF Lists
    <3> QED BY <3>4
  <2>3. CASE OpRun
    BY <2>3 DEF OpRun
  <2> QED BY <1>3, <2>1, <2>2, <2>3 DEF OpStep
<1>4. CASE LoopStep
  <2>1. CASE Submitting("loop") \/ Opening("loop") \/ Closing("loop")
    <3>1. Moves("loop", Midway)
      BY <1>0, <2>1, EntryMoves, ClosingMoves, WiderMoves DEF Midway
    <3> QED BY <3>1
  <2>2. CASE \/ \E n \in Quotes : LoopQuoteUnsent(n) \/ LoopQuoteAsk(n)
             \/ LoopQuoteFilled \/ LoopQuoteUnfilled \/ LoopCancel
             \/ (\E s \in Symbols : LoopRecover(s)) \/ LoopAdopt \/ LoopAdoptFails
             \/ LoopTrail \/ LoopVanished
    <3>1. Moves("loop", Midway)
      BY <2>2, TickMoves
    <3> QED BY <3>1
  <2>3. CASE \E o \in Objs : LoopHold(o) \/ LoopMove(o) \/ LoopRule(o) \/ LoopMissing(o)
    <3>1. \E U : /\ task' = [task EXCEPT !["loop"] = U] /\ U.then = "manage"
                 /\ U.pc \in {"manage", "trail", "close", "history"}
                 /\ Grips(U) /\ HeldOf(U) \subseteq Held
      BY <2>3, ManageHolds
    <3> QED BY <3>1
  <2>4. CASE \/ LoopStart \/ LoopTick \/ LoopExit \/ LoopQuotes \/ LoopSnapshot \/ LoopKillCheck
             \/ Flattening("loop")
    <3>1. \E U : task' = [task EXCEPT !["loop"] = U] /\ Empties(U) /\ Lists("loop", U)
      BY <2>4, PhaseEmpties
    <3> QED BY <3>1
  <2> QED BY <1>4, <2>1, <2>2, <2>3, <2>4 DEF LoopStep
<1> QED BY <1>1, <1>2, <1>3, <1>4 DEF Next

LEMMA LoopGrips ==
    ASSUME TypeInv, MadeInv, ~BadFills, Grips(task["loop"]), [Next]_vars, ~LoopRecovered
    PROVE  Grips(task'["loop"]) /\ Held' \subseteq Held
<1> DEFINE Goal == Grips(task'["loop"]) /\ HeldOf(task'["loop"]) \subseteq HeldOf(task["loop"])
<1> SUFFICES Goal
  BY DEF Held
<1>1. "loop" \in Tasks /\ "sig" \in Tasks /\ "op" \in Tasks /\ task \in [Tasks -> Task]
  BY DEF Tasks, TypeInv, TaskTyped
<1>2. CASE task'["loop"] = task["loop"]
  BY <1>2
<1>3. ASSUME NEW U, task' = [task EXCEPT !["loop"] = U],
             Grips(U) /\ HeldOf(U) \subseteq HeldOf(task["loop"])
      PROVE  Goal
  BY <1>1, <1>3
<1>4. CASE Moves("sig", Entering) \/ Moves("sig", Leaving)
  BY <1>1, <1>2, <1>4 DEF Moves
<1>5. CASE Moves("loop", Midway)
  BY <1>5, GripsMoves DEF Held
<1>6. ASSUME NEW U, task' = [task EXCEPT !["loop"] = U], Empties(U) PROVE Goal
  <2>1. Grips(U) /\ HeldOf(U) \subseteq HeldOf(task["loop"])
    BY <1>6, GripsFree DEF Empties, Grips, Held
  <2> QED BY <1>3, <1>6, <2>1
<1>7. CASE task' = [task EXCEPT !["loop"] = [IdleTask EXCEPT !.pc = "start"]]
  <2> DEFINE U == [IdleTask EXCEPT !.pc = "start"]
  <2>1. U.o = 0 /\ U.then = "idle"
    BY DEF IdleTask
  <2> HIDE DEF U
  <2> QED BY <1>3, <1>7, <2>1, GripsFree DEF U
<1> HIDE DEF Goal
<1> QED BY <1>1, <1>2, <1>3, <1>4, <1>5, <1>6, <1>7, TaskSteps DEF Held

LEMMA SigStays ==
    ASSUME TypeInv, MadeInv, ~BadFills, Grips(task["loop"]), [Next]_vars,
           task["sig"].pc \notin Leaving
    PROVE  task'["sig"].pc \notin Leaving
<1>1. "loop" \in Tasks /\ "sig" \in Tasks /\ "op" \in Tasks /\ task \in [Tasks -> Task]
  BY DEF Tasks, TypeInv, TaskTyped
<1>2. CASE task'["sig"] = task["sig"]
  BY <1>2
<1>3. ~Closing("sig")
  BY DEF Closing, CloseSend, CloseReply, CloseBook, At, Leaving
<1>4. CASE Moves("sig", Entering)
  <2>1. PICK U : task' = [task EXCEPT !["sig"] = U] /\ GoesOn(task["sig"], U, Entering)
    BY <1>4 DEF Moves
  <2>2. U.pc \notin Leaving
    BY <1>1, <2>1 DEF GoesOn, Entering, Leaving, Task
  <2> QED BY <1>1, <2>1, <2>2
<1>5. CASE Moves("loop", Midway) \/ LoopRecovered
  <2>1. \E U : task' = [task EXCEPT !["loop"] = U]
    BY <1>5 DEF Moves, LoopRecovered, ManageAll
  <2> QED BY <1>1, <1>2, <2>1
<1> QED BY <1>1, <1>2, <1>3, <1>4, <1>5, TaskSteps

\* A list of positions to book is new after a second look, and shrinks otherwise.
LEMMA FlatbookSteps ==
    ASSUME TypeInv, MadeInv, ~BadFills, Grips(task["loop"]), [Next]_vars,
           NEW t \in Tasks, task'[t].pc = "flatbook"
    PROVE  FlattenCheck(t) \/ (task[t].pc = "flatbook" /\ task'[t].todo \subseteq task[t].todo)
<1> DEFINE Goal == FlattenCheck(t) \/ (task[t].pc = "flatbook"
                                       /\ task'[t].todo \subseteq task[t].todo)
<1> SUFFICES Goal
  OBVIOUS
<1>1. "loop" \in Tasks /\ "sig" \in Tasks /\ "op" \in Tasks /\ task \in [Tasks -> Task]
  BY DEF Tasks, TypeInv, TaskTyped
<1>2. CASE task'[t] = task[t]
  BY <1>2
<1>3. ASSUME NEW u \in Tasks, NEW U, task' = [task EXCEPT ![u] = U],
             u = t => U.pc # "flatbook" \/ Lists(t, U)
      PROVE  Goal
  BY <1>1, <1>2, <1>3 DEF Lists
<1>4. ASSUME NEW u \in Tasks, NEW pcs, "flatbook" \notin pcs, Moves(u, pcs) PROVE Goal
  <2>1. PICK U : task' = [task EXCEPT ![u] = U] /\ GoesOn(task[u], U, pcs)
    BY <1>4 DEF Moves
  <2>2. Lists(u, U)
    BY <1>1, <1>4, <2>1 DEF GoesOn, Task, Lists
  <2> QED BY <1>3, <2>1, <2>2
<1>5. "flatbook" \notin Entering /\ "flatbook" \notin Leaving /\ "flatbook" \notin Midway
  BY DEF Entering, Leaving, Midway
<1>6. CASE LoopRecovered
  <2> DEFINE U == [task["loop"] EXCEPT !.pc = "manage", !.then = "manage",
                     !.todo = {positions[s] : s \in Managed}]
  <2>1. task' = [task EXCEPT !["loop"] = U] /\ U.pc # "flatbook"
    BY <1>1, <1>6 DEF LoopRecovered, ManageAll, Task
  <2> HIDE DEF U
  <2> QED BY <1>1, <1>3, <2>1
<1>7. CASE task' = [task EXCEPT !["loop"] = [IdleTask EXCEPT !.pc = "start"]]
  <2> DEFINE U == [IdleTask EXCEPT !.pc = "start"]
  <2>1. U.pc # "flatbook"
    BY DEF IdleTask
  <2> HIDE DEF U
  <2> QED BY <1>1, <1>3, <1>7, <2>1 DEF U
<1> HIDE DEF Goal
<1>8. CASE UNCHANGED task
  BY <1>2, <1>8
<1>9. ASSUME NEW u \in Tasks, NEW U, task' = [task EXCEPT ![u] = U], Lists(u, U) PROVE Goal
  BY <1>3, <1>9
<1>10. ASSUME NEW U, task' = [task EXCEPT !["loop"] = U],
              U.pc \in {"manage", "trail", "close", "history"}
       PROVE  Goal
  BY <1>1, <1>3, <1>10
<1>11. CASE \/ \E U : task' = [task EXCEPT !["op"] = U] /\ Lists("op", U)
            \/ \E U : task' = [task EXCEPT !["loop"] = U] /\ Empties(U) /\ Lists("loop", U)
  BY <1>1, <1>9, <1>11
<1>12. CASE Moves("sig", Entering) \/ Moves("sig", Leaving) \/ Moves("loop", Midway)
  BY <1>1, <1>4, <1>5, <1>12
<1> QED BY <1>6, <1>7, <1>8, <1>10, <1>11, <1>12, TaskSteps

\* The loop keeps the snapshot of its pass.
LEMMA LoopSnaps ==
    ASSUME TypeInv, [Next]_vars, ~LoopSnapshot, task'["loop"].then = "recover"
    PROVE  task["loop"].then = "recover" /\ task'["loop"].snap = task["loop"].snap
<1> DEFINE Goal == task["loop"].then = "recover" /\ task'["loop"].snap = task["loop"].snap
<1> SUFFICES Goal
  OBVIOUS
<1>1. "loop" \in Tasks /\ task \in [Tasks -> Task] /\ \A t \in Tasks : Steady(task[t])
  BY DEF Tasks, TypeInv, TaskTyped
<1>2. CASE NoOpening
  BY <1>1, <1>2 DEF NoOpening, Apart
<1>3. ASSUME NEW t \in Tasks, NEW U, task' = [task EXCEPT ![t] = U],
             U.then = task[t].then, task[t].then # "recover"
      PROVE  Goal
  BY <1>1, <1>3
<1>4. ASSUME NEW t \in Tasks, task[t].then # "recover",
             \/ Back(t) \/ Goto(t, "find")
             \/ \E n, row, q : OpenFrom(t, n, row, q)
      PROVE  Goal
  <2> DEFINE R == Return(task[t])
             F == [task[t] EXCEPT !.pc = "find"]
             O(n, row) == [task[t] EXCEPT !.pc = "open", !.q = n, !.raw = row]
  <2>1. /\ R.then = task[t].then /\ F.then = task[t].then
        /\ \A n, row : O(n, row).then = task[t].then
    BY <1>1 DEF Return, Task
  <2>2. \/ task' = [task EXCEPT ![t] = R] \/ task' = [task EXCEPT ![t] = F]
        \/ \E n, row : task' = [task EXCEPT ![t] = O(n, row)]
    <3>1. CASE Back(t)
      BY <3>1 DEF Back
    <3>2. CASE Goto(t, "find")
      BY <1>1, <3>2, SetPc
    <3>3. ASSUME NEW n, NEW row, NEW q, OpenFrom(t, n, row, q)
          PROVE  task' = [task EXCEPT ![t] = R] \/ task' = [task EXCEPT ![t] = O(n, row)]
      <4> DEFINE had == positions[SymOf(n)] # 0 /\ ~obj[positions[SymOf(n)]].closed
      <4>1. task' = [task EXCEPT ![t] = IF had THEN R ELSE O(n, row)]
        BY <3>3 DEF OpenFrom
      <4> HIDE DEF had, R, O
      <4> QED BY <4>1
    <3> HIDE DEF R, F, O
    <3> QED BY <1>4, <3>1, <3>2, <3>3 DEF R, F
  <2> HIDE DEF R, F, O
  <2> QED BY <1>3, <1>4, <2>1, <2>2
<1>5. ASSUME NEW t \in Tasks, AckTaker(t) \/ Find(t) PROVE Goal
  <2>1. task[t].then # "recover"
    BY <1>1, <1>5 DEF AckTaker, Find, At, Steady
  <2>2. \/ Back(t) \/ Goto(t, "find")
        \/ \E n, row, q : OpenFrom(t, n, row, q)
    BY <1>5 DEF AckTaker, Find
  <2> QED BY <1>4, <2>1, <2>2
<1>6. CASE LoopQuoteFilled
  <2>1. task["loop"].then # "recover"
    BY <1>1, <1>6 DEF LoopQuoteFilled, At, Steady
  <2>2. \/ Back("loop") \/ Goto("loop", "find")
        \/ \E n, row, q : OpenFrom("loop", n, row, q)
    BY <1>6 DEF LoopQuoteFilled
  <2> QED BY <1>1, <1>4, <2>1, <2>2
<1>7. ASSUME NEW s \in Symbols, LoopRecover(s) PROVE Goal
  <2> DEFINE T == [task["loop"] EXCEPT !.syms = task["loop"].syms \ {s}]
             U == [T EXCEPT !.pc = "adopt", !.q = quotes[s], !.raw = RowOf(T.snap.pos[s])]
  <2>1. task["loop"].then = "recover"
    BY <1>1, <1>7 DEF LoopRecover, RecoverUnless, At, Steady
  <2>2. T.snap = task["loop"].snap
    BY <1>1 DEF Task
  <2>3. U.snap = T.snap
    BY <1>1 DEF Task
  <2>4. task' = [task EXCEPT !["loop"] = T] \/ task' = [task EXCEPT !["loop"] = U]
    BY <1>7 DEF LoopRecover, RecoverUnless
  <2> HIDE DEF T, U
  <2> QED BY <1>1, <2>1, <2>2, <2>3, <2>4
<1> HIDE DEF Goal
<1> QED BY <1>2, <1>5, <1>6, <1>7, StepsNotOpen

(* What a step does to the book: it leaves the objects as they are, an     *)
(* attachment stamps an open object, an open object becomes managed, or an *)
(* object is booked by the loop that has it in hand or by a flatten.       *)
Keeping ==
    /\ UNCHANGED positions /\ attach' \subseteq attach
    /\ \A o \in Objs : /\ obj'[o].sym = obj[o].sym /\ obj'[o].pid = obj[o].pid
                       /\ obj'[o].closed = obj[o].closed
    /\ store' = store \/ \E x \in Held : store' = Persisted(x)
Stamping == \E s \in Symbols, pid \in Orders : AttachDone(s, pid)
TakesUp  == \E s \in Symbols : \E row, pnl, wanted :
                Adopt(s, row, pnl, FALSE) /\ StartAttach(s, row.pid, wanted)
LetsGo   == /\ UNCHANGED attach
            /\ \E o \in Objs : /\ \E id \in HistoryIds(o) : \E why : MarkClosed(o, id, why)
                               /\ o <= made.objs
                               /\ \/ Held' \subseteq Held \ {o}
                                  \/ \E t \in Tasks : task[t].pc = "flatbook" /\ o \in task[t].todo

LEMMA SameBook ==
    ASSUME UNCHANGED <<bookVars, attach>> PROVE Keeping
BY DEF Keeping, bookVars

\* The loop books what it has in hand, and then no longer has it.
LEMMA LoopLetsGo ==
    ASSUME TypeInv, Grips(task["loop"]), NEW o \in Objs, o = task["loop"].o, Back("loop")
    PROVE  o \in Held /\ Held' \subseteq Held \ {o}
<1>1. "loop" \in Tasks /\ task["loop"] \in Task /\ o # 0
  BY BoundsInNat, LoopTask DEF Objs
<1> DEFINE U == Return(task["loop"])
<1>2. task' = [task EXCEPT !["loop"] = U]
  BY DEF Back
<1>3. U.o = 0 /\ U.then = task["loop"].then /\ U.todo = task["loop"].todo
  BY <1>1 DEF Return, Task
<1> HIDE DEF U
<1>4. task'["loop"] = U
  BY <1>1, <1>2 DEF TypeInv, TaskTyped
<1> QED BY <1>1, <1>3, <1>4 DEF Grips, HeldOf, Held

LEMMA TakesUpRow ==
    ASSUME TypeInv, NEW t \in Tasks, OpenDone(t) PROVE TakesUp
<1>1. task[t].q \in Quotes
  BY DEF OpenDone, At, TypeInv, TaskTyped, Steady
<1>2. SymOf(task[t].q) \in Symbols
  BY <1>1 DEF SymOf, TypeInv, QuoteTyped, Quote
<1> QED BY <1>2 DEF OpenDone, TakesUp

\* A record that is marked closed is not revived.
LEMMA TakesUpRecord ==
    ASSUME TypeInv, RecoversNamed, RecordsPast, LoopAdopt PROVE TakesUp
<1> DEFINE T == task["loop"]
           s == order[T.raw.pid].sym
           revived == T.q = 0 /\ store[s].kept /\ store[s].pid \in {0, T.raw.pid}
<1>1. T.pc = "adopt" /\ Adopt(s, T.raw, T.q = 0, revived /\ store[s].closed)
  BY DEF LoopAdopt, At
<1>2. T.raw.pid \in Orders /\ T.then = "recover" /\ T.snap.pos[s].pid = T.raw.pid
  BY <1>1, LoopTask DEF Steady, RecoversNamed
<1>3. s \in Symbols /\ ~Filled(0)
  BY <1>2, BoundsInNat DEF TypeInv, VenueTyped, Order, Filled, Orders
<1>4. (revived /\ store[s].closed) = FALSE
  <2> SUFFICES ASSUME revived, store[s].closed PROVE FALSE
    OBVIOUS
  <2>1. Past(s, store[s].pid) /\ T.snap.pos[s].pid # store[s].pid
    BY <1>2, <1>3 DEF RecordsPast
  <2>2. store[s].pid # 0
    BY <1>3, <2>1 DEF Past
  <2> QED BY <1>2, <2>1, <2>2
<1>5. \E wanted : StartAttach(s, T.raw.pid, wanted)
  BY DEF LoopAdopt
<1> HIDE DEF T, s, revived
<1> QED BY <1>1, <1>3, <1>4, <1>5 DEF TakesUp

LEMMA BookSteps ==
    ASSUME TypeInv, MadeInv, RecoversNamed, Grips(task["loop"]), task["sig"].pc \notin Leaving,
           RecordsPast, [Next]_vars
    PROVE  Keeping \/ Stamping \/ TakesUp \/ LetsGo
<1> DEFINE Goal == Keeping \/ Stamping \/ TakesUp \/ LetsGo
<1>0. "sig" \in Tasks /\ "loop" \in Tasks /\ "op" \in Tasks
  BY DEF Tasks
<1>1. CASE UNCHANGED <<bookVars, attach>>
  BY <1>1, SameBook
<1>2. ASSUME NEW t \in Tasks, Submitting(t) \/ Opening(t) \/ CloseSend(t) \/ CloseReply(t)
      PROVE  Goal
  <2>1. CASE OpenDone(t)
    BY <2>1, TakesUpRow
  <2>2. CASE ~OpenDone(t)
    BY <1>1, <1>2, <2>2 DEF Submitting, SubmitRefused, Send, NotAcked, AckTaker, Opening, Find,
       CloseSend, CloseReply
  <2> QED BY <2>1, <2>2
<1>3. ASSUME NEW t \in Tasks, Flattening(t) PROVE Goal
  <2>1. ASSUME NEW o \in Objs, FlattenBook(t, o) PROVE LetsGo
    <3>1. task[t].pc = "flatbook" /\ o \in task[t].todo /\ UNCHANGED attach
      BY <2>1 DEF FlattenBook, At
    <3>2. o <= made.objs
      BY <3>1 DEF MadeInv, MadeTasks, MadeTask
    <3> QED BY <2>1, <3>1, <3>2 DEF FlattenBook, LetsGo
  <2>2. CASE ~ \E o \in Objs : FlattenBook(t, o)
    BY <1>1, <1>3, <2>2 DEF Flattening, FlattenLock, FlattenSnapshot, FlattenCheck, FlattenAgain,
       FlattenDone, FlattenEnds, FlattenCancel, FlattenClose
  <2> QED BY <2>1, <2>2
<1>4. CASE SigStep
  <2>1. ~CloseBook("sig")
    BY DEF CloseBook, At, Leaving
  <2> QED BY <1>0, <1>1, <1>2, <1>4, <2>1 DEF SigStep, SigWork, Closing, ArmTaker, SubmitHead,
          SubmitIf, AckMaker, Decide, DecideIf
<1>5. ASSUME NEW o, o = task["loop"].o, o \in Objs, Back("loop"), UNCHANGED <<made, attach>>,
             \E id \in HistoryIds(o) : \E why : MarkClosed(o, id, why)
      PROVE  LetsGo
  <2>1. o <= made.objs
    BY <1>0, <1>5 DEF MadeInv, MadeTasks, MadeTask
  <2>2. Held' \subseteq Held \ {o}
    BY <1>5, LoopLetsGo
  <2> QED BY <1>5, <2>1, <2>2 DEF LetsGo
<1>6. CASE CloseBook("loop")
  <2>1. task["loop"].o \in Objs
    BY <1>6, LoopTask DEF CloseBook, At, Steady
  <2> QED BY <1>5, <1>6, <2>1 DEF CloseBook
<1>7. CASE LoopVanished
  <2>1. task["loop"].o \in Objs
    BY <1>7, LoopTask DEF LoopVanished, Vanished, At, Steady
  <2>2. \/ UNCHANGED bookVars
        \/ \E id \in HistoryIds(task["loop"].o) :
              MarkClosed(task["loop"].o, id, "exchange_close")
    BY <1>7 DEF LoopVanished, Vanished
  <2>3. Back("loop") /\ UNCHANGED <<made, attach>>
    BY <1>7 DEF LoopVanished, Vanished
  <2> QED BY <1>1, <1>5, <2>1, <2>2, <2>3
<1>8. CASE LoopTrail
  <2> DEFINE o == task["loop"].o
  <2>1. /\ task["loop"].pc = "trail" /\ Back("loop") /\ store' = Persisted(o)
        /\ UNCHANGED <<positions, obj, attach>>
    BY <1>8 DEF LoopTrail, At
  <2>2. o \in Objs
    BY <2>1, LoopTask DEF Steady
  <2>3. o \in Held
    BY <2>1, <2>2, LoopLetsGo
  <2> HIDE DEF o
  <2> QED BY <2>1, <2>3 DEF Keeping
<1>9. ASSUME NEW o \in Objs, LoopHold(o) \/ LoopMove(o) \/ LoopRule(o) \/ LoopMissing(o)
      PROVE  Keeping
  <2>1. o \in Held
    BY <1>9, ManageHolds
  <2>2. UNCHANGED <<positions, attach>> /\ store' \in {store, Persisted(o)}
    BY <1>9 DEF LoopHold, LoopMove, LoopRule, LoopMissing, Manage, ManageBelow
  <2>3. obj' = obj \/ \E b : obj' = [obj EXCEPT ![o].pnl = b]
    BY <1>9 DEF LoopHold, LoopMove, LoopRule, LoopMissing, Manage, ManageBelow
  <2>4. \A x \in Objs : /\ obj'[x].sym = obj[x].sym /\ obj'[x].pid = obj[x].pid
                        /\ obj'[x].closed = obj[x].closed
    BY <2>3 DEF TypeInv, BookTyped, Object
  <2> QED BY <2>1, <2>2, <2>4 DEF Keeping
<1>10. CASE LoopAdopt
  BY <1>10, TakesUpRecord
<1>11. CASE /\ LoopStep /\ ~CloseBook("loop") /\ ~LoopVanished /\ ~LoopTrail /\ ~LoopAdopt
            /\ ~ \E o \in Objs : LoopHold(o) \/ LoopMove(o) \/ LoopRule(o) \/ LoopMissing(o)
  BY <1>0, <1>1, <1>2, <1>3, <1>11 DEF LoopStep, Closing, LoopStart, LoopTick, LoopExit,
     LoopQuotes, LoopQuoteUnsent, SubmitHead, SubmitIf, LoopQuoteAsk, LoopQuoteFilled,
     LoopQuoteUnfilled, LoopCancel, LoopSnapshot, LoopRecover, RecoverUnless, LoopAdoptFails,
     LoopRecovered, ManageAll, LoopKillCheck
<1>12. CASE OpStep
  BY <1>0, <1>1, <1>3, <1>12 DEF OpStep, OpKillAll, OpRunStop, OpRun, Request
<1>13. CASE Environment \/ UNCHANGED vars
  BY <1>1, <1>13 DEF Environment, VenueAccept, VenueFill, VenueExpire, VenueClose, bookVars, vars,
     Stamping
<1> QED BY <1>4, <1>6, <1>7, <1>8, <1>9, <1>10, <1>11, <1>12, <1>13 DEF Next

\* What each of these does to an object, to state.positions and to the records.
LEMMA GoneSteps ==
    ASSUME TypeInv, MadeInv, NamedInv, NEW o \in Objs, o <= made.objs, NEW id \in HistoryIds(o),
           NEW why, MarkClosed(o, id, why)
    PROVE  /\ \A x \in Objs : x # o => obj'[x] = obj[x]
           /\ obj'[o].sym = obj[o].sym /\ obj'[o].pid = obj[o].pid
           /\ obj[o].sym \in Symbols
           /\ positions' = [positions EXCEPT ![obj[o].sym] = 0]
           /\ store' = [store EXCEPT ![obj[o].sym] = NoRecord]
<1>1. obj \in [Objs -> Object] /\ obj[o] \in Object /\ Filled(obj[o].pid)
  BY DEF TypeInv, BookTyped, NamedInv, BookedAsNamed
<1>2. obj[o].pid # 0 /\ id \in {0, obj[o].pid}
  BY <1>1, BoundsInNat DEF HistoryIds, Filled, Orders
<1>3. PICK pid : pid = IF id # 0 THEN id ELSE obj[o].pid
  OBVIOUS
<1>4. pid = obj[o].pid
  BY <1>2, <1>3
<1>5. /\ positions' = [positions EXCEPT ![obj[o].sym] = 0]
      /\ store' = [store EXCEPT ![obj[o].sym] = NoRecord]
  BY DEF MarkClosed, Release
<1>6. \/ obj' = [obj EXCEPT ![o].pid = pid]
      \/ obj' = [obj EXCEPT ![o] = [obj[o] EXCEPT !.pid = pid, !.closed = TRUE,
                                      !.reason = why, !.key = CloseKey(o, pid)]]
  BY <1>3 DEF MarkClosed, Book
<1>7. PICK N : obj' = [obj EXCEPT ![o] = N] /\ N.sym = obj[o].sym /\ N.pid = pid
  <2> DEFINE M == [obj[o] EXCEPT !.pid = pid]
             B == [obj[o] EXCEPT !.pid = pid, !.closed = TRUE, !.reason = why,
                                 !.key = CloseKey(o, pid)]
  <2>1. M.sym = obj[o].sym /\ M.pid = pid /\ B.sym = obj[o].sym /\ B.pid = pid
    BY <1>1 DEF Object
  <2>2. obj' = [obj EXCEPT ![o] = M] \/ obj' = [obj EXCEPT ![o] = B]
    BY <1>6
  <2> HIDE DEF M, B
  <2> QED BY <2>1, <2>2
<1>8. obj'[o] = N /\ (\A x \in Objs : x # o => obj'[x] = obj[x]) /\ obj[o].sym \in Symbols
  BY <1>1, <1>7 DEF Object
<1> QED BY <1>4, <1>5, <1>7, <1>8

LEMMA TakenUp ==
    ASSUME TypeInv, NEW s \in Symbols, NEW row, NEW pnl, Adopt(s, row, pnl, FALSE)
    PROVE  \E n \in Objs :
              /\ n = made.objs + 1 /\ ~(n <= made.objs)
              /\ obj'[n].sym = s /\ ~obj'[n].closed
              /\ \A x \in Objs : x # n => obj'[x] = obj[x]
              /\ positions'[s] = n /\ ~store'[s].closed
              /\ \A x \in Symbols : x # s => positions'[x] = positions[x] /\ store'[x] = store[x]
<1> DEFINE n == made.objs + 1
<1>1. n \in Objs /\ ~(n <= made.objs) /\ n = made.objs + 1
  BY BoundsInNat DEF TypeInv, ControlTyped, Adopt, Objs
<1>2. obj'[n].sym = s /\ ~obj'[n].closed /\ \A x \in Objs : x # n => obj'[x] = obj[x]
  BY <1>1 DEF Adopt, TypeInv, BookTyped, NoObj
<1>3. /\ positions'[s] = n /\ ~store'[s].closed
      /\ \A x \in Symbols : x # s => positions'[x] = positions[x] /\ store'[x] = store[x]
  BY DEF Adopt, TypeInv, BookTyped
<1> HIDE DEF n
<1> QED BY <1>1, <1>2, <1>3

LEMMA Stamped ==
    ASSUME TypeInv, MadeInv, ManagedOpen, NEW s \in Symbols, NEW pid \in Orders, AttachDone(s, pid)
    PROVE  /\ <<s, pid>> \in attach /\ attach' \subseteq attach
           /\ UNCHANGED <<positions, task>>
           /\ \A x \in Objs :
                 /\ obj'[x].sym = obj[x].sym /\ obj'[x].closed = obj[x].closed
                 /\ \/ obj'[x].pid = obj[x].pid
                    \/ /\ x = positions[s] /\ obj'[x].pid = pid /\ obj[x].sym = s
                       /\ ~obj[x].closed
           /\ \A z \in Symbols : store'[z] = store[z] \/ ~store'[z].closed
<1>1. /\ <<s, pid>> \in attach /\ attach' \subseteq attach /\ UNCHANGED <<positions, task>>
      /\ obj \in [Objs -> Object] /\ store \in [Symbols -> Record]
  BY DEF AttachDone, TypeInv, BookTyped
<1>2. CASE UNCHANGED <<obj, store>>
  BY <1>1, <1>2
<1>3. CASE /\ positions[s] # 0 /\ ~obj[positions[s]].closed
           /\ obj' = [obj EXCEPT ![positions[s]].pid = pid]
           /\ store' = [store EXCEPT ![s] = [pid |-> pid, closed |-> FALSE, kept |-> TRUE]]
  <2>1. positions[s] \in Objs /\ obj[positions[s]].sym = s
    BY <1>3, ManagedMade DEF ManagedOpen, Managed
  <2>2. /\ obj'[positions[s]].sym = s /\ obj'[positions[s]].pid = pid
        /\ obj'[positions[s]].closed = obj[positions[s]].closed
        /\ \A x \in Objs : x # positions[s] => obj'[x] = obj[x]
    BY <1>1, <1>3, <2>1 DEF Object
  <2>3. \A z \in Symbols : store'[z] = store[z] \/ ~store'[z].closed
    BY <1>1, <1>3
  <2> QED BY <1>1, <1>3, <2>1, <2>2, <2>3
<1> QED BY <1>2, <1>3 DEF AttachDone

LEMMA ManagedOpenNext ==
    ASSUME TypeInv, MadeInv, NamedInv, ManagedOpen, Keeping \/ Stamping \/ TakesUp \/ LetsGo
    PROVE  ManagedOpen'
<1>0. \A z \in Managed : /\ z \in Symbols /\ positions[z] \in Objs /\ positions[z] <= made.objs
                         /\ obj[positions[z]].sym = z /\ ~obj[positions[z]].closed
  BY ManagedMade DEF ManagedOpen, Managed
<1> SUFFICES ASSUME NEW z \in Managed'
             PROVE  obj'[positions'[z]].sym = z /\ ~obj'[positions'[z]].closed
  BY DEF ManagedOpen
<1>1. z \in Symbols /\ positions'[z] # 0
  BY DEF Managed
<1>2. CASE Keeping
  <2>1. z \in Managed /\ positions'[z] = positions[z]
    BY <1>1, <1>2 DEF Keeping, Managed
  <2> QED BY <1>0, <1>2, <2>1 DEF Keeping
<1>3. ASSUME NEW s \in Symbols, NEW pid \in Orders, AttachDone(s, pid)
      PROVE  obj'[positions'[z]].sym = z /\ ~obj'[positions'[z]].closed
  <2>1. z \in Managed /\ positions'[z] = positions[z]
    BY <1>1, <1>3, Stamped DEF Managed
  <2>2. PICK p \in Objs : p = positions[z]
    BY <1>0, <2>1
  <2>3. obj'[p].sym = obj[p].sym /\ obj'[p].closed = obj[p].closed
    BY <1>3, Stamped
  <2> QED BY <1>0, <2>1, <2>2, <2>3
<1>4. ASSUME NEW s \in Symbols, NEW row, NEW pnl, Adopt(s, row, pnl, FALSE)
      PROVE  obj'[positions'[z]].sym = z /\ ~obj'[positions'[z]].closed
  <2>1. PICK n \in Objs :
              /\ n = made.objs + 1 /\ ~(n <= made.objs)
              /\ obj'[n].sym = s /\ ~obj'[n].closed
              /\ \A x \in Objs : x # n => obj'[x] = obj[x]
              /\ positions'[s] = n /\ ~store'[s].closed
              /\ \A x \in Symbols : x # s => positions'[x] = positions[x] /\ store'[x] = store[x]
    BY <1>4, TakenUp
  <2>2. CASE z = s
    BY <2>1, <2>2
  <2>3. CASE z # s
    <3>1. z \in Managed /\ positions'[z] = positions[z]
      BY <1>1, <2>1, <2>3 DEF Managed
    <3>2. positions[z] # n
      BY <1>0, <2>1, <3>1
    <3>3. PICK p \in Objs : p = positions[z] /\ obj[p].sym = z /\ ~obj[p].closed
      BY <1>0, <3>1
    <3>4. obj'[p] = obj[p]
      BY <2>1, <3>2, <3>3
    <3> QED BY <3>1, <3>3, <3>4
  <2> QED BY <2>2, <2>3
<1>5. ASSUME NEW o \in Objs, o <= made.objs, NEW id \in HistoryIds(o), NEW why,
             MarkClosed(o, id, why)
      PROVE  obj'[positions'[z]].sym = z /\ ~obj'[positions'[z]].closed
  <2>1. /\ \A x \in Objs : x # o => obj'[x] = obj[x]
        /\ positions' = [positions EXCEPT ![obj[o].sym] = 0]
    BY <1>5, GoneSteps
  <2>2. z # obj[o].sym /\ z \in Managed /\ positions'[z] = positions[z]
    BY <1>1, <2>1 DEF Managed, TypeInv, BookTyped
  <2> QED BY <1>0, <2>1, <2>2
<1> QED BY <1>2, <1>3, <1>4, <1>5 DEF Stamping, TakesUp, LetsGo

\* An object in hand is closed only when its id is past.
LEMMA HeldPastStays ==
    ASSUME TypeInv, MadeInv, NamedInv, OrdersStay, [Next]_vars, ManagedOpen, HeldPast, TodoPast,
           Keeping \/ Stamping \/ TakesUp \/ LetsGo, NEW x \in Held, x \in Held'
    PROVE  x \in Objs /\ (obj[x].closed => Past(obj[x].sym, obj[x].pid))'
<1>1. x \in Objs /\ (obj[x].closed => Past(obj[x].sym, obj[x].pid))
  BY DEF HeldPast
<1>2. PICK s \in Symbols : s = obj[x].sym
  BY <1>1 DEF TypeInv, BookTyped, Object
<1>3. PICK p : p = obj[x].pid
  OBVIOUS
<1>4. x <= made.objs
  <2>1. MadeTask(task["loop"], made.objs)
    BY DEF MadeInv, MadeTasks, Tasks
  <2> QED BY <2>1 DEF MadeTask, Held, HeldOf
<1>5. Past(s, p) => Past(s, p)'
  BY PastStays
<1>6. ASSUME obj'[x].sym = s, obj'[x].pid = p, obj'[x].closed => Past(s, p)
      PROVE  (obj[x].closed => Past(obj[x].sym, obj[x].pid))'
  BY <1>5, <1>6 DEF Past, Filled
<1>7. CASE Keeping
  BY <1>1, <1>2, <1>3, <1>6, <1>7 DEF Keeping
<1>8. ASSUME NEW r \in Symbols, NEW pid \in Orders, AttachDone(r, pid)
      PROVE  (obj[x].closed => Past(obj[x].sym, obj[x].pid))'
  <2>1. /\ obj'[x].sym = s /\ obj'[x].closed = obj[x].closed
        /\ obj'[x].pid = p \/ ~obj[x].closed
    BY <1>1, <1>2, <1>3, <1>8, Stamped
  <2> QED BY <1>1, <1>2, <1>3, <1>6, <2>1
<1>9. ASSUME NEW r \in Symbols, NEW row, NEW pnl, Adopt(r, row, pnl, FALSE)
      PROVE  (obj[x].closed => Past(obj[x].sym, obj[x].pid))'
  <2>1. obj'[x] = obj[x]
    BY <1>1, <1>4, <1>9, TakenUp
  <2> QED BY <1>1, <1>2, <1>3, <1>6, <2>1
<1>10. ASSUME NEW o \in Objs, o <= made.objs, NEW id \in HistoryIds(o), NEW why,
              MarkClosed(o, id, why), o = x => Past(obj[o].sym, obj[o].pid)
       PROVE  (obj[x].closed => Past(obj[x].sym, obj[x].pid))'
  <2>1. /\ x # o => obj'[x] = obj[x]
        /\ x = o => obj'[x].sym = s /\ obj'[x].pid = p
    BY <1>1, <1>2, <1>3, <1>10, GoneSteps
  <2> QED BY <1>1, <1>2, <1>3, <1>6, <1>10, <2>1
<1>11. CASE LetsGo
  <2>1. PICK o \in Objs : /\ \E id \in HistoryIds(o) : \E why : MarkClosed(o, id, why)
                          /\ o <= made.objs
                          /\ \/ Held' \subseteq Held \ {o}
                             \/ \E t \in Tasks : task[t].pc = "flatbook" /\ o \in task[t].todo
    BY <1>11 DEF LetsGo
  <2>2. o = x => Past(obj[o].sym, obj[o].pid)
    BY <2>1 DEF TodoPast
  <2>3. PICK id \in HistoryIds(o) : \E why : MarkClosed(o, id, why)
    BY <2>1
  <2> QED BY <1>1, <1>10, <2>1, <2>2, <2>3
<1>12. (obj[x].closed => Past(obj[x].sym, obj[x].pid))'
  BY <1>7, <1>8, <1>9, <1>11 DEF Stamping, TakesUp
<1> QED BY <1>1, <1>12

LEMMA HeldPastNext ==
    ASSUME TypeInv, MadeInv, NamedInv, OrdersStay, [Next]_vars, ~BadFills, Grips(task["loop"]),
           ManagedOpen, HeldPast, TodoPast, Keeping \/ Stamping \/ TakesUp \/ LetsGo
    PROVE  Grips(task'["loop"]) /\ HeldPast'
<1>1. CASE LoopRecovered
  <2> DEFINE U == [task["loop"] EXCEPT !.pc = "manage", !.then = "manage",
                     !.todo = {positions[s] : s \in Managed}]
  <2>1. task["loop"].pc = "recover" /\ task' = [task EXCEPT !["loop"] = U] /\ UNCHANGED obj
    BY <1>1 DEF LoopRecovered, ManageAll, At, bookVars
  <2>2. task["loop"].o = 0
    BY <2>1 DEF Grips, Resting
  <2>3. U.then = "manage" /\ U.o = 0 /\ U.todo = {positions[s] : s \in Managed}
    BY <2>2, LoopTask DEF Task
  <2> HIDE DEF U
  <2>4. task'["loop"] = U
    BY <2>1, LoopTask DEF TypeInv, TaskTyped
  <2>5. Held' = {positions[s] : s \in Managed} /\ Grips(task'["loop"])
    BY <2>3, <2>4 DEF Held, HeldOf, Grips
  <2>6. \A x \in Held' : x \in Objs /\ ~obj'[x].closed
    BY <2>1, <2>5, ManagedMade DEF ManagedOpen
  <2> QED BY <2>5, <2>6 DEF HeldPast
<1>2. CASE ~LoopRecovered
  <2>1. Grips(task'["loop"]) /\ Held' \subseteq Held
    BY <1>2, LoopGrips
  <2>2. \A x \in Held' : x \in Held
    BY <2>1
  <2>3. ASSUME NEW x \in Held'
        PROVE  x \in Objs /\ (obj'[x].closed => Past(obj[x].sym, obj[x].pid)')
    BY <2>2, <2>3, HeldPastStays
  <2> QED BY <2>1, <2>3 DEF HeldPast
<1> QED BY <1>1, <1>2

\* A new snapshot shows no past id.
LEMMA SnapPast ==
    ASSUME TypeInv, NEW s \in Symbols, NEW p, Past(s, p), LoopSnapshot
    PROVE  task'["loop"].snap.pos[s].pid # p
<1> DEFINE U(snap) == [task["loop"] EXCEPT !.pc = "recover", !.then = "recover",
                  !.snap = snap, !.syms = {z \in Symbols : snap.pos[z].units > 0}]
<1>1. PICK snap \in Snaps : task' = [task EXCEPT !["loop"] = U(snap)]
  BY DEF LoopSnapshot
<1>2. U(snap).snap = snap
  BY LoopTask DEF Task
<1> HIDE DEF U
<1>3. task'["loop"] = U(snap)
  BY <1>1, LoopTask DEF TypeInv, TaskTyped
<1>4. p # 0 /\ venue[s].pid # p /\ cache.pos[s].pid # p
  BY BoundsInNat DEF Past, Filled, Orders
<1>5. snap.pos[s].pid \in {venue[s].pid, cache.pos[s].pid, 0}
  BY <1>1 DEF Snaps, FreshSnap, NoSnap, Flat
<1> QED BY <1>2, <1>3, <1>4, <1>5

\* A record marked closed is an old one, or that of an object in hand.
LEMMA ClosedRecords ==
    ASSUME TypeInv, MadeInv, NamedInv, ManagedOpen, HeldPast,
           Keeping \/ Stamping \/ TakesUp \/ LetsGo,
           NEW s \in Symbols, store'[s].kept, store'[s].closed
    PROVE  \/ store'[s] = store[s]
           \/ \E x \in Held : x \in Objs /\ obj[x].sym = s /\ obj[x].closed
                              /\ store'[s].pid = obj[x].pid
<1> DEFINE Goal == \/ store'[s] = store[s]
                   \/ \E x \in Held : x \in Objs /\ obj[x].sym = s /\ obj[x].closed
                                      /\ store'[s].pid = obj[x].pid
<1> SUFFICES Goal
  OBVIOUS
<1>0. store \in [Symbols -> Record]
  BY DEF TypeInv, BookTyped
<1>1. ASSUME NEW x \in Held, store' = Persisted(x) PROVE Goal
  <2>1. x \in Objs
    BY DEF HeldPast
  <2> DEFINE R == [pid |-> obj[x].pid, closed |-> obj[x].closed, kept |-> TRUE]
  <2>2. store' = [store EXCEPT ![obj[x].sym] = R]
    BY <1>1 DEF Persisted
  <2>3. R.pid = obj[x].pid /\ R.closed = obj[x].closed
    OBVIOUS
  <2> HIDE DEF R
  <2>4. CASE s # obj[x].sym
    BY <1>0, <2>2, <2>4
  <2>5. CASE s = obj[x].sym
    <3>1. store'[s] = R
      BY <1>0, <2>2, <2>5
    <3> QED BY <2>1, <2>3, <2>5, <3>1
  <2> QED BY <2>4, <2>5
<1>2. ASSUME NEW r \in Symbols, NEW pid \in Orders, AttachDone(r, pid) PROVE Goal
  BY <1>2, Stamped
<1>3. ASSUME NEW r \in Symbols, NEW row, NEW pnl, Adopt(r, row, pnl, FALSE) PROVE Goal
  <2>1. /\ ~store'[r].closed
        /\ \A x \in Symbols : x # r => store'[x] = store[x]
    BY <1>3, TakenUp
  <2> QED BY <2>1
<1>4. ASSUME NEW o \in Objs, o <= made.objs, NEW id \in HistoryIds(o), NEW why,
             MarkClosed(o, id, why)
      PROVE  Goal
  <2>1. store' = [store EXCEPT ![obj[o].sym] = NoRecord]
    BY <1>4, GoneSteps
  <2> QED BY <1>0, <2>1 DEF NoRecord
<1>5. CASE LetsGo
  <2>1. PICK o \in Objs : (\E id \in HistoryIds(o) : \E why : MarkClosed(o, id, why))
                          /\ o <= made.objs
    BY <1>5 DEF LetsGo
  <2>2. PICK id \in HistoryIds(o) : \E why : MarkClosed(o, id, why)
    BY <2>1
  <2> QED BY <1>4, <2>1, <2>2
<1> HIDE DEF Goal
<1>6. CASE Keeping
  <2>1. store' = store \/ \E x \in Held : store' = Persisted(x)
    BY <1>6 DEF Keeping
  <2> QED BY <1>1, <2>1 DEF Goal
<1> QED BY <1>2, <1>3, <1>5, <1>6 DEF Stamping, TakesUp

LEMMA RecordsPastNext ==
    ASSUME TypeInv, MadeInv, NamedInv, OrdersStay, [Next]_vars, ManagedOpen, HeldPast,
           RecordsPast, Keeping \/ Stamping \/ TakesUp \/ LetsGo
    PROVE  RecordsPast'
<1>0. ~Filled(0)
  BY BoundsInNat DEF Filled, Orders
<1>1. ASSUME NEW s \in Symbols, store'[s].kept, store'[s].closed, NEW p, p = store'[s].pid
      PROVE  /\ Past(s, p)'
             /\ task'["loop"].then = "recover" => task'["loop"].snap.pos[s].pid # p
  <2>1. \/ store'[s] = store[s]
        \/ \E x \in Held : x \in Objs /\ obj[x].sym = s /\ obj[x].closed
                              /\ store'[s].pid = obj[x].pid
    BY <1>1, ClosedRecords
  <2>2. CASE store'[s] = store[s]
    <3>1. /\ Past(s, p)
          /\ task["loop"].then = "recover" => task["loop"].snap.pos[s].pid # p
      BY <1>1, <2>2 DEF RecordsPast
    <3> QED BY <1>1, <3>1, PastStays, LoopSnaps, SnapPast
  <2>3. CASE \E x \in Held : x \in Objs /\ obj[x].sym = s /\ obj[x].closed
                              /\ store'[s].pid = obj[x].pid
    <3>1. PICK x \in Held : obj[x].sym = s /\ obj[x].closed /\ p = obj[x].pid
      BY <1>1, <2>3
    <3>2. Past(s, p) /\ task["loop"].then = "manage"
      BY <3>1 DEF HeldPast, Held, HeldOf
    <3> QED BY <1>1, <3>2, PastStays, LoopSnaps, SnapPast
  <2> QED BY <2>1, <2>2, <2>3
<1> QED BY <1>1 DEF RecordsPast, Past, Filled

\* The second look of a flatten is fresh: what it does not show is past.
LEMMA CheckPast ==
    ASSUME TypeInv, MadeInv, NamedInv, OrdersStay, ManagedOpen, "fetch" \notin FaultKinds,
           NEW t \in Tasks, FlattenCheck(t), NEW o \in task'[t].todo
    PROVE  /\ o \in Objs /\ UNCHANGED <<obj, attach>>
           /\ \A p : Filled(p) => Past(obj[o].sym, p)'
<1> DEFINE U(snap) == [task[t] EXCEPT !.pc = "flatbook", !.left = task[t].left - 1,
              !.todo = {positions[s] : s \in {x \in Managed : snap.pos[x].units = 0}},
              !.snap = NoSnap]
<1>1. PICK snap : PositionsForced(snap) /\ task' = [task EXCEPT ![t] = U(snap)]
  BY DEF FlattenCheck
<1>2. UNCHANGED <<venue, obj, attach>>
  BY DEF FlattenCheck, venueVars, bookVars
<1>3. snap = FreshSnap /\ cache' = FreshSnap
  BY <1>1 DEF PositionsForced, Fetched, FetchFails, Fault
<1>4. U(snap).todo = {positions[s] : s \in {x \in Managed : snap.pos[x].units = 0}}
  BY DEF TypeInv, TaskTyped, Task
<1> HIDE DEF U
<1>5. task'[t] = U(snap)
  BY <1>1 DEF TypeInv, TaskTyped
<1>6. PICK s \in Managed : o = positions[s] /\ snap.pos[s].units = 0
  BY <1>4, <1>5
<1>7. o \in Objs /\ obj[o].sym = s /\ s \in Symbols
  BY <1>6, ManagedMade DEF ManagedOpen, Managed
<1>8. venue[s].pid = 0
  BY <1>3, <1>6, <1>7 DEF NamedInv, RowsNamed, Honest, FreshSnap
<1>9. venue'[s].pid = 0 /\ cache'.pos[s].pid = 0
  BY <1>2, <1>3, <1>8 DEF FreshSnap
<1>10. ASSUME NEW p, Filled(p) PROVE Past(s, p)'
  <2>1. Filled(p)' /\ p # 0
    BY <1>10, FilledStays, BoundsInNat DEF Filled, Orders
  <2> QED BY <1>9, <2>1 DEF Past
<1>11. obj'[o].sym = s
  BY <1>2, <1>7
<1>12. \A p : Filled(p) => Past(obj[o].sym, p)'
  BY <1>10, <1>11 DEF Past, Filled
<1> QED BY <1>2, <1>7, <1>12

\* What was past when it was listed stays so, under whichever id.
LEMMA ListedStays ==
    ASSUME TypeInv, MadeInv, NamedInv, OrdersStay, [Next]_vars, ManagedOpen,
           Keeping \/ Stamping \/ TakesUp \/ LetsGo,
           NEW o \in Objs, o <= made.objs, NEW s \in Symbols, s = obj[o].sym,
           Past(s, obj[o].pid),
           positions[s] = o => \A p \in Orders : <<s, p>> \in attach => Past(s, p)
    PROVE  /\ obj'[o].sym = s /\ \E q : q = obj'[o].pid /\ Past(s, q)
           /\ positions'[s] = o => \A p \in Orders : <<s, p>> \in attach' => Past(s, p)
<1> DEFINE Goal == /\ obj'[o].sym = s /\ \E q : q = obj'[o].pid /\ Past(s, q)
                   /\ positions'[s] = o => \A p \in Orders : <<s, p>> \in attach' => Past(s, p)
<1> SUFFICES Goal
  OBVIOUS
<1>0. o # 0 /\ positions \in [Symbols -> 0..MaxObjs]
  BY BoundsInNat DEF Objs, TypeInv, BookTyped
<1>1. CASE Keeping
  BY <1>1 DEF Keeping
<1>2. ASSUME NEW r \in Symbols, NEW pid \in Orders, AttachDone(r, pid) PROVE Goal
  <2>1. /\ <<r, pid>> \in attach /\ attach' \subseteq attach /\ positions' = positions
        /\ obj'[o].sym = s
        /\ \/ obj'[o].pid = obj[o].pid
           \/ o = positions[r] /\ obj'[o].pid = pid /\ s = r
    BY <1>2, Stamped
  <2> QED BY <2>1
<1>3. ASSUME NEW r \in Symbols, NEW row, NEW pnl, NEW wanted, Adopt(r, row, pnl, FALSE),
             StartAttach(r, row.pid, wanted)
      PROVE  Goal
  <2>1. PICK n \in Objs :
              /\ n = made.objs + 1 /\ ~(n <= made.objs)
              /\ obj'[n].sym = r /\ ~obj'[n].closed
              /\ \A x \in Objs : x # n => obj'[x] = obj[x]
              /\ positions'[r] = n /\ ~store'[r].closed
              /\ \A x \in Symbols : x # r => positions'[x] = positions[x] /\ store'[x] = store[x]
    BY <1>3, TakenUp
  <2>2. o # n /\ obj'[o] = obj[o]
    BY <2>1
  <2>3. positions'[s] = o => s # r /\ positions[s] = o
    BY <2>1, <2>2
  <2>4. \A p : s # r /\ <<s, p>> \in attach' => <<s, p>> \in attach
    BY <1>3 DEF StartAttach
  <2> QED BY <2>2, <2>3, <2>4
<1>4. CASE LetsGo
  <2>1. PICK c \in Objs : (\E id \in HistoryIds(c) : \E why : MarkClosed(c, id, why))
                          /\ c <= made.objs
    BY <1>4 DEF LetsGo
  <2>2. PICK id \in HistoryIds(c) : \E why : MarkClosed(c, id, why)
    BY <2>1
  <2>3. /\ obj'[o].sym = s /\ obj'[o].pid = obj[o].pid
        /\ positions' = [positions EXCEPT ![obj[c].sym] = 0]
    BY <2>1, <2>2, GoneSteps
  <2>4. positions'[s] = o => positions[s] = o
    BY <1>0, <2>3
  <2> QED BY <1>4, <2>3, <2>4 DEF LetsGo
<1> HIDE DEF Goal
<1> QED BY <1>1, <1>2, <1>3, <1>4 DEF Stamping, TakesUp

LEMMA TodoPastNext ==
    ASSUME TypeInv, MadeInv, NamedInv, OrdersStay, [Next]_vars, Confirmed, Grips(task["loop"]),
           ManagedOpen, TodoPast, Keeping \/ Stamping \/ TakesUp \/ LetsGo
    PROVE  TodoPast'
<1> SUFFICES ASSUME NEW t \in Tasks, task'[t].pc = "flatbook", NEW o \in task'[t].todo
             PROVE  (/\ o \in Objs /\ Past(obj[o].sym, obj[o].pid)
                     /\ positions[obj[o].sym] = o =>
                          \A p \in Orders : <<obj[o].sym, p>> \in attach =>
                                                Past(obj[o].sym, p))'
  BY DEF TodoPast
<1>1. CASE FlattenCheck(t)
  <2>1. /\ o \in Objs /\ UNCHANGED <<obj, attach>>
        /\ \A p : Filled(p) => Past(obj[o].sym, p)'
    BY <1>1, CheckPast DEF Confirmed
  <2>2. Filled(obj[o].pid) /\ \A x \in attach : Filled(x[2])
    <3>1. o <= made'.objs
      BY MadeInvNext DEF MadeInv, MadeTasks, MadeTask
    <3>2. UNCHANGED made
      BY <1>1 DEF FlattenCheck
    <3> QED BY <2>1, <3>1, <3>2 DEF NamedInv, BookedAsNamed
  <2>3. PICK q : q = obj'[o].pid /\ Past(obj[o].sym, q)'
    BY <2>1, <2>2
  <2>4. \A p \in Orders : <<obj'[o].sym, p>> \in attach' => Past(obj[o].sym, p)'
    BY <2>1, <2>2
  <2> QED BY <2>1, <2>3, <2>4 DEF Past, Filled
<1>2. CASE ~FlattenCheck(t)
  <2>1. task[t].pc = "flatbook" /\ o \in task[t].todo
    BY <1>2, FlatbookSteps DEF Confirmed
  <2>2. o \in Objs /\ o <= made.objs /\ Past(obj[o].sym, obj[o].pid)
    BY <2>1 DEF TodoPast, MadeInv, MadeTasks, MadeTask
  <2>3. PICK s \in Symbols : s = obj[o].sym
    BY <2>2 DEF TypeInv, BookTyped, Object
  <2>4. /\ obj'[o].sym = s /\ \E q : q = obj'[o].pid /\ Past(s, q)
        /\ positions'[s] = o => \A p \in Orders : <<s, p>> \in attach' => Past(s, p)
    <3>1. positions[s] = o => \A p \in Orders : <<s, p>> \in attach => Past(s, p)
      BY <2>1, <2>3 DEF TodoPast
    <3> QED BY <2>2, <2>3, <3>1, ListedStays
  <2>5. PICK q : q = obj'[o].pid /\ Past(s, q)
    BY <2>4
  <2>6. \A p : Past(s, p) => Past(s, p)'
    BY PastStays
  <2> QED BY <2>2, <2>4, <2>5, <2>6 DEF Past, Filled
<1> QED BY <1>1, <1>2

LEMMA GoneInvNext ==
    ASSUME Confirmed, TypeInv, MadeInv, LedgerInv, NamedInv, GoneInv, [Next]_vars
    PROVE  GoneInv'
<1>1. OrdersStay
  BY OrdersStaySo DEF NamedInv, RowsNamed
<1>2. Keeping \/ Stamping \/ TakesUp \/ LetsGo
  BY BookSteps DEF GoneInv, NamedInv
<1>3. task'["sig"].pc \notin Leaving
  BY SigStays DEF GoneInv, Confirmed
<1>4. ManagedOpen'
  BY <1>2, ManagedOpenNext DEF GoneInv
<1>5. Grips(task'["loop"]) /\ HeldPast'
  BY <1>1, <1>2, HeldPastNext DEF GoneInv, Confirmed
<1>6. RecordsPast'
  BY <1>1, <1>2, RecordsPastNext DEF GoneInv
<1>7. TodoPast'
  BY <1>1, <1>2, TodoPastNext DEF GoneInv
<1> QED BY <1>3, <1>4, <1>5, <1>6, <1>7 DEF GoneInv

LEMMA GoneInvInit == Init => GoneInv
<1> SUFFICES ASSUME Init PROVE GoneInv
  OBVIOUS
<1>1. /\ task["loop"] = [IdleTask EXCEPT !.pc = "start"] /\ task["sig"] = IdleTask
      /\ \A t \in Tasks : task[t].pc # "flatbook"
  BY DEF Init, Tasks, IdleTask
<1>2. Held = {} /\ Grips(task["loop"]) /\ task["sig"].pc \notin Leaving
  BY <1>1 DEF Held, HeldOf, Grips, IdleTask, Leaving
<1>3. Managed = {} /\ \A s \in Symbols : ~store[s].kept
  BY DEF Init, Managed, NoRecord
<1> QED BY <1>1, <1>2, <1>3 DEF GoneInv, ManagedOpen, HeldPast, RecordsPast, TodoPast

LEMMA GoneInvHolds ==
    ASSUME Confirmed PROVE Spec => [](TypeInv /\ MadeInv /\ LedgerInv /\ NamedInv /\ GoneInv)
<1>1. Init => TypeInv /\ MadeInv /\ LedgerInv /\ NamedInv /\ GoneInv
  BY TypeInvInit, LedgerInit, NamedInvInit, GoneInvInit
<1>2. TypeInv /\ MadeInv /\ LedgerInv /\ NamedInv /\ GoneInv /\ [Next]_vars
        => (TypeInv /\ MadeInv /\ LedgerInv /\ NamedInv /\ GoneInv)'
  BY TypeInvNext, MadeInvNext, LedgerInvNext, NamedInvNext, GoneInvNext DEF Confirmed
<1> QED BY <1>1, <1>2, PTL DEF Spec

\* state.positions never shows a position that is in the ledger, whichever operations,
\* kill checks, failing orders, closes on the venue and late stops meet: a close takes the entry of the very object it books, though the loop walks over a
\* list it made at the start of its pass and a flatten over one made before its awaits.
THEOREM ManagedStayOpen ==
    ASSUME Confirmed PROVE Spec => []ManagedIsOpen
<1>1. GoneInv => ManagedIsOpen
  BY DEF GoneInv, ManagedOpen, ManagedIsOpen
<1> QED BY <1>1, GoneInvHolds, PTL

\* A record marked closed matches no open position, under the same conditions: the pass
\* of the loop (_reconcile_positions) may write the record of an object that a flatten has
\* booked meanwhile, and _recover_untracked_positions never revives it.
THEOREM ClosedRecordsStayPast ==
    ASSUME Confirmed PROVE Spec => []ClosedRecordsLapse
<1>1. GoneInv => ClosedRecordsLapse
  <2> SUFFICES ASSUME GoneInv, NEW s \in Symbols, store[s].kept, store[s].closed
               PROVE  store[s].pid \notin {0, venue[s].pid}
    BY DEF ClosedRecordsLapse
  <2>1. Past(s, store[s].pid)
    BY DEF GoneInv, RecordsPast
  <2>2. ~Filled(0)
    BY BoundsInNat DEF Filled, Orders
  <2> QED BY <2>1, <2>2 DEF Past
<1> QED BY <1>1, GoneInvHolds, PTL

(***************************************************************************)
(* One unit per symbol, under the conditions of the run trade: neither the *)
(* quotes nor the positions of a symbol are checked against the venue, so  *)
(* that SingleExposure needs to know where the one unit of a symbol can be *)
(* at every moment.  A symbol lives in epochs.  An epoch begins when the   *)
(* executor decides on a quote c; m is the order that c has become, 0      *)
(* before it is sent.  During the epoch whatever the venue, a snapshot, a  *)
(* row, a task or the book shows of the symbol is c or the one unit of m;  *)
(* the next epoch can begin only when m is settled and no snapshot shows   *)
(* what it opened.  A strayed quote or a misnamed position ends the        *)
(* account for its symbol, and both last for ever.                         *)
(***************************************************************************)

\* IOC or market entries whose fills are at least of the minimum ratio and name their
\* position, with the contracts' details cached and a cooldown longer than snapshots
\* are used for; close and cancel calls may fail, entry and snapshot calls do not; no
\* operator, no kill check.
TradeConditions ==
    /\ TakerEntry /\ FillCarriesPid /\ ~BadFills /\ MetaCached /\ LongCooldown
    /\ FaultKinds \subseteq {"close", "cancel"} /\ Operations = {}

(***************************************************************************)
(* The shape of the state.                                                 *)
(***************************************************************************)
Pending(m)    == m \in Orders /\ order[m].st \in {"sent", "live"}
Unit(m)       == [pid |-> m, units |-> 1]
Row(m)        == [pid |-> m, truth |-> m, units |-> 1]
Views         == {cache, task["loop"].snap}
Shows(S, s)   == S.pos[s].units > 0
On(T, pcs, s) == T.pc \in pcs /\ SymOf(T.q) = s
Asking        == {"check", "cancel"}
OrderOf(c)    == IF c = 0 THEN 0 ELSE quote[c].ord

\* Nothing is there before it is made.
Numbered ==
    /\ \A n \in Quotes : n > made.quotes => quote[n] = NoQuote
    /\ \A m \in Orders : m > made.orders => order[m].st = "none"
    /\ \A o \in Objs : o > made.objs => obj[o] = NoObj
    /\ \A n \in Quotes : quote[n].ord # 0 =>
          order[quote[n].ord].sym = SymOf(n) /\ order[quote[n].ord].st # "none"
    /\ \A S \in Views : S.upto <= made.objs

\* Tasks and symbols hold only quotes already made, and their own.
QuotesMade ==
    /\ \A s \in Symbols : quotes[s] # 0 => quotes[s] <= made.quotes /\ SymOf(quotes[s]) = s
    /\ \A t \in {"sig", "loop"} : task[t].q <= made.quotes
    /\ task["loop"].then = "quotes" =>
          \A n \in task["loop"].todo : n \in Quotes /\ n <= made.quotes

\* A task that runs on does so alone; its symbol is free when it opens a position.
RunsAlone ==
    /\ \A t, u \in Tasks : RunsOn(t) /\ RunsOn(u) => t = u
    /\ \A t \in Tasks : task[t].pc = "open" => positions[SymOf(task[t].q)] = 0

\* Whatever names a position names the filled order of its symbol that opened it.
FillsShown ==
    /\ \A s \in Symbols : IF venue[s].units = 0 THEN venue[s].pid = 0
                                               ELSE FillOf(venue[s].pid, s)
    /\ \A S \in Views, s \in Symbols : Shows(S, s) => FillOf(S.pos[s].pid, s)
    /\ \A p \in hist : /\ FillOf(p, order[p].sym)
                       /\ venue[order[p].sym].pid # p
    /\ \A m \in Orders : order[m].st = "filled" => FillOf(order[m].pid, order[m].sym)
FillsHeld ==
    /\ \A s \in Symbols, p \in Orders : <<s, p>> \in attach => FillOf(p, s)
    /\ \A o \in Objs : o <= made.objs => /\ FillOf(obj[o].pid, obj[o].sym)
                                         /\ FillOf(obj[o].truth, obj[o].sym)
    /\ \A n \in Quotes : quote[n].syn # NoRaw => FillOf(quote[n].syn.pid, SymOf(n))
                                             /\ FillOf(quote[n].syn.truth, SymOf(n))
    /\ \A t \in Tasks : task[t].pc = "open" =>
          /\ FillOf(task[t].raw.pid, SymOf(task[t].q))
          /\ FillOf(task[t].raw.truth, SymOf(task[t].q))

\* What the loop has at hand in each phase of a tick.
Phases(T) ==
    /\ T.pc \in {"start", "idle", "balance"} => T.then = "idle"
    /\ T.pc \in Entering \cup Asking \cup {"quotes"} => T.then = "quotes" /\ T.pc # "tick"
    /\ T.pc \in Leaving \cup {"trail", "history"} => T.then = "manage" /\ T.o # 0
    /\ T.then \in {"idle", "quotes", "recover", "manage"}
    /\ T.then \in {"idle", "quotes"} => T.snap = NoSnap
    /\ T.then \in {"recover", "manage"} => T.snap.ok
    /\ T.pc \in Entering \cup Asking => T.q \notin T.todo
    /\ T.then = "recover" => \A s \in T.syms : Shows(T.snap, s)
    /\ T.pc = "history" => ~Shows(T.snap, obj[T.o].sym)
Adopting(T) ==
    T.pc = "adopt" => LET s == order[T.raw.pid].sym IN
       /\ T.raw = RowOf(T.snap.pos[s]) /\ Shows(T.snap, s)
       /\ T.q # 0 => SymOf(T.q) = s /\ positions[s] = 0
LoopShape ==
    /\ Phases(task["loop"]) /\ Adopting(task["loop"])
    /\ \A x \in Held : positions[obj[x].sym] = x
    /\ task["sig"].pc \in Entering \cup {"idle"} /\ task["sig"].then = "idle"
    /\ ~ctl.stop /\ ~ctl.emergency /\ ctl.running

\* A spent key is some trade's.
KeysSpent == \A k \in closedKeys : \E o \in Objs : Booked(o) /\ obj[o].key = k

ShapeInv == /\ Numbered /\ QuotesMade /\ RunsAlone /\ FillsShown /\ FillsHeld
            /\ LoopShape /\ KeysSpent

(***************************************************************************)
(* The epoch of quote c and order m on symbol s.                           *)
(***************************************************************************)
Latest(s, c, m) == /\ c \in 0..made.quotes /\ m = OrderOf(c)
                   /\ c # 0 => SymOf(c) = s

\* m is the last order of s that can fill, and opens a position of its own.
OrdersOf(s, m) ==
    /\ \A k \in Orders : Pending(k) /\ order[k].sym = s => k = m
    /\ m # 0 => \A k \in Orders : FillOf(k, s) => k <= m
    /\ FillOf(m, s) => order[m].pid = m

VenueOf(s, m)    == venue[s].units > 0 => venue[s] = Unit(m)
ViewsOf(s, m)    == \A S \in Views : Shows(S, s) => S.pos[s] = Unit(m)
PositionOf(s, m) == positions[s] # 0 => /\ obj[positions[s]].truth = m
                                        /\ obj[positions[s]].qty = 1

PendingOf(s, c, m) ==
    /\ quotes[s] \in {0, c}
    /\ c # 0 => /\ quote[c].syn \in {NoRaw, Row(m)}
                /\ quotes[s] = c /\ quote[c].st = "armed" => m = 0
                /\ quote[c].st = "acked" => m # 0 /\ order[m].st # "sent"

\* What a task that takes a quote of s to a position has in hand.
EntryOf(T, s, c, m) ==
    On(T, Entering, s) =>
      /\ T.q = c
      /\ T.pc = "tick"   => m = 0 /\ quote[c].st = "armed"
      /\ T.pc = "submit" => m = 0 /\ quote[c].st = "inflight" /\ quotes[s] = c
      /\ T.pc = "ack"    => m # 0 /\ quote[c].st = "inflight"
      /\ T.pc = "find"   => quote[c].st = "acked"
      /\ T.pc = "open"   => T.raw = Row(m)

\* While the loop is at c, or has it in its copy, c is not over.
Current(s, c) == \/ quotes[s] = c \/ positions[s] # 0
                 \/ task["sig"].pc = "open" /\ task["sig"].q = c
CopyOf(s, c, m) ==
    LET T == task["loop"] IN
    /\ On(T, {"submit", "ack", "find", "check"}, s) => Current(s, c)
    /\ On(T, {"ack"}, s) => ~On(task["sig"], {"ack"}, s)
    /\ On(T, {"check"}, s) => T.q = c /\ quote[c].st = "acked"
    /\ On(T, {"cancel"}, s) /\ T.q = c =>
          m # 0 /\ ~Pending(m) /\ venue[s].units = 0 /\ \A S \in Views : ~Shows(S, s)
    /\ T.then = "quotes" =>
          \A n \in T.todo : SymOf(n) = s => quote[n].st = "armed" \/ (n = c /\ Current(s, c))

\* The loop closes the whole unit.
CloseOf(T, s) ==
    T.pc \in Leaving /\ obj[T.o].sym = s =>
       T.raw.units = 1 /\ (T.pc # "close" => venue[s].units = 0)

\* A position that a later snapshot does not show is gone.
AgeOf(s) ==
    /\ Shows(task["loop"].snap, s) /\ ~Shows(cache, s) => venue[s].units = 0
    /\ \A S \in Views : LET o == positions[s] IN
         o # 0 /\ (obj[o].pnl \/ o <= S.upto) /\ S.ok /\ ~Shows(S, s) => venue[s].units = 0

\* When nothing holds the symbol, m is settled, and a snapshot that shows it still is
\* one of a closed position.
Busy(s)    == \E t \in Tasks : RunsOn(t) /\ SymOf(task[t].q) = s
Free(s)    == quotes[s] = 0 /\ positions[s] = 0 /\ ~Busy(s)
Done(s, m) == \E o \in Objs : obj[o].sym = s /\ obj[o].closed /\ obj[o].truth = m
FreeOf(s, m) ==
    Free(s) => /\ ~Pending(m) /\ venue[s].units = 0
               /\ \A S \in Views : Shows(S, s) => Done(s, m)

Epoch(s, c, m) ==
    /\ Latest(s, c, m) /\ OrdersOf(s, m) /\ VenueOf(s, m) /\ ViewsOf(s, m)
    /\ PositionOf(s, m) /\ PendingOf(s, c, m)
    /\ EntryOf(task["sig"], s, c, m) /\ EntryOf(task["loop"], s, c, m)
    /\ CopyOf(s, c, m) /\ CloseOf(task["loop"], s) /\ AgeOf(s) /\ FreeOf(s, m)

Lost(s) == Strayed(s) \/ Confused(s)

\* s is in an epoch, or its account is at an end.
Accounted(s) == Lost(s) \/ \E c, m : Epoch(s, c, m)

TradeInv == /\ TypeInv /\ MadeInv /\ LedgerInv /\ NamedInv /\ OnlyLoop /\ BookInv
            /\ ShapeInv
ExposureInv == TradeInv /\ \A s \in Symbols : Accounted(s)

(***************************************************************************)
(* What follows at once.                                                   *)
(***************************************************************************)
LEMMA TaskNames == "sig" \in Tasks /\ "loop" \in Tasks /\ "op" \in Tasks /\ "sig" # "loop"
BY DEF Tasks

\* A look at the venue shows it as it is, or as the cache had it.
LEMMA LookSees ==
    ASSUME TypeInv, TradeConditions, NEW snap, PositionsCached(snap) \/ PositionsForced(snap)
    PROVE  /\ cache' = snap /\ snap \in {cache, FreshSnap} /\ snap.ok
           /\ UNCHANGED faults
BY DEF TradeConditions, PositionsCached, PositionsForced, Fetched, CacheHit, FetchFails, Fault,
       FreshSnap

\* Until m is filled nothing shows the symbol.
LEMMA NothingYet ==
    ASSUME TypeInv, MadeInv, BookInv, FillsShown, FillsHeld, NEW s \in Symbols, NEW c, NEW m,
           Epoch(s, c, m), ~FillOf(m, s)
    PROVE  /\ venue[s].units = 0 /\ venue[s].pid = 0 /\ positions[s] = 0
           /\ \A S \in Views : ~Shows(S, s)
<1>1. venue[s].units \in Nat
  BY DEF TypeInv, VenueTyped, Position
<1>2. venue[s].units = 0 /\ venue[s].pid = 0
  BY <1>1 DEF Epoch, VenueOf, FillsShown, Unit
<1>3. \A S \in Views : ~Shows(S, s)
  BY DEF Epoch, ViewsOf, FillsShown, Unit
<1>4. positions[s] = 0
  <2> SUFFICES ASSUME positions[s] # 0 PROVE FALSE
    OBVIOUS
  <2>1. s \in Managed
    BY DEF Managed
  <2>2. positions[s] \in Objs /\ positions[s] <= made.objs /\ obj[positions[s]].sym = s
    BY <2>1, ManagedMade DEF BookInv
  <2> QED BY <2>2 DEF Epoch, PositionOf, FillsHeld
<1> QED BY <1>2, <1>3, <1>4

\* An order that is not filled is not the one shown.
LEMMA NoFill ==
    ASSUME NEW m, NEW s, m \notin Orders \/ order[m].st # "filled" PROVE ~FillOf(m, s)
BY DEF FillOf

(* What a step leaves of an epoch.                                         *)
\* The venue rests; a snapshot may be refreshed, used by the loop or put away.
Looks ==
    /\ UNCHANGED venue /\ cache' \in {cache, FreshSnap}
    /\ task'["loop"].snap \in {task["loop"].snap, cache', NoSnap}

\* The position of s and its objects stay, and no object changes its symbol.
BookKept(s) ==
    /\ positions'[s] = positions[s]
    /\ \A o \in Objs : o <= made.objs =>
          /\ obj'[o].sym = obj[o].sym
          /\ obj[o].sym = s => obj'[o] = obj[o]

LEMMA LooksShow ==
    ASSUME TypeInv, NEW s \in Symbols, NEW m, VenueOf(s, m), ViewsOf(s, m), Looks
    PROVE  /\ VenueOf(s, m)' /\ ViewsOf(s, m)'
           /\ \A S \in Views' : Shows(S, s) => venue[s].units > 0 \/ \E R \in Views : Shows(R, s)
<1>1. /\ venue[s].units \in Nat /\ NoSnap.pos[s].units = 0 /\ FreshSnap.pos = venue
  BY DEF TypeInv, VenueTyped, Position, NoSnap, Flat, FreshSnap
<1>2. \A S \in Views' : S \in Views \cup {FreshSnap, NoSnap}
  BY DEF Looks, Views
<1>3. \A S \in Views' : Shows(S, s) => /\ S.pos[s] = Unit(m)
                                       /\ venue[s].units > 0 \/ \E R \in Views : Shows(R, s)
  BY <1>1, <1>2 DEF Shows, VenueOf, ViewsOf
<1>4. VenueOf(s, m)'
  BY DEF VenueOf, Looks
<1>5. ViewsOf(s, m)'
  BY <1>3 DEF ViewsOf, Shows
<1> QED BY <1>3, <1>4, <1>5

LEMMA KeptPosition ==
    ASSUME TypeInv, MadeInv, BookInv, NEW s \in Symbols, BookKept(s)
    PROVE  /\ positions'[s] = positions[s]
           /\ positions[s] # 0 => /\ positions[s] \in Objs /\ obj[positions[s]].sym = s
                                  /\ obj'[positions[s]] = obj[positions[s]]
<1>1. positions[s] # 0 => /\ positions[s] \in Objs /\ positions[s] <= made.objs
                          /\ obj[positions[s]].sym = s
  BY ManagedMade DEF Managed, BookInv
<1> QED BY <1>1 DEF BookKept

LEMMA KeptDone ==
    ASSUME TypeInv, Numbered, NEW s, NEW m, BookKept(s), Done(s, m) PROVE Done(s, m)'
<1>1. PICK o \in Objs : obj[o].sym = s /\ obj[o].closed /\ obj[o].truth = m
  BY DEF Done
<1>2. o <= made.objs
  <2>1. o \in Nat /\ made.objs \in Nat
    BY BoundsInNat DEF Objs, TypeInv, ControlTyped
  <2> QED BY <1>1, <2>1 DEF Numbered, NoObj
<1> QED BY <1>1, <1>2 DEF BookKept, Done

LEMMA KeptAge ==
    ASSUME TypeInv, MadeInv, BookInv, NEW s \in Symbols, BookKept(s), Looks, AgeOf(s)
    PROVE  AgeOf(s)'
<1>1. /\ venue[s].units \in Nat /\ NoSnap.pos[s].units = 0 /\ FreshSnap.pos = venue
      /\ ~NoSnap.ok /\ venue' = venue
  BY DEF TypeInv, VenueTyped, Position, NoSnap, Flat, FreshSnap, Looks
<1>2. \A S \in Views' : S \in Views \cup {FreshSnap, NoSnap}
  BY DEF Looks, Views
<1>3. Shows(task["loop"].snap, s)' /\ ~Shows(cache, s)' => venue'[s].units = 0
  BY <1>1 DEF Looks, Shows, AgeOf
<1>4. ASSUME NEW S \in Views', positions'[s] # 0,
             obj'[positions'[s]].pnl \/ positions'[s] <= S.upto, S.ok, ~Shows(S, s)
      PROVE  venue'[s].units = 0
  BY <1>1, <1>2, <1>4, KeptPosition DEF Shows, AgeOf
<1> QED BY <1>3, <1>4 DEF AgeOf, Shows

LEMMA FreeKept ==
    ASSUME TypeInv, NEW s \in Symbols, NEW m, VenueOf(s, m), ViewsOf(s, m), Looks, FreeOf(s, m),
           Free(s)' => Free(s), Pending(m)' => Pending(m), Done(s, m) => Done(s, m)'
    PROVE  FreeOf(s, m)'
<1>1. CASE Free(s)'
  <2>1. venue'[s].units = 0 /\ ~Pending(m)'
    BY <1>1 DEF FreeOf, Looks
  <2>2. \A S \in Views' : Shows(S, s) => Done(s, m)'
    <3>1. venue[s].units = 0 /\ \A R \in Views : Shows(R, s) => Done(s, m)
      BY <1>1 DEF FreeOf
    <3> QED BY <3>1, LooksShow
  <2>3. \A S \in Views' : Shows(S, s)' => Done(s, m)'
    BY <2>2 DEF Shows
  <2> QED BY <2>1, <2>3 DEF FreeOf
<1>2. CASE ~Free(s)'
  BY <1>2 DEF FreeOf
<1> QED BY <1>1, <1>2

(* Where a task goes.                                                      *)
Others(t) == \A u \in Tasks : u # t => task'[u] = task[u] /\ ~RunsOn(u)
\* t keeps its caller and its snapshot and is at pc with quote n.
GoesTo(t, pc, n) ==
    /\ Others(t)
    /\ task'[t].pc = pc /\ task'[t].q = n
    /\ task'[t].then = task[t].then /\ task'[t].snap = task[t].snap
    /\ task'[t].todo = task[t].todo
\* t returns to its caller with nothing in hand.
ComesBack(t) == GoesTo(t, task[t].then, 0) /\ task'[t].o = 0

LEMMA BackGoes ==
    ASSUME TypeInv, NEW t \in Tasks, Back(t), \E pc : At(t, pc) PROVE ComesBack(t)
<1>1. task[t] \in Task /\ task' = [task EXCEPT ![t] = Return(task[t])]
  BY DEF Back, TypeInv, TaskTyped
<1>2. /\ Return(task[t]).pc = task[t].then /\ Return(task[t]).q = 0 /\ Return(task[t]).o = 0
      /\ Return(task[t]).then = task[t].then /\ Return(task[t]).snap = task[t].snap
      /\ Return(task[t]).todo = task[t].todo
  BY <1>1 DEF Return, Task
<1> QED BY <1>1, <1>2 DEF ComesBack, GoesTo, Others, At, TypeInv, TaskTyped

LEMMA GotoGoes ==
    ASSUME TypeInv, NEW t \in Tasks, NEW pc, Goto(t, pc), \E p : At(t, p)
    PROVE  GoesTo(t, pc, task[t].q)
<1>1. task[t] \in Task /\ task' = [task EXCEPT ![t] = [task[t] EXCEPT !.pc = pc]]
  BY SetPc DEF TypeInv, TaskTyped
<1> DEFINE U == [task[t] EXCEPT !.pc = pc]
<1>2. /\ U.pc = pc /\ U.q = task[t].q /\ U.then = task[t].then /\ U.snap = task[t].snap
      /\ U.todo = task[t].todo
  BY <1>1 DEF Task
<1> HIDE DEF U
<1> QED BY <1>1, <1>2 DEF GoesTo, Others, At, TypeInv, TaskTyped, U

\* Only t can run on afterwards.
LEMMA OneRuns ==
    ASSUME NEW t \in Tasks, Others(t)
    PROVE  /\ \A u \in Tasks : RunsOn(u)' => u = t
           /\ \A u \in Tasks : u # t => ~RunsOn(u) /\ ~RunsOn(u)'
<1>1. \A u \in Tasks : u # t => task'[u] = task[u] /\ ~RunsOn(u)
  BY DEF Others
<1>2. \A u \in Tasks : u # t => ~RunsOn(u)'
  BY <1>1 DEF RunsOn
<1> QED BY <1>1, <1>2

(***************************************************************************)
(* A task at work on a quote: the step acts on quote n and its symbol.     *)
(***************************************************************************)
Works(t, n) ==
    /\ Others(t)
    /\ task'[t].then = task[t].then /\ task'[t].snap = task[t].snap
    /\ task'[t].todo \subseteq task[t].todo
    /\ task'[t].pc \notin Leaving \cup {"adopt"}
    /\ task[t].pc \notin Leaving \cup {"adopt"}
    /\ task'[t].pc \in Entering \cup Asking => task'[t].q = n
    /\ task[t].pc \in Entering \cup Asking => task[t].q = n
    /\ \A k \in Quotes : k # n => quote'[k] = quote[k]
    /\ quote'[n].sym = quote[n].sym
    /\ \A x \in Symbols : x # SymOf(n) => quotes'[x] = quotes[x]
    /\ made'.quotes = made.quotes
\* What it does to the orders of other symbols, and of those sent.
OrdersElse(s) ==
    \A k \in Orders : \/ order'[k] = order[k]
                      \/ /\ order[k].sym = s => order[k].st = "none"
                         /\ order'[k].sym # s

LEMMA WorksAround ==
    ASSUME TypeInv, MadeInv, BookInv, NEW t \in {"sig", "loop"}, NEW n, Works(t, n),
           NEW s \in Symbols, NEW c, NEW m, Epoch(s, c, m), Looks, BookKept(s)
    PROVE  /\ VenueOf(s, m)' /\ ViewsOf(s, m)' /\ AgeOf(s)' /\ PositionOf(s, m)'
           /\ CloseOf(task["loop"], s)'
<1> USE TaskNames
<1>1. VenueOf(s, m)' /\ ViewsOf(s, m)' /\ AgeOf(s)'
  BY LooksShow, KeptAge DEF Epoch
<1>2. PositionOf(s, m)'
  BY KeptPosition DEF Epoch, PositionOf
<1>3. CloseOf(task["loop"], s)'
  <2>1. CASE t = "loop"
    BY <2>1 DEF Works, CloseOf
  <2>2. CASE t = "sig"
    <3>1. task'["loop"] = task["loop"] /\ venue' = venue
      BY <2>2 DEF Works, Others, Looks
    <3>2. task["loop"].pc \in Leaving => task["loop"].o \in Objs /\ task["loop"].o <= made.objs
      BY LoopTask DEF Steady, Leaving, MadeInv, MadeTasks, MadeTask
    <3> QED BY <3>1, <3>2 DEF Epoch, CloseOf, BookKept
  <2> QED BY <2>1, <2>2
<1> QED BY <1>1, <1>2, <1>3

LEMMA WorksElse ==
    ASSUME TypeInv, MadeInv, BookInv, Numbered, QuotesMade, NEW t \in {"sig", "loop"},
           NEW n \in Quotes, Works(t, n), NEW s \in Symbols, SymOf(n) # s, NEW c, NEW m,
           Epoch(s, c, m), OrdersElse(s), Looks, BookKept(s)
    PROVE  Epoch(s, c, m)'
<1> USE TaskNames
<1>1. c \in 0..made.quotes /\ (c # 0 => c \in Quotes /\ quote'[c] = quote[c] /\ c # n)
  BY BoundsInNat DEF Epoch, Latest, Works, TypeInv, ControlTyped, Quotes, SymOf
<1>2. Latest(s, c, m)'
  BY <1>1 DEF Epoch, Latest, OrderOf, Works, SymOf
<1>3. m # 0 => m \in Orders /\ order[m].sym = s /\ order[m].st # "none" /\ order'[m] = order[m]
  BY <1>1 DEF Epoch, Latest, OrderOf, Numbered, OrdersElse, TypeInv, QuoteTyped, Quote, Orders
<1>4. \A k \in Orders : order'[k].sym = s => order'[k] = order[k]
  BY DEF OrdersElse
<1>5. \A k : FillOf(k, s)' => FillOf(k, s) /\ order'[k] = order[k]
  BY <1>4 DEF FillOf
<1>6. OrdersOf(s, m)'
  BY <1>3, <1>4, <1>5 DEF Epoch, OrdersOf, Pending, FillOf
<1>7. /\ VenueOf(s, m)' /\ ViewsOf(s, m)' /\ AgeOf(s)' /\ PositionOf(s, m)'
      /\ CloseOf(task["loop"], s)'
  BY WorksAround
<1>8. PendingOf(s, c, m)'
  BY <1>1, <1>3 DEF Epoch, PendingOf, Works
<1>9. \A k \in Quotes : SymOf(k)' = SymOf(k)
  BY DEF Works, SymOf
<1>10. \A u \in Tasks : /\ task[u].pc \in Entering \cup Asking => task[u].q \in Quotes
                        /\ task'[u].pc \in Entering \cup Asking => task'[u].q \in Quotes
  <2>1. \A u \in Tasks : task[u].pc \in Entering \cup Asking => task[u].q \in Quotes
    BY DEF TypeInv, TaskTyped, Steady, Entering, Asking
  <2> QED BY <2>1 DEF Works, Others
<1>11. /\ ~On(task[t], Entering \cup Asking, s) /\ ~On(task[t], Entering \cup Asking, s)'
       /\ t \in Tasks
  BY <1>9 DEF Works, On
<1>12. ASSUME NEW u \in {"sig", "loop"} PROVE EntryOf(task[u], s, c, m)'
  <2>1. CASE u = t
    BY <2>1, <1>11 DEF EntryOf, On
  <2>2. CASE u # t
    <3>1. task'[u] = task[u]
      BY <2>2 DEF Works, Others
    <3>2. EntryOf(task[u], s, c, m)
      BY DEF Epoch
    <3>3. On(task[u], Entering, s)' => On(task[u], Entering, s)
      BY <1>9, <1>10, <3>1 DEF On
    <3>4. quotes'[s] = quotes[s]
      BY DEF Works
    <3>5. task[u].q = c /\ task[u].pc \in Entering => quote'[c] = quote[c]
      BY <1>1, <1>10, BoundsInNat DEF Quotes
    <3> QED BY <3>1, <3>2, <3>3, <3>4, <3>5 DEF EntryOf, On
  <2> QED BY <2>1, <2>2
<1>13. Current(s, c) => Current(s, c)'
  <2>1. t = "sig" => ~(task["sig"].pc = "open" /\ task["sig"].q = c)
    <3> SUFFICES ASSUME t = "sig", task["sig"].pc = "open", task["sig"].q = c PROVE FALSE
      OBVIOUS
    <3>1. c \in Quotes /\ task["sig"].pc \in Entering \cup Asking
      BY <1>10 DEF Entering
    <3>2. SymOf(c) = s
      BY <3>1, BoundsInNat DEF Epoch, Latest, Quotes
    <3> QED BY <1>11, <3>1, <3>2 DEF On
  <2> QED BY <2>1, KeptPosition DEF Current, Works, Others
<1>14. CopyOf(s, c, m)'
  <2>1. CASE t = "loop"
    <3>1. ~On(task["loop"], Entering \cup Asking, s)'
      BY <2>1, <1>11
    <3>2. task'["loop"].then = "quotes" => \A k \in task'["loop"].todo : SymOf(k)' = s =>
             quote'[k].st = "armed" \/ (k = c /\ Current(s, c)')
      <4> SUFFICES ASSUME task'["loop"].then = "quotes", NEW k \in task'["loop"].todo, SymOf(k)' = s
                   PROVE  quote'[k].st = "armed" \/ (k = c /\ Current(s, c)')
        OBVIOUS
      <4>1. task["loop"].then = "quotes" /\ k \in task["loop"].todo
        BY <2>1 DEF Works
      <4>2. k \in Quotes /\ SymOf(k) = s /\ k # n
        BY <1>9, <4>1 DEF QuotesMade
      <4>3. quote'[k] = quote[k]
        BY <4>2 DEF Works
      <4> QED BY <1>13, <4>1, <4>2, <4>3 DEF Epoch, CopyOf
    <3> QED BY <3>1, <3>2 DEF CopyOf, On, Entering, Asking
  <2>2. CASE t = "sig"
    <3>1. task'["loop"] = task["loop"]
      BY <2>2 DEF Works, Others
    <3>2. ~On(task["sig"], {"ack"}, s)'
      BY <2>2, <1>11 DEF On, Entering
    <3>3. \A pcs \in SUBSET (Entering \cup Asking) :
             On(task["loop"], pcs, s)' => On(task["loop"], pcs, s)
      BY <1>9, <1>10, <3>1 DEF On
    <3>4. task["loop"].q = c /\ task["loop"].pc \in Entering \cup Asking => quote'[c] = quote[c]
      BY <1>1, <1>10, BoundsInNat DEF Quotes
    <3>5. On(task["loop"], {"submit", "ack", "find", "check"}, s)' => Current(s, c)'
      BY <1>13, <3>3 DEF Epoch, CopyOf, Entering, Asking
    <3>6. On(task["loop"], {"check"}, s)' => task'["loop"].q = c /\ quote'[c].st = "acked"
      BY <3>1, <3>3, <3>4 DEF Epoch, CopyOf, Asking, On
    <3>7. On(task["loop"], {"cancel"}, s)' /\ task'["loop"].q = c =>
            m # 0 /\ ~Pending(m)' /\ venue'[s].units = 0 /\ \A S \in Views' : ~Shows(S, s)
      <4> SUFFICES ASSUME On(task["loop"], {"cancel"}, s)', task["loop"].q = c
                   PROVE  m # 0 /\ ~Pending(m)' /\ venue'[s].units = 0 /\ \A S \in Views' : ~Shows(S, s)
        BY <3>1
      <4>1. m # 0 /\ ~Pending(m) /\ venue[s].units = 0 /\ \A S \in Views : ~Shows(S, s)
        BY <3>3 DEF Epoch, CopyOf, Asking
      <4> QED BY <1>3, <4>1, LooksShow DEF Epoch, Pending, Looks
    <3>8. task'["loop"].then = "quotes" => \A k \in task'["loop"].todo : SymOf(k)' = s =>
             quote'[k].st = "armed" \/ (k = c /\ Current(s, c)')
      <4> SUFFICES ASSUME task["loop"].then = "quotes", NEW k \in task["loop"].todo, SymOf(k)' = s
                   PROVE  quote'[k].st = "armed" \/ (k = c /\ Current(s, c)')
        BY <3>1
      <4>1. k \in Quotes /\ SymOf(k) = s /\ k # n
        BY <1>9 DEF QuotesMade
      <4>2. quote'[k] = quote[k]
        BY <4>1 DEF Works
      <4> QED BY <1>13, <4>1, <4>2 DEF Epoch, CopyOf
    <3> QED BY <3>2, <3>5, <3>6, <3>7, <3>8 DEF CopyOf, On, Shows
  <2> QED BY <2>1, <2>2
<1>15. FreeOf(s, m)'
  <2>1. ~Busy(s)
    <3>1. \A u \in Tasks : RunsOn(u) => u = t
      BY <1>11, OneRuns DEF Works
    <3>2. RunsOn(t) => task[t].pc \in Entering
      BY DEF RunsOn, Works, Entering
    <3> QED BY <1>11, <3>1, <3>2 DEF Busy, On
  <2>2. Free(s)' => Free(s)
    BY <2>1, KeptPosition DEF Free, Works
  <2>3. Pending(m)' => Pending(m)
    BY <1>3, BoundsInNat DEF Pending, Orders
  <2> QED BY <2>2, <2>3, FreeKept, KeptDone DEF Epoch
<1> QED BY <1>2, <1>6, <1>7, <1>8, <1>12, <1>14, <1>15, TaskNames DEF Epoch

(* At work on a quote of s itself.                                         *)
LEMMA EntryHere ==
    ASSUME TypeInv, NEW t \in {"sig", "loop"}, NEW s, NEW c, NEW m, Epoch(s, c, m),
           On(task[t], Entering, s)
    PROVE  /\ task[t].q = c /\ c \in Quotes /\ c # 0 /\ SymOf(c) = s /\ m = quote[c].ord
           /\ EntryOf(task[t], s, c, m) /\ quote[c] \in Quote
<1>1. task[t].q \in Quotes
  BY TaskNames DEF On, Entering, TypeInv, TaskTyped, Steady
<1>2. EntryOf(task[t], s, c, m)
  BY DEF Epoch
<1> QED BY <1>1, <1>2, BoundsInNat DEF EntryOf, Epoch, Latest, OrderOf, Quotes, TypeInv, QuoteTyped

\* The other task is at s only if it waits for the acknowledgement or looks for the
\* position, and not both tasks wait.
LEMMA OtherHere ==
    ASSUME TypeInv, TradeConditions, NEW t \in {"sig", "loop"}, NEW u \in {"sig", "loop"},
           u # t, Others(t), NEW s, NEW c, NEW m, Epoch(s, c, m), On(task[u], Entering, s)
    PROVE  /\ task[u].pc \in {"ack", "find"}
           /\ task[u].pc = "ack"  => /\ m # 0 /\ quote[c].st = "inflight"
                                     /\ ~On(task[t], {"ack"}, s)
           /\ task[u].pc = "find" => quote[c].st = "acked"
<1>1. ~RunsOn(u)
  BY TaskNames DEF Others
<1>2. task[u].pc \in {"ack", "find"}
  BY <1>1 DEF RunsOn, TradeConditions, On, Entering
<1>3. task[u].pc = "ack" => ~On(task[t], {"ack"}, s)
  BY DEF Epoch, CopyOf, On
<1> QED BY <1>2, <1>3, EntryHere DEF EntryOf

\* A quote in flight that cannot fill any more is dropped by the task that has it.
LEMMA DropEpoch ==
    ASSUME TypeInv, TradeConditions, MadeInv, BookInv, Numbered, QuotesMade, FillsShown, FillsHeld,
           NEW t \in {"sig", "loop"}, NEW s \in Symbols, NEW c, NEW m, Epoch(s, c, m),
           On(task[t], {"submit", "ack"}, s), Drop(t, c), At(t, task[t].pc), LoopShape,
           ~FillOf(m, s), ~Pending(m)', OrdersOf(s, m)',
           UNCHANGED <<venue, hist, bookVars, cache, attach, ctl>>, made'.quotes = made.quotes
    PROVE  Epoch(s, c, m)'
<1> USE TaskNames
<1>1. /\ task[t].q = c /\ c \in Quotes /\ c # 0 /\ SymOf(c) = s /\ m = quote[c].ord
      /\ EntryOf(task[t], s, c, m) /\ quote[c].st = "inflight"
  BY EntryHere DEF On, Entering, EntryOf
<1>2. /\ \A k \in Quotes : k # c => quote'[k] = quote[k]
      /\ quote'[c].sym = s /\ quote'[c].st = "armed" /\ quote'[c].ord = m
      /\ quote'[c].syn = quote[c].syn
  BY <1>1 DEF Drop, TypeInv, QuoteTyped, Quote, SymOf
<1>3. quotes'[s] = 0 /\ \A x \in Symbols : x # s => quotes'[x] = quotes[x]
  BY <1>1 DEF Drop, TypeInv, QuoteTyped
<1>4. ComesBack(t) /\ t \in Tasks
  BY BackGoes DEF Drop
<1>5. task[t].then \in {"idle", "quotes"} /\ (t = "loop" => c \notin task["loop"].todo)
  BY <1>1 DEF LoopShape, Phases, On, Entering
<1>6. Works(t, c) /\ Looks /\ BookKept(s)
  BY <1>1, <1>2, <1>3, <1>4, <1>5 DEF Works, Looks, BookKept, bookVars, ComesBack, GoesTo, On,
     Entering, Asking, Leaving, SymOf, Others
<1>7. /\ VenueOf(s, m)' /\ ViewsOf(s, m)' /\ AgeOf(s)' /\ PositionOf(s, m)'
      /\ CloseOf(task["loop"], s)'
  BY <1>6, WorksAround
<1>8. /\ venue'[s].units = 0 /\ positions'[s] = 0 /\ \A S \in Views' : ~Shows(S, s)
  BY <1>6, NothingYet, LooksShow DEF Looks, BookKept, Epoch
<1>9. Latest(s, c, m)' /\ FreeOf(s, m)' /\ PendingOf(s, c, m)'
  BY <1>1, <1>2, <1>3, <1>8 DEF Epoch, Latest, OrderOf, FreeOf, PendingOf, SymOf, Shows
<1>10. ASSUME NEW u \in {"sig", "loop"} PROVE ~On(task[u], Entering, s)'
  <2>1. CASE u = t
    BY <1>4, <1>5, <2>1 DEF ComesBack, GoesTo, On, Entering
  <2>2. CASE u # t
    <3>1. ~On(task[u], Entering, s)
      BY <1>1, <1>6, <2>2, OtherHere DEF Works, On, EntryOf, Entering
    <3>2. task'[u] = task[u]
      BY <1>6, <2>2 DEF Works, Others
    <3>3. task[u].pc \in Entering => task[u].q \in Quotes
      BY DEF TypeInv, TaskTyped, Steady, Entering
    <3> QED BY <1>1, <1>2, <3>1, <3>2, <3>3 DEF On, SymOf
  <2> QED BY <2>1, <2>2
<1>11. ~On(task["loop"], Entering \cup {"check"}, s)'
  <2>1. CASE t = "loop"
    BY <1>4, <1>5, <2>1 DEF ComesBack, GoesTo, On, Entering
  <2>2. CASE t = "sig"
    <3>1. task'["loop"] = task["loop"]
      BY <1>6, <2>2 DEF Works, Others
    <3>2. ~On(task["loop"], {"check"}, s)
      BY <1>1 DEF Epoch, CopyOf, On
    <3>3. task["loop"].pc = "check" => task["loop"].q \in Quotes
      BY DEF TypeInv, TaskTyped, Steady
    <3>4. ~On(task["loop"], {"check"}, s)'
      BY <1>1, <1>2, <3>1, <3>2, <3>3 DEF On, SymOf
    <3> QED BY <1>10, <3>4 DEF On
  <2> QED BY <2>1, <2>2
<1>12. On(task["loop"], {"cancel"}, s)' /\ task'["loop"].q = c => m # 0
  <2>1. CASE t = "loop"
    BY <1>4, <1>5, <2>1 DEF ComesBack, GoesTo, On
  <2>2. CASE t = "sig"
    BY <1>1, <1>6, <2>2 DEF Works, Others, Epoch, CopyOf, On
  <2> QED BY <2>1, <2>2
<1>13. ASSUME task'["loop"].then = "quotes", NEW k \in task'["loop"].todo, SymOf(k)' = s
       PROVE  quote'[k].st = "armed"
  <2>1. task["loop"].then = "quotes" /\ k \in task["loop"].todo
    BY <1>4, <1>6, <1>13 DEF Works, Others, ComesBack, GoesTo
  <2>2. k \in Quotes
    BY <2>1 DEF QuotesMade
  <2>3. CASE k # c
    BY <1>2, <1>13, <2>1, <2>2, <2>3 DEF Epoch, CopyOf, SymOf
  <2> QED BY <1>2, <2>3
<1>14. CopyOf(s, c, m)'
  BY <1>8, <1>11, <1>12, <1>13 DEF CopyOf, On, Entering, Shows
<1>15. EntryOf(task["sig"], s, c, m)' /\ EntryOf(task["loop"], s, c, m)'
  BY <1>10 DEF EntryOf, On
<1> QED BY <1>7, <1>9, <1>14, <1>15 DEF Epoch

LEMMA DropWorks ==
    ASSUME TypeInv, LoopShape, NEW t \in {"sig", "loop"}, NEW n, n = task[t].q,
           task[t].pc \in {"submit", "ack"}, At(t, task[t].pc), Drop(t, n),
           made'.quotes = made.quotes
    PROVE  n \in Quotes /\ Works(t, n)
<1> USE TaskNames
<1>1. n \in Quotes /\ t \in Tasks
  BY DEF TypeInv, TaskTyped, Steady
<1>2. /\ \A k \in Quotes : k # n => quote'[k] = quote[k]
      /\ quote'[n].sym = quote[n].sym
      /\ \A x \in Symbols : x # SymOf(n) => quotes'[x] = quotes[x]
  BY <1>1 DEF Drop, TypeInv, QuoteTyped, Quote
<1>3. ComesBack(t) /\ t \in Tasks
  BY <1>1, BackGoes DEF Drop
<1>4. task[t].then \in {"idle", "quotes"}
  BY DEF LoopShape, Phases, Entering
<1> QED BY <1>1, <1>2, <1>3, <1>4 DEF Works, ComesBack, GoesTo, Entering, Asking, Leaving

LEMMA RefusedEpoch ==
    ASSUME TradeConditions, TradeInv, NEW t \in {"sig", "loop"}, SubmitRefused(t),
           NEW s \in Symbols, NEW c, NEW m, Epoch(s, c, m)
    PROVE  Epoch(s, c, m)'
<1> DEFINE n == task[t].q
<1>1. /\ task[t].pc = "submit" /\ At(t, task[t].pc) /\ Drop(t, n)
      /\ UNCHANGED <<venue, hist, bookVars, cache, attach, ctl, order>>
      /\ made'.quotes = made.quotes
  BY DEF SubmitRefused, At, venueVars
<1>2. n \in Quotes /\ Works(t, n)
  BY <1>1, DropWorks DEF TradeInv, ShapeInv
<1>3. CASE SymOf(n) = s
  <2>1. On(task[t], {"submit", "ack"}, s) /\ On(task[t], Entering, s)
    BY <1>1, <1>3 DEF On, Entering
  <2>2. n = c /\ m = 0
    BY <1>1, <2>1, EntryHere DEF EntryOf, TradeInv
  <2>3. ~FillOf(m, s) /\ ~Pending(m)' /\ OrdersOf(s, m)'
    BY <1>1, <2>2, BoundsInNat DEF FillOf, Pending, Orders, Epoch, OrdersOf
  <2> QED BY <1>1, <2>1, <2>2, <2>3, DropEpoch DEF TradeInv, ShapeInv
<1>4. CASE SymOf(n) # s
  <2>1. task'["loop"].snap = task["loop"].snap
    BY <1>2, TaskNames DEF Works, Others
  <2>2. Looks /\ BookKept(s) /\ OrdersElse(s)
    BY <1>1, <2>1 DEF Looks, BookKept, OrdersElse, bookVars
  <2> QED BY <1>2, <1>4, <2>2, WorksElse DEF TradeInv, ShapeInv
<1> QED BY <1>3, <1>4

LEMMA NotAckedEpoch ==
    ASSUME TradeConditions, TradeInv, NEW t \in {"sig", "loop"}, NotAcked(t),
           NEW s \in Symbols, NEW c, NEW m, Epoch(s, c, m)
    PROVE  Epoch(s, c, m)'
<1> DEFINE n == task[t].q
           k == quote[n].ord
<1>1. /\ task[t].pc = "ack" /\ At(t, task[t].pc) /\ Drop(t, n) /\ order[k].st = "sent"
      /\ order' = [order EXCEPT ![k].st = "dead"]
      /\ UNCHANGED <<venue, hist, bookVars, cache, attach, ctl>> /\ made'.quotes = made.quotes
  BY DEF NotAcked, At, Fault, TradeConditions
<1>2. n \in Quotes /\ Works(t, n)
  BY <1>1, DropWorks DEF TradeInv, ShapeInv
<1>3. /\ k \in Orders /\ order[k].sym = SymOf(n) /\ order[k] \in Order
      /\ order'[k].st = "dead" /\ order'[k].sym = order[k].sym
      /\ \A x \in Orders : x # k => order'[x] = order[x]
  BY <1>1, <1>2, TaskNames, BoundsInNat DEF TradeInv, TypeInv, AcksOrdered, VenueTyped, Orders,
     ShapeInv, Numbered, Order
<1>4. CASE SymOf(n) = s
  <2>1. On(task[t], {"submit", "ack"}, s) /\ On(task[t], Entering, s)
    BY <1>1, <1>4 DEF On, Entering
  <2>2. n = c /\ m = k
    BY <1>1, <2>1, EntryHere DEF TradeInv
  <2>3. ~FillOf(m, s) /\ ~Pending(m)' /\ OrdersOf(s, m)'
    BY <1>1, <1>3, <2>2 DEF FillOf, Pending, Epoch, OrdersOf
  <2> QED BY <1>1, <2>1, <2>2, <2>3, DropEpoch DEF TradeInv, ShapeInv
<1>5. CASE SymOf(n) # s
  <2>1. task'["loop"].snap = task["loop"].snap
    BY <1>2, TaskNames DEF Works, Others
  <2>2. Looks /\ BookKept(s) /\ OrdersElse(s)
    BY <1>1, <1>3, <1>5, <2>1 DEF Looks, BookKept, OrdersElse, bookVars
  <2> QED BY <1>2, <1>5, <2>2, WorksElse DEF TradeInv, ShapeInv
<1> QED BY <1>4, <1>5

LEMMA SendWorks ==
    ASSUME TradeConditions, TradeInv, NEW t \in {"sig", "loop"}, Send(t), NEW n, n = task[t].q
    PROVE  /\ task[t].pc = "submit" /\ n \in Quotes /\ Works(t, n) /\ task'[t].pc = "ack"
           /\ task'[t].q = n /\ task'[t].todo = task[t].todo
           /\ made.orders + 1 \in Orders /\ order[made.orders + 1].st = "none"
           /\ order'[made.orders + 1] = [sym |-> SymOf(n), st |-> "sent", pid |-> 0]
           /\ \A k \in Orders : k # made.orders + 1 => order'[k] = order[k]
           /\ quote'[n].sym = quote[n].sym /\ quote'[n].st = quote[n].st
           /\ quote'[n].syn = quote[n].syn /\ quote'[n].ord = made.orders + 1
           /\ Looks /\ \A s \in Symbols : BookKept(s)
<1> USE TaskNames
<1>1. task[t].pc = "submit" /\ t \in Tasks /\ n \in Quotes
  BY DEF Send, At, TradeConditions, TradeInv, TypeInv, TaskTyped, Steady
<1>2. GoesTo(t, "ack", n)
  BY <1>1, GotoGoes DEF Send, TradeInv, TradeConditions
<1>3. /\ made.orders + 1 \in Orders /\ order[made.orders + 1].st = "none"
      /\ order'[made.orders + 1] = [sym |-> SymOf(n), st |-> "sent", pid |-> 0]
      /\ \A k \in Orders : k # made.orders + 1 => order'[k] = order[k]
  BY BoundsInNat DEF Send, Orders, TradeInv, TypeInv, ControlTyped, VenueTyped, ShapeInv, Numbered
<1>4. /\ \A k \in Quotes : k # n => quote'[k] = quote[k]
      /\ quote'[n].sym = quote[n].sym /\ quote'[n].st = quote[n].st
      /\ quote'[n].syn = quote[n].syn /\ quote'[n].ord = made.orders + 1
  BY <1>1 DEF Send, TradeInv, TypeInv, QuoteTyped, Quote
<1>5. quotes' = quotes /\ made'.quotes = made.quotes
  BY DEF Send, TradeInv, TypeInv, ControlTyped
<1>6. Works(t, n)
  BY <1>1, <1>2, <1>4, <1>5 DEF Works, GoesTo, Entering, Asking, Leaving
<1>7. Looks /\ \A s \in Symbols : BookKept(s)
  <2>1. task'["loop"].snap = task["loop"].snap
    BY <1>6 DEF Works, Others
  <2> QED BY <2>1 DEF Looks, BookKept, bookVars, Send
<1> QED BY <1>1, <1>2, <1>3, <1>4, <1>6, <1>7 DEF GoesTo

LEMMA SendEpoch ==
    ASSUME TradeConditions, TradeInv, NEW t \in {"sig", "loop"}, Send(t),
           NEW s \in Symbols, NEW c, NEW m, Epoch(s, c, m)
    PROVE  \E k : Epoch(s, c, k)'
<1> USE TaskNames DEF TradeInv
<1>0. PICK n, k : n = task[t].q /\ k = made.orders + 1
  OBVIOUS
<1>1. /\ n = task[t].q /\ k = made.orders + 1
      /\ task[t].pc = "submit" /\ n \in Quotes /\ Works(t, n) /\ task'[t].pc = "ack"
      /\ task'[t].q = n /\ task'[t].todo = task[t].todo
      /\ k \in Orders /\ order[k].st = "none"
      /\ order'[k] = [sym |-> SymOf(n), st |-> "sent", pid |-> 0]
      /\ \A x \in Orders : x # k => order'[x] = order[x]
      /\ quote'[n].sym = quote[n].sym /\ quote'[n].st = quote[n].st
      /\ quote'[n].syn = quote[n].syn /\ quote'[n].ord = k
      /\ Looks /\ BookKept(s)
  BY <1>0, SendWorks
<1>2. CASE SymOf(n) # s
  <2>1. OrdersElse(s)
    BY <1>1, <1>2 DEF OrdersElse
  <2> QED BY <1>1, <1>2, <2>1, WorksElse DEF ShapeInv
<1>3. CASE SymOf(n) = s
  <2>1. On(task[t], Entering, s)
    BY <1>1, <1>3 DEF On, Entering
  <2>2. /\ n = c /\ c # 0 /\ m = 0 /\ quote[c].st = "inflight" /\ quotes[s] = c
        /\ SymOf(c) = s
    BY <1>1, <2>1, EntryHere DEF EntryOf
  <2>3. ~FillOf(m, s) /\ k # 0 /\ k \in Nat
    BY <1>1, <2>2, BoundsInNat DEF FillOf, Orders
  <2>4. /\ venue[s].units = 0 /\ positions[s] = 0 /\ \A S \in Views : ~Shows(S, s)
    BY <2>3, NothingYet DEF ShapeInv
  <2>5. quote[c].syn = NoRaw
    BY <1>1, <2>2, BoundsInNat DEF Epoch, PendingOf, Row, ShapeInv, FillsHeld, FillOf, Orders
  <2>6. /\ venue'[s].units = 0 /\ positions'[s] = 0 /\ \A S \in Views' : ~Shows(S, s)
    BY <1>1, <2>4, LooksShow DEF Looks, BookKept, Epoch
  <2>7. VenueOf(s, k)' /\ ViewsOf(s, k)' /\ PositionOf(s, k)'
    BY <2>6 DEF VenueOf, ViewsOf, PositionOf, Shows
  <2>8. AgeOf(s)' /\ CloseOf(task["loop"], s)'
    BY <1>1, WorksAround
  <2>9. Latest(s, c, k)'
    BY <1>1, <2>2 DEF Epoch, Latest, OrderOf, SymOf, Works
  <2>10. OrdersOf(s, k)'
    <3>1. ASSUME NEW x \in Orders, FillOf(x, s)' PROVE x <= k
      <4>1. x \in Nat /\ made.orders \in Nat
        BY BoundsInNat DEF Orders, TypeInv, ControlTyped
      <4> QED BY <1>1, <3>1, <4>1 DEF FillOf, ShapeInv, Numbered
    <3>2. ASSUME NEW x \in Orders, Pending(x)', order'[x].sym = s, x # k PROVE FALSE
      BY <1>1, <2>2, <3>2, BoundsInNat DEF Pending, Epoch, OrdersOf, Orders
    <3> QED BY <1>1, <3>1, <3>2 DEF OrdersOf, FillOf
  <2>11. quotes'[s] = c /\ quote'[c].st = "inflight"
    BY <1>1, <2>2 DEF Send
  <2>12. PendingOf(s, c, k)' /\ FreeOf(s, k)' /\ Current(s, c)'
    BY <1>1, <2>2, <2>3, <2>5, <2>11 DEF PendingOf, FreeOf, Free, Current
  <2>13. ASSUME NEW u \in {"sig", "loop"}, u # t
         PROVE  task'[u] = task[u] /\ ~On(task[u], Entering, s)'
    <3>1. ~On(task[u], Entering, s)
      BY <1>1, <2>2, <2>13, OtherHere DEF Works, On, TradeConditions
    <3>2. task'[u] = task[u] /\ (task[u].pc \in Entering => task[u].q \in Quotes)
      BY <1>1, <2>13 DEF Works, Others, TypeInv, TaskTyped, Steady, Entering
    <3> QED BY <1>1, <3>1, <3>2 DEF Works, On, SymOf
  <2>14. ASSUME NEW u \in {"sig", "loop"} PROVE EntryOf(task[u], s, c, k)'
    BY <1>1, <2>2, <2>3, <2>11, <2>13 DEF EntryOf, On
  <2>15. CopyOf(s, c, k)'
    <3>1. On(task["loop"], Asking, s)' =>
            task'["loop"].pc # "check" /\ task'["loop"].q # c
      <4>1. CASE t = "loop"
        BY <1>1, <4>1 DEF On, Asking
      <4>2. CASE t = "sig"
        <5>1. task'["loop"] = task["loop"]
          BY <2>13, <4>2
        <5>2. CASE On(task["loop"], Asking, s)
          BY <2>2, <5>1, <5>2 DEF Epoch, CopyOf, On, Asking
        <5>3. CASE ~On(task["loop"], Asking, s)
          <6>1. task["loop"].pc \in Asking => task["loop"].q \in Quotes
            BY DEF TypeInv, TaskTyped, Steady, Asking
          <6> QED BY <1>1, <5>1, <5>3, <6>1 DEF On, SymOf, Works
        <5> QED BY <5>2, <5>3
      <4> QED BY <4>1, <4>2
    <3>2. ~(On(task["loop"], {"ack"}, s)' /\ On(task["sig"], {"ack"}, s)')
      BY <2>13 DEF On, Entering
    <3>3. ASSUME task'["loop"].then = "quotes", NEW x \in task'["loop"].todo, SymOf(x)' = s
          PROVE  quote'[x].st = "armed" \/ x = c
      <4>1. task["loop"].then = "quotes" /\ x \in task["loop"].todo
        BY <1>1, <2>13, <3>3 DEF Works
      <4>2. x \in Quotes
        BY <4>1 DEF ShapeInv, QuotesMade
      <4> QED BY <1>1, <2>2, <3>3, <4>1, <4>2 DEF Works, Epoch, CopyOf, SymOf
    <3> QED BY <2>12, <3>1, <3>2, <3>3 DEF CopyOf, On, Asking
  <2> QED BY <2>7, <2>8, <2>9, <2>10, <2>12, <2>14, <2>15 DEF Epoch
<1> QED BY <1>2, <1>3

\* Who else is at s while t is past the submission of its quote c looks for the position.
LEMMA OtherFinds ==
    ASSUME TradeConditions, TradeInv, NEW t \in {"sig", "loop"}, NEW u \in {"sig", "loop"}, u # t,
           Others(t), NEW s, NEW c, NEW m, Epoch(s, c, m), On(task[u], Entering, s),
           \/ On(task[t], {"ack"}, s)
           \/ quote[c].st = "acked"
    PROVE  task[u].pc = "find" /\ quote[c].st = "acked"
BY OtherHere DEF TradeInv

\* A task past the acknowledgement of c takes its unit.
LEMMA OpenFromEpoch ==
    ASSUME TradeConditions, TradeInv, NEW t \in {"sig", "loop"}, NEW s \in Symbols,
           NEW c \in Quotes, NEW m, Epoch(s, c, m), Works(t, c), SymOf(c) = s,
           task[t].pc \in {"ack", "find", "check"}, task[t].pc # "ack" => quote[c].st = "acked",
           NEW had, had = (positions[s] # 0),
           task'[t].pc = IF had THEN task[t].then ELSE "open",
           ~had => task'[t].raw = Row(m), quotes'[s] = 0,
           quote'[c].st = "acked", quote'[c].ord = m, quote'[c].syn \in {NoRaw, Row(m)},
           m # 0, order[m].st # "sent", UNCHANGED order, Looks, BookKept(s)
    PROVE  Epoch(s, c, m)'
<1> USE TaskNames DEF TradeInv
<1>1. /\ \A k \in Quotes : SymOf(k)' = SymOf(k)
      /\ task[t].q = c /\ c # 0 /\ On(task[t], {task[t].pc}, s)
      /\ task[t].then \in {"idle", "quotes"} /\ (t = "loop" => c \notin task["loop"].todo)
      /\ positions'[s] = positions[s]
  BY BoundsInNat DEF Works, SymOf, Entering, Asking, On, ShapeInv, LoopShape, Phases, Quotes,
     BookKept
<1>2. /\ VenueOf(s, m)' /\ ViewsOf(s, m)' /\ AgeOf(s)' /\ PositionOf(s, m)'
      /\ CloseOf(task["loop"], s)'
  BY WorksAround
<1>3. Latest(s, c, m)' /\ OrdersOf(s, m)' /\ PendingOf(s, c, m)'
  BY <1>1 DEF Epoch, Latest, OrderOf, OrdersOf, PendingOf, Pending, FillOf, Works
<1>4. ~Free(s)'
  <2>1. CASE had
    BY <1>1, <2>1 DEF Free
  <2>2. CASE ~had
    BY <1>1, <2>2 DEF Free, Busy, RunsOn, TradeConditions, Works, Entering
  <2> QED BY <2>1, <2>2
<1>5. FreeOf(s, m)'
  BY <1>4 DEF FreeOf
<1>6. ASSUME NEW u \in {"sig", "loop"}, u # t
      PROVE  /\ task'[u] = task[u]
             /\ On(task[u], Entering, s)' => /\ On(task[u], Entering, s) /\ task[u].pc = "find"
                                             /\ quote[c].st = "acked"
  <2>1. task'[u] = task[u] /\ (task[u].pc \in Entering => task[u].q \in Quotes)
    BY <1>6 DEF Works, Others, TypeInv, TaskTyped, Steady, Entering
  <2> QED BY <1>1, <1>6, <2>1, OtherFinds DEF On, Works
<1>7. EntryOf(task[t], s, c, m)'
  BY <1>1 DEF EntryOf, On, Entering, Works
<1>8. ASSUME NEW u \in {"sig", "loop"} PROVE EntryOf(task[u], s, c, m)'
  <2>1. CASE u # t
    <3>1. On(task[u], Entering, s) => task[u].q = c
      BY DEF Epoch, EntryOf
    <3> QED BY <1>6, <2>1, <3>1 DEF EntryOf
  <2> QED BY <1>7, <2>1
<1>9. t = "sig" => Current(s, c)'
  BY <1>1 DEF Current, Works, Entering
<1>10. CopyOf(s, c, m)'
  <2>1. CASE t = "loop"
    <3>1. ~On(task["loop"], {"submit", "ack", "find", "check", "cancel"}, s)'
      BY <1>1, <2>1 DEF On
    <3>2. ASSUME task'["loop"].then = "quotes", NEW x \in task'["loop"].todo, SymOf(x)' = s
          PROVE  quote'[x].st = "armed"
      <4>1. task["loop"].then = "quotes" /\ x \in task["loop"].todo /\ x # c
        BY <1>1, <2>1, <3>2 DEF Works
      <4>2. x \in Quotes
        BY <4>1 DEF ShapeInv, QuotesMade
      <4> QED BY <1>1, <3>2, <4>1, <4>2 DEF Works, Epoch, CopyOf
    <3> QED BY <3>1, <3>2 DEF CopyOf, On
  <2>2. CASE t = "sig"
    <3>1. task'["loop"] = task["loop"] /\ (task["loop"].pc \in Asking => task["loop"].q \in Quotes)
      BY <1>6, <2>2 DEF TypeInv, TaskTyped, Steady, Asking
    <3>2. \A pcs \in SUBSET Asking : On(task["loop"], pcs, s)' => On(task["loop"], pcs, s)
      BY <1>1, <3>1 DEF On
    <3>3. ~On(task["sig"], {"ack"}, s)' \/ ~On(task["loop"], {"ack"}, s)'
      BY <1>1, <2>2 DEF On
    <3>4. On(task["loop"], {"check"}, s)' => task'["loop"].q = c
      BY <3>1, <3>2 DEF Epoch, CopyOf, Asking
    <3>5. On(task["loop"], {"cancel"}, s)' /\ task'["loop"].q = c =>
            m # 0 /\ ~Pending(m)' /\ venue'[s].units = 0 /\ \A S \in Views' : ~Shows(S, s)
      <4> SUFFICES ASSUME On(task["loop"], {"cancel"}, s)', task["loop"].q = c
                   PROVE  m # 0 /\ ~Pending(m)' /\ venue'[s].units = 0 /\ \A S \in Views' : ~Shows(S, s)
        BY <3>1
      <4>1. m # 0 /\ ~Pending(m) /\ venue[s].units = 0 /\ \A S \in Views : ~Shows(S, s)
        BY <3>2 DEF Epoch, CopyOf, Asking
      <4> QED BY <4>1, LooksShow DEF Epoch, Pending, Looks
    <3>6. ASSUME task'["loop"].then = "quotes", NEW x \in task'["loop"].todo, SymOf(x)' = s
          PROVE  quote'[x].st = "armed" \/ x = c
      <4>1. task["loop"].then = "quotes" /\ x \in task["loop"].todo
        BY <3>1, <3>6
      <4>2. x \in Quotes
        BY <4>1 DEF ShapeInv, QuotesMade
      <4> QED BY <1>1, <3>6, <4>1, <4>2 DEF Works, Epoch, CopyOf
    <3> QED BY <1>9, <2>2, <3>3, <3>4, <3>5, <3>6 DEF CopyOf, Shows
  <2> QED BY <2>1, <2>2
<1> QED BY <1>2, <1>3, <1>5, <1>8, <1>10 DEF Epoch

\* A task past the acknowledgement of c goes on with it, or lets it go when it cannot fill.
Over(s, m) == /\ ~Pending(m) /\ venue[s].units = 0
              /\ \A S \in Views : ~Shows(S, s)

LEMMA WorkedEpoch ==
    ASSUME TradeConditions, TradeInv, NEW t \in {"sig", "loop"}, NEW s \in Symbols,
           NEW c \in Quotes, NEW m, Epoch(s, c, m), Works(t, c), SymOf(c) = s,
           task[t].pc \in {"ack", "find"} \cup Asking, quote[c].st = "acked" \/ task[t].pc = "ack",
           task'[t].pc \in {task[t].then, "find", "cancel"}, task'[t].todo = task[t].todo,
           quote'[c].st = "acked", quote'[c].ord = m, quote'[c].syn \in {NoRaw, Row(m)},
           m # 0, order'[m].st # "sent", Pending(m)' => Pending(m), OrdersOf(s, m)',
           task'[t].pc = "find" => task[t].pc # "cancel",
           task'[t].pc = "cancel" => Over(s, m)',
           \/ quotes'[s] = quotes[s]
           \/ t = "loop" /\ quotes'[s] = 0 /\ task'[t].pc # "find" /\ Over(s, m)',
           Looks, BookKept(s)
    PROVE  Epoch(s, c, m)'
<1> USE TaskNames DEF TradeInv
<1>1. /\ \A k \in Quotes : SymOf(k)' = SymOf(k)
      /\ task[t].q = c /\ c # 0 /\ On(task[t], {task[t].pc}, s)
      /\ task[t].then \in {"idle", "quotes"} /\ (t = "loop" => c \notin task["loop"].todo)
      /\ (t = "loop" => task["loop"].then = "quotes")
      /\ positions'[s] = positions[s]
  BY BoundsInNat DEF Works, SymOf, Entering, Asking, On, ShapeInv, LoopShape, Phases, Quotes,
     BookKept
<1>2. /\ VenueOf(s, m)' /\ ViewsOf(s, m)' /\ AgeOf(s)' /\ PositionOf(s, m)'
      /\ CloseOf(task["loop"], s)'
  BY WorksAround
<1>3. Latest(s, c, m)' /\ PendingOf(s, c, m)'
  BY <1>1 DEF Epoch, Latest, OrderOf, PendingOf, Works
<1>4. ~RunsOn(t) /\ \A u \in Tasks : u # t => ~RunsOn(u) /\ ~RunsOn(u)'
  BY <1>1, OneRuns DEF Works, RunsOn, Asking
<1>5. FreeOf(s, m)'
  <2>1. CASE quotes'[s] = quotes[s]
    <3>1. Free(s)' => Free(s)
      BY <1>1, <1>4, <2>1 DEF Free, Busy
    <3> QED BY <3>1, FreeKept, KeptDone DEF Epoch, ShapeInv
  <2>2. CASE Over(s, m)'
    BY <2>2 DEF FreeOf, Over
  <2> QED BY <2>1, <2>2
<1>6. ASSUME NEW u \in {"sig", "loop"}, u # t
      PROVE  /\ task'[u] = task[u]
             /\ On(task[u], Entering, s)' => /\ On(task[u], Entering, s) /\ task[u].pc = "find"
                                             /\ quote[c].st = "acked"
  <2>1. task'[u] = task[u] /\ (task[u].pc \in Entering => task[u].q \in Quotes)
    BY <1>6 DEF Works, Others, TypeInv, TaskTyped, Steady, Entering
  <2> QED BY <1>1, <1>6, <2>1, OtherFinds DEF On, Works
<1>7. EntryOf(task[t], s, c, m)'
  BY <1>1 DEF EntryOf, On, Entering, Works
<1>8. ASSUME NEW u \in {"sig", "loop"} PROVE EntryOf(task[u], s, c, m)'
  <2>1. CASE u # t
    <3>1. On(task[u], Entering, s) => task[u].q = c
      BY DEF Epoch, EntryOf
    <3> QED BY <1>6, <2>1, <3>1 DEF EntryOf
  <2> QED BY <1>7, <2>1
<1>9. quotes'[s] = quotes[s] /\ Current(s, c) => Current(s, c)'
  BY <1>1, <1>6 DEF Current, Asking
<1>10. CopyOf(s, c, m)'
  <2>1. CASE t = "loop"
    <3>1. task'["loop"].pc = "find" => Current(s, c)'
      BY <1>1, <1>9, <2>1 DEF Epoch, CopyOf, On, Asking
    <3>2. ~On(task["loop"], {"submit", "ack", "check"}, s)'
      BY <1>1, <2>1 DEF On
    <3>3. ASSUME task'["loop"].then = "quotes", NEW x \in task'["loop"].todo, SymOf(x)' = s
          PROVE  quote'[x].st = "armed"
      <4>1. task["loop"].then = "quotes" /\ x \in task["loop"].todo /\ x # c
        BY <1>1, <2>1, <3>3 DEF Works
      <4>2. x \in Quotes
        BY <4>1 DEF ShapeInv, QuotesMade
      <4> QED BY <1>1, <3>3, <4>1, <4>2 DEF Works, Epoch, CopyOf
    <3>4. task'["loop"].pc = "cancel" => Over(s, m)'
      BY <2>1
    <3> QED BY <3>1, <3>2, <3>3, <3>4 DEF CopyOf, On, Over, Shows
  <2>2. CASE t = "sig"
    <3>1. /\ task'["loop"] = task["loop"] /\ quotes'[s] = quotes[s]
          /\ (task["loop"].pc \in Asking \cup Entering => task["loop"].q \in Quotes)
      BY <1>6, <2>2 DEF TypeInv, TaskTyped, Steady, Asking, Entering
    <3>2. \A pcs \in SUBSET (Asking \cup Entering) :
             On(task["loop"], pcs, s)' => On(task["loop"], pcs, s)
      BY <1>1, <3>1 DEF On
    <3>3. ~On(task["sig"], {"ack"}, s)'
      BY <1>1, <2>2 DEF On
    <3>4. On(task["loop"], {"submit", "ack", "find", "check"}, s)' => Current(s, c)'
      BY <1>9, <3>1, <3>2 DEF Epoch, CopyOf, Asking, Entering
    <3>5. On(task["loop"], {"check"}, s)' => task'["loop"].q = c
      BY <3>1, <3>2 DEF Epoch, CopyOf, Asking
    <3>6. On(task["loop"], {"cancel"}, s)' /\ task'["loop"].q = c =>
            m # 0 /\ ~Pending(m)' /\ venue'[s].units = 0 /\ \A S \in Views' : ~Shows(S, s)
      <4> SUFFICES ASSUME On(task["loop"], {"cancel"}, s)', task["loop"].q = c
                   PROVE  m # 0 /\ ~Pending(m)' /\ venue'[s].units = 0 /\ \A S \in Views' : ~Shows(S, s)
        BY <3>1
      <4>1. m # 0 /\ ~Pending(m) /\ venue[s].units = 0 /\ \A S \in Views : ~Shows(S, s)
        BY <3>2 DEF Epoch, CopyOf, Asking
      <4> QED BY <4>1, LooksShow DEF Epoch, Looks
    <3>7. ASSUME task'["loop"].then = "quotes", NEW x \in task'["loop"].todo, SymOf(x)' = s
          PROVE  quote'[x].st = "armed" \/ (x = c /\ Current(s, c)')
      <4>1. task["loop"].then = "quotes" /\ x \in task["loop"].todo
        BY <3>1, <3>7
      <4>2. x \in Quotes
        BY <4>1 DEF ShapeInv, QuotesMade
      <4>3. CASE x # c
        BY <1>1, <3>7, <4>1, <4>2, <4>3 DEF Works, Epoch, CopyOf
      <4>4. CASE x = c
        <5>1. quote[c].st # "armed"
          BY <1>1, EntryHere DEF On, Entering, EntryOf
        <5>2. Current(s, c)
          BY <1>1, <4>1, <4>4, <5>1 DEF Epoch, CopyOf
        <5> QED BY <1>9, <3>1, <4>4, <5>2
      <4> QED BY <4>3, <4>4
    <3> QED BY <3>3, <3>4, <3>5, <3>6, <3>7 DEF CopyOf, Shows
  <2> QED BY <2>1, <2>2
<1> QED BY <1>2, <1>3, <1>5, <1>8, <1>10 DEF Epoch

(* What each step at work on a quote does, and what becomes of its epoch.   *)
LEMMA OpenFromWorks ==
    ASSUME TradeInv, NEW t \in {"sig", "loop"}, NEW n \in Quotes, n = task[t].q,
           task[t].pc \in {"ack", "find", "check"}, At(t, task[t].pc), NEW row, NEW q \in Quote,
           q.sym = quote[n].sym, OpenFrom(t, n, row, q), UNCHANGED made,
           NEW s, s = SymOf(n), NEW had, had = (positions[s] # 0)
    PROVE  /\ Works(t, n) /\ quotes'[s] = 0 /\ task'[t].todo = task[t].todo
           /\ quote'[n].st = q.st /\ quote'[n].ord = q.ord /\ quote'[n].syn = q.syn
           /\ task'[t].pc = IF had THEN task[t].then ELSE "open"
           /\ ~had => task'[t].raw = row /\ task'[t].q = n
<1> USE TaskNames DEF TradeInv
<1>1. /\ t \in Tasks /\ task[t] \in Task /\ s \in Symbols
      /\ task[t].then \in {"idle", "quotes"}
  BY DEF TypeInv, TaskTyped, QuoteTyped, Quote, SymOf, ShapeInv, LoopShape, Phases, Entering, Asking
<1>2. had <=> (positions[s] # 0 /\ ~obj[positions[s]].closed)
  BY <1>1 DEF BookInv, Managed
<1>3. /\ \A k \in Quotes : k # n => quote'[k] = quote[k]
      /\ quote'[n].sym = q.sym /\ quote'[n].st = q.st /\ quote'[n].ord = q.ord
      /\ quote'[n].syn = q.syn
      /\ quotes'[s] = 0 /\ \A x \in Symbols : x # s => quotes'[x] = quotes[x]
  BY <1>1 DEF OpenFrom, TypeInv, QuoteTyped, Quote
<1>4. CASE had
  <2>1. Back(t)
    BY <1>2, <1>4 DEF OpenFrom, Back
  <2>2. ComesBack(t)
    BY <1>1, <2>1, BackGoes
  <2> QED BY <1>1, <1>3, <1>4, <2>2 DEF Works, ComesBack, GoesTo, Entering, Asking, Leaving
<1>5. CASE ~had
  <2> DEFINE U == [task[t] EXCEPT !.pc = "open", !.q = n, !.raw = row]
  <2>1. task' = [task EXCEPT ![t] = U]
    BY <1>2, <1>5 DEF OpenFrom
  <2>2. /\ U.pc = "open" /\ U.q = n /\ U.raw = row /\ U.then = task[t].then
        /\ U.snap = task[t].snap /\ U.todo = task[t].todo
    BY <1>1 DEF Task
  <2> HIDE DEF U
  <2>3. Others(t) /\ task'[t] = U
    BY <1>1, <2>1 DEF Others, At, TypeInv, TaskTyped
  <2> QED BY <1>1, <1>3, <1>5, <2>2, <2>3 DEF Works, Entering, Asking, Leaving
<1> QED BY <1>4, <1>5

LEMMA AckTakerWorks ==
    ASSUME TradeConditions, TradeInv, NEW t \in {"sig", "loop"}, AckTaker(t), NEW n, n = task[t].q,
           NEW m, m = quote[n].ord, NEW s, s = SymOf(n), NEW had, had = (positions[s] # 0)
    PROVE  /\ task[t].pc = "ack" /\ n \in Quotes /\ s \in Symbols /\ Works(t, n) /\ m # 0
           /\ order[m].st # "sent"
           /\ UNCHANGED order /\ Looks /\ \A x \in Symbols : BookKept(x)
           /\ quote'[n].st = "acked" /\ quote'[n].ord = m /\ task'[t].todo = task[t].todo
           /\ \/ /\ FillOf(m, s) /\ quotes'[s] = 0
                 /\ quote'[n].syn = Row(order[m].pid)
                 /\ task'[t].pc = IF had THEN task[t].then ELSE "open"
                 /\ ~had => task'[t].raw = Row(order[m].pid) /\ task'[t].q = n
              \/ /\ quotes' = quotes /\ quote'[n].syn = NoRaw
                 /\ task'[t].pc = "find"
<1> USE TaskNames DEF TradeInv
<1>1. /\ task[t].pc = "ack" /\ At(t, task[t].pc) /\ n \in Quotes /\ m \in Orders /\ m # 0
      /\ t \in Tasks /\ task[t] \in Task /\ quote[n] \in Quote /\ s \in Symbols
      /\ order[m].sym = s /\ order[m].st # "sent" /\ task[t].then \in {"idle", "quotes"}
  <2>1. task[t].pc = "ack" /\ At(t, task[t].pc) /\ order[m].st # "sent"
    BY DEF AckTaker, At
  <2>2. t \in Tasks /\ task[t] \in Task /\ n \in Quotes /\ m \in Orders
    BY <2>1 DEF TypeInv, TaskTyped, Steady, AcksOrdered
  <2>3. quote[n] \in Quote /\ s \in Symbols /\ m # 0
    BY <2>2, BoundsInNat DEF Orders, TypeInv, QuoteTyped, Quote, SymOf
  <2>4. order[m].sym = s
    BY <2>2, <2>3 DEF ShapeInv, Numbered
  <2>5. task[t].then \in {"idle", "quotes"}
    BY <2>1 DEF ShapeInv, LoopShape, Phases, Entering
  <2> QED BY <2>1, <2>2, <2>3, <2>4, <2>5
<1>2. UNCHANGED <<venue, order, bookVars, cache, made>>
  BY DEF AckTaker, venueVars
<1>3. PICK row \in SyntheticRows(m) :
        IF row # NoRaw
        THEN OpenFrom(t, n, row, [quote[n] EXCEPT !.st = "acked", !.syn = row])
        ELSE /\ quote' = [quote EXCEPT ![n] = [[quote[n] EXCEPT !.st = "acked", !.syn = row]
                                                  EXCEPT !.mat = TRUE]]
             /\ Goto(t, "find") /\ UNCHANGED quotes
  BY DEF AckTaker
<1> DEFINE q == [quote[n] EXCEPT !.st = "acked", !.syn = row]
<1>4. /\ q.sym = quote[n].sym /\ q.ord = m /\ q.st = "acked" /\ q.syn = row
  BY <1>1 DEF Quote
<1>5. CASE row # NoRaw
  <2>1. FillOf(m, s) /\ row = Row(order[m].pid) /\ order[m].pid \in 0..MaxOrders
    BY <1>1, <1>5 DEF SyntheticRows, TradeConditions, FillOf, Row, TypeInv, VenueTyped, Order
  <2>2. q \in Quote
    BY <1>1, <2>1 DEF Quote, Row, RawRow
  <2>3. OpenFrom(t, n, row, q)
    BY <1>3, <1>5
  <2> HIDE DEF q
  <2>4. /\ Works(t, n) /\ quotes'[s] = 0 /\ task'[t].todo = task[t].todo
        /\ quote'[n].st = q.st /\ quote'[n].ord = q.ord /\ quote'[n].syn = q.syn
        /\ task'[t].pc = IF had THEN task[t].then ELSE "open"
        /\ ~had => task'[t].raw = row /\ task'[t].q = n
    BY <1>1, <1>2, <1>4, <2>2, <2>3, OpenFromWorks
  <2>5. task'["loop"].snap = task["loop"].snap
    BY <2>4 DEF Works, Others
  <2>6. Looks /\ \A x \in Symbols : BookKept(x)
    BY <1>2, <2>5 DEF Looks, BookKept, bookVars
  <2> QED BY <1>1, <1>2, <1>4, <2>1, <2>4, <2>6
<1>6. CASE row = NoRaw
  <2>1. GoesTo(t, "find", n)
    BY <1>1, <1>3, <1>6, GotoGoes
  <2>2. /\ \A k \in Quotes : k # n => quote'[k] = quote[k]
        /\ quote'[n].sym = quote[n].sym /\ quote'[n].st = "acked" /\ quote'[n].ord = m
        /\ quote'[n].syn = NoRaw
    <3>1. q \in Quote
      BY <1>1, <1>6, EmptyPositions DEF Quote
    <3>2. quote' = [quote EXCEPT ![n] = [q EXCEPT !.mat = TRUE]]
      BY <1>3, <1>6
    <3> HIDE DEF q
    <3> QED BY <1>1, <1>4, <1>6, <3>1, <3>2 DEF TypeInv, QuoteTyped, Quote
  <2>3. Works(t, n)
    BY <1>1, <1>2, <1>3, <1>6, <2>1, <2>2 DEF Works, GoesTo, Entering, Asking, Leaving
  <2>4. task'["loop"].snap = task["loop"].snap
    BY <2>3 DEF Works, Others
  <2>5. Looks /\ \A x \in Symbols : BookKept(x)
    BY <1>2, <2>4 DEF Looks, BookKept, bookVars
  <2> QED BY <1>1, <1>2, <1>3, <1>6, <2>1, <2>2, <2>3, <2>5 DEF GoesTo
<1> QED BY <1>5, <1>6

LEMMA AckTakerEpoch ==
    ASSUME TradeConditions, TradeInv, NEW t \in {"sig", "loop"}, AckTaker(t),
           NEW s \in Symbols, NEW c, NEW m, Epoch(s, c, m)
    PROVE  Epoch(s, c, m)'
<1> USE TaskNames DEF TradeInv
<1>0. PICK n, k, x, had : n = task[t].q /\ k = quote[n].ord /\ x = SymOf(n) /\ had = (positions[x] # 0)
  OBVIOUS
<1>1. /\ task[t].pc = "ack" /\ n \in Quotes /\ Works(t, n) /\ k # 0 /\ order[k].st # "sent"
      /\ UNCHANGED order /\ Looks /\ BookKept(s)
      /\ quote'[n].st = "acked" /\ quote'[n].ord = k /\ task'[t].todo = task[t].todo
      /\ \/ /\ FillOf(k, x) /\ quotes'[x] = 0 /\ quote'[n].syn = Row(order[k].pid)
            /\ task'[t].pc = IF had THEN task[t].then ELSE "open"
            /\ ~had => task'[t].raw = Row(order[k].pid) /\ task'[t].q = n
         \/ quotes' = quotes /\ quote'[n].syn = NoRaw /\ task'[t].pc = "find"
  BY <1>0, AckTakerWorks
<1>2. CASE x # s
  <2>1. OrdersElse(s)
    BY <1>1 DEF OrdersElse
  <2> QED BY <1>0, <1>1, <1>2, <2>1, WorksElse DEF ShapeInv
<1>3. CASE x = s
  <2>1. On(task[t], Entering, s)
    BY <1>0, <1>1, <1>3 DEF On, Entering
  <2>2. n = c /\ k = m /\ SymOf(c) = s
    BY <1>0, <1>1, <2>1, EntryHere
  <2>3. OrdersOf(s, m)' /\ (Pending(m)' => Pending(m)) /\ order'[m].st # "sent"
    BY <1>1, <2>2 DEF Epoch, OrdersOf, Pending, FillOf
  <2>4. CASE quotes' = quotes /\ quote'[n].syn = NoRaw /\ task'[t].pc = "find"
    BY <1>1, <2>2, <2>3, <2>4, WorkedEpoch
  <2>5. CASE /\ FillOf(k, x) /\ quotes'[x] = 0 /\ quote'[n].syn = Row(order[k].pid)
             /\ task'[t].pc = IF had THEN task[t].then ELSE "open"
             /\ ~had => task'[t].raw = Row(order[k].pid) /\ task'[t].q = n
    <3>1. order[k].pid = m
      BY <1>3, <2>2, <2>5 DEF Epoch, OrdersOf
    <3> QED BY <1>0, <1>1, <1>3, <2>2, <2>5, <3>1, OpenFromEpoch
  <2> QED BY <1>1, <2>4, <2>5
<1> QED BY <1>2, <1>3

\* The same entry in the hands of the task, with another mat or stray.
SameQuote(n) == /\ quote'[n].sym = quote[n].sym /\ quote'[n].ord = quote[n].ord
                /\ quote'[n].st = quote[n].st /\ quote'[n].syn = quote[n].syn

\* A task that looks at a snapshot of s on behalf of quote n.
LEMMA SnapLooks ==
    ASSUME TradeConditions, TradeInv, NEW snap, PositionsCached(snap), UNCHANGED <<venue, bookVars>>,
           task'["loop"].snap = task["loop"].snap, made'.objs = made.objs
    PROVE  /\ Looks /\ \A x \in Symbols : BookKept(x)
           /\ \A s \in Symbols : \A c, m : Epoch(s, c, m) /\ snap.pos[s].units > 0 => snap.pos[s] = Unit(m)
<1>1. cache' = snap /\ snap \in {cache, FreshSnap}
  BY LookSees DEF TradeInv
<1>2. Looks /\ \A x \in Symbols : BookKept(x)
  BY <1>1 DEF Looks, BookKept, bookVars
<1>3. ASSUME NEW s \in Symbols, NEW c, NEW m, Epoch(s, c, m), snap.pos[s].units > 0
      PROVE  snap.pos[s] = Unit(m)
  <2>1. FreshSnap.pos = venue
    BY DEF FreshSnap
  <2> QED BY <1>1, <1>3, <2>1 DEF Epoch, VenueOf, ViewsOf, Views, Shows
<1> QED BY <1>2, <1>3

LEMMA FindWorks ==
    ASSUME TradeConditions, TradeInv, NEW t \in {"sig", "loop"}, Find(t), NEW n, n = task[t].q,
           NEW s, s = SymOf(n), NEW had, had = (positions[s] # 0)
    PROVE  /\ task[t].pc = "find" /\ n \in Quotes /\ s \in Symbols /\ Works(t, n)
           /\ UNCHANGED order /\ Looks /\ \A x \in Symbols : BookKept(x)
           /\ SameQuote(n) /\ task'[t].todo = task[t].todo
           /\ \/ \E snap : /\ snap.pos[s].units > 0 /\ quotes'[s] = 0
                           /\ \A c, m : Epoch(s, c, m) => snap.pos[s] = Unit(m)
                           /\ FillOf(snap.pos[s].pid, s)
                           /\ task'[t].pc = IF had THEN task[t].then ELSE "open"
                           /\ ~had => task'[t].raw = RowOf(snap.pos[s]) /\ task'[t].q = n
              \/ quotes' = quotes /\ ComesBack(t)
<1> USE TaskNames DEF TradeInv
<1>1. /\ task[t].pc = "find" /\ At(t, task[t].pc) /\ n \in Quotes
      /\ t \in Tasks /\ task[t] \in Task /\ quote[n] \in Quote /\ s \in Symbols
      /\ task[t].then \in {"idle", "quotes"}
  <2>1. task[t].pc = "find" /\ At(t, task[t].pc)
    BY DEF Find, At
  <2>2. t \in Tasks /\ task[t] \in Task /\ n \in Quotes
    BY <2>1 DEF TypeInv, TaskTyped, Steady
  <2>3. quote[n] \in Quote /\ s \in Symbols
    BY <2>2 DEF TypeInv, QuoteTyped, Quote, SymOf
  <2>4. task[t].then \in {"idle", "quotes"}
    BY <2>1 DEF ShapeInv, LoopShape, Phases, Entering
  <2> QED BY <2>1, <2>2, <2>3, <2>4
<1>2. UNCHANGED <<venue, order, bookVars, made>>
  BY DEF Find, venueVars
<1>3. PICK snap : /\ PositionsCached(snap)
                  /\ IF snap.pos[s].units > 0
                     THEN OpenFrom(t, n, RowOf(snap.pos[s]), quote[n])
                     ELSE /\ quote' = [quote EXCEPT ![n].mat = FALSE]
                          /\ Back(t) /\ UNCHANGED quotes
  BY DEF Find
<1>4. CASE snap.pos[s].units > 0
  <2>1. /\ Works(t, n) /\ quotes'[s] = 0 /\ task'[t].todo = task[t].todo
        /\ quote'[n].st = quote[n].st /\ quote'[n].ord = quote[n].ord
        /\ quote'[n].syn = quote[n].syn
        /\ task'[t].pc = IF had THEN task[t].then ELSE "open"
        /\ ~had => task'[t].raw = RowOf(snap.pos[s]) /\ task'[t].q = n
    BY <1>1, <1>2, <1>3, <1>4, OpenFromWorks
  <2>2. task'["loop"].snap = task["loop"].snap
    BY <2>1 DEF Works, Others
  <2>3. /\ Looks /\ \A x \in Symbols : BookKept(x)
        /\ \A c, m : Epoch(s, c, m) => snap.pos[s] = Unit(m)
    BY <1>1, <1>2, <1>3, <1>4, <2>2, SnapLooks
  <2>4. SameQuote(n)
    BY <2>1 DEF SameQuote, Works
  <2>5. FillOf(snap.pos[s].pid, s)
    <3>1. snap \in {cache, FreshSnap} /\ FreshSnap.pos = venue /\ venue[s].units \in Nat
      BY <1>1, <1>3, LookSees DEF FreshSnap, TypeInv, VenueTyped, Position
    <3> QED BY <1>1, <1>4, <3>1 DEF ShapeInv, FillsShown, Views, Shows
  <2> QED BY <1>1, <1>2, <1>4, <2>1, <2>3, <2>4, <2>5
<1>5. CASE ~(snap.pos[s].units > 0)
  <2>1. ComesBack(t) /\ quotes' = quotes
    BY <1>1, <1>3, <1>5, BackGoes
  <2>2. SameQuote(n) /\ \A k \in Quotes : k # n => quote'[k] = quote[k]
    BY <1>1, <1>3, <1>5 DEF SameQuote, TypeInv, QuoteTyped, Quote
  <2>3. Works(t, n)
    BY <1>1, <1>2, <2>1, <2>2 DEF Works, ComesBack, GoesTo, Entering, Asking, Leaving, SameQuote
  <2>4. task'["loop"].snap = task["loop"].snap
    BY <2>3 DEF Works, Others
  <2>5. Looks /\ \A x \in Symbols : BookKept(x)
    BY <1>1, <1>2, <1>3, <2>4, SnapLooks
  <2> QED BY <1>1, <1>2, <2>1, <2>2, <2>3, <2>5 DEF ComesBack, GoesTo
<1> QED BY <1>4, <1>5

LEMMA FindEpoch ==
    ASSUME TradeConditions, TradeInv, NEW t \in {"sig", "loop"}, Find(t),
           NEW s \in Symbols, NEW c, NEW m, Epoch(s, c, m)
    PROVE  Epoch(s, c, m)'
<1> USE TaskNames DEF TradeInv
<1>0. PICK n, x, had : n = task[t].q /\ x = SymOf(n) /\ had = (positions[x] # 0)
  OBVIOUS
<1>1. /\ task[t].pc = "find" /\ n \in Quotes /\ x \in Symbols /\ Works(t, n)
      /\ UNCHANGED order /\ Looks /\ BookKept(s)
      /\ SameQuote(n) /\ task'[t].todo = task[t].todo
      /\ \/ \E snap : /\ snap.pos[x].units > 0 /\ quotes'[x] = 0
                      /\ \A cc, mm : Epoch(x, cc, mm) => snap.pos[x] = Unit(mm)
                      /\ task'[t].pc = IF had THEN task[t].then ELSE "open"
                      /\ ~had => task'[t].raw = RowOf(snap.pos[x]) /\ task'[t].q = n
         \/ quotes' = quotes /\ ComesBack(t)
  BY <1>0, FindWorks
<1>2. CASE x # s
  <2>1. OrdersElse(s)
    BY <1>1 DEF OrdersElse
  <2> QED BY <1>0, <1>1, <1>2, <2>1, WorksElse DEF ShapeInv
<1>3. CASE x = s
  <2>1. On(task[t], Entering, s)
    BY <1>0, <1>1, <1>3 DEF On, Entering
  <2>2. n = c /\ m = quote[c].ord /\ SymOf(c) = s /\ quote[c].st = "acked"
    BY <1>0, <1>1, <2>1, EntryHere DEF EntryOf
  <2>3. /\ OrdersOf(s, m)' /\ (Pending(m)' => Pending(m)) /\ order'[m].st # "sent" /\ m # 0
        /\ quote'[c].st = "acked" /\ quote'[c].ord = m /\ quote'[c].syn \in {NoRaw, Row(m)}
        /\ order[m].st # "sent"
    BY <1>1, <2>2, BoundsInNat DEF Epoch, OrdersOf, Pending, FillOf, PendingOf, SameQuote, Quotes
  <2>4. CASE quotes' = quotes /\ ComesBack(t)
    <3>1. task'[t].pc = task[t].then /\ task[t].then \in {"idle", "quotes"}
      BY <1>1, <2>4 DEF ComesBack, GoesTo, ShapeInv, LoopShape, Phases, Entering
    <3> QED BY <1>1, <2>2, <2>3, <2>4, <3>1, WorkedEpoch
  <2>5. CASE ~(quotes' = quotes /\ ComesBack(t))
    <3>1. PICK snap : /\ snap.pos[s].units > 0 /\ quotes'[s] = 0
                      /\ snap.pos[s] = Unit(m)
                      /\ task'[t].pc = IF had THEN task[t].then ELSE "open"
                      /\ ~had => task'[t].raw = RowOf(snap.pos[s]) /\ task'[t].q = n
      BY <1>1, <1>3, <2>5
    <3>2. RowOf(snap.pos[s]) = Row(m)
      BY <3>1 DEF RowOf, Unit, Row
    <3> QED BY <1>0, <1>1, <1>3, <2>2, <2>3, <3>1, <3>2, OpenFromEpoch
  <2> QED BY <2>4, <2>5
<1> QED BY <1>2, <1>3

LEMMA OpenDoneWorks ==
    ASSUME TradeConditions, TradeInv, NEW t \in {"sig", "loop"}, OpenDone(t), NEW n, n = task[t].q,
           NEW s, s = SymOf(n), NEW o, o = made.objs + 1
    PROVE  /\ task[t].pc = "open" /\ n \in Quotes /\ s \in Symbols /\ Works(t, n)
           /\ positions[s] = 0 /\ ComesBack(t) /\ o \in Objs /\ made'.objs = o
           /\ UNCHANGED <<order, quotes>> /\ SameQuote(n) /\ task'[t].todo = task[t].todo
           /\ positions'[s] = o /\ obj'[o].sym = s /\ obj'[o].qty = task[t].raw.units
           /\ obj'[o].truth = task[t].raw.truth /\ obj'[o].pid = task[t].raw.pid
           /\ ~obj'[o].pnl /\ ~obj'[o].closed /\ obj'[o].key = NoKey
           /\ \A x \in Objs : x # o => obj'[x] = obj[x]
           /\ UNCHANGED cache /\ Looks /\ \A x \in Symbols : x # s => BookKept(x)
<1> USE TaskNames DEF TradeInv
<1>1. /\ task[t].pc = "open" /\ At(t, task[t].pc) /\ n \in Quotes
      /\ t \in Tasks /\ task[t] \in Task /\ quote[n] \in Quote /\ s \in Symbols
      /\ task[t].then \in {"idle", "quotes"}
  <2>1. task[t].pc = "open" /\ At(t, task[t].pc)
    BY DEF OpenDone, At
  <2>2. t \in Tasks /\ task[t] \in Task /\ n \in Quotes
    BY <2>1 DEF TypeInv, TaskTyped, Steady
  <2>3. quote[n] \in Quote /\ s \in Symbols
    BY <2>2 DEF TypeInv, QuoteTyped, Quote, SymOf
  <2>4. task[t].then \in {"idle", "quotes"}
    BY <2>1 DEF ShapeInv, LoopShape, Phases, Entering
  <2> QED BY <2>1, <2>2, <2>3, <2>4
<1>2. Adopt(s, task[t].raw, FALSE, FALSE)
  BY DEF OpenDone
<1>3. /\ o \in Objs /\ made'.objs = o /\ made'.quotes = made.quotes
      /\ \A x \in Objs : x <= made.objs => x # o
  BY <1>2, BoundsInNat DEF Adopt, TypeInv, ControlTyped, Objs
<1>4. /\ obj'[o].sym = s /\ obj'[o].qty = task[t].raw.units
      /\ obj'[o].truth = task[t].raw.truth /\ obj'[o].pid = task[t].raw.pid
      /\ ~obj'[o].pnl /\ ~obj'[o].closed /\ obj'[o].key = NoKey
      /\ \A x \in Objs : x # o => obj'[x] = obj[x]
  BY <1>2, <1>3 DEF Adopt, NoObj, TypeInv, BookTyped
<1>5. positions'[s] = o /\ \A x \in Symbols : x # s => positions'[x] = positions[x]
  BY <1>1, <1>2 DEF Adopt, TypeInv, BookTyped
<1>6. ComesBack(t)
  BY <1>1, BackGoes DEF OpenDone, TradeConditions
<1>7. SameQuote(n) /\ \A k \in Quotes : k # n => quote'[k] = quote[k]
  BY <1>1 DEF OpenDone, SameQuote, TypeInv, QuoteTyped, Quote
<1>8. UNCHANGED <<order, quotes, venue, cache>>
  BY DEF OpenDone, venueVars
<1>9. Works(t, n)
  BY <1>1, <1>3, <1>6, <1>7, <1>8 DEF Works, ComesBack, GoesTo, Entering, Asking, Leaving, SameQuote
<1>10. task'["loop"].snap = task["loop"].snap
  BY <1>9 DEF Works, Others
<1>11. Looks /\ \A x \in Symbols : x # s => BookKept(x)
  BY <1>3, <1>4, <1>5, <1>8, <1>10 DEF Looks, BookKept
<1>12. positions[s] = 0
  BY <1>1 DEF ShapeInv, RunsAlone
<1> QED BY <1>1, <1>3, <1>4, <1>5, <1>6, <1>7, <1>8, <1>9, <1>11, <1>12 DEF ComesBack, GoesTo

LEMMA OpenDoneEpoch ==
    ASSUME TradeConditions, TradeInv, NEW t \in {"sig", "loop"}, OpenDone(t),
           NEW s \in Symbols, NEW c, NEW m, Epoch(s, c, m)
    PROVE  Epoch(s, c, m)'
<1> USE TaskNames DEF TradeInv
<1>0. PICK n, x, o : n = task[t].q /\ x = SymOf(n) /\ o = made.objs + 1
  OBVIOUS
<1>1. /\ task[t].pc = "open" /\ n \in Quotes /\ Works(t, n)
      /\ positions[x] = 0 /\ ComesBack(t) /\ o \in Objs
      /\ UNCHANGED <<order, quotes>> /\ SameQuote(n) /\ task'[t].todo = task[t].todo
      /\ positions'[x] = o /\ obj'[o].sym = x /\ obj'[o].qty = task[t].raw.units
      /\ obj'[o].truth = task[t].raw.truth /\ ~obj'[o].pnl
      /\ \A y \in Objs : y # o => obj'[y] = obj[y]
      /\ UNCHANGED cache /\ Looks /\ (x # s => BookKept(s))
  BY <1>0, OpenDoneWorks
<1>2. CASE x # s
  <2>1. OrdersElse(s)
    BY <1>1 DEF OrdersElse
  <2> QED BY <1>0, <1>1, <1>2, <2>1, WorksElse DEF ShapeInv
<1>3. CASE x = s
  <2>1. On(task[t], Entering, s)
    BY <1>0, <1>1, <1>3 DEF On, Entering
  <2>2. n = c /\ SymOf(c) = s /\ task[t].raw = Row(m) /\ c # 0
    BY <1>0, <1>1, <2>1, EntryHere DEF EntryOf
  <2>3. /\ o # 0 /\ \A S \in Views : ~(o <= S.upto)
        /\ made.objs \in Nat
    <3>1. made.objs \in Nat
      BY BoundsInNat DEF TypeInv, ControlTyped
    <3>2. \A S \in Views : S.upto \in Nat /\ S.upto <= made.objs
      BY BoundsInNat DEF Views, TypeInv, CacheTyped, TaskTyped, Task, Snapshot, ShapeInv, Numbered
    <3> QED BY <1>0, <3>1, <3>2
  <2>4. /\ \A k \in Quotes : SymOf(k)' = SymOf(k) /\ quote'[k].st = quote[k].st
        /\ task[t].then \in {"idle", "quotes"} /\ task'[t].pc = task[t].then
        /\ task'["loop"].snap = task["loop"].snap /\ task'["loop"].then = task["loop"].then
        /\ task'["loop"].todo = task["loop"].todo /\ venue' = venue
    <3>1. \A k \in Quotes : SymOf(k)' = SymOf(k) /\ quote'[k].st = quote[k].st
      BY <1>1 DEF Works, SymOf, SameQuote
    <3>2. task[t].then \in {"idle", "quotes"}
      BY <1>1 DEF ShapeInv, LoopShape, Phases, Entering
    <3> QED BY <1>1, <3>1, <3>2 DEF Works, Others, ComesBack, GoesTo, Looks
  <2>5. Latest(s, c, m)' /\ OrdersOf(s, m)' /\ PendingOf(s, c, m)'
    BY <1>1, <2>2, <2>4 DEF Epoch, Latest, OrderOf, OrdersOf, PendingOf, Pending, FillOf, Works,
       SameQuote
  <2>6. VenueOf(s, m)' /\ ViewsOf(s, m)'
    BY <1>1, <2>4 DEF Epoch, VenueOf, ViewsOf, Views, Shows
  <2>7. PositionOf(s, m)' /\ FreeOf(s, m)' /\ Current(s, c)'
    BY <1>1, <1>3, <2>2, <2>3 DEF PositionOf, FreeOf, Free, Current, Row
  <2>8. AgeOf(s)'
    BY <1>1, <1>3, <2>3, <2>4 DEF Epoch, AgeOf, Views, Shows
  <2>9. CloseOf(task["loop"], s)'
    <3>1. CASE t = "loop"
      BY <2>4, <3>1 DEF CloseOf, Leaving
    <3>2. CASE t = "sig"
      <4>1. task'["loop"] = task["loop"]
        BY <1>1, <3>2 DEF Works, Others
      <4>2. task["loop"].pc \in Leaving => task["loop"].o \in Objs /\ task["loop"].o <= made.objs
        BY LoopTask DEF Steady, Leaving, MadeInv, MadeTasks, MadeTask
      <4>3. task["loop"].pc \in Leaving => obj'[task["loop"].o] = obj[task["loop"].o]
        BY <1>0, <1>1, <2>3, <4>2
      <4> QED BY <2>4, <4>1, <4>3 DEF Epoch, CloseOf
    <3> QED BY <3>1, <3>2
  <2>10. ASSUME NEW u \in {"sig", "loop"}
         PROVE  \A pcs \in SUBSET (Entering \cup Asking) :
                  On(task[u], pcs, s)' => u # t /\ task'[u] = task[u] /\ On(task[u], pcs, s)
    <3>1. CASE u = t
      BY <2>4, <3>1 DEF On, Entering, Asking
    <3>2. CASE u # t
      <4>1. task'[u] = task[u] /\ (task[u].pc \in Entering \cup Asking => task[u].q \in Quotes)
        BY <1>1, <3>2 DEF Works, Others, TypeInv, TaskTyped, Steady, Entering, Asking
      <4> QED BY <2>4, <3>2, <4>1 DEF On
    <3> QED BY <3>1, <3>2
  <2>11. ASSUME NEW u \in {"sig", "loop"} PROVE EntryOf(task[u], s, c, m)'
    <3>1. EntryOf(task[u], s, c, m)
      BY DEF Epoch
    <3>2. On(task[u], Entering, s)' => task'[u] = task[u] /\ On(task[u], Entering, s)
      BY <2>10
    <3> QED BY <1>1, <2>2, <2>4, <3>1, <3>2 DEF EntryOf
  <2>12. CopyOf(s, c, m)'
    <3>1. ~(On(task["loop"], {"ack"}, s)' /\ On(task["sig"], {"ack"}, s)')
      BY <2>10 DEF Epoch, CopyOf, Entering
    <3>2. On(task["loop"], {"check"}, s)' => task'["loop"].q = c /\ quote'[c].st = "acked"
      BY <1>1, <2>2, <2>4, <2>10 DEF Epoch, CopyOf, Asking
    <3>3. On(task["loop"], {"cancel"}, s)' /\ task'["loop"].q = c =>
            m # 0 /\ ~Pending(m)' /\ venue'[s].units = 0 /\ \A S \in Views' : ~Shows(S, s)
      <4> SUFFICES ASSUME On(task["loop"], {"cancel"}, s)', task'["loop"].q = c
                   PROVE  m # 0 /\ ~Pending(m)' /\ venue'[s].units = 0 /\ \A S \in Views' : ~Shows(S, s)
        OBVIOUS
      <4>1. m # 0 /\ ~Pending(m) /\ venue[s].units = 0 /\ \A S \in Views : ~Shows(S, s)
        BY <2>10 DEF Epoch, CopyOf, Asking
      <4> QED BY <1>1, <4>1, LooksShow DEF Epoch, Looks, Pending
    <3>4. ASSUME task'["loop"].then = "quotes", NEW y \in task'["loop"].todo, SymOf(y)' = s
          PROVE  quote'[y].st = "armed" \/ y = c
      <4>1. task["loop"].then = "quotes" /\ y \in task["loop"].todo
        BY <2>4, <3>4
      <4>2. y \in Quotes
        BY <4>1 DEF ShapeInv, QuotesMade
      <4> QED BY <2>4, <3>4, <4>1, <4>2 DEF Epoch, CopyOf
    <3> QED BY <2>7, <3>1, <3>2, <3>3, <3>4 DEF CopyOf, Shows
  <2> QED BY <2>5, <2>6, <2>7, <2>8, <2>9, <2>11, <2>12 DEF Epoch
<1> QED BY <1>2, <1>3

(* The loop with no quote in hand that it could still open.                *)
SameQuotes == \A n \in Quotes : SameQuote(n)

\* An order ends or stays as it is.
OrdersEnd == \A k \in Orders : \/ order'[k] = order[k]
                               \/ /\ order[k].st = "live" /\ order'[k].st = "dead"
                                  /\ order'[k].sym = order[k].sym

\* Of its copy of the quotes of s the loop has only c and armed ones ahead.
TodoOf(T, s, c) ==
    T.then = "quotes" =>
        \A n \in T.todo : SymOf(n) = s => quote[n].st = "armed" \/ (n = c /\ Current(s, c))

\* Nothing that c could open is left to cancel.
CancelOf(T, s, c, m) == On(T, {"cancel"}, s) /\ T.q = c => m # 0 /\ Over(s, m)

\* What the loop asks about is c, which is not over.
CheckOf(T, s, c) == On(T, {"check"}, s) => T.q = c /\ quote[c].st = "acked" /\ Current(s, c)

LEMMA LoopRests ==
    ASSUME TradeConditions, TradeInv, NEW s \in Symbols, NEW c, NEW m, Epoch(s, c, m),
           Others("loop"), task'["loop"].pc \notin Entering,
           task'["loop"].pc # "check" \/ CheckOf(task["loop"], s, c)',
           SameQuotes, made'.quotes = made.quotes, OrdersEnd,
           quotes'[s] = quotes[s] \/ quotes'[s] = 0,
           VenueOf(s, m)', ViewsOf(s, m)', PositionOf(s, m)', AgeOf(s)', FreeOf(s, m)',
           CloseOf(task["loop"], s)', TodoOf(task["loop"], s, c)', CancelOf(task["loop"], s, c, m)'
    PROVE  Epoch(s, c, m)'
<1> USE TaskNames DEF TradeInv
<1>1. c # 0 => c \in Quotes
  BY BoundsInNat DEF Epoch, Latest, TypeInv, ControlTyped, Quotes
<1>2. \A n \in Quotes : SymOf(n)' = SymOf(n) /\ quote'[n].st = quote[n].st
  BY DEF SameQuotes, SameQuote, SymOf
<1>3. Latest(s, c, m)'
  BY <1>1, <1>2 DEF Epoch, Latest, OrderOf, SameQuotes, SameQuote
<1>4. OrdersOf(s, m)' /\ (order'[m].st = "sent" /\ m # 0 => order[m].st = "sent")
  <2>1. \A k \in Orders : Pending(k)' => Pending(k) /\ order'[k].sym = order[k].sym
    BY DEF OrdersEnd, Pending
  <2>2. \A k \in Orders : FillOf(k, s)' => order'[k] = order[k] /\ FillOf(k, s)
    BY DEF OrdersEnd, FillOf
  <2>3. m # 0 => m \in Orders
    BY <1>1, BoundsInNat DEF Epoch, Latest, OrderOf, TypeInv, QuoteTyped, Quote, Orders
  <2> QED BY <2>1, <2>2, <2>3 DEF Epoch, OrdersOf, OrdersEnd, FillOf
<1>5. PendingOf(s, c, m)'
  BY <1>1, <1>4 DEF Epoch, PendingOf, SameQuotes, SameQuote
<1>6. task'["sig"] = task["sig"] /\ ~RunsOn("sig")
  BY DEF Others
<1>7. EntryOf(task["sig"], s, c, m)'
  <2>1. task["sig"].pc \in Entering => task["sig"].q \in Quotes
    BY DEF TypeInv, TaskTyped, Steady, Entering
  <2>2. On(task["sig"], Entering, s)' => On(task["sig"], Entering, s)
    BY <1>2, <1>6, <2>1 DEF On
  <2>3. task["sig"].pc # "submit"
    BY <1>6 DEF RunsOn, TradeConditions
  <2>4. EntryOf(task["sig"], s, c, m)
    BY DEF Epoch
  <2>5. task["sig"].pc \in Entering /\ task["sig"].q = c => quote'[c].st = quote[c].st
    BY <1>2, <2>1
  <2> QED BY <1>6, <2>2, <2>3, <2>4, <2>5 DEF EntryOf, On
<1>8. EntryOf(task["loop"], s, c, m)'
  BY DEF EntryOf, On
<1>9. CopyOf(s, c, m)'
  <2>1. ~On(task["loop"], {"ack"}, s)'
    BY DEF On, Entering
  <2>2. On(task["loop"], {"submit", "ack", "find", "check"}, s)' => On(task["loop"], {"check"}, s)'
    BY DEF On, Entering
  <2>3. On(task["loop"], {"check"}, s)' => CheckOf(task["loop"], s, c)'
    BY DEF On
  <2> QED BY <2>1, <2>2, <2>3 DEF CopyOf, CancelOf, TodoOf, Over, CheckOf
<1> QED BY <1>3, <1>4, <1>5, <1>7, <1>8, <1>9 DEF Epoch

LEMMA RestsKept ==
    ASSUME TradeInv, NEW s \in Symbols, NEW c, NEW m, Epoch(s, c, m),
           Others("loop"), ~RunsOn("loop") \/ SymOf(task["loop"].q) # s,
           Looks, BookKept(s), OrdersEnd,
           quotes'[s] = quotes[s] \/ Over(s, m)'
    PROVE  VenueOf(s, m)' /\ ViewsOf(s, m)' /\ PositionOf(s, m)' /\ AgeOf(s)' /\ FreeOf(s, m)'
<1> USE DEF TradeInv
<1>1. VenueOf(s, m)' /\ ViewsOf(s, m)' /\ AgeOf(s)'
  BY LooksShow, KeptAge DEF Epoch
<1>2. PositionOf(s, m)'
  BY KeptPosition DEF Epoch, PositionOf
<1>3. FreeOf(s, m)'
  <2>1. CASE quotes'[s] = quotes[s]
    <3>1. ~Busy(s)
      BY DEF Busy, Others
    <3>2. Free(s)' => Free(s)
      BY <2>1, <3>1, KeptPosition DEF Free
    <3>3. Pending(m)' => Pending(m)
      BY DEF Pending, OrdersEnd
    <3> QED BY <3>2, <3>3, FreeKept, KeptDone DEF Epoch, ShapeInv
  <2>2. CASE Over(s, m)'
    BY <2>2 DEF FreeOf, Over
  <2> QED BY <2>1, <2>2
<1> QED BY <1>1, <1>2, <1>3

LEMMA TodoKept ==
    ASSUME TradeInv, NEW s \in Symbols, NEW c, NEW m, Epoch(s, c, m), Others("loop"), SameQuotes,
           task'["loop"].then = "quotes" =>
             task["loop"].then = "quotes" /\ task'["loop"].todo \subseteq task["loop"].todo,
           BookKept(s), quotes'[s] = quotes[s] \/ c \notin task'["loop"].todo
    PROVE  TodoOf(task["loop"], s, c)'
<1> USE DEF TradeInv
<1> SUFFICES ASSUME task'["loop"].then = "quotes", NEW k \in task'["loop"].todo, SymOf(k)' = s
             PROVE  quote'[k].st = "armed" \/ (k = c /\ Current(s, c)')
  BY DEF TodoOf
<1>1. task["loop"].then = "quotes" /\ k \in task["loop"].todo /\ k \in Quotes
  BY DEF ShapeInv, QuotesMade
<1>2. SymOf(k) = s /\ quote'[k].st = quote[k].st
  BY <1>1 DEF SameQuotes, SameQuote, SymOf
<1>3. quote[k].st = "armed" \/ (k = c /\ Current(s, c))
  BY <1>1, <1>2 DEF Epoch, CopyOf
<1>4. quotes'[s] = quotes[s] => (Current(s, c) => Current(s, c)')
  BY TaskNames, KeptPosition DEF Current, Others
<1> QED BY <1>2, <1>3, <1>4

\* What no step of the loop among its quotes does to a position.
LEMMA CloseVacuous ==
    ASSUME NEW s, task'["loop"].pc \notin Leaving PROVE CloseOf(task["loop"], s)'
BY DEF CloseOf

LEMMA LoopCancelWorks ==
    ASSUME TradeConditions, TradeInv, LoopCancel, NEW n, n = task["loop"].q, NEW s, s = SymOf(n)
    PROVE  /\ task["loop"].pc = "cancel" /\ n \in Quotes /\ s \in Symbols /\ Works("loop", n)
           /\ ComesBack("loop") /\ task["loop"].then = "quotes" /\ n \notin task["loop"].todo
           /\ SameQuotes /\ OrdersEnd /\ quotes'[s] = 0
           /\ quote'[n].stray = Astray(n, quotes[s], {0, n})
           /\ \A x \in Symbols : BookKept(x) /\ (x # s => OrdersElse(x))
           /\ Looks
<1> USE TaskNames DEF TradeInv
<1>1. /\ task["loop"].pc = "cancel" /\ At("loop", task["loop"].pc) /\ n \in Quotes
      /\ s \in Symbols /\ quote[n] \in Quote
  <2>1. task["loop"].pc = "cancel" /\ At("loop", task["loop"].pc)
    BY DEF LoopCancel, At
  <2>2. n \in Quotes
    BY <2>1 DEF TypeInv, TaskTyped, Steady
  <2> QED BY <2>1, <2>2 DEF TypeInv, QuoteTyped, Quote, SymOf
<1>2. task["loop"].then = "quotes" /\ n \notin task["loop"].todo
  BY <1>1 DEF ShapeInv, LoopShape, Phases, Asking
<1>3. ComesBack("loop") /\ CancelOrders(s) /\ DropEntry(n)
  BY <1>1, BackGoes DEF LoopCancel
<1>4. UNCHANGED <<venue, bookVars, cache, made>>
  BY DEF LoopCancel
<1>5. /\ SameQuotes /\ quotes'[s] = 0 /\ \A k \in Quotes : k # n => quote'[k] = quote[k]
      /\ quote'[n].stray = Astray(n, quotes[s], {0, n})
      /\ \A x \in Symbols : x # s => quotes'[x] = quotes[x]
  BY <1>1, <1>3 DEF DropEntry, SameQuotes, SameQuote, TypeInv, QuoteTyped, Quote
<1>6. \A k \in Orders : \/ order'[k] = order[k]
                        \/ /\ order[k].st = "live" /\ order'[k].st = "dead"
                           /\ order'[k].sym = order[k].sym /\ order[k].sym = s
  BY <1>3 DEF CancelOrders, TypeInv, VenueTyped, Order
<1>7. Works("loop", n)
  BY <1>1, <1>2, <1>3, <1>4, <1>5 DEF Works, ComesBack, GoesTo, Entering, Asking, Leaving,
     SameQuotes, SameQuote
<1>8. Looks
  BY <1>3, <1>4 DEF Looks, ComesBack, GoesTo
<1>9. \A x \in Symbols : BookKept(x)
  BY <1>4 DEF BookKept, bookVars
<1>10. OrdersEnd /\ \A x \in Symbols : x # s => OrdersElse(x)
  BY <1>6 DEF OrdersEnd, OrdersElse
<1> QED BY <1>1, <1>2, <1>3, <1>5, <1>7, <1>8, <1>9, <1>10

\* A quote of s astray is the end of the account.
LEMMA StrayLost ==
    ASSUME NEW n \in Quotes, NEW s, SymOf(n)' = s, quote'[n].stray PROVE Lost(s)'
BY DEF Lost, Strayed

LEMMA LoopCancelEpoch ==
    ASSUME TradeConditions, TradeInv, LoopCancel, NEW s \in Symbols, NEW c, NEW m, Epoch(s, c, m)
    PROVE  Epoch(s, c, m)' \/ Lost(s)'
<1> USE TaskNames DEF TradeInv
<1>0. PICK n, x : n = task["loop"].q /\ x = SymOf(n)
  OBVIOUS
<1>1. /\ task["loop"].pc = "cancel" /\ n \in Quotes /\ x \in Symbols /\ Works("loop", n)
      /\ ComesBack("loop") /\ task["loop"].then = "quotes" /\ n \notin task["loop"].todo
      /\ SameQuotes /\ OrdersEnd /\ quotes'[x] = 0
      /\ quote'[n].stray = Astray(n, quotes[x], {0, n})
      /\ \A y \in Symbols : BookKept(y) /\ (y # x => OrdersElse(y))
      /\ Looks
  BY <1>0, LoopCancelWorks
<1>2. CASE x # s
  BY <1>0, <1>1, <1>2, WorksElse DEF ShapeInv
<1>3. CASE x = s
  <2>1. /\ Others("loop") /\ task'["loop"].pc = "quotes" /\ made'.quotes = made.quotes
        /\ ~RunsOn("loop") /\ task'["loop"].todo = task["loop"].todo
        /\ CloseOf(task["loop"], s)' /\ CancelOf(task["loop"], s, c, m)'
    BY <1>1 DEF ComesBack, GoesTo, Works, RunsOn, CloseOf, Leaving, CancelOf, On
  <2>2. CASE n = c
    <3>1. Over(s, m)
      BY <1>0, <1>1, <1>3, <2>2 DEF Epoch, CopyOf, On, Over
    <3>2. Over(s, m)'
      <4>1. ~Pending(m)'
        BY <1>1, <3>1 DEF Over, OrdersEnd, Pending
      <4> QED BY <1>1, <3>1, <4>1, LooksShow DEF Epoch, Over, Looks, Shows
    <3>3. VenueOf(s, m)' /\ ViewsOf(s, m)' /\ PositionOf(s, m)' /\ AgeOf(s)' /\ FreeOf(s, m)'
      BY <1>1, <2>1, <3>2, RestsKept
    <3>4. TodoOf(task["loop"], s, c)'
      BY <1>1, <2>1, <2>2, TodoKept
    <3> QED BY <1>1, <1>3, <2>1, <3>3, <3>4, LoopRests DEF Entering
  <2>3. CASE n # c /\ quotes[s] = 0
    <3>3. VenueOf(s, m)' /\ ViewsOf(s, m)' /\ PositionOf(s, m)' /\ AgeOf(s)' /\ FreeOf(s, m)'
      BY <1>1, <1>3, <2>1, <2>3, RestsKept
    <3>4. TodoOf(task["loop"], s, c)'
      BY <1>1, <1>3, <2>1, <2>3, TodoKept
    <3> QED BY <1>1, <1>3, <2>1, <3>3, <3>4, LoopRests DEF Entering
  <2>4. CASE n # c /\ quotes[s] # 0
    <3>1. quotes[s] = c
      BY <2>4 DEF Epoch, PendingOf
    <3>2. quote'[n].stray /\ SymOf(n)' = s
      BY <1>0, <1>1, <1>3, <2>4, <3>1 DEF Astray, SameQuotes, SameQuote, SymOf
    <3> QED BY <1>1, <3>2, StrayLost
  <2> QED BY <2>2, <2>3, <2>4
<1> QED BY <1>2, <1>3

\* The loop asks about c itself: the rest of its copy is only armed.
LEMMA LoopQuoteAskEpoch ==
    ASSUME TradeConditions, TradeInv, NEW n \in Quotes, LoopQuoteAsk(n),
           NEW s \in Symbols, NEW c, NEW m, Epoch(s, c, m)
    PROVE  Epoch(s, c, m)'
<1> USE TaskNames DEF TradeInv
<1>1. /\ task["loop"].pc = "quotes" /\ At("loop", task["loop"].pc) /\ n \in task["loop"].todo
      /\ quote[n].st = "acked" /\ UNCHANGED <<order, venue, quotes, quote, bookVars, cache, made>>
  BY DEF LoopQuoteAsk, At, venueVars, quoteVars
<1>2. task["loop"].then = "quotes" /\ task["loop"] \in Task
  BY <1>1 DEF ShapeInv, LoopShape, Phases, TypeInv, TaskTyped
<1> DEFINE U == [task["loop"] EXCEPT !.todo = task["loop"].todo \ {n}, !.pc = "check", !.q = n]
<1>3. /\ U.pc = "check" /\ U.q = n /\ U.then = task["loop"].then /\ U.snap = task["loop"].snap
      /\ U.todo = task["loop"].todo \ {n}
  BY <1>2 DEF Task
<1>4. task' = [task EXCEPT !["loop"] = U]
  BY DEF LoopQuoteAsk
<1> HIDE DEF U
<1>5. task'["loop"] = U /\ Others("loop")
  BY <1>1, <1>4 DEF TypeInv, TaskTyped, Others, At
<1>6. /\ SameQuotes /\ OrdersEnd /\ Looks /\ \A x \in Symbols : BookKept(x)
      /\ ~RunsOn("loop") /\ CloseOf(task["loop"], s)' /\ CancelOf(task["loop"], s, c, m)'
      /\ OrdersElse(s)
  BY <1>1, <1>3, <1>5 DEF SameQuotes, SameQuote, OrdersEnd, Looks, BookKept, bookVars, RunsOn,
     CloseOf, Leaving, CancelOf, On, OrdersElse
<1>7. CASE SymOf(n) # s
  <2>1. Works("loop", n)
    BY <1>1, <1>3, <1>5, <1>6 DEF Works, Entering, Asking, Leaving
  <2> QED BY <1>1, <1>6, <1>7, <2>1, WorksElse DEF ShapeInv
<1>8. CASE SymOf(n) = s
  <2>1. n = c /\ Current(s, c)
    BY <1>1, <1>2, <1>8 DEF Epoch, CopyOf
  <2>2. Current(s, c)'
    BY <1>1, <1>5, <2>1 DEF Current, bookVars, Others
  <2>3. CheckOf(task["loop"], s, c)'
    BY <1>1, <1>3, <1>5, <2>1, <2>2 DEF CheckOf
  <2>4. VenueOf(s, m)' /\ ViewsOf(s, m)' /\ PositionOf(s, m)' /\ AgeOf(s)' /\ FreeOf(s, m)'
    BY <1>1, <1>5, <1>6, RestsKept
  <2>5. TodoOf(task["loop"], s, c)'
    BY <1>1, <1>2, <1>3, <1>5, <1>6, TodoKept
  <2> QED BY <1>1, <1>3, <1>5, <1>6, <2>3, <2>4, <2>5, LoopRests DEF Entering
<1> QED BY <1>7, <1>8

(* Submission: nothing of c is anywhere yet.                               *)
\* armed is _quotes but for s.
ArmedElse(armed, s) == /\ armed \in [Symbols -> 0..MaxQuotes]
                       /\ \A x \in Symbols : x # s => armed[x] = quotes[x]

\* What t has done with quote n of s, when the entry of s was k.
Submitted(t, n, s, k) ==
    /\ Works(t, n) /\ Looks /\ \A x \in Symbols : BookKept(x)
    /\ UNCHANGED order /\ s \in Symbols
    /\ quote'[n].sym = s /\ quote'[n].ord = quote[n].ord /\ quote'[n].syn = quote[n].syn
    /\ \/ /\ quotes'[s] = 0 /\ quote'[n].st = "armed" /\ task'[t].pc = task[t].then
          /\ quote'[n].stray = Astray(n, k, {0, n})
       \/ /\ quotes'[s] = k /\ quote'[n].st = "armed" /\ task'[t].pc = task[t].then
          /\ quote'[n].stray = Astray(n, k, {k})
       \/ /\ quotes'[s] = k /\ quote'[n].st = "inflight" /\ task'[t].pc = "submit"
          /\ quote'[n].stray = Astray(n, k, {n})

LEMMA SubmitWorks ==
    ASSUME TradeConditions, TradeInv, NEW t \in {"sig", "loop"}, NEW n \in Quotes, NEW armed,
           NEW T \in Task, SubmitHead(t, n, armed, T), task[t].pc \in {"tick", "quotes"},
           At(t, task[t].pc), task[t].pc = "tick" => task[t].q = n,
           T.then = task[t].then, T.snap = task[t].snap, T.todo \subseteq task[t].todo,
           NEW s, s = SymOf(n), ArmedElse(armed, s)
    PROVE  Submitted(t, n, s, armed[s]) /\ task'[t].todo = T.todo
<1> USE TaskNames DEF TradeInv, ArmedElse
<1>1. t \in Tasks /\ s \in Symbols /\ quote[n] \in Quote /\ task[t].then \in {"idle", "quotes"}
  <2>1. task[t].then \in {"idle", "quotes"}
    BY DEF ShapeInv, LoopShape, Phases, Entering
  <2> QED BY <2>1 DEF TypeInv, QuoteTyped, Quote, SymOf
<1>2. UNCHANGED <<venueVars, bookVars, cache, made>>
  BY DEF SubmitHead, SubmitIf
<1> DEFINE S == [T EXCEPT !.pc = "submit", !.q = n]
           R == Return(T)
           Q(st, fine) == [quote[n] EXCEPT !.st = st, !.stray = Astray(n, armed[s], fine)]
<1>3. \/ /\ quotes' = [armed EXCEPT ![s] = 0] /\ quote' = [quote EXCEPT ![n] = Q("armed", {0, n})]
         /\ task' = [task EXCEPT ![t] = R]
      \/ /\ quotes' = armed /\ quote' = [quote EXCEPT ![n] = Q("armed", {armed[s]})]
         /\ task' = [task EXCEPT ![t] = R]
      \/ /\ quotes' = armed /\ quote' = [quote EXCEPT ![n] = Q("inflight", {n})]
         /\ task' = [task EXCEPT ![t] = S]
  BY DEF SubmitHead, SubmitIf
<1>4. \A st, fine : /\ Q(st, fine).sym = s /\ Q(st, fine).ord = quote[n].ord
                    /\ Q(st, fine).syn = quote[n].syn /\ Q(st, fine).st = st
                    /\ Q(st, fine).stray = Astray(n, armed[s], fine)
  BY <1>1 DEF Quote, SymOf
<1>5. /\ R.pc = task[t].then /\ R.then = task[t].then /\ R.snap = task[t].snap
      /\ R.todo = T.todo
      /\ S.pc = "submit" /\ S.q = n /\ S.then = task[t].then /\ S.snap = task[t].snap
      /\ S.todo = T.todo
  BY DEF Return, Task
<1> HIDE DEF R, S, Q
<1>6. /\ \A k \in Quotes : k # n => quote'[k] = quote[k]
      /\ \A u \in Tasks : u # t => task'[u] = task[u]
      /\ \A x \in Symbols : x # s => quotes'[x] = quotes[x]
  BY <1>1, <1>3 DEF TypeInv, QuoteTyped, TaskTyped
<1>7. \/ /\ quotes'[s] = 0 /\ quote'[n] = Q("armed", {0, n}) /\ task'[t] = R
      \/ /\ quotes'[s] = armed[s] /\ quote'[n] = Q("armed", {armed[s]}) /\ task'[t] = R
      \/ /\ quotes'[s] = armed[s] /\ quote'[n] = Q("inflight", {n}) /\ task'[t] = S
  BY <1>1, <1>3 DEF TypeInv, QuoteTyped, TaskTyped
<1>8. Others(t)
  BY <1>6 DEF Others, At
<1>9. Works(t, n)
  <2>1. task'[t] \in {R, S}
    BY <1>7
  <2>2. /\ task'[t].then = task[t].then /\ task'[t].snap = task[t].snap
        /\ task'[t].todo \subseteq task[t].todo
        /\ task'[t].pc \notin Leaving \cup {"adopt"} /\ task[t].pc \notin Leaving \cup {"adopt"}
        /\ task'[t].pc \in Entering \cup Asking => task'[t].q = n
        /\ task[t].pc \in Entering \cup Asking => task[t].q = n
    BY <1>1, <1>5, <2>1 DEF Entering, Asking, Leaving
  <2>3. quote'[n].sym = quote[n].sym
    BY <1>4, <1>7 DEF SymOf
  <2> QED BY <1>2, <1>6, <1>8, <2>2, <2>3 DEF Works
<1>10. task'["loop"].snap = task["loop"].snap
  BY <1>9 DEF Works, Others
<1>11. Looks /\ \A x \in Symbols : BookKept(x)
  BY <1>2, <1>10 DEF Looks, BookKept, bookVars, venueVars
<1>12. task'[t].todo = T.todo
  BY <1>5, <1>7
<1> QED BY <1>1, <1>2, <1>4, <1>5, <1>7, <1>9, <1>11, <1>12 DEF venueVars, Submitted

LEMMA SubmitEpoch ==
    ASSUME TradeConditions, TradeInv, NEW t \in {"sig", "loop"}, NEW s \in Symbols,
           NEW c \in Quotes, Epoch(s, c, 0), Works(t, c), SymOf(c) = s, quote[c].st = "armed",
           task[t].pc \in {"tick", "quotes"}, UNCHANGED order, Looks, BookKept(s),
           quote'[c].ord = quote[c].ord, quote'[c].syn = quote[c].syn, quotes'[s] \in {0, c},
           \/ quote'[c].st = "armed" /\ task'[t].pc = task[t].then
           \/ quote'[c].st = "inflight" /\ task'[t].pc = "submit" /\ quotes'[s] = c
    PROVE  Epoch(s, c, 0)'
<1> USE TaskNames DEF TradeInv
<1>1. /\ \A k \in Quotes : SymOf(k)' = SymOf(k)
      /\ c # 0 /\ task[t].then \in {"idle", "quotes"} /\ t \in Tasks
  BY BoundsInNat DEF Works, SymOf, Entering, ShapeInv, LoopShape, Phases, Quotes
<1>2. /\ VenueOf(s, 0)' /\ ViewsOf(s, 0)' /\ AgeOf(s)' /\ PositionOf(s, 0)'
      /\ CloseOf(task["loop"], s)'
  BY WorksAround
<1>3. ~FillOf(0, s) /\ ~Pending(0)'
  BY BoundsInNat DEF FillOf, Pending, Orders
<1>4. /\ venue'[s].units = 0 /\ positions'[s] = 0 /\ \A S \in Views' : ~Shows(S, s)
  BY <1>3, NothingYet, LooksShow DEF Looks, BookKept, Epoch, ShapeInv
<1>5. Latest(s, c, 0)' /\ OrdersOf(s, 0)' /\ PendingOf(s, c, 0)'
  BY <1>1 DEF Epoch, Latest, OrderOf, OrdersOf, PendingOf, Pending, FillOf, Works
<1>6. FreeOf(s, 0)'
  BY <1>3, <1>4 DEF FreeOf, Shows
<1>7. ASSUME NEW u \in {"sig", "loop"}, u # t
      PROVE  task'[u] = task[u] /\ ~On(task[u], Entering, s)'
  <2>1. task'[u] = task[u] /\ (task[u].pc \in Entering => task[u].q \in Quotes)
    BY <1>7 DEF Works, Others, TypeInv, TaskTyped, Steady, Entering
  <2>2. ~On(task[u], Entering, s)
    BY <1>7, OtherHere DEF Works
  <2> QED BY <1>1, <2>1, <2>2 DEF On
<1>8. EntryOf(task[t], s, c, 0)'
  BY <1>1 DEF EntryOf, On, Entering, Works
<1>9. ASSUME NEW u \in {"sig", "loop"} PROVE EntryOf(task[u], s, c, 0)'
  BY <1>7, <1>8 DEF EntryOf
<1>10. CopyOf(s, c, 0)'
  <2>1. ~(On(task["loop"], {"check"}, s)' \/ (On(task["loop"], {"cancel"}, s)' /\ task'["loop"].q = c))
    <3>1. CASE t = "loop"
      BY <1>1, <3>1 DEF On
    <3>2. CASE t = "sig"
      <4>1. task'["loop"] = task["loop"]
        BY <1>7, <3>2
      <4>2. task["loop"].pc \in Asking => task["loop"].q \in Quotes
        BY DEF TypeInv, TaskTyped, Steady, Asking
      <4> QED BY <1>1, <4>1, <4>2 DEF On, Asking, Epoch, CopyOf
    <3> QED BY <3>1, <3>2
  <2>2. ~On(task["loop"], {"ack", "find"}, s)'
    BY <1>1, <1>7, TaskNames DEF On, Entering
  <2>3. On(task["loop"], {"submit"}, s)' => Current(s, c)'
    BY <1>1, <1>7 DEF On, Entering, Current
  <2>4. ASSUME task'["loop"].then = "quotes", NEW k \in task'["loop"].todo, SymOf(k)' = s
        PROVE  quote'[k].st = "armed" \/ (k = c /\ Current(s, c)')
    <3>1. task["loop"].then = "quotes" /\ k \in task["loop"].todo
      BY <1>7, <2>4 DEF Works
    <3>2. k \in Quotes
      BY <3>1 DEF ShapeInv, QuotesMade
    <3>3. k # c => quote'[k] = quote[k]
      BY <3>2 DEF Works
    <3> QED BY <1>1, <2>4, <3>1, <3>2, <3>3 DEF Epoch, CopyOf, Current
  <2> QED BY <2>1, <2>2, <2>3, <2>4 DEF CopyOf, On
<1> QED BY <1>2, <1>5, <1>6, <1>9, <1>10 DEF Epoch

LEMMA ArmTakerWorks ==
    ASSUME TradeConditions, TradeInv, ArmTaker, NEW n, n = task["sig"].q, NEW s, s = SymOf(n)
    PROVE  /\ task["sig"].pc = "tick" /\ n \in Quotes /\ s \in Symbols /\ Works("sig", n)
           /\ task'["sig"].todo = task["sig"].todo /\ Looks /\ \A x \in Symbols : BookKept(x)
           /\ UNCHANGED order
           /\ quote'[n].sym = s /\ quote'[n].ord = quote[n].ord /\ quote'[n].syn = quote[n].syn
           /\ quotes'[s] \in {0, n}
           /\ \/ quote'[n].st = "armed" /\ task'["sig"].pc = task["sig"].then
              \/ quote'[n].st = "inflight" /\ task'["sig"].pc = "submit" /\ quotes'[s] = n
<1> USE TaskNames DEF TradeInv
<1>1. /\ task["sig"].pc = "tick" /\ At("sig", task["sig"].pc) /\ n \in Quotes
      /\ s \in Symbols /\ task["sig"] \in Task
  <2>1. task["sig"].pc = "tick" /\ At("sig", task["sig"].pc)
    BY DEF ArmTaker, At
  <2>2. n \in Quotes /\ task["sig"] \in Task
    BY <2>1 DEF TypeInv, TaskTyped, Steady
  <2> QED BY <2>1, <2>2 DEF TypeInv, QuoteTyped, Quote, SymOf
<1>2. PICK armed : armed = [quotes EXCEPT ![s] = n]
  OBVIOUS
<1>3. SubmitHead("sig", n, armed, task["sig"])
  BY <1>2 DEF ArmTaker
<1>4. ArmedElse(armed, s) /\ armed[s] = n
  BY <1>1, <1>2, BoundsInNat DEF TypeInv, QuoteTyped, Quotes, ArmedElse
<1>5. Submitted("sig", n, s, n) /\ task'["sig"].todo = task["sig"].todo
  BY <1>1, <1>3, <1>4, SubmitWorks
<1> QED BY <1>1, <1>5 DEF Submitted

LEMMA ArmTakerEpoch ==
    ASSUME TradeConditions, TradeInv, ArmTaker, NEW s \in Symbols, NEW c, NEW m, Epoch(s, c, m)
    PROVE  Epoch(s, c, m)'
<1> USE TaskNames DEF TradeInv
<1>0. PICK n, x : n = task["sig"].q /\ x = SymOf(n)
  OBVIOUS
<1>1. /\ task["sig"].pc = "tick" /\ n \in Quotes /\ x \in Symbols /\ Works("sig", n)
      /\ Looks /\ BookKept(s) /\ UNCHANGED order
      /\ quote'[n].sym = x /\ quote'[n].ord = quote[n].ord /\ quote'[n].syn = quote[n].syn
      /\ quotes'[x] \in {0, n}
      /\ \/ quote'[n].st = "armed" /\ task'["sig"].pc = task["sig"].then
         \/ quote'[n].st = "inflight" /\ task'["sig"].pc = "submit" /\ quotes'[x] = n
  BY <1>0, ArmTakerWorks
<1>2. CASE x # s
  <2>1. OrdersElse(s)
    BY <1>1 DEF OrdersElse
  <2> QED BY <1>0, <1>1, <1>2, <2>1, WorksElse DEF ShapeInv
<1>3. CASE x = s
  <2>1. On(task["sig"], Entering, s)
    BY <1>0, <1>1, <1>3 DEF On, Entering
  <2>2. n = c /\ m = 0 /\ quote[c].st = "armed" /\ SymOf(c) = s
    BY <1>0, <1>1, <2>1, EntryHere DEF EntryOf
  <2> QED BY <1>1, <1>3, <2>2, SubmitEpoch
<1> QED BY <1>2, <1>3

LEMMA LoopQuoteUnsentWorks ==
    ASSUME TradeConditions, TradeInv, NEW n \in Quotes, LoopQuoteUnsent(n), NEW s, s = SymOf(n)
    PROVE  /\ task["loop"].pc = "quotes" /\ task["loop"].then = "quotes" /\ s \in Symbols
           /\ n \in task["loop"].todo /\ Works("loop", n)
           /\ task'["loop"].todo = task["loop"].todo \ {n} /\ Looks
           /\ \A x \in Symbols : BookKept(x)
           /\ UNCHANGED order
           /\ quote'[n].sym = s /\ quote'[n].ord = quote[n].ord /\ quote'[n].syn = quote[n].syn
           /\ \/ /\ quote'[n].st = quote[n].st /\ task'["loop"].pc = "quotes"
                 /\ quotes'[s] = quotes[s]
              \/ /\ quote[n].st = "armed" /\ quote'[n].st = "armed" /\ task'["loop"].pc = "quotes"
                 /\ quotes'[s] = 0
                 /\ quote'[n].stray = Astray(n, quotes[s], {0, n})
              \/ /\ quote[n].st = "armed" /\ quote'[n].st = "inflight"
                 /\ task'["loop"].pc = "submit" /\ quotes'[s] = quotes[s]
                 /\ quote'[n].stray = Astray(n, quotes[s], {n})
<1> USE TaskNames DEF TradeInv
<1>1. /\ task["loop"].pc = "quotes" /\ At("loop", task["loop"].pc) /\ n \in task["loop"].todo
      /\ task["loop"] \in Task /\ s \in Symbols /\ task["loop"].then = "quotes"
      /\ quotes \in [Symbols -> 0..MaxQuotes]
  <2>1. task["loop"].pc = "quotes" /\ At("loop", task["loop"].pc) /\ n \in task["loop"].todo
    BY DEF LoopQuoteUnsent, At
  <2> QED BY <2>1 DEF TypeInv, TaskTyped, QuoteTyped, Quote, SymOf, ShapeInv, LoopShape, Phases
<1> DEFINE T == [task["loop"] EXCEPT !.todo = task["loop"].todo \ {n}]
<1>2. /\ T \in Task /\ T.then = task["loop"].then /\ T.snap = task["loop"].snap
      /\ T.todo = task["loop"].todo \ {n} /\ T.pc = "quotes"
  BY <1>1 DEF Task
<1>3. \/ quote[n].st = "armed" /\ SubmitHead("loop", n, quotes, T)
      \/ /\ task' = [task EXCEPT !["loop"] = T]
         /\ UNCHANGED <<venueVars, quotes, quote, bookVars, cache, made>>
  BY DEF LoopQuoteUnsent, ShuttingDown, ShapeInv, LoopShape
<1> HIDE DEF T
<1>4. CASE quote[n].st = "armed" /\ SubmitHead("loop", n, quotes, T)
  <2>1. Submitted("loop", n, s, quotes[s]) /\ task'["loop"].todo = T.todo
    <3>1. ArmedElse(quotes, s) /\ T.todo \subseteq task["loop"].todo
      BY <1>1, <1>2 DEF ArmedElse
    <3> QED BY <1>1, <1>2, <1>4, <3>1, SubmitWorks
  <2> QED BY <1>1, <1>2, <1>4, <2>1 DEF Submitted
<1>5. CASE /\ task' = [task EXCEPT !["loop"] = T]
           /\ UNCHANGED <<venueVars, quotes, quote, bookVars, cache, made>>
  <2>1. task'["loop"] = T /\ Others("loop")
    BY <1>1, <1>5 DEF Others, At, TypeInv, TaskTyped
  <2>2. Works("loop", n)
    BY <1>1, <1>2, <1>5, <2>1 DEF Works, Entering, Asking, Leaving
  <2>3. Looks /\ \A x \in Symbols : BookKept(x)
    BY <1>2, <1>5, <2>1 DEF Looks, BookKept, bookVars, venueVars
  <2> QED BY <1>1, <1>2, <1>5, <2>1, <2>2, <2>3 DEF venueVars, SymOf
<1> QED BY <1>3, <1>4, <1>5

LEMMA LoopQuoteUnsentEpoch ==
    ASSUME TradeConditions, TradeInv, NEW n \in Quotes, LoopQuoteUnsent(n),
           NEW s \in Symbols, NEW c, NEW m, Epoch(s, c, m)
    PROVE  Epoch(s, c, m)' \/ Lost(s)'
<1> USE TaskNames DEF TradeInv
<1>0. PICK x : x = SymOf(n)
  OBVIOUS
<1>1. /\ task["loop"].pc = "quotes" /\ task["loop"].then = "quotes" /\ x \in Symbols
      /\ n \in task["loop"].todo /\ Works("loop", n)
      /\ task'["loop"].todo = task["loop"].todo \ {n} /\ Looks /\ BookKept(s) /\ UNCHANGED order
      /\ quote'[n].sym = x /\ quote'[n].ord = quote[n].ord /\ quote'[n].syn = quote[n].syn
      /\ \/ /\ quote'[n].st = quote[n].st /\ task'["loop"].pc = "quotes"
            /\ quotes'[x] = quotes[x]
         \/ /\ quote[n].st = "armed" /\ quote'[n].st = "armed" /\ task'["loop"].pc = "quotes"
            /\ quotes'[x] = 0
            /\ quote'[n].stray = Astray(n, quotes[x], {0, n})
         \/ /\ quote[n].st = "armed" /\ quote'[n].st = "inflight"
            /\ task'["loop"].pc = "submit" /\ quotes'[x] = quotes[x]
            /\ quote'[n].stray = Astray(n, quotes[x], {n})
  BY <1>0, LoopQuoteUnsentWorks
<1>2. CASE x # s
  <2>1. OrdersElse(s)
    BY <1>1 DEF OrdersElse
  <2> QED BY <1>0, <1>1, <1>2, <2>1, WorksElse DEF ShapeInv
<1>3. CASE /\ x = s /\ quote'[n].st = quote[n].st /\ task'["loop"].pc = "quotes"
           /\ quotes'[x] = quotes[x]
  <2>1. /\ Others("loop") /\ made'.quotes = made.quotes /\ ~RunsOn("loop")
        /\ task'["loop"].then = "quotes"
        /\ CloseOf(task["loop"], s)' /\ CancelOf(task["loop"], s, c, m)'
    BY <1>1, <1>3 DEF Works, RunsOn, CloseOf, Leaving, CancelOf, On
  <2>2. SameQuotes /\ OrdersEnd
    BY <1>0, <1>1, <1>3 DEF SameQuotes, SameQuote, OrdersEnd, Works, SymOf
  <2>3. VenueOf(s, m)' /\ ViewsOf(s, m)' /\ PositionOf(s, m)' /\ AgeOf(s)' /\ FreeOf(s, m)'
    BY <1>1, <1>3, <2>1, <2>2, RestsKept
  <2>4. TodoOf(task["loop"], s, c)'
    BY <1>1, <1>3, <2>1, <2>2, TodoKept
  <2> QED BY <1>1, <1>3, <2>1, <2>2, <2>3, <2>4, LoopRests DEF Entering
<1>4. CASE x = s /\ quote[n].st = "armed" /\ quotes[s] = n
  <2>1. n = c /\ c # 0 /\ m = 0
    BY <1>4, BoundsInNat DEF Epoch, PendingOf, Quotes
  <2>2. /\ SymOf(c) = s /\ quotes'[s] \in {0, c}
        /\ \/ quote'[c].st = "armed" /\ task'["loop"].pc = task["loop"].then
           \/ quote'[c].st = "inflight" /\ task'["loop"].pc = "submit" /\ quotes'[s] = c
    BY <1>0, <1>1, <1>4, <2>1
  <2> QED BY <1>1, <1>4, <2>1, <2>2, SubmitEpoch
<1>5. CASE /\ x = s /\ quotes[s] # n
           /\ ~(/\ quote'[n].st = quote[n].st /\ task'["loop"].pc = "quotes"
                /\ quotes'[x] = quotes[x])
  <2>1. quote'[n].stray /\ SymOf(n)' = s
    BY <1>1, <1>5 DEF Astray, SymOf
  <2> QED BY <2>1, StrayLost
<1>6. quote[n].st = "armed" \/ (quote'[n].st = quote[n].st /\ task'["loop"].pc = "quotes"
                                /\ quotes'[x] = quotes[x])
  BY <1>1
<1> QED BY <1>2, <1>3, <1>4, <1>5, <1>6

LEMMA LoopQuoteFilledWorks ==
    ASSUME TradeConditions, TradeInv, LoopQuoteFilled, NEW n, n = task["loop"].q,
           NEW s, s = SymOf(n), NEW had, had = (positions[s] # 0)
    PROVE  /\ task["loop"].pc = "check" /\ n \in Quotes /\ s \in Symbols /\ Works("loop", n)
           /\ UNCHANGED order /\ Looks /\ \A x \in Symbols : BookKept(x)
           /\ SameQuote(n) /\ task'["loop"].todo = task["loop"].todo
           /\ \/ quotes' = quotes /\ task'["loop"].pc \in {task["loop"].then, "find"}
              \/ /\ quote[n].syn # NoRaw /\ quotes'[s] = 0
                 /\ task'["loop"].pc = IF had THEN task["loop"].then ELSE "open"
                 /\ ~had => task'["loop"].raw = quote[n].syn /\ task'["loop"].q = n
<1> USE TaskNames DEF TradeInv
<1>1. /\ task["loop"].pc = "check" /\ At("loop", task["loop"].pc) /\ n \in Quotes
      /\ quote[n] \in Quote /\ s \in Symbols /\ task["loop"].then = "quotes"
  <2>1. task["loop"].pc = "check" /\ At("loop", task["loop"].pc)
    BY DEF LoopQuoteFilled, At
  <2>2. n \in Quotes
    BY <2>1 DEF TypeInv, TaskTyped, Steady
  <2>3. task["loop"].then = "quotes"
    BY <2>1 DEF ShapeInv, LoopShape, Phases, Asking
  <2> QED BY <2>1, <2>2, <2>3 DEF TypeInv, QuoteTyped, Quote, SymOf
<1>2. UNCHANGED <<venue, order, bookVars, made>>
  BY DEF LoopQuoteFilled, venueVars
<1>3. PICK snap : PositionsCached(snap)
  BY DEF LoopQuoteFilled
<1>4. CASE quote[n].mat \/ quote[n].syn = NoRaw
  <2>1. /\ quotes' = quotes /\ GoesTo("loop", task'["loop"].pc, task'["loop"].q)
        /\ task'["loop"].pc \in {task["loop"].then, "find"}
        /\ task'["loop"].pc = "find" => task'["loop"].q = n
    <3>1. CASE quote[n].mat
      <4>1. ComesBack("loop") /\ quotes' = quotes
        BY <1>1, <3>1, BackGoes DEF LoopQuoteFilled, quoteVars
      <4> QED BY <1>1, <4>1 DEF ComesBack, GoesTo
    <3>2. CASE ~quote[n].mat
      <4>1. GoesTo("loop", "find", n) /\ quotes' = quotes
        BY <1>1, <1>4, <3>2, GotoGoes DEF LoopQuoteFilled
      <4> QED BY <4>1 DEF GoesTo
    <3> QED BY <3>1, <3>2
  <2>2. SameQuote(n) /\ \A k \in Quotes : k # n => quote'[k] = quote[k]
    BY <1>1, <1>4 DEF LoopQuoteFilled, SameQuote, quoteVars, TypeInv, QuoteTyped, Quote
  <2>3. Works("loop", n)
    BY <1>1, <1>2, <2>1, <2>2 DEF Works, GoesTo, Entering, Asking, Leaving, SameQuote
  <2>4. Looks /\ \A x \in Symbols : BookKept(x)
    BY <1>2, <1>3, <2>3, SnapLooks DEF Works
  <2> QED BY <1>1, <1>2, <2>1, <2>2, <2>3, <2>4 DEF GoesTo
<1>5. CASE ~quote[n].mat /\ quote[n].syn # NoRaw
  <2>1. OpenFrom("loop", n, quote[n].syn, quote[n])
    BY <1>5 DEF LoopQuoteFilled
  <2>2. /\ Works("loop", n) /\ quotes'[s] = 0 /\ task'["loop"].todo = task["loop"].todo
        /\ quote'[n].st = quote[n].st /\ quote'[n].ord = quote[n].ord
        /\ quote'[n].syn = quote[n].syn
        /\ task'["loop"].pc = IF had THEN task["loop"].then ELSE "open"
        /\ ~had => task'["loop"].raw = quote[n].syn /\ task'["loop"].q = n
    BY <1>1, <1>2, <2>1, OpenFromWorks
  <2>3. SameQuote(n)
    BY <2>2 DEF SameQuote, Works
  <2>4. Looks /\ \A x \in Symbols : BookKept(x)
    BY <1>2, <1>3, <2>2, SnapLooks DEF Works
  <2> QED BY <1>1, <1>2, <1>5, <2>2, <2>3, <2>4
<1> QED BY <1>4, <1>5

LEMMA LoopQuoteFilledEpoch ==
    ASSUME TradeConditions, TradeInv, LoopQuoteFilled, NEW s \in Symbols, NEW c, NEW m,
           Epoch(s, c, m)
    PROVE  Epoch(s, c, m)'
<1> USE TaskNames DEF TradeInv
<1>0. PICK n, x, had : n = task["loop"].q /\ x = SymOf(n) /\ had = (positions[x] # 0)
  OBVIOUS
<1>1. /\ task["loop"].pc = "check" /\ n \in Quotes /\ x \in Symbols /\ Works("loop", n)
      /\ UNCHANGED order /\ Looks /\ BookKept(s)
      /\ SameQuote(n) /\ task'["loop"].todo = task["loop"].todo
      /\ \/ quotes' = quotes /\ task'["loop"].pc \in {task["loop"].then, "find"}
         \/ /\ quote[n].syn # NoRaw /\ quotes'[x] = 0
            /\ task'["loop"].pc = IF had THEN task["loop"].then ELSE "open"
            /\ ~had => task'["loop"].raw = quote[n].syn /\ task'["loop"].q = n
  BY <1>0, LoopQuoteFilledWorks
<1>2. CASE x # s
  <2>1. OrdersElse(s)
    BY <1>1 DEF OrdersElse
  <2> QED BY <1>0, <1>1, <1>2, <2>1, WorksElse DEF ShapeInv
<1>3. CASE x = s
  <2>1. On(task["loop"], {"check"}, s)
    BY <1>0, <1>1, <1>3 DEF On
  <2>2. n = c /\ quote[c].st = "acked"
    BY <1>0, <2>1 DEF Epoch, CopyOf
  <2>2a. c # 0 /\ SymOf(c) = s /\ c \in Quotes
    <3>1. c # 0 /\ c \in Quotes
      BY <1>1, <2>2, BoundsInNat DEF Quotes
    <3>2. SymOf(c) = s
      BY <1>0, <1>3, <2>2 DEF SymOf
    <3> QED BY <3>1, <3>2
  <2>3. /\ OrdersOf(s, m)' /\ (Pending(m)' => Pending(m)) /\ order'[m].st # "sent" /\ m # 0
        /\ quote'[c].st = "acked" /\ quote'[c].ord = m
        /\ quote'[c].syn \in {NoRaw, Row(m)} /\ quote'[c].syn = quote[c].syn
        /\ order[m].st # "sent" /\ task["loop"].then = "quotes"
    <3>1. task["loop"].then = "quotes"
      BY <1>1 DEF ShapeInv, LoopShape, Phases, Asking
    <3>2. m = quote[c].ord
      BY <2>2a DEF Epoch, Latest, OrderOf
    <3> QED BY <1>1, <2>2, <2>2a, <3>1, <3>2 DEF Epoch, OrdersOf, Pending, FillOf, PendingOf, SameQuote
  <2>4. CASE quotes' = quotes /\ task'["loop"].pc \in {task["loop"].then, "find"}
    BY <1>1, <2>2, <2>2a, <2>3, <2>4, WorkedEpoch DEF Asking
  <2>5. CASE /\ quote[n].syn # NoRaw /\ quotes'[x] = 0
             /\ task'["loop"].pc = IF had THEN task["loop"].then ELSE "open"
             /\ ~had => task'["loop"].raw = quote[n].syn /\ task'["loop"].q = n
    <3>1. quote[n].syn = Row(m)
      BY <2>2, <2>2a, <2>3, <2>5
    <3> QED BY <1>0, <1>1, <1>3, <2>2, <2>2a, <2>3, <2>5, <3>1, OpenFromEpoch
  <2> QED BY <1>1, <2>4, <2>5
<1> QED BY <1>2, <1>3

LEMMA LoopQuoteUnfilledWorks ==
    ASSUME TradeConditions, TradeInv, LoopQuoteUnfilled, NEW n, n = task["loop"].q,
           NEW s, s = SymOf(n)
    PROVE  /\ task["loop"].pc = "check" /\ n \in Quotes /\ s \in Symbols /\ Works("loop", n)
           /\ task["loop"].then = "quotes" /\ n \notin task["loop"].todo
           /\ task'["loop"].then = "quotes" /\ task'["loop"].todo = task["loop"].todo
           /\ UNCHANGED order /\ Looks /\ SameQuotes /\ \A x \in Symbols : BookKept(x)
           /\ \/ quotes'[s] = quotes[s]
              \/ /\ quotes'[s] = 0 /\ order[quote[n].ord].st = "dead"
           /\ \/ task'["loop"].pc = "quotes"
              \/ /\ task'["loop"].pc = "cancel" /\ task'["loop"].q = n
                 /\ order[quote[n].ord].st # "live" /\ venue[s].units = 0
                 /\ \A S \in Views' : ~Shows(S, s)
<1> USE TaskNames DEF TradeInv
<1>1. /\ task["loop"].pc = "check" /\ At("loop", task["loop"].pc) /\ n \in Quotes
      /\ quote[n] \in Quote /\ s \in Symbols /\ task["loop"].then = "quotes"
      /\ n \notin task["loop"].todo /\ task["loop"].snap = NoSnap
  <2>1. task["loop"].pc = "check" /\ At("loop", task["loop"].pc)
    BY DEF LoopQuoteUnfilled, At
  <2>2. n \in Quotes
    BY <2>1 DEF TypeInv, TaskTyped, Steady
  <2>3. task["loop"].then = "quotes" /\ n \notin task["loop"].todo /\ task["loop"].snap = NoSnap
    BY <2>1 DEF ShapeInv, LoopShape, Phases, Asking
  <2> QED BY <2>1, <2>2, <2>3 DEF TypeInv, QuoteTyped, Quote, SymOf
<1>2. UNCHANGED <<venue, order, bookVars, made>>
  BY DEF LoopQuoteUnfilled, venueVars
<1>3. PICK snap : /\ PositionsCached(snap) /\ snap.pos[s].units = 0
                  /\ \/ UNCHANGED quoteVars
                     \/ order[quote[n].ord].st = "dead" /\ DropEntry(n)
                  /\ \/ Back("loop")
                     \/ /\ order[quote[n].ord].st # "live" /\ snap \in {FreshSnap, NoSnap}
                        /\ Goto("loop", "cancel")
  BY DEF LoopQuoteUnfilled, TradeConditions
<1>4. /\ SameQuotes /\ \A k \in Quotes : k # n => quote'[k] = quote[k]
      /\ quotes'[s] = quotes[s] \/ (quotes'[s] = 0 /\ order[quote[n].ord].st = "dead")
      /\ \A x \in Symbols : x # s => quotes'[x] = quotes[x]
  <2>1. CASE UNCHANGED quoteVars
    BY <2>1 DEF quoteVars, SameQuotes, SameQuote
  <2>2. CASE order[quote[n].ord].st = "dead" /\ DropEntry(n)
    BY <1>1, <2>2 DEF DropEntry, SameQuotes, SameQuote, TypeInv, QuoteTyped, Quote
  <2> QED BY <1>3, <2>1, <2>2
<1>5. \/ ComesBack("loop")
      \/ GoesTo("loop", "cancel", n) /\ order[quote[n].ord].st # "live"
                                     /\ snap \in {FreshSnap, NoSnap}
  BY <1>1, <1>3, BackGoes, GotoGoes
<1>6. /\ Others("loop") /\ task'["loop"].then = task["loop"].then
      /\ task'["loop"].snap = task["loop"].snap /\ task'["loop"].todo = task["loop"].todo
      /\ task'["loop"].pc = "quotes" \/ (task'["loop"].pc = "cancel" /\ task'["loop"].q = n)
  BY <1>1, <1>5 DEF ComesBack, GoesTo
<1>7. Works("loop", n)
  BY <1>1, <1>2, <1>4, <1>6 DEF Works, Entering, Asking, Leaving, SameQuotes, SameQuote
<1>8. Looks /\ \A x \in Symbols : BookKept(x)
  BY <1>2, <1>3, <1>6, SnapLooks
<1>9. ASSUME task'["loop"].pc = "cancel"
      PROVE  /\ order[quote[n].ord].st # "live" /\ venue[s].units = 0
             /\ \A S \in Views' : ~Shows(S, s)
  <2>1. order[quote[n].ord].st # "live" /\ snap \in {FreshSnap, NoSnap}
    BY <1>1, <1>5, <1>9 DEF ComesBack, GoesTo
  <2>2. cache' = snap /\ snap.ok
    BY <1>3, LookSees
  <2>3. snap = FreshSnap /\ venue[s].units = 0
    BY <1>3, <2>1, <2>2 DEF NoSnap, FreshSnap
  <2>4. \A S \in Views' : S \in {FreshSnap, NoSnap}
    BY <1>1, <1>6, <2>2, <2>3 DEF Views
  <2> QED BY <1>1, <2>1, <2>3, <2>4 DEF Shows, FreshSnap, NoSnap, Flat
<1> QED BY <1>1, <1>2, <1>4, <1>6, <1>7, <1>8, <1>9

LEMMA OverKept ==
    ASSUME TradeInv, NEW s \in Symbols, NEW m, VenueOf(s, m), ViewsOf(s, m), Over(s, m),
           OrdersEnd, Looks
    PROVE  Over(s, m)'
<1>1. ~Pending(m)'
  BY DEF Over, OrdersEnd, Pending
<1> QED BY <1>1, LooksShow DEF TradeInv, Over, Looks, Shows

LEMMA LoopQuoteUnfilledEpoch ==
    ASSUME TradeConditions, TradeInv, LoopQuoteUnfilled, NEW s \in Symbols, NEW c, NEW m,
           Epoch(s, c, m)
    PROVE  Epoch(s, c, m)'
<1> USE TaskNames DEF TradeInv
<1>0. PICK n, x : n = task["loop"].q /\ x = SymOf(n)
  OBVIOUS
<1>1. /\ task["loop"].pc = "check" /\ n \in Quotes /\ x \in Symbols /\ Works("loop", n)
      /\ task["loop"].then = "quotes" /\ n \notin task["loop"].todo
      /\ task'["loop"].then = "quotes" /\ task'["loop"].todo = task["loop"].todo
      /\ UNCHANGED order /\ Looks /\ SameQuotes /\ BookKept(s)
      /\ \/ quotes'[x] = quotes[x]
         \/ /\ quotes'[x] = 0 /\ order[quote[n].ord].st = "dead"
      /\ \/ task'["loop"].pc = "quotes"
         \/ /\ task'["loop"].pc = "cancel" /\ task'["loop"].q = n
            /\ order[quote[n].ord].st # "live" /\ venue[x].units = 0
            /\ \A S \in Views' : ~Shows(S, x)
  BY <1>0, LoopQuoteUnfilledWorks
<1>2. CASE x # s
  <2>1. OrdersElse(s)
    BY <1>1 DEF OrdersElse
  <2> QED BY <1>0, <1>1, <1>2, <2>1, WorksElse DEF ShapeInv
<1>3. CASE x = s
  <2>1. On(task["loop"], {"check"}, s)
    BY <1>0, <1>1, <1>3 DEF On
  <2>2. n = c /\ quote[c].st = "acked"
    BY <1>0, <2>1 DEF Epoch, CopyOf
  <2>3. c # 0 /\ c \in Quotes
    BY <1>1, <2>2, BoundsInNat DEF Quotes
  <2>4. m = quote[c].ord /\ m # 0 /\ order[m].st # "sent"
    BY <2>2, <2>3 DEF Epoch, Latest, OrderOf, PendingOf
  <2>5. /\ Others("loop") /\ ~RunsOn("loop") /\ made'.quotes = made.quotes /\ OrdersEnd
        /\ CloseOf(task["loop"], s)'
    BY <1>1 DEF Works, RunsOn, CloseOf, Leaving, OrdersEnd
  <2>6. quotes'[s] = quotes[s] \/ (quotes'[s] = 0 /\ Over(s, m)')
    <3> SUFFICES ASSUME quotes'[s] = 0, order[m].st = "dead" PROVE Over(s, m)'
      BY <1>1, <1>3, <2>2, <2>4
    <3>1. ~FillOf(m, s) /\ ~Pending(m)
      BY DEF FillOf, Pending
    <3>2. Over(s, m)
      BY <3>1, NothingYet DEF Over, ShapeInv
    <3> QED BY <1>1, <2>5, <3>2, OverKept DEF Epoch
  <2>7. CancelOf(task["loop"], s, c, m)'
    <3> SUFFICES ASSUME task'["loop"].pc = "cancel" PROVE Over(s, m)'
      BY <2>4 DEF CancelOf, On
    <3>1. ~Pending(m)'
      BY <1>1, <2>2, <2>4 DEF Pending
    <3> QED BY <1>1, <1>3, <3>1 DEF Over, Looks, Shows
  <2>8. VenueOf(s, m)' /\ ViewsOf(s, m)' /\ PositionOf(s, m)' /\ AgeOf(s)' /\ FreeOf(s, m)'
    BY <1>1, <2>5, <2>6, RestsKept
  <2>9. TodoOf(task["loop"], s, c)'
    BY <1>1, <2>2, <2>5, TodoKept
  <2> QED BY <1>1, <1>3, <2>5, <2>6, <2>7, <2>8, <2>9, LoopRests DEF Entering
<1> QED BY <1>2, <1>3

(* The loop goes from one phase to the next.                               *)
Passes ==
    /\ Others("loop") /\ ~RunsOn("loop") /\ Looks /\ \A s \in Symbols : BookKept(s)
    /\ UNCHANGED <<order, quotes, quote>> /\ made'.quotes = made.quotes
    /\ task'["loop"].pc \notin Entering \cup Asking \cup Leaving

LEMMA PassesEpoch ==
    ASSUME TradeConditions, TradeInv, Passes, NEW s \in Symbols, NEW c, NEW m, Epoch(s, c, m),
           TodoOf(task["loop"], s, c)'
    PROVE  Epoch(s, c, m)'
<1>1. SameQuotes /\ OrdersEnd
  BY DEF Passes, SameQuotes, SameQuote, OrdersEnd
<1>2. CloseOf(task["loop"], s)' /\ CancelOf(task["loop"], s, c, m)'
  BY DEF Passes, CloseOf, CancelOf, On, Asking
<1>3. VenueOf(s, m)' /\ ViewsOf(s, m)' /\ PositionOf(s, m)' /\ AgeOf(s)' /\ FreeOf(s, m)'
  BY <1>1, RestsKept DEF Passes
<1> QED BY <1>1, <1>2, <1>3, LoopRests DEF Passes, Asking

LoopPassing ==
    \/ LoopStart \/ LoopTick \/ LoopSnapshot \/ LoopRecovered \/ LoopTrail \/ LoopKillCheck
    \/ \E o \in Objs : LoopMissing(o)

LEMMA LoopPassingPasses ==
    ASSUME TradeConditions, TradeInv, LoopPassing
    PROVE  Passes /\ task'["loop"].then # "quotes"
<1> USE TaskNames DEF TradeInv
<1>0. task["loop"] \in Task /\ Phases(task["loop"])
  BY DEF TypeInv, TaskTyped, ShapeInv, LoopShape
<1>1. ASSUME NEW pc, At("loop", pc), pc \notin {"tick", "submit", "open", "adopt"}, NEW U,
             task'["loop"] = U \/ task' = [task EXCEPT !["loop"] = U],
             \A u \in Tasks : u # "loop" => task'[u] = task[u],
             U.pc \notin Entering \cup Asking \cup Leaving, U.then # "quotes",
             cache' \in {cache, FreshSnap}, U.snap \in {task["loop"].snap, cache', NoSnap},
             UNCHANGED <<order, venue, quotes, quote, positions>>, made'.quotes = made.quotes,
             UNCHANGED obj
      PROVE  Passes /\ task'["loop"].then # "quotes"
  <2>1. task'["loop"] = U /\ Others("loop") /\ ~RunsOn("loop")
    BY <1>1 DEF Others, At, RunsOn, TypeInv, TaskTyped
  <2> QED BY <1>1, <2>1 DEF Passes, Looks, BookKept
<1>2. CASE LoopStart
  <2>1. cache' \in {cache, FreshSnap}
    BY <1>2, LookSees DEF LoopStart
  <2>2. GoesTo("loop", "idle", task["loop"].q)
    BY <1>2, GotoGoes DEF LoopStart
  <2>3. /\ At("loop", "start") /\ task["loop"].then = "idle"
        /\ UNCHANGED <<order, venue, quotes, quote, positions, made, obj>>
    BY <1>0, <1>2 DEF LoopStart, At, Phases, venueVars, quoteVars, bookVars
  <2> QED BY <1>1, <2>1, <2>2, <2>3 DEF GoesTo, Others, Entering, Asking, Leaving
<1>3. CASE LoopTick
  <2>1. GoesTo("loop", "balance", task["loop"].q)
    BY <1>3, GotoGoes DEF LoopTick
  <2>2. /\ At("loop", "idle") /\ task["loop"].then = "idle"
        /\ UNCHANGED <<order, venue, quotes, quote, positions, made, obj, cache>>
    BY <1>0, <1>3 DEF LoopTick, At, Phases, venueVars, quoteVars, bookVars
  <2> QED BY <1>1, <2>1, <2>2 DEF GoesTo, Others, Entering, Asking, Leaving
<1>4. CASE LoopSnapshot
  <2>1. PICK snap : /\ PositionsCached(snap)
                    /\ task' = [task EXCEPT !["loop"] = [task["loop"] EXCEPT !.pc = "recover",
                          !.then = "recover", !.snap = snap,
                          !.syms = {s \in Symbols : snap.pos[s].units > 0}]]
    BY <1>4 DEF LoopSnapshot
  <2>2. cache' = snap /\ snap \in {cache, FreshSnap}
    BY <2>1, LookSees
  <2> DEFINE U == [task["loop"] EXCEPT !.pc = "recover", !.then = "recover", !.snap = snap,
                          !.syms = {s \in Symbols : snap.pos[s].units > 0}]
  <2>3. U.pc = "recover" /\ U.then = "recover" /\ U.snap = snap
    BY <1>0 DEF Task
  <2>4. task' = [task EXCEPT !["loop"] = U]
    BY <2>1
  <2>5. /\ At("loop", "quotes") /\ UNCHANGED <<order, venue, quotes, quote, positions, made, obj>>
    BY <1>4 DEF LoopSnapshot, venueVars, quoteVars, bookVars
  <2> HIDE DEF U
  <2>6. \A u \in Tasks : u # "loop" => task'[u] = task[u]
    BY <2>4 DEF TypeInv, TaskTyped
  <2> QED BY <1>1, <2>2, <2>3, <2>4, <2>5, <2>6 DEF Entering, Asking, Leaving
<1>5. CASE LoopRecovered
  <2> DEFINE U == [task["loop"] EXCEPT !.pc = "manage", !.then = "manage",
                          !.todo = {positions[s] : s \in Managed}]
  <2>3. U.pc = "manage" /\ U.then = "manage" /\ U.snap = task["loop"].snap
    BY <1>0 DEF Task
  <2>4. /\ task' = [task EXCEPT !["loop"] = U] /\ At("loop", "recover")
        /\ UNCHANGED <<order, venue, quotes, quote, positions, made, obj, cache>>
    BY <1>5 DEF LoopRecovered, ManageAll, venueVars, quoteVars, bookVars
  <2> HIDE DEF U
  <2>6. \A u \in Tasks : u # "loop" => task'[u] = task[u]
    BY <2>4 DEF TypeInv, TaskTyped
  <2> QED BY <1>1, <2>3, <2>4, <2>6 DEF Entering, Asking, Leaving
<1>6. CASE LoopTrail
  <2>1. ComesBack("loop")
    BY <1>6, BackGoes DEF LoopTrail
  <2>2. /\ At("loop", "trail") /\ task["loop"].then = "manage"
        /\ UNCHANGED <<order, venue, quotes, quote, positions, made, obj, cache>>
    BY <1>0, <1>6 DEF LoopTrail, At, Phases, venueVars, quoteVars
  <2> QED BY <1>1, <2>1, <2>2 DEF ComesBack, GoesTo, Others, Entering, Asking, Leaving
<1>7. CASE LoopKillCheck
  <2>1. /\ task' = [task EXCEPT !["loop"] = IdleTask] /\ At("loop", "manage")
        /\ UNCHANGED <<order, venue, quotes, quote, positions, made, obj, cache>>
    BY <1>7 DEF LoopKillCheck, TradeConditions, venueVars, quoteVars, bookVars
  <2>2. IdleTask.pc = "idle" /\ IdleTask.then = "idle" /\ IdleTask.snap = NoSnap
    BY DEF IdleTask
  <2>6. \A u \in Tasks : u # "loop" => task'[u] = task[u]
    BY <2>1 DEF TypeInv, TaskTyped
  <2> QED BY <1>1, <2>1, <2>2, <2>6 DEF Entering, Asking, Leaving
<1>8. ASSUME NEW o \in Objs, LoopMissing(o) PROVE Passes /\ task'["loop"].then # "quotes"
  <2> DEFINE U == [task["loop"] EXCEPT !.pc = "history", !.todo = task["loop"].todo \ {o}, !.o = o]
  <2>3. U.pc = "history" /\ U.then = task["loop"].then /\ U.snap = task["loop"].snap
    BY <1>0 DEF Task
  <2>4. /\ task' = [task EXCEPT !["loop"] = U] /\ At("loop", "manage")
        /\ UNCHANGED <<order, venue, quotes, quote, positions, made, obj, cache>>
    BY <1>8 DEF LoopMissing, venueVars, quoteVars
  <2>5. task["loop"].then = "manage"
    BY <2>4 DEF At, MadeInv, MadeTasks, MadeTask
  <2> HIDE DEF U
  <2>6. \A u \in Tasks : u # "loop" => task'[u] = task[u]
    BY <2>4 DEF TypeInv, TaskTyped
  <2> QED BY <1>1, <2>3, <2>4, <2>5, <2>6 DEF Entering, Asking, Leaving
<1> QED BY <1>2, <1>3, <1>4, <1>5, <1>6, <1>7, <1>8 DEF LoopPassing

LEMMA LoopPassingEpoch ==
    ASSUME TradeConditions, TradeInv, LoopPassing, NEW s \in Symbols, NEW c, NEW m, Epoch(s, c, m)
    PROVE  Epoch(s, c, m)'
<1>1. Passes /\ TodoOf(task["loop"], s, c)'
  BY LoopPassingPasses DEF TodoOf
<1> QED BY <1>1, PassesEpoch

\* The copy of _quotes holds c, if anything, of s.
LEMMA LoopQuotesEpoch ==
    ASSUME TradeConditions, TradeInv, LoopQuotes, NEW s \in Symbols, NEW c, NEW m, Epoch(s, c, m)
    PROVE  Epoch(s, c, m)'
<1> USE TaskNames DEF TradeInv
<1> DEFINE U == [task["loop"] EXCEPT !.pc = "quotes", !.then = "quotes",
                    !.todo = {quotes[x] : x \in Symbols} \ {0}]
<1>1. /\ task["loop"].pc = "balance" /\ At("loop", task["loop"].pc)
      /\ UNCHANGED <<order, venue, quotes, quote, positions, obj, cache, made>>
      /\ task' = [task EXCEPT !["loop"] = U]
  BY DEF LoopQuotes, At, venueVars, quoteVars, bookVars
<1>2. /\ U.pc = "quotes" /\ U.snap = task["loop"].snap
      /\ U.todo = {quotes[x] : x \in Symbols} \ {0}
  BY DEF TypeInv, TaskTyped, Task
<1> HIDE DEF U
<1>3. task'["loop"] = U /\ Others("loop") /\ ~RunsOn("loop")
  BY <1>1 DEF TypeInv, TaskTyped, Others, At, RunsOn
<1>4. Passes
  BY <1>1, <1>2, <1>3 DEF Passes, Looks, BookKept, Entering, Asking, Leaving
<1>5. TodoOf(task["loop"], s, c)'
  <2> SUFFICES ASSUME NEW k \in task'["loop"].todo, SymOf(k)' = s
               PROVE  k = c /\ Current(s, c)'
    BY DEF TodoOf
  <2>1. PICK x \in Symbols : k = quotes[x] /\ quotes[x] # 0
    BY <1>2, <1>3
  <2>2. SymOf(k) = s /\ SymOf(k) = x
    BY <1>1, <2>1 DEF ShapeInv, QuotesMade, SymOf
  <2>3. quotes[s] = c /\ k = c
    BY <2>1, <2>2 DEF Epoch, PendingOf
  <2> QED BY <1>1, <2>3 DEF Current
<1> QED BY <1>4, <1>5, PassesEpoch

\* A quote taken for a recovered position leaves the loop running on with it.
LEMMA LoopRecoverEpoch ==
    ASSUME TradeConditions, TradeInv, NEW x \in Symbols, LoopRecover(x),
           NEW s \in Symbols, NEW c, NEW m, Epoch(s, c, m)
    PROVE  Epoch(s, c, m)'
<1> USE TaskNames DEF TradeInv
<1>1. /\ task["loop"].pc = "recover" /\ At("loop", task["loop"].pc) /\ task["loop"] \in Task
      /\ UNCHANGED <<order, venue, quote, positions, obj, cache, made>>
  BY DEF LoopRecover, RecoverUnless, At, venueVars, quoteVars, bookVars, TypeInv, TaskTyped
<1>2. task["loop"].then = "recover"
  BY <1>1, LoopTask DEF Steady
<1>3. CASE positions[x] # 0
  <2> DEFINE U == [task["loop"] EXCEPT !.syms = task["loop"].syms \ {x}]
  <2>1. U.pc = "recover" /\ U.snap = task["loop"].snap /\ U.then = "recover"
    BY <1>1, <1>2 DEF Task
  <2>2. task' = [task EXCEPT !["loop"] = U] /\ quotes' = quotes
    BY <1>3 DEF LoopRecover, RecoverUnless
  <2> HIDE DEF U
  <2>3. task'["loop"] = U /\ Others("loop") /\ ~RunsOn("loop")
    BY <1>1, <2>2 DEF TypeInv, TaskTyped, Others, At, RunsOn
  <2>4. Passes /\ TodoOf(task["loop"], s, c)'
    BY <1>1, <2>1, <2>2, <2>3 DEF Passes, Looks, BookKept, Entering, Asking, Leaving, TodoOf
  <2> QED BY <2>4, PassesEpoch
<1>4. CASE positions[x] = 0
  <2> DEFINE T == [task["loop"] EXCEPT !.syms = task["loop"].syms \ {x}]
             U == [T EXCEPT !.pc = "adopt", !.q = quotes[x], !.raw = RowOf(T.snap.pos[x])]
  <2>1. /\ U.pc = "adopt" /\ U.snap = task["loop"].snap /\ U.then = "recover"
        /\ U.q = quotes[x]
    BY <1>1, <1>2 DEF Task
  <2>2. task' = [task EXCEPT !["loop"] = U] /\ quotes' = [quotes EXCEPT ![x] = 0]
    BY <1>4 DEF LoopRecover, RecoverUnless
  <2> HIDE DEF U
  <2>3. task'["loop"] = U /\ Others("loop") /\ ~RunsOn("loop")
    BY <1>1, <2>2 DEF TypeInv, TaskTyped, Others, At, RunsOn
  <2>4. quotes'[x] = 0 /\ \A y \in Symbols : y # x => quotes'[y] = quotes[y]
    BY <2>2 DEF TypeInv, QuoteTyped
  <2>5. SameQuotes /\ OrdersEnd /\ Looks /\ BookKept(s)
    BY <1>1, <2>1, <2>3 DEF SameQuotes, SameQuote, OrdersEnd, Looks, BookKept
  <2>6. /\ CloseOf(task["loop"], s)' /\ CancelOf(task["loop"], s, c, m)'
        /\ TodoOf(task["loop"], s, c)' /\ task'["loop"].pc \notin Entering \cup Asking
    BY <2>1, <2>3 DEF CloseOf, CancelOf, TodoOf, On, Leaving, Entering, Asking
  <2>7. VenueOf(s, m)' /\ ViewsOf(s, m)' /\ PositionOf(s, m)' /\ AgeOf(s)' /\ FreeOf(s, m)'
    <3>1. CASE quotes'[s] = quotes[s]
      BY <2>3, <2>5, <3>1, RestsKept
    <3>2. CASE quotes'[s] # quotes[s]
      <4>1. x = s /\ quotes[s] = c /\ c # 0
        BY <2>4, <3>2 DEF Epoch, PendingOf
      <4>2. SymOf(c)' = s
        BY <1>1, <4>1 DEF Epoch, Latest, SymOf
      <4>3. RunsOn("loop")' /\ task'["loop"].q = c
        BY <2>1, <2>3, <4>1 DEF RunsOn, TradeConditions
      <4>4. ~Free(s)'
        BY <4>2, <4>3 DEF Free, Busy
      <4>5. VenueOf(s, m)' /\ ViewsOf(s, m)' /\ AgeOf(s)'
        BY <2>5, LooksShow, KeptAge DEF Epoch
      <4>6. PositionOf(s, m)'
        BY <2>5, KeptPosition DEF Epoch, PositionOf
      <4> QED BY <4>4, <4>5, <4>6 DEF FreeOf
    <3> QED BY <3>1, <3>2
  <2> QED BY <1>1, <2>3, <2>4, <2>5, <2>6, <2>7, LoopRests DEF Asking
<1> QED BY <1>3, <1>4
===============================================================================
