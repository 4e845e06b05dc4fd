-------------------------- MODULE RealExecutorProofs --------------------------
(***************************************************************************)
(* Theorems about RealExecutor, for every value of its constants: types,   *)
(* the trade ledger, the flags of a stop.                                  *)
(*                                                                         *)
(* The state is typed in five groups of variables (venue, quotes, book,    *)
(* control, tasks); TypeInv adds to the types what makes them inductive:   *)
(* which locals a task has at which point of the code.                     *)
(***************************************************************************)
EXTENDS RealExecutor, FiniteSetTheorems, TLAPS

(***************************************************************************)
(* The inductive type invariant.                                           *)
(***************************************************************************)
PidsOK(pos) == \A s \in Symbols : pos[s].units > 0 => pos[s].pid \in Orders

VenueTyped ==
    /\ order \in [Orders -> Order]
    /\ venue \in [Symbols -> Position]
    /\ hist \subseteq Orders
    /\ PidsOK(venue)

QuoteTyped ==
    /\ quotes \in [Symbols -> 0..MaxQuotes]
    /\ quote \in [Quotes -> Quote]

BookTyped ==
    /\ positions \in [Symbols -> 0..MaxObjs]
    /\ obj \in [Objs -> Object]
    /\ closedKeys \subseteq CloseKeys
    /\ missing \in [Symbols -> 0..1]
    /\ store \in [Symbols -> Record]

CacheTyped == cache \in Snapshot /\ PidsOK(cache.pos)

ControlTyped ==
    /\ attach \subseteq Symbols \X Orders
    /\ ctl \in Ctl
    /\ made \in [quotes : 0..MaxQuotes, orders : 0..MaxOrders, objs : 0..MaxObjs]
    /\ faults \in 0..MaxFaults
    /\ ops \in 0..MaxOps

\* The locals that the task T has at its point of the code.
Steady(T) ==
    /\ T.pc \in {"tick", "submit", "ack", "find", "open", "check", "cancel"}
         => T.q \in Quotes
    /\ T.pc \in {"close", "closing", "resolve", "trail", "history"}
         => T.o \in Objs
    /\ T.pc \in {"close", "flatcancel", "flatsnap", "flatclose"}
         => T.left > 0
    /\ T.then = "recover" <=> T.pc \in {"recover", "adopt"}
    /\ T.pc = "adopt" => T.raw.pid \in Orders
    /\ T.then = "recover" => \A s \in T.syms : T.snap.pos[s].pid \in Orders

TaskTyped ==
    /\ task \in [Tasks -> Task]
    /\ \A t \in Tasks : Steady(task[t])

\* A task that awaits the acknowledgement of an order has sent one.
AcksOrdered ==
    \A t \in Tasks : task[t].pc = "ack" => quote[task[t].q].ord \in Orders

TypeInv == /\ VenueTyped /\ QuoteTyped /\ BookTyped /\ CacheTyped
           /\ ControlTyped /\ TaskTyped /\ AcksOrdered

LEMMA TypeInvTypes == TypeInv => TypeOK
BY DEF TypeInv, TypeOK, VenueTyped, QuoteTyped, BookTyped, CacheTyped,
       ControlTyped, TaskTyped

(***************************************************************************)
(* The bounds and the empty records.                                       *)
(***************************************************************************)
LEMMA BoundsInNat ==
    /\ MaxQuotes \in Nat /\ MaxOrders \in Nat /\ MaxObjs \in Nat
    /\ MaxFaults \in Nat /\ MaxOps \in Nat /\ Retries \in Nat \ {0}
BY ConstantsOK DEF ConstantsOK

LEMMA ZeroInRange ==
    /\ 0 \in 0..MaxQuotes /\ 0 \in 0..MaxOrders /\ 0 \in 0..MaxObjs
    /\ 0 \in 0..MaxFaults /\ 0 \in 0..MaxOps
BY BoundsInNat

LEMMA AnySymbolTyped == AnySymbol \in Symbols
BY ConstantsOK DEF ConstantsOK, AnySymbol

LEMMA EmptyPositions ==
    Flat \in Position /\ NoRaw \in RawRow /\ NoSnap \in Snapshot /\ PidsOK(NoSnap.pos)
BY ZeroInRange DEF Flat, Position, NoRaw, RawRow, NoSnap, Snapshot, PidsOK

LEMMA EmptyRecords ==
    NoOrder \in Order /\ NoQuote \in Quote /\ NoRecord \in Record /\ NoObj \in Object
BY ZeroInRange, AnySymbolTyped, EmptyPositions
   DEF NoOrder, Order, NoQuote, Quote, NoRecord, Record, NoObj, Object, NoKey

LEMMA IdleTaskTyped ==
    /\ IdleTask \in Task /\ Steady(IdleTask)
    /\ \A x \in {"start"} : /\ [IdleTask EXCEPT !.pc = x] \in Task
                            /\ Steady([IdleTask EXCEPT !.pc = x])
BY ZeroInRange, EmptyPositions DEF IdleTask, Task, Steady, Pcs

THEOREM TypeInvInit == Init => TypeInv
<1> SUFFICES ASSUME Init PROVE TypeInv
  OBVIOUS
<1> USE ZeroInRange, EmptyPositions, EmptyRecords, IdleTaskTyped
<1>1. VenueTyped
  BY DEF Init, VenueTyped, PidsOK, Flat
<1>2. QuoteTyped /\ BookTyped
  BY DEF Init, QuoteTyped, BookTyped
<1>3. CacheTyped /\ ControlTyped
  BY DEF Init, CacheTyped, ControlTyped, Ctl
<1>4. TaskTyped
  BY DEF Init, TaskTyped
<1>5. AcksOrdered
  BY DEF Init, AcksOrdered, IdleTask
<1> QED BY <1>1, <1>2, <1>3, <1>4, <1>5 DEF TypeInv

(***************************************************************************)
(* What the helpers do to the types.                                       *)
(***************************************************************************)
\* No quote forgets its order.
OrdersKept == \A n \in Quotes : quote[n].ord \in Orders => quote'[n].ord \in Orders

LEMMA TakesCloseTyped ==
    ASSUME VenueTyped, NEW s \in Symbols, NEW pid, NEW vol \in Nat,
           VenueTakesClose(s, pid, vol)
    PROVE  VenueTyped'
<1>1. venue[s] \in Position /\ venue[s].pid \in Orders
  BY DEF VenueTyped, VenueTakesClose, PidsOK
<1>2. CASE vol >= venue[s].units
  <2>1. venue' = [venue EXCEPT ![s] = Flat] /\ hist' = hist \cup {venue[s].pid}
    BY <1>2 DEF VenueTakesClose
  <2> QED BY <1>1, <2>1, EmptyPositions
          DEF VenueTyped, VenueTakesClose, PidsOK, Flat
<1>3. CASE ~(vol >= venue[s].units)
  <2>1. venue[s].units - vol \in Nat
    BY <1>1, <1>3 DEF Position
  <2>2. venue' = [venue EXCEPT ![s].units = @ - vol] /\ UNCHANGED <<hist, order>>
    BY <1>3 DEF VenueTakesClose
  <2> QED BY <1>1, <2>1, <2>2 DEF VenueTyped, PidsOK, Position
<1> QED BY <1>2, <1>3

LEMMA CancelOrdersTyped ==
    ASSUME VenueTyped, NEW s, CancelOrders(s), UNCHANGED <<venue, hist>>
    PROVE  VenueTyped'
<1>1. order' \in [Orders -> Order]
  BY DEF VenueTyped, CancelOrders, Order
<1> QED BY <1>1 DEF VenueTyped, PidsOK

LEMMA FaultTyped ==
    ASSUME ControlTyped, NEW k, Fault(k)
    PROVE  faults' \in 0..MaxFaults
BY BoundsInNat DEF ControlTyped, Fault

LEMMA FreshSnapTyped ==
    ASSUME VenueTyped, ControlTyped
    PROVE  FreshSnap \in Snapshot /\ PidsOK(FreshSnap.pos)
BY DEF VenueTyped, ControlTyped, FreshSnap, Snapshot

LEMMA SnapTyped ==
    ASSUME VenueTyped, CacheTyped, ControlTyped, NEW snap,
           PositionsCached(snap) \/ PositionsForced(snap)
    PROVE  /\ snap \in Snapshot /\ PidsOK(snap.pos)
           /\ CacheTyped' /\ faults' \in 0..MaxFaults
<1>1. CASE Fetched(snap)
  BY <1>1, FreshSnapTyped DEF Fetched, CacheTyped, ControlTyped, PidsOK
<1>2. CASE CacheHit(snap)
  BY <1>2 DEF CacheHit, CacheTyped, ControlTyped, PidsOK
<1>3. CASE FetchFails(snap)
  BY <1>3, FaultTyped, EmptyPositions DEF FetchFails, CacheTyped, PidsOK
<1>4. CASE Fault("fetch") /\ snap = cache /\ UNCHANGED cache
  BY <1>4, FaultTyped DEF CacheTyped, PidsOK
<1> QED BY <1>1, <1>2, <1>3, <1>4 DEF PositionsCached, PositionsForced

(* One task moves, the others stay.                                        *)
LEMMA MoveTyped ==
    ASSUME TaskTyped, AcksOrdered, OrdersKept, NEW t \in Tasks, NEW T \in Task,
           Steady(T), T.pc = "ack" => quote'[T.q].ord \in Orders,
           task' = [task EXCEPT ![t] = T]
    PROVE  TaskTyped' /\ AcksOrdered'
<1>1. task' \in [Tasks -> Task] /\ task'[t] = T
  BY DEF TaskTyped
<1>2. \A u \in Tasks : u # t => task'[u] = task[u]
  BY DEF TaskTyped
<1>3. TaskTyped'
  BY <1>1, <1>2 DEF TaskTyped, Steady
<1>4. ASSUME NEW u \in Tasks, task'[u].pc = "ack"
      PROVE  quote'[task'[u].q].ord \in Orders
  <2>1. CASE u = t
    BY <2>1, <1>1, <1>4
  <2>2. CASE u # t
    BY <2>2, <1>2, <1>4 DEF TaskTyped, Steady, AcksOrdered, OrdersKept
  <2> QED BY <2>1, <2>2
<1> QED BY <1>3, <1>4 DEF AcksOrdered

LEMMA StayTyped ==
    ASSUME TaskTyped, AcksOrdered, OrdersKept, UNCHANGED task
    PROVE  TaskTyped' /\ AcksOrdered'
<1>1. TaskTyped'
  BY DEF TaskTyped, Steady
<1> QED BY <1>1 DEF TaskTyped, Steady, AcksOrdered, OrdersKept

LEMMA SetPc ==
    ASSUME task \in [Tasks -> Task], NEW t \in Tasks, NEW pc, Goto(t, pc)
    PROVE  task' = [task EXCEPT ![t] = [task[t] EXCEPT !.pc = pc]]
BY DEF Goto, Task

LEMMA ReturnTyped ==
    ASSUME NEW T \in Task, Steady(T)
    PROVE  Return(T) \in Task /\ Steady(Return(T)) /\ Return(T).pc # "ack"
<1>1. T.then \in Pcs
  BY DEF Task, Pcs
<1>2. Return(T) \in Task
  BY <1>1, ZeroInRange, EmptyPositions DEF Task, Return
<1> QED BY <1>2 DEF Steady, Return, Task

LEMMA BackTyped ==
    ASSUME TaskTyped, AcksOrdered, OrdersKept, NEW t \in Tasks, Back(t)
    PROVE  TaskTyped' /\ AcksOrdered'
<1>1. task[t] \in Task /\ Steady(task[t])
  BY DEF TaskTyped
<1>2. task' = [task EXCEPT ![t] = Return(task[t])]
  BY DEF Back
<1> QED BY <1>1, <1>2, ReturnTyped, MoveTyped

(* Quotes.                                                                 *)
LEMMA QuoteSet ==
    ASSUME QuoteTyped, NEW n \in Quotes, NEW q \in Quote,
           quote' = [quote EXCEPT ![n] = q], quote[n].ord \in Orders => q.ord \in Orders
    PROVE  quote' \in [Quotes -> Quote] /\ OrdersKept
BY DEF QuoteTyped, OrdersKept

LEMMA QuotesSet ==
    ASSUME QuoteTyped, NEW s, NEW n \in 0..MaxQuotes,
           quotes' = [quotes EXCEPT ![s] = n]
    PROVE  quotes' \in [Symbols -> 0..MaxQuotes]
BY DEF QuoteTyped

LEMMA QuoteKept ==
    ASSUME QuoteTyped, UNCHANGED quote
    PROVE  quote' \in [Quotes -> Quote] /\ OrdersKept
BY DEF QuoteTyped, OrdersKept

LEMMA Frames ==
    /\ VenueTyped /\ UNCHANGED venueVars => VenueTyped'
    /\ QuoteTyped /\ UNCHANGED quoteVars => QuoteTyped' /\ OrdersKept
    /\ BookTyped /\ UNCHANGED bookVars => BookTyped'
    /\ CacheTyped /\ UNCHANGED cache => CacheTyped'
    /\ ControlTyped /\ UNCHANGED <<attach, ctl, made, faults, ops>> => ControlTyped'
<1>1. VenueTyped /\ UNCHANGED venueVars => VenueTyped'
  BY DEF VenueTyped, venueVars, PidsOK
<1>2. QuoteTyped /\ UNCHANGED quoteVars => QuoteTyped' /\ OrdersKept
  BY DEF QuoteTyped, quoteVars, OrdersKept
<1>3. BookTyped /\ UNCHANGED bookVars => BookTyped'
  BY DEF BookTyped, bookVars
<1>4. CacheTyped /\ UNCHANGED cache => CacheTyped'
  BY DEF CacheTyped, PidsOK
<1>5. ControlTyped /\ UNCHANGED <<attach, ctl, made, faults, ops>> => ControlTyped'
  BY DEF ControlTyped
<1> QED BY <1>1, <1>2, <1>3, <1>4, <1>5

(***************************************************************************)
(* The environment.                                                        *)
(***************************************************************************)
LEMMA EnvironmentTyped == TypeInv /\ Environment => TypeInv'
<1> SUFFICES ASSUME TypeInv, Environment PROVE TypeInv'
  OBVIOUS
<1> USE DEF TypeInv
<1>1. ASSUME NEW m \in Orders, VenueAccept(m) \/ VenueExpire(m) PROVE TypeInv'
  <2>1. VenueTyped'
    BY <1>1 DEF VenueAccept, VenueExpire, VenueTyped, PidsOK, Order
  <2> QED BY <1>1, <2>1, Frames, StayTyped DEF VenueAccept, VenueExpire
<1>2. ASSUME NEW m \in Orders, VenueFill(m) PROVE TypeInv'
  <2> DEFINE s == order[m].sym
             pid == IF venue[s].units = 0 THEN m ELSE venue[s].pid
  <2>1. s \in Symbols /\ venue[s] \in Position
    BY DEF VenueTyped, Order
  <2>2. pid \in Orders /\ pid \in 0..MaxOrders
    BY <2>1, BoundsInNat DEF VenueTyped, PidsOK, Position, Orders
  <2>3. venue' = [venue EXCEPT ![s] = [pid |-> pid, units |-> venue[s].units + 1]]
    BY <1>2 DEF VenueFill
  <2>4. [pid |-> pid, units |-> venue[s].units + 1] \in Position
    BY <2>1, <2>2 DEF Position
  <2>5. venue' \in [Symbols -> Position] /\ PidsOK(venue')
    BY <2>1, <2>2, <2>3, <2>4 DEF VenueTyped, PidsOK
  <2>6. order' \in [Orders -> Order]
    BY <1>2, <2>2 DEF VenueFill, VenueTyped, Order
  <2>7. VenueTyped'
    BY <1>2, <2>5, <2>6 DEF VenueFill, VenueTyped, PidsOK
  <2> QED BY <1>2, <2>7, Frames, StayTyped DEF VenueFill
<1>3. ASSUME NEW s \in Symbols, VenueClose(s) PROVE TypeInv'
  <2>1. venue[s].units \in Nat
    BY DEF VenueTyped, Position
  <2>2. VenueTyped'
    BY <1>3, <2>1, TakesCloseTyped DEF VenueClose
  <2> QED BY <1>3, <2>2, Frames, StayTyped DEF VenueClose
<1>4. ASSUME NEW s \in Symbols, NEW pid \in Orders, AttachDone(s, pid) PROVE TypeInv'
  <2>1. pid \in 0..MaxOrders
    BY BoundsInNat DEF Orders
  <2>2. PICK placed \in BOOLEAN :
          IF placed /\ positions[s] # 0 /\ ~obj[positions[s]].closed
          THEN /\ obj' = [obj EXCEPT ![positions[s]].pid = pid]
               /\ store' = [store EXCEPT ![s] = [pid |-> pid, closed |-> FALSE, kept |-> TRUE]]
          ELSE UNCHANGED <<obj, store>>
    BY <1>4 DEF AttachDone
  <2>3. obj' \in [Objs -> Object]
    BY <2>1, <2>2 DEF BookTyped, Object
  <2>4. store' \in [Symbols -> Record]
    <3>1. [pid |-> pid, closed |-> FALSE, kept |-> TRUE] \in Record
      BY <2>1 DEF Record
    <3> QED BY <2>2, <3>1 DEF BookTyped
  <2>5. BookTyped' /\ ControlTyped'
    BY <1>4, <2>3, <2>4 DEF AttachDone, BookTyped, ControlTyped
  <2> QED BY <1>4, <2>5, Frames, StayTyped DEF AttachDone
<1> QED BY <1>1, <1>2, <1>3, <1>4 DEF Environment

(***************************************************************************)
(* Entry.                                                                  *)
(***************************************************************************)
LEMMA DecideTyped ==
    ASSUME TypeInv, NEW s \in Symbols, Decide(s) PROVE TypeInv'
<1> USE DEF TypeInv
<1> DEFINE n == made.quotes + 1
           q == [quote[n] EXCEPT !.sym = s]
           T == [task["sig"] EXCEPT !.pc = "tick", !.q = n]
<1>1. /\ task["sig"].pc = "idle" /\ made.quotes < MaxQuotes
      /\ made' = [made EXCEPT !.quotes = n]
      /\ quote' = [quote EXCEPT ![n].sym = s]
      /\ task' = [task EXCEPT !["sig"] = T]
      /\ UNCHANGED <<venueVars, quotes, bookVars, cache, attach, ctl, faults, ops>>
  BY DEF Decide, DecideIf, At
<1>2. n \in Quotes /\ n \in 0..MaxQuotes
  BY <1>1, BoundsInNat DEF ControlTyped, Quotes
<1>3. q \in Quote /\ q.ord = quote[n].ord
  BY <1>2 DEF QuoteTyped, Quote
<1>4. quote' = [quote EXCEPT ![n] = q]
  BY <1>1
<1>5. QuoteTyped' /\ OrdersKept
  BY <1>1, <1>2, <1>3, <1>4, QuoteSet DEF QuoteTyped
<1>6. ControlTyped'
  BY <1>1, <1>2 DEF ControlTyped
<1>7. "sig" \in Tasks /\ task["sig"] \in Task /\ Steady(task["sig"])
  BY DEF TaskTyped, Tasks
<1>8. T \in Task /\ Steady(T) /\ T.pc # "ack"
  BY <1>1, <1>2, <1>7 DEF Task, Steady, Pcs
<1>9. TaskTyped' /\ AcksOrdered'
  BY <1>1, <1>5, <1>7, <1>8, MoveTyped
<1> QED BY <1>1, <1>5, <1>6, <1>9, Frames

LEMMA AstrayBoolean ==
    ASSUME NEW n, NEW k, NEW fine PROVE Astray(n, k, fine) \in BOOLEAN
BY DEF Astray

LEMMA SubmitHeadTyped ==
    ASSUME TypeInv, NEW t \in Tasks, NEW n \in Quotes,
           NEW armed \in [Symbols -> 0..MaxQuotes], NEW T \in Task, Steady(T),
           T.then # "recover", SubmitHead(t, n, armed, T)
    PROVE  TypeInv'
<1> USE DEF TypeInv
<1>1. quotes' \in [Symbols -> 0..MaxQuotes]
  <2>1. quotes' = armed \/ quotes' = [armed EXCEPT ![SymOf(n)] = 0]
    BY DEF SubmitHead, SubmitIf
  <2> QED BY <2>1, ZeroInRange
<1>2. PICK st \in {"armed", "inflight"}, b \in BOOLEAN :
        quote' = [quote EXCEPT ![n] = [quote[n] EXCEPT !.st = st, !.stray = b]]
  <2> DEFINE k == armed[SymOf(n)]
             Q(st, fine) == [quote EXCEPT ![n] = [quote[n] EXCEPT !.st = st,
                                !.stray = Astray(n, k, fine)]]
  <2>1. \/ quote' = Q("armed", {0, n}) \/ quote' = Q("armed", {k})
        \/ quote' = Q("inflight", {n})
    BY DEF SubmitHead, SubmitIf
  <2>2. \E st \in {"armed", "inflight"} : \E fine : quote' = Q(st, fine)
    <3> HIDE DEF Q, k
    <3> QED BY <2>1
  <2>3. PICK st \in {"armed", "inflight"} : \E fine : quote' = Q(st, fine)
    BY <2>2
  <2>4. PICK fine : quote' = Q(st, fine)
    BY <2>3
  <2>5. Astray(n, k, fine) \in BOOLEAN
    BY AstrayBoolean
  <2> QED BY <2>4, <2>5
<1>3. /\ [quote[n] EXCEPT !.st = st, !.stray = b] \in Quote
      /\ [quote[n] EXCEPT !.st = st, !.stray = b].ord = quote[n].ord
  BY DEF QuoteTyped, Quote
<1>4. QuoteTyped' /\ OrdersKept
  BY <1>1, <1>2, <1>3, QuoteSet DEF QuoteTyped
<1>5. [T EXCEPT !.pc = "submit", !.q = n] \in Task
  <2>1. n \in 0..MaxQuotes
    BY BoundsInNat DEF Quotes
  <2> QED BY <2>1 DEF Task, Pcs
<1>6. /\ Steady([T EXCEPT !.pc = "submit", !.q = n])
      /\ [T EXCEPT !.pc = "submit", !.q = n].pc # "ack"
  BY DEF Steady, Task
<1>7. \/ task' = [task EXCEPT ![t] = Return(T)]
      \/ task' = [task EXCEPT ![t] = [T EXCEPT !.pc = "submit", !.q = n]]
  BY DEF SubmitHead, SubmitIf
<1>8. TaskTyped' /\ AcksOrdered'
  BY <1>4, <1>5, <1>6, <1>7, ReturnTyped, MoveTyped
<1> QED BY <1>4, <1>8, Frames DEF SubmitHead, SubmitIf

LEMMA ArmTakerTyped ==
    ASSUME TypeInv, ArmTaker PROVE TypeInv'
<1> USE DEF TypeInv
<1> DEFINE n == task["sig"].q
           armed == [quotes EXCEPT ![SymOf(n)] = n]
<1>1. "sig" \in Tasks /\ task["sig"] \in Task /\ Steady(task["sig"])
  BY DEF TaskTyped, Tasks
<1>2. /\ task["sig"].pc = "tick"
      /\ SubmitHead("sig", n, armed, task["sig"])
  BY DEF ArmTaker, At
<1>3. n \in Quotes /\ n \in 0..MaxQuotes /\ task["sig"].then # "recover"
  BY <1>1, <1>2, BoundsInNat DEF Steady, Quotes
<1>4. armed \in [Symbols -> 0..MaxQuotes]
  BY <1>3 DEF QuoteTyped
<1> QED BY <1>1, <1>2, <1>3, <1>4, SubmitHeadTyped

\* A quote leaves _quotes and its task goes back.
LEMMA DropTyped ==
    ASSUME TypeInv, NEW t \in Tasks, NEW n \in Quotes, Drop(t, n)
    PROVE  QuoteTyped' /\ TaskTyped' /\ AcksOrdered'
<1> USE DEF TypeInv
<1>1. /\ [quote[n] EXCEPT !.st = "armed"] \in Quote
      /\ [quote[n] EXCEPT !.st = "armed"].ord = quote[n].ord
  BY DEF QuoteTyped, Quote
<1>2. quotes' \in [Symbols -> 0..MaxQuotes]
  BY ZeroInRange DEF Drop, QuoteTyped
<1>3. QuoteTyped' /\ OrdersKept
  BY <1>1, <1>2, QuoteSet DEF Drop, QuoteTyped
<1> QED BY <1>3, BackTyped DEF Drop

LEMMA SubmitRefusedTyped ==
    ASSUME TypeInv, NEW t \in Tasks, SubmitRefused(t) PROVE TypeInv'
<1>1. task[t].q \in Quotes
  BY DEF SubmitRefused, At, TypeInv, TaskTyped, Steady
<1> QED BY <1>1, DropTyped, Frames DEF SubmitRefused, TypeInv

LEMMA SendTyped ==
    ASSUME TypeInv, NEW t \in Tasks, Send(t) PROVE TypeInv'
<1> USE DEF TypeInv
<1> DEFINE n == task[t].q
           m == made.orders + 1
           q == [quote[n] EXCEPT !.ord = m]
           T == [task[t] EXCEPT !.pc = "ack"]
<1>1. /\ task[t].pc \in {"submit", "tick"} /\ made.orders < MaxOrders
      /\ made' = [made EXCEPT !.orders = m]
      /\ quote' = [quote EXCEPT ![n].ord = m]
      /\ order' = [order EXCEPT ![m] = [sym |-> SymOf(n), st |-> "sent", pid |-> 0]]
      /\ Goto(t, "ack")
      /\ UNCHANGED <<venue, hist, quotes, bookVars, cache, attach, ctl, faults, ops>>
  BY DEF Send, At
<1>2. task[t] \in Task /\ Steady(task[t]) /\ n \in Quotes
  BY <1>1 DEF TaskTyped, Steady
<1>3. m \in Orders /\ m \in 0..MaxOrders
  BY <1>1, BoundsInNat DEF ControlTyped, Orders
<1>4. q \in Quote /\ q.ord = m /\ SymOf(n) \in Symbols
  BY <1>2, <1>3 DEF QuoteTyped, Quote, SymOf
<1>5. quote' = [quote EXCEPT ![n] = q]
  BY <1>1
<1>6. QuoteTyped' /\ OrdersKept
  BY <1>1, <1>2, <1>3, <1>4, <1>5, QuoteSet DEF QuoteTyped
<1>7. [sym |-> SymOf(n), st |-> "sent", pid |-> 0] \in Order
  BY <1>4, ZeroInRange DEF Order
<1>8. VenueTyped'
  BY <1>1, <1>7 DEF VenueTyped, PidsOK
<1>9. ControlTyped'
  BY <1>1, <1>3 DEF ControlTyped
<1>10. T \in Task /\ T.q = n
  BY <1>2 DEF Task, Pcs
<1>11. Steady(T)
  BY <1>1, <1>2 DEF Task, Steady
<1>12. quote'[T.q].ord \in Orders
  BY <1>2, <1>3, <1>4, <1>5, <1>10 DEF QuoteTyped
<1>13. task' = [task EXCEPT ![t] = T]
  BY <1>1, SetPc DEF TaskTyped
<1>14. TaskTyped' /\ AcksOrdered'
  BY <1>6, <1>10, <1>11, <1>12, <1>13, MoveTyped
<1> QED BY <1>1, <1>6, <1>8, <1>9, <1>14, Frames

LEMMA NotAckedTyped ==
    ASSUME TypeInv, NEW t \in Tasks, NotAcked(t) PROVE TypeInv'
<1> USE DEF TypeInv
<1>1. task[t].q \in Quotes
  BY DEF NotAcked, At, TaskTyped, Steady
<1>2. VenueTyped'
  BY DEF NotAcked, VenueTyped, PidsOK, Order
<1>3. ControlTyped'
  BY FaultTyped DEF NotAcked, ControlTyped
<1>4. QuoteTyped' /\ TaskTyped' /\ AcksOrdered'
  <2>1. CASE TakerEntry
    BY <1>1, <2>1, DropTyped DEF NotAcked
  <2>2. CASE ~TakerEntry
    BY <2>2, Frames, BackTyped DEF NotAcked
  <2> QED BY <2>1, <2>2
<1> QED BY <1>2, <1>3, <1>4, Frames DEF NotAcked

LEMMA AckMakerTyped ==
    ASSUME TypeInv, AckMaker PROVE TypeInv'
<1> USE DEF TypeInv
<1> DEFINE n == task["sig"].q
           q == [quote[n] EXCEPT !.st = "acked"]
<1>1. "sig" \in Tasks /\ n \in Quotes /\ n \in 0..MaxQuotes
  BY BoundsInNat DEF AckMaker, At, TaskTyped, Steady, Tasks, Quotes
<1>2. q \in Quote /\ q.ord = quote[n].ord
  BY <1>1 DEF QuoteTyped, Quote
<1>3. quotes' \in [Symbols -> 0..MaxQuotes] /\ quote' = [quote EXCEPT ![n] = q]
  BY <1>1 DEF AckMaker, QuoteTyped
<1>4. QuoteTyped' /\ OrdersKept
  BY <1>1, <1>2, <1>3, QuoteSet DEF QuoteTyped
<1> QED BY <1>1, <1>4, BackTyped, Frames DEF AckMaker

(***************************************************************************)
(* From a fill to a managed position.                                      *)
(***************************************************************************)
LEMMA OpenFromTyped ==
    ASSUME TypeInv, NEW t \in Tasks, NEW n \in Quotes, NEW row \in RawRow,
           NEW q \in Quote, q.ord = quote[n].ord, task[t].then # "recover",
           OpenFrom(t, n, row, q)
    PROVE  QuoteTyped' /\ TaskTyped' /\ AcksOrdered'
<1> USE DEF TypeInv
<1> DEFINE T == [task[t] EXCEPT !.pc = "open", !.q = n, !.raw = row]
<1>1. PICK b \in BOOLEAN : quote' = [quote EXCEPT ![n] = [q EXCEPT !.mat = b]]
  BY DEF OpenFrom
<1>2. [q EXCEPT !.mat = b] \in Quote /\ [q EXCEPT !.mat = b].ord = q.ord
  BY DEF Quote
<1>3. quotes' \in [Symbols -> 0..MaxQuotes]
  BY ZeroInRange DEF OpenFrom, QuoteTyped
<1>4. QuoteTyped' /\ OrdersKept
  BY <1>1, <1>2, <1>3, QuoteSet DEF QuoteTyped
<1>5. task[t] \in Task /\ Steady(task[t]) /\ n \in 0..MaxQuotes
  BY BoundsInNat DEF TaskTyped, Quotes
<1>6. T \in Task
  BY <1>5 DEF Task, Pcs
<1>7. Steady(T) /\ T.pc # "ack"
  BY <1>5 DEF Steady, Task
<1>8. task' = [task EXCEPT ![t] = Return(task[t])] \/ task' = [task EXCEPT ![t] = T]
  BY DEF OpenFrom
<1>9. TaskTyped' /\ AcksOrdered'
  BY <1>4, <1>5, <1>6, <1>7, <1>8, ReturnTyped, MoveTyped
<1> QED BY <1>4, <1>9

LEMMA AckTakerTyped ==
    ASSUME TypeInv, NEW t \in Tasks, AckTaker(t) PROVE TypeInv'
<1> USE DEF TypeInv
<1> DEFINE n == task[t].q
           Q(row) == [quote[n] EXCEPT !.st = "acked", !.syn = row]
           T == [task[t] EXCEPT !.pc = "find"]
<1>1. /\ task[t].pc = "ack"
      /\ UNCHANGED <<venueVars, bookVars, cache, attach, ctl, made, faults, ops>>
  BY DEF AckTaker, At
<1>2. PICK row \in SyntheticRows(quote[n].ord) :
        IF row # NoRaw
        THEN OpenFrom(t, n, row, Q(row))
        ELSE /\ quote' = [quote EXCEPT ![n] = [Q(row) EXCEPT !.mat = TRUE]]
             /\ Goto(t, "find")
             /\ UNCHANGED quotes
  BY DEF AckTaker
<1>3. task[t] \in Task /\ Steady(task[t]) /\ n \in Quotes /\ quote[n].ord \in Orders
  BY <1>1 DEF TaskTyped, Steady, AcksOrdered
<1>4. row \in RawRow
  <2>1. CASE row = NoRaw
    BY <2>1, EmptyPositions
  <2>2. CASE row # NoRaw
    <3>1. row = [pid |-> IF FillCarriesPid THEN order[quote[n].ord].pid ELSE 0,
                 truth |-> order[quote[n].ord].pid, units |-> 1]
      BY <2>2 DEF SyntheticRows
    <3>2. order[quote[n].ord].pid \in 0..MaxOrders
      BY <1>3 DEF VenueTyped, Order
    <3> QED BY <3>1, <3>2, ZeroInRange DEF RawRow
  <2> QED BY <2>1, <2>2
<1>5. Q(row) \in Quote /\ Q(row).ord = quote[n].ord
  BY <1>3, <1>4 DEF QuoteTyped, Quote
<1>6. task[t].then # "recover"
  BY <1>1, <1>3 DEF Steady
<1>7. CASE row # NoRaw
  BY <1>1, <1>2, <1>3, <1>4, <1>5, <1>6, <1>7, OpenFromTyped, Frames
<1>8. CASE row = NoRaw
  <2>1. quote' = [quote EXCEPT ![n] = [Q(row) EXCEPT !.mat = TRUE]]
        /\ Goto(t, "find") /\ UNCHANGED quotes
    BY <1>2, <1>8
  <2>2. [Q(row) EXCEPT !.mat = TRUE] \in Quote
        /\ [Q(row) EXCEPT !.mat = TRUE].ord = quote[n].ord
    BY <1>5 DEF Quote
  <2>3. QuoteTyped' /\ OrdersKept
    BY <1>3, <2>1, <2>2, QuoteSet DEF QuoteTyped
  <2>4. T \in Task /\ Steady(T) /\ T.pc # "ack"
    BY <1>1, <1>3 DEF Task, Pcs, Steady
  <2>5. task' = [task EXCEPT ![t] = T]
    BY <2>1, SetPc DEF TaskTyped
  <2>6. TaskTyped' /\ AcksOrdered'
    BY <2>3, <2>4, <2>5, MoveTyped
  <2> QED BY <1>1, <2>3, <2>6, Frames
<1> QED BY <1>7, <1>8

LEMMA RowOfTyped ==
    ASSUME NEW snap \in Snapshot, NEW s \in Symbols
    PROVE  RowOf(snap.pos[s]) \in RawRow
BY DEF Snapshot, Position, RowOf, RawRow

LEMMA FindTyped ==
    ASSUME TypeInv, NEW t \in Tasks, Find(t) PROVE TypeInv'
<1> USE DEF TypeInv
<1> DEFINE n == task[t].q
           s == SymOf(n)
           q == [quote[n] EXCEPT !.mat = FALSE]
<1>1. /\ task[t].pc = "find"
      /\ UNCHANGED <<venueVars, bookVars, attach, ctl, made, ops>>
  BY DEF Find, At
<1>2. PICK snap \in Snaps :
        /\ PositionsCached(snap)
        /\ IF snap.pos[s].units > 0
           THEN OpenFrom(t, n, RowOf(snap.pos[s]), quote[n])
           ELSE quote' = [quote EXCEPT ![n].mat = FALSE] /\ Back(t) /\ UNCHANGED quotes
  BY DEF Find
<1>3. n \in Quotes /\ task[t].then # "recover"
  BY <1>1 DEF TaskTyped, Steady
<1>4. quote[n] \in Quote /\ s \in Symbols /\ q \in Quote /\ q.ord = quote[n].ord
  BY <1>3 DEF QuoteTyped, Quote, SymOf
<1>5. snap \in Snapshot /\ CacheTyped' /\ faults' \in 0..MaxFaults
  BY <1>2, SnapTyped
<1>6. ControlTyped' /\ VenueTyped' /\ BookTyped'
  BY <1>1, <1>5, Frames DEF ControlTyped
<1>7. RowOf(snap.pos[s]) \in RawRow
  BY <1>4, <1>5, RowOfTyped
<1>8. QuoteTyped' /\ TaskTyped' /\ AcksOrdered'
  <2>1. CASE snap.pos[s].units > 0
    BY <1>2, <1>3, <1>4, <1>7, <2>1, OpenFromTyped
  <2>2. CASE ~(snap.pos[s].units > 0)
    <3>1. quote' = [quote EXCEPT ![n] = q] /\ Back(t) /\ UNCHANGED quotes
      BY <1>2, <2>2
    <3>2. QuoteTyped' /\ OrdersKept
      BY <1>3, <1>4, <3>1, QuoteSet DEF QuoteTyped
    <3> QED BY <3>1, <3>2, BackTyped
  <2> QED BY <2>1, <2>2
<1> QED BY <1>5, <1>6, <1>8

LEMMA AdoptTyped ==
    ASSUME TypeInv, NEW s \in Symbols, NEW row \in RawRow, NEW pnl \in BOOLEAN,
           NEW closed \in BOOLEAN, Adopt(s, row, pnl, closed)
    PROVE  /\ BookTyped' /\ made.objs + 1 \in Objs
           /\ made' \in [quotes : 0..MaxQuotes, orders : 0..MaxOrders, objs : 0..MaxObjs]
<1> USE DEF TypeInv
<1> DEFINE o == made.objs + 1
           new == [NoObj EXCEPT !.sym = s, !.pid = row.pid, !.truth = row.truth,
                     !.qty = row.units, !.pnl = pnl, !.closed = closed]
           rec == [pid |-> row.pid, closed |-> closed, kept |-> TRUE]
<1>1. o \in Objs /\ o \in 0..MaxObjs
  BY BoundsInNat DEF Adopt, ControlTyped, Objs
<1>2. new \in Object
  BY EmptyRecords DEF Object, RawRow
<1>3. rec \in Record
  BY DEF Record, RawRow
<1>4. obj' = [obj EXCEPT ![o] = new] /\ store' = [store EXCEPT ![s] = rec]
  BY DEF Adopt
<1>5. obj' \in [Objs -> Object] /\ store' \in [Symbols -> Record]
  BY <1>2, <1>3, <1>4 DEF BookTyped
<1>6. positions' \in [Symbols -> 0..MaxObjs]
  BY <1>1 DEF Adopt, BookTyped
<1>7. missing' \in [Symbols -> 0..1] /\ closedKeys' \subseteq CloseKeys
  BY DEF Adopt, BookTyped
<1>8. made' = [made EXCEPT !.objs = o]
  BY DEF Adopt
<1> QED BY <1>1, <1>5, <1>6, <1>7, <1>8 DEF BookTyped, ControlTyped

LEMMA StartAttachTyped ==
    ASSUME TypeInv, NEW s \in Symbols, NEW pid \in 0..MaxOrders, NEW wanted,
           StartAttach(s, pid, wanted)
    PROVE  attach' \subseteq Symbols \X Orders
<1>1. pid # 0 => pid \in Orders
  BY BoundsInNat DEF Orders
<1> QED BY <1>1 DEF StartAttach, TypeInv, ControlTyped

LEMMA OpenDoneTyped ==
    ASSUME TypeInv, NEW t \in Tasks, OpenDone(t) PROVE TypeInv'
<1> USE DEF TypeInv
<1> DEFINE n == task[t].q
           s == SymOf(n)
           row == task[t].raw
           o == made.objs + 1
           q == [quote[n] EXCEPT !.mat = FALSE]
           T == [task[t] EXCEPT !.pc = "close", !.o = o, !.left = 3]
<1>1. /\ task[t].pc = "open"
      /\ Adopt(s, row, FALSE, FALSE)
      /\ StartAttach(s, row.pid, TRUE)
      /\ quote' = [quote EXCEPT ![n] = q]
      /\ Back(t) \/ task' = [task EXCEPT ![t] = T]
      /\ UNCHANGED <<venueVars, quotes, cache, ctl, faults, ops>>
  BY DEF OpenDone, At
<1>2. task[t] \in Task /\ Steady(task[t]) /\ n \in Quotes /\ row \in RawRow
  BY <1>1 DEF TaskTyped, Steady, Task
<1>3. s \in Symbols /\ q \in Quote /\ q.ord = quote[n].ord
  BY <1>2 DEF QuoteTyped, Quote, SymOf
<1>4. BookTyped' /\ o \in Objs
      /\ made' \in [quotes : 0..MaxQuotes, orders : 0..MaxOrders, objs : 0..MaxObjs]
  BY <1>1, <1>2, <1>3, AdoptTyped
<1>5. attach' \subseteq Symbols \X Orders
  BY <1>1, <1>2, <1>3, StartAttachTyped DEF RawRow
<1>6. ControlTyped'
  BY <1>1, <1>4, <1>5 DEF ControlTyped
<1>7. QuoteTyped' /\ OrdersKept
  BY <1>1, <1>2, <1>3, QuoteSet DEF QuoteTyped
<1>8. o \in 0..MaxObjs
  BY <1>4, BoundsInNat DEF Objs
<1>9. T \in Task
  BY <1>2, <1>8 DEF Task, Pcs
<1>10. Steady(T) /\ T.pc # "ack"
  BY <1>1, <1>2, <1>4 DEF Steady, Task
<1>11. TaskTyped' /\ AcksOrdered'
  BY <1>1, <1>7, <1>9, <1>10, MoveTyped, BackTyped
<1> QED BY <1>1, <1>4, <1>6, <1>7, <1>11, Frames

(***************************************************************************)
(* Closing.                                                                *)
(***************************************************************************)
LEMMA ReleaseTyped ==
    ASSUME BookTyped, NEW s, Release(s)
    PROVE  /\ positions' \in [Symbols -> 0..MaxObjs]
           /\ missing' \in [Symbols -> 0..1]
           /\ store' \in [Symbols -> Record]
<1>1. positions' \in [Symbols -> 0..MaxObjs]
  <2>1. positions \in [Symbols -> 0..MaxObjs] /\ positions' = [positions EXCEPT ![s] = 0]
    BY DEF BookTyped, Release
  <2> QED BY <2>1, ZeroInRange
<1>2. missing' \in [Symbols -> 0..1]
  <2>1. missing \in [Symbols -> 0..1] /\ missing' = [missing EXCEPT ![s] = 0]
    BY DEF BookTyped, Release
  <2>2. 0 \in 0..1
    OBVIOUS
  <2> QED BY <2>1, <2>2
<1>3. store' \in [Symbols -> Record]
  BY EmptyRecords DEF BookTyped, Release
<1> QED BY <1>1, <1>2, <1>3

LEMMA HistoryIdsTyped ==
    ASSUME VenueTyped, NEW o, NEW id \in HistoryIds(o)
    PROVE  id \in 0..MaxOrders
BY BoundsInNat DEF VenueTyped, HistoryIds, Orders

LEMMA MarkClosedTyped ==
    ASSUME VenueTyped, BookTyped, NEW o \in Objs, NEW id \in HistoryIds(o),
           NEW why \in {"exit", "exchange_close", "emergency"}, MarkClosed(o, id, why)
    PROVE  BookTyped'
<1> DEFINE pid == IF id # 0 THEN id ELSE obj[o].pid
           key == CloseKey(o, pid)
           booked == [obj[o] EXCEPT !.pid = pid, !.closed = TRUE,
                                    !.reason = why, !.key = key]
<1>1. obj[o] \in Object /\ pid \in 0..MaxOrders /\ pid \in Nat /\ o \in Nat
  BY HistoryIdsTyped, BoundsInNat DEF BookTyped, Object, Objs
<1>2. key \in CloseKeys
  BY <1>1 DEF CloseKey, CloseKeys
<1>3. Release(obj[o].sym)
  BY DEF MarkClosed
<1>4. CASE Duplicate(o, pid)
  <2>1. obj' = [obj EXCEPT ![o].pid = pid] /\ UNCHANGED closedKeys
    BY <1>4 DEF MarkClosed
  <2>2. obj' \in [Objs -> Object]
    BY <1>1, <2>1 DEF BookTyped, Object
  <2> QED BY <1>3, <2>1, <2>2, ReleaseTyped DEF BookTyped
<1>5. CASE ~Duplicate(o, pid)
  <2>1. obj' = [obj EXCEPT ![o] = booked] /\ closedKeys' = closedKeys \cup {key}
    BY <1>5 DEF MarkClosed, Book
  <2>2. booked \in Object
    BY <1>1, <1>2 DEF Object
  <2>3. obj' \in [Objs -> Object] /\ closedKeys' \subseteq CloseKeys
    BY <1>2, <2>1, <2>2 DEF BookTyped
  <2> QED BY <1>3, <2>3, ReleaseTyped DEF BookTyped
<1> QED BY <1>4, <1>5

LEMMA CloseSendTyped ==
    ASSUME TypeInv, NEW t \in Tasks, CloseSend(t) PROVE TypeInv'
<1> USE DEF TypeInv
<1> DEFINE s == obj[task[t].o].sym
           sent == [task[t] EXCEPT !.pc = "closing", !.left = task[t].left - 1]
           again == [task[t] EXCEPT !.left = task[t].left - 1]
<1>1. /\ task[t].pc = "close"
      /\ UNCHANGED <<quoteVars, bookVars, cache, attach, ctl, made, ops>>
  BY DEF CloseSend, At
<1>2. /\ task[t] \in Task /\ Steady(task[t])
      /\ task[t].o \in Objs /\ task[t].left > 0 /\ task[t].left \in Nat
  BY <1>1 DEF TaskTyped, Steady, Task
<1>3. s \in Symbols /\ CloseVol(t) \in Nat
  BY <1>2 DEF BookTyped, Object, CloseVol, Task, RawRow
<1>4. OrdersKept
  BY <1>1, Frames
<1>5. task[t].left - 1 \in Nat
  BY <1>2
<1>6. CASE /\ VenueTakesClose(s, ClosePid(t), CloseVol(t))
           /\ task' = [task EXCEPT ![t] = sent]
           /\ UNCHANGED faults
  <2>1. VenueTyped'
    BY <1>3, <1>6, TakesCloseTyped
  <2>2. sent \in Task
    BY <1>2, <1>5 DEF Task, Pcs
  <2>3. Steady(sent) /\ sent.pc # "ack"
    BY <1>1, <1>2 DEF Steady, Task
  <2>4. TaskTyped' /\ AcksOrdered'
    BY <1>4, <1>6, <2>2, <2>3, MoveTyped
  <2> QED BY <1>1, <1>6, <2>1, <2>4, Frames
<1>7. CASE Back(t) /\ UNCHANGED <<venueVars, faults>>
  BY <1>1, <1>4, <1>7, BackTyped, Frames
<1>8. CASE /\ Fault("close") /\ UNCHANGED venueVars
           /\ task' = [task EXCEPT ![t] = IF @.left = 1 THEN Return(@) ELSE again]
  <2>1. ControlTyped'
    BY <1>1, <1>8, FaultTyped DEF ControlTyped
  <2>2. again \in Task
    BY <1>2, <1>5 DEF Task
  <2>3. task[t].left # 1 => Steady(again) /\ again.pc # "ack"
    BY <1>1, <1>2 DEF Steady, Task
  <2>4. TaskTyped' /\ AcksOrdered'
    <3>1. CASE task[t].left = 1
      <4>1. task' = [task EXCEPT ![t] = Return(@)]
        BY <1>8, <3>1
      <4> QED BY <1>2, <1>4, <4>1, ReturnTyped, MoveTyped
    <3>2. CASE task[t].left # 1
      <4>1. task' = [task EXCEPT ![t] = again]
        BY <1>8, <3>2
      <4> QED BY <1>4, <2>2, <2>3, <3>2, <4>1, MoveTyped
    <3> QED BY <3>1, <3>2
  <2> QED BY <1>1, <1>8, <2>1, <2>4, Frames
<1>9. \/ /\ VenueTakesClose(s, ClosePid(t), CloseVol(t))
         /\ task' = [task EXCEPT ![t] = sent]
         /\ UNCHANGED faults
      \/ Back(t) /\ UNCHANGED <<venueVars, faults>>
      \/ /\ Fault("close") /\ UNCHANGED venueVars
         /\ task' = [task EXCEPT ![t] = IF @.left = 1 THEN Return(@) ELSE again]
  BY DEF CloseSend
<1> QED BY <1>6, <1>7, <1>8, <1>9

LEMMA CloseReplyTyped ==
    ASSUME TypeInv, NEW t \in Tasks, CloseReply(t) PROVE TypeInv'
<1> USE DEF TypeInv
<1> DEFINE done == [task[t] EXCEPT !.pc = "resolve"]
           again == [task[t] EXCEPT !.pc = "close"]
<1>1. /\ task[t].pc = "closing"
      /\ UNCHANGED <<venueVars, quoteVars, bookVars, cache, attach, ctl, made, ops>>
  BY DEF CloseReply, At
<1>2. task[t] \in Task /\ Steady(task[t]) /\ task[t].left \in Nat
  BY DEF TaskTyped, Task
<1>3. OrdersKept
  BY <1>1, Frames
<1>4. done \in Task /\ again \in Task
  BY <1>2 DEF Task, Pcs
<1>5. Steady(done) /\ done.pc # "ack"
  BY <1>1, <1>2 DEF Steady, Task
<1>6. task[t].left # 0 => Steady(again) /\ again.pc # "ack"
  BY <1>1, <1>2 DEF Steady, Task
<1>7. \/ task' = [task EXCEPT ![t] = done] /\ UNCHANGED faults
      \/ /\ Fault("close")
         /\ task' = [task EXCEPT ![t] = IF @.left = 0 THEN Return(@) ELSE again]
  BY SetPc DEF CloseReply, TaskTyped
<1>8. TaskTyped' /\ AcksOrdered'
  BY <1>2, <1>3, <1>4, <1>5, <1>6, <1>7, ReturnTyped, MoveTyped
<1>9. ControlTyped'
  BY <1>1, <1>7, FaultTyped DEF ControlTyped
<1> QED BY <1>1, <1>8, <1>9, Frames

LEMMA CloseBookTyped ==
    ASSUME TypeInv, NEW t \in Tasks, CloseBook(t) PROVE TypeInv'
<1> USE DEF TypeInv
<1>1. task[t].o \in Objs
  BY DEF CloseBook, At, TaskTyped, Steady
<1>2. BookTyped'
  BY <1>1, MarkClosedTyped DEF CloseBook
<1> QED BY <1>2, BackTyped, Frames DEF CloseBook

(***************************************************************************)
(* The loop.                                                               *)
(***************************************************************************)
LEMMA LoopTask ==
    ASSUME TypeInv
    PROVE  /\ "loop" \in Tasks /\ task["loop"] \in Task /\ Steady(task["loop"])
           /\ task["loop"].todo \subseteq Nat /\ task["loop"].syms \subseteq Symbols
           /\ task["loop"].snap \in Snapshot /\ task["loop"].raw \in RawRow
BY DEF TypeInv, TaskTyped, Tasks, Task

LEMMA LoopStartTyped ==
    ASSUME TypeInv, LoopStart \/ LoopTick PROVE TypeInv'
<1> USE DEF TypeInv
<1>1. /\ task["loop"].pc \in {"start", "idle"}
      /\ UNCHANGED <<venueVars, quoteVars, bookVars, attach, ctl, made, ops>>
  BY DEF LoopStart, LoopTick, At
<1>2. PICK pc \in {"idle", "balance"} : Goto("loop", pc)
  BY DEF LoopStart, LoopTick
<1>3. CacheTyped' /\ ControlTyped'
  <2>1. CASE LoopStart
    BY <1>1, <2>1, SnapTyped DEF LoopStart, ControlTyped
  <2>2. CASE LoopTick
    BY <2>2, Frames DEF LoopTick
  <2> QED BY <2>1, <2>2
<1> DEFINE T == [task["loop"] EXCEPT !.pc = pc]
<1>4. T \in Task
  BY LoopTask DEF Task, Pcs
<1>5. Steady(T) /\ T.pc # "ack"
  BY <1>1, LoopTask DEF Steady, Task
<1>6. task' = [task EXCEPT !["loop"] = T]
  BY <1>2, LoopTask, SetPc DEF TaskTyped
<1>7. TaskTyped' /\ AcksOrdered'
  BY <1>1, <1>4, <1>5, <1>6, LoopTask, Frames, MoveTyped
<1> QED BY <1>1, <1>3, <1>7, Frames

LEMMA LoopQuotesTyped ==
    ASSUME TypeInv, LoopQuotes PROVE TypeInv'
<1> USE DEF TypeInv
<1> DEFINE pending == {quotes[s] : s \in Symbols} \ {0}
           T == [task["loop"] EXCEPT !.pc = "quotes", !.then = "quotes", !.todo = pending]
<1>1. task["loop"].pc = "balance" /\ task' = [task EXCEPT !["loop"] = T]
      /\ UNCHANGED <<venueVars, quoteVars, bookVars, cache, attach, ctl, made, faults, ops>>
  BY DEF LoopQuotes, At
<1>2. pending \in SUBSET Nat
  BY BoundsInNat DEF QuoteTyped
<1>3. T \in Task
  BY <1>2, LoopTask DEF Task, Pcs
<1>4. Steady(T) /\ T.pc # "ack"
  BY LoopTask DEF Steady, Task
<1> QED BY <1>1, <1>3, <1>4, LoopTask, Frames, MoveTyped

LEMMA LoopQuoteUnsentTyped ==
    ASSUME TypeInv, NEW n \in Quotes, LoopQuoteUnsent(n) PROVE TypeInv'
<1> USE DEF TypeInv
<1> DEFINE T == [task["loop"] EXCEPT !.todo = task["loop"].todo \ {n}]
<1>1. task["loop"].pc = "quotes"
  BY DEF LoopQuoteUnsent, At
<1>2. task["loop"].todo \ {n} \in SUBSET Nat
  BY LoopTask
<1>3. T \in Task
  BY <1>2, LoopTask DEF Task
<1>4. Steady(T) /\ T.pc # "ack" /\ T.then # "recover"
  BY <1>1, LoopTask DEF Steady, Task
<1>5. CASE SubmitHead("loop", n, quotes, T)
  BY <1>3, <1>4, <1>5, LoopTask, SubmitHeadTyped DEF QuoteTyped
<1>6. CASE /\ task' = [task EXCEPT !["loop"] = T]
           /\ quotes' = IF ShuttingDown THEN [quotes EXCEPT ![SymOf(n)] = 0] ELSE quotes
           /\ UNCHANGED <<venueVars, quote, bookVars, cache, attach, ctl, made, faults, ops>>
  <2>1. quotes' \in [Symbols -> 0..MaxQuotes]
    BY <1>6, ZeroInRange DEF QuoteTyped
  <2>2. QuoteTyped' /\ OrdersKept
    BY <1>6, <2>1, QuoteKept DEF QuoteTyped
  <2> QED BY <1>3, <1>4, <1>6, <2>2, LoopTask, Frames, MoveTyped
<1> QED BY <1>5, <1>6 DEF LoopQuoteUnsent

LEMMA LoopQuoteAskTyped ==
    ASSUME TypeInv, NEW n \in Quotes, LoopQuoteAsk(n) PROVE TypeInv'
<1> USE DEF TypeInv
<1> DEFINE T == [task["loop"] EXCEPT !.todo = task["loop"].todo \ {n},
                                     !.pc = "check", !.q = n]
<1>1. task["loop"].pc = "quotes" /\ task' = [task EXCEPT !["loop"] = T]
      /\ UNCHANGED <<venueVars, quoteVars, bookVars, cache, attach, ctl, made, faults, ops>>
  BY DEF LoopQuoteAsk, At
<1>2. task["loop"].todo \ {n} \in SUBSET Nat /\ n \in 0..MaxQuotes
  BY LoopTask, BoundsInNat DEF Quotes
<1>3. T \in Task
  BY <1>2, LoopTask DEF Task, Pcs
<1>4. Steady(T) /\ T.pc # "ack"
  BY <1>1, LoopTask DEF Steady, Task
<1> QED BY <1>1, <1>3, <1>4, LoopTask, Frames, MoveTyped

LEMMA LoopQuoteFilledTyped ==
    ASSUME TypeInv, LoopQuoteFilled PROVE TypeInv'
<1> USE DEF TypeInv
<1> DEFINE n == task["loop"].q
           q == [quote[n] EXCEPT !.mat = TRUE]
           T == [task["loop"] EXCEPT !.pc = "find"]
<1>1. /\ task["loop"].pc = "check"
      /\ UNCHANGED <<venueVars, bookVars, attach, ctl, made, ops>>
  BY DEF LoopQuoteFilled, At
<1>2. CacheTyped' /\ faults' \in 0..MaxFaults
  BY SnapTyped DEF LoopQuoteFilled
<1>3. VenueTyped' /\ BookTyped' /\ ControlTyped'
  BY <1>1, <1>2, Frames DEF ControlTyped
<1>4. n \in Quotes /\ task["loop"].then # "recover"
  BY <1>1, LoopTask DEF Steady
<1>5. /\ quote[n] \in Quote /\ quote[n].syn \in RawRow
      /\ q \in Quote /\ q.ord = quote[n].ord
  BY <1>4 DEF QuoteTyped, Quote
<1>6. QuoteTyped' /\ TaskTyped' /\ AcksOrdered'
  <2>1. CASE Back("loop") /\ UNCHANGED quoteVars
    BY <2>1, LoopTask, Frames, BackTyped
  <2>2. CASE OpenFrom("loop", n, quote[n].syn, quote[n])
    BY <1>4, <1>5, <2>2, LoopTask, OpenFromTyped
  <2>3. CASE quote' = [quote EXCEPT ![n] = q] /\ Goto("loop", "find") /\ UNCHANGED quotes
    <3>1. QuoteTyped' /\ OrdersKept
      BY <1>4, <1>5, <2>3, QuoteSet DEF QuoteTyped
    <3>2. T \in Task
      BY LoopTask DEF Task, Pcs
    <3>3. Steady(T) /\ T.pc # "ack"
      BY <1>1, LoopTask DEF Steady, Task
    <3>4. task' = [task EXCEPT !["loop"] = T]
      BY <2>3, LoopTask, SetPc DEF TaskTyped
    <3> QED BY <3>1, <3>2, <3>3, <3>4, LoopTask, MoveTyped
  <2> QED BY <2>1, <2>2, <2>3 DEF LoopQuoteFilled
<1> QED BY <1>2, <1>3, <1>6

LEMMA DropEntryTyped ==
    ASSUME QuoteTyped, NEW n \in Quotes, DropEntry(n)
    PROVE  QuoteTyped' /\ OrdersKept
<1>1. PICK b \in BOOLEAN : quote' = [quote EXCEPT ![n].stray = b]
  BY AstrayBoolean DEF DropEntry
<1> DEFINE q == [quote[n] EXCEPT !.stray = b]
<1>2. q \in Quote /\ q.ord = quote[n].ord
  BY DEF QuoteTyped, Quote
<1>3. quote' = [quote EXCEPT ![n] = q]
  BY <1>1 DEF QuoteTyped
<1>4. quotes' \in [Symbols -> 0..MaxQuotes]
  BY ZeroInRange, QuotesSet DEF DropEntry
<1> HIDE DEF q
<1> QED BY <1>2, <1>3, <1>4, QuoteSet DEF QuoteTyped

LEMMA LoopQuoteUnfilledTyped ==
    ASSUME TypeInv, LoopQuoteUnfilled PROVE TypeInv'
<1> USE DEF TypeInv
<1> DEFINE n == task["loop"].q
           T == [task["loop"] EXCEPT !.pc = "cancel"]
<1>1. /\ task["loop"].pc = "check"
      /\ UNCHANGED <<venueVars, bookVars, attach, ctl, made, ops>>
  BY DEF LoopQuoteUnfilled, At
<1>2. CacheTyped' /\ faults' \in 0..MaxFaults
  BY SnapTyped DEF LoopQuoteUnfilled
<1>3. VenueTyped' /\ BookTyped' /\ ControlTyped'
  BY <1>1, <1>2, Frames DEF ControlTyped
<1>4. UNCHANGED quoteVars \/ DropEntry(n)
  BY DEF LoopQuoteUnfilled
<1>5. n \in Quotes
  BY <1>1, LoopTask DEF Steady
<1>6. QuoteTyped' /\ OrdersKept
  BY <1>4, <1>5, Frames, DropEntryTyped
<1>7. Back("loop") \/ Goto("loop", "cancel")
  BY DEF LoopQuoteUnfilled
<1>8. T \in Task
  BY LoopTask DEF Task, Pcs
<1>9. Steady(T) /\ T.pc # "ack"
  BY <1>1, LoopTask DEF Steady, Task
<1>10. TaskTyped' /\ AcksOrdered'
  <2>1. CASE Back("loop")
    BY <1>6, <2>1, LoopTask, BackTyped
  <2>2. CASE Goto("loop", "cancel")
    <3>1. task' = [task EXCEPT !["loop"] = T]
      BY <2>2, LoopTask, SetPc DEF TaskTyped
    <3> QED BY <1>6, <1>8, <1>9, <3>1, LoopTask, MoveTyped
  <2> QED BY <1>7, <2>1, <2>2
<1> QED BY <1>2, <1>3, <1>6, <1>10

LEMMA LoopCancelTyped ==
    ASSUME TypeInv, LoopCancel PROVE TypeInv'
<1> USE DEF TypeInv
<1>1. VenueTyped'
  BY CancelOrdersTyped DEF LoopCancel
<1>2. faults' \in 0..MaxFaults
  BY FaultTyped DEF LoopCancel, CancelOrders, ControlTyped
<1>3. task["loop"].q \in Quotes
  BY LoopTask DEF LoopCancel, At, Steady
<1>4. QuoteTyped' /\ OrdersKept
  BY <1>3, DropEntryTyped DEF LoopCancel
<1>5. TaskTyped' /\ AcksOrdered'
  BY <1>4, LoopTask, BackTyped DEF LoopCancel
<1>6. BookTyped' /\ CacheTyped' /\ ControlTyped'
  BY <1>2, Frames DEF LoopCancel, ControlTyped
<1> QED BY <1>1, <1>4, <1>5, <1>6

LEMMA LoopSnapshotTyped ==
    ASSUME TypeInv, LoopSnapshot PROVE TypeInv'
<1> USE DEF TypeInv
<1>1. PICK snap \in Snaps :
        /\ PositionsCached(snap)
        /\ task' = [task EXCEPT !["loop"] = [task["loop"] EXCEPT !.pc = "recover",
             !.then = "recover", !.snap = snap,
             !.syms = {s \in Symbols : snap.pos[s].units > 0}]]
  BY DEF LoopSnapshot
<1> DEFINE held == {s \in Symbols : snap.pos[s].units > 0}
           T == [task["loop"] EXCEPT !.pc = "recover", !.then = "recover",
                                     !.snap = snap, !.syms = held]
<1>2. snap \in Snapshot /\ PidsOK(snap.pos) /\ CacheTyped' /\ faults' \in 0..MaxFaults
  BY <1>1, SnapTyped
<1>3. VenueTyped' /\ BookTyped' /\ ControlTyped' /\ QuoteTyped' /\ OrdersKept
  BY <1>2, Frames DEF LoopSnapshot, ControlTyped
<1>4. T \in Task
  <2>1. held \in SUBSET Symbols
    OBVIOUS
  <2> QED BY <1>2, <2>1, LoopTask DEF Task, Pcs
<1>5. Steady(T) /\ T.pc # "ack"
  <2>1. T.pc = "recover" /\ T.then = "recover" /\ T.snap = snap /\ T.syms = held
    BY LoopTask DEF Task
  <2>2. \A s \in held : snap.pos[s].pid \in Orders
    BY <1>2 DEF PidsOK
  <2> QED BY <2>1, <2>2 DEF Steady
<1>6. TaskTyped' /\ AcksOrdered'
  BY <1>1, <1>3, <1>4, <1>5, LoopTask, MoveTyped
<1> QED BY <1>2, <1>3, <1>6

LEMMA LoopRecoverTyped ==
    ASSUME TypeInv, NEW s \in Symbols, LoopRecover(s) PROVE TypeInv'
<1> USE DEF TypeInv
<1> DEFINE T == [task["loop"] EXCEPT !.syms = task["loop"].syms \ {s}]
           row == RowOf(T.snap.pos[s])
           A == [T EXCEPT !.pc = "adopt", !.q = quotes[s], !.raw = row]
<1>1. /\ task["loop"].pc = "recover" /\ s \in task["loop"].syms
      /\ UNCHANGED <<venueVars, quote, bookVars, cache, attach, ctl, made, faults, ops>>
  BY DEF LoopRecover, RecoverUnless, At
<1>2. \/ task' = [task EXCEPT !["loop"] = T] /\ UNCHANGED quotes
      \/ /\ quotes' = [quotes EXCEPT ![s] = 0]
         /\ task' = [task EXCEPT !["loop"] = A]
  BY DEF LoopRecover, RecoverUnless
<1>3. quotes' \in [Symbols -> 0..MaxQuotes]
  BY <1>2, ZeroInRange DEF QuoteTyped
<1>4. QuoteTyped' /\ OrdersKept
  BY <1>1, <1>3, QuoteKept DEF QuoteTyped
<1>5. /\ task["loop"].then = "recover"
      /\ \A x \in task["loop"].syms : task["loop"].snap.pos[x].pid \in Orders
  BY <1>1, LoopTask DEF Steady
<1>6. T \in Task /\ T.snap = task["loop"].snap /\ T.syms = task["loop"].syms \ {s}
      /\ T.pc = "recover" /\ T.then = "recover"
  BY <1>1, <1>5, LoopTask DEF Task
<1>7. Steady(T) /\ T.pc # "ack"
  BY <1>5, <1>6 DEF Steady
<1>8. row \in RawRow /\ row.pid \in Orders /\ quotes[s] \in 0..MaxQuotes
  BY <1>1, <1>5, <1>6, LoopTask, RowOfTyped DEF RowOf, QuoteTyped
<1>9. A \in Task
  BY <1>6, <1>8 DEF Task, Pcs
<1>10. Steady(A) /\ A.pc # "ack"
  <2>1. A.pc = "adopt" /\ A.then = "recover" /\ A.raw = row
        /\ A.snap = T.snap /\ A.syms = T.syms
    BY <1>6 DEF Task
  <2> QED BY <1>5, <1>6, <1>8, <2>1 DEF Steady
<1>11. TaskTyped' /\ AcksOrdered'
  BY <1>2, <1>4, <1>6, <1>7, <1>9, <1>10, LoopTask, MoveTyped
<1> QED BY <1>1, <1>4, <1>11, Frames

LEMMA LoopAdoptTyped ==
    ASSUME TypeInv, LoopAdopt PROVE TypeInv'
<1> USE DEF TypeInv
<1> DEFINE T == task["loop"]
           s == order[T.raw.pid].sym
           revived == T.q = 0 /\ store[s].kept /\ store[s].pid \in {0, T.raw.pid}
           closed == revived /\ store[s].closed
           pnl == T.q = 0
<1>1. /\ T.pc = "adopt" /\ Back("loop")
      /\ Adopt(s, T.raw, pnl, closed)
      /\ UNCHANGED <<venueVars, quoteVars, cache, ctl, faults, ops>>
  BY DEF LoopAdopt, At
<1>2. PICK wanted \in BOOLEAN : StartAttach(s, T.raw.pid, wanted)
  BY DEF LoopAdopt
<1>3. T.raw.pid \in Orders /\ T.raw \in RawRow
  BY <1>1, LoopTask DEF Steady
<1>4. s \in Symbols
  BY <1>3 DEF VenueTyped, Order
<1>5. pnl \in BOOLEAN /\ closed \in BOOLEAN
  <2>1. store[s].closed \in BOOLEAN
    BY <1>4 DEF BookTyped, Record
  <2> QED BY <2>1
<1>6. BookTyped'
      /\ made' \in [quotes : 0..MaxQuotes, orders : 0..MaxOrders, objs : 0..MaxObjs]
  BY <1>1, <1>3, <1>4, <1>5, AdoptTyped
<1>7. attach' \subseteq Symbols \X Orders
  BY <1>2, <1>3, <1>4, StartAttachTyped DEF RawRow
<1>8. ControlTyped'
  BY <1>1, <1>6, <1>7 DEF ControlTyped
<1> QED BY <1>1, <1>6, <1>8, LoopTask, BackTyped, Frames

LEMMA LoopAdoptFailsTyped ==
    ASSUME TypeInv, LoopAdoptFails PROVE TypeInv'
<1>1. ControlTyped'
  BY FaultTyped DEF LoopAdoptFails, ControlTyped, TypeInv
<1> QED BY <1>1, LoopTask, BackTyped, Frames DEF LoopAdoptFails, TypeInv

LEMMA LoopRecoveredTyped ==
    ASSUME TypeInv, LoopRecovered PROVE TypeInv'
<1> USE DEF TypeInv
<1> DEFINE managed == {positions[s] : s \in Managed}
           T == [task["loop"] EXCEPT !.pc = "manage", !.then = "manage", !.todo = managed]
<1>1. /\ task["loop"].pc = "recover" /\ task' = [task EXCEPT !["loop"] = T]
      /\ UNCHANGED <<venueVars, quoteVars, bookVars, cache, attach, ctl, made, faults, ops>>
  BY DEF LoopRecovered, ManageAll, At
<1>2. managed \in SUBSET Nat
  BY BoundsInNat DEF BookTyped, Managed
<1>3. T \in Task
  BY <1>2, LoopTask DEF Task, Pcs
<1>4. Steady(T) /\ T.pc # "ack"
  BY LoopTask DEF Steady, Task
<1> QED BY <1>1, <1>3, <1>4, LoopTask, Frames, MoveTyped

\* What every visit to a managed position does.
LEMMA ManageTyped ==
    ASSUME TypeInv, NEW o \in Objs, NEW T \in Task, Manage(o, T),
           T.pc \in {"manage", "trail", "close"}, T.then # "recover",
           T.pc # "manage" => T.o = o, T.pc = "close" => T.left > 0,
           store' \in [Symbols -> Record]
    PROVE  TypeInv'
<1> USE DEF TypeInv
<1> DEFINE s == obj[o].sym
           N == [T EXCEPT !.todo = T.todo \ {o}]
<1>1. /\ task' = [task EXCEPT !["loop"] = N]
      /\ UNCHANGED <<venueVars, quoteVars, positions, closedKeys, cache, attach,
                     ctl, made, faults, ops>>
  BY DEF Manage, ManageBelow
<1>2. s \in Symbols /\ missing[s] \in 0..1
  BY DEF BookTyped, Object
<1>3. missing' \in [Symbols -> 0..1]
  <2> DEFINE v == IF Misses(o) THEN missing[s] + 1 ELSE IF Seen(o) THEN 0 ELSE missing[s]
  <2>1. missing' = [missing EXCEPT ![s] = v] /\ (Misses(o) => missing[s] + 1 < 2)
    BY DEF Manage, ManageBelow
  <2>2. v \in 0..1
    BY <1>2, <2>1
  <2> HIDE DEF v
  <2> QED BY <1>2, <2>1, <2>2 DEF BookTyped
<1>4. obj' \in [Objs -> Object]
  <2>1. PICK b \in BOOLEAN : obj' = [obj EXCEPT ![o].pnl = b]
    BY DEF Manage, ManageBelow, BookTyped, Object
  <2> QED BY <2>1 DEF BookTyped, Object
<1>5. BookTyped'
  BY <1>1, <1>3, <1>4 DEF BookTyped
<1>6. T.todo \ {o} \in SUBSET Nat
  BY DEF Task
<1>7. N \in Task
  BY <1>6 DEF Task
<1>8. Steady(N) /\ N.pc # "ack"
  BY DEF Steady, Task
<1>9. TaskTyped' /\ AcksOrdered'
  BY <1>1, <1>7, <1>8, LoopTask, Frames, MoveTyped
<1> QED BY <1>1, <1>5, <1>9, Frames

LEMMA PersistedTyped ==
    ASSUME BookTyped, NEW o \in Objs
    PROVE  Persisted(o) \in [Symbols -> Record]
<1>1. [pid |-> obj[o].pid, closed |-> obj[o].closed, kept |-> TRUE] \in Record
  BY DEF BookTyped, Object, Record
<1> QED BY <1>1 DEF BookTyped, Persisted

LEMMA LoopManageTyped ==
    ASSUME TypeInv, NEW o \in Objs, LoopHold(o) \/ LoopMove(o) \/ LoopRule(o)
    PROVE  TypeInv'
<1> DEFINE M == task["loop"]
           row == IF Seen(o) THEN RowOf(M.snap.pos[obj[o].sym]) ELSE MadeUp(o)
           trail == [M EXCEPT !.pc = "trail", !.o = o]
           close == [M EXCEPT !.pc = "close", !.o = o, !.left = 3, !.raw = row]
<1>1. M.pc = "manage" /\ M \in Task /\ M.then # "recover"
  BY LoopTask DEF LoopHold, LoopMove, LoopRule, Manage, ManageBelow, At, Steady
<1>2. store \in [Symbols -> Record] /\ Persisted(o) \in [Symbols -> Record]
  BY PersistedTyped DEF TypeInv, BookTyped
<1>3. CASE LoopHold(o)
  BY <1>1, <1>2, <1>3, ManageTyped DEF LoopHold
<1>4. o \in 0..MaxObjs
  BY BoundsInNat DEF Objs
<1>5. CASE LoopMove(o)
  <2>1. trail \in Task
    BY <1>1, <1>4 DEF Task, Pcs
  <2>2. trail.pc = "trail" /\ trail.then # "recover" /\ trail.o = o
    BY <1>1 DEF Task
  <2>3. store' \in [Symbols -> Record]
    BY <1>2, <1>5 DEF LoopMove
  <2> QED BY <1>5, <2>1, <2>2, <2>3, ManageTyped DEF LoopMove
<1>6. CASE LoopRule(o)
  <2>1. obj[o].sym \in Symbols /\ obj[o].qty \in Nat
    BY DEF TypeInv, BookTyped, Object
  <2>2. row \in RawRow
    <3>1. RowOf(M.snap.pos[obj[o].sym]) \in RawRow
      BY <2>1, LoopTask, RowOfTyped
    <3>2. MadeUp(o) \in RawRow
      BY <2>1, ZeroInRange DEF MadeUp, RawRow
    <3> QED BY <3>1, <3>2
  <2>3. close \in Task
    <3> HIDE DEF row
    <3> QED BY <1>1, <1>4, <2>2 DEF Task, Pcs
  <2>4. close.pc = "close" /\ close.then # "recover" /\ close.o = o /\ close.left > 0
    BY <1>1 DEF Task
  <2>5. Manage(o, close) /\ store' \in [Symbols -> Record]
    BY <1>2, <1>6 DEF LoopRule
  <2> HIDE DEF close
  <2> QED BY <2>3, <2>4, <2>5, ManageTyped
<1> QED BY <1>3, <1>5, <1>6

LEMMA LoopTrailTyped ==
    ASSUME TypeInv, LoopTrail PROVE TypeInv'
<1> USE DEF TypeInv
<1>1. task["loop"].o \in Objs
  BY LoopTask DEF LoopTrail, At, Steady
<1>2. store' \in [Symbols -> Record]
  BY <1>1, PersistedTyped DEF LoopTrail
<1>3. BookTyped'
  BY <1>2 DEF LoopTrail, BookTyped
<1> QED BY <1>3, LoopTask, BackTyped, Frames DEF LoopTrail

LEMMA LoopMissingTyped ==
    ASSUME TypeInv, NEW o \in Objs, LoopMissing(o) PROVE TypeInv'
<1> USE DEF TypeInv
<1> DEFINE T == [task["loop"] EXCEPT !.pc = "history",
                   !.todo = task["loop"].todo \ {o}, !.o = o]
<1>1. /\ task["loop"].pc = "manage" /\ task' = [task EXCEPT !["loop"] = T]
      /\ missing' = [missing EXCEPT ![obj[o].sym] = 0]
      /\ UNCHANGED <<venueVars, quoteVars, positions, obj, closedKeys, store, cache,
                     attach, ctl, made, faults, ops>>
  BY DEF LoopMissing, At
<1>2. missing' \in [Symbols -> 0..1]
  <2>1. 0 \in 0..1
    OBVIOUS
  <2> QED BY <1>1, <2>1 DEF BookTyped
<1>3. BookTyped'
  BY <1>1, <1>2 DEF BookTyped
<1>4. task["loop"].todo \ {o} \in SUBSET Nat /\ o \in 0..MaxObjs
  BY LoopTask, BoundsInNat DEF Objs
<1>5. T \in Task
  BY <1>4, LoopTask DEF Task, Pcs
<1>6. Steady(T) /\ T.pc # "ack"
  BY <1>1, LoopTask DEF Steady, Task
<1>7. TaskTyped' /\ AcksOrdered'
  BY <1>1, <1>5, <1>6, LoopTask, Frames, MoveTyped
<1> QED BY <1>1, <1>3, <1>7, Frames

LEMMA LoopVanishedTyped ==
    ASSUME TypeInv, LoopVanished PROVE TypeInv'
<1> USE DEF TypeInv
<1> DEFINE o == task["loop"].o
<1>1. /\ task["loop"].pc = "history" /\ Back("loop")
      /\ UNCHANGED <<venueVars, quoteVars, cache, attach, ctl, made, faults, ops>>
  BY DEF LoopVanished, Vanished, At
<1>2. o \in Objs
  BY <1>1, LoopTask DEF Steady
<1>3. \/ \E id \in HistoryIds(o) : MarkClosed(o, id, "exchange_close")
      \/ UNCHANGED bookVars
  BY DEF LoopVanished, Vanished
<1>4. BookTyped'
  BY <1>2, <1>3, MarkClosedTyped, Frames
<1> QED BY <1>1, <1>4, LoopTask, BackTyped, Frames

(***************************************************************************)
(* Flattening, the kill checks and the operator.                           *)
(***************************************************************************)
\* Entering the flatten, from a control state c and a task T that is between
\* two pieces of work.
LEMMA EnterFlattenTyped ==
    ASSUME TypeInv, NEW t \in Tasks, NEW T \in Task, NEW c \in Ctl,
           T.then # "recover", EnterFlatten(t, T, c), UNCHANGED quoteVars
    PROVE  ctl' \in Ctl /\ TaskTyped' /\ AcksOrdered'
<1> USE DEF TypeInv
<1> DEFINE quoted == {s \in Symbols : quotes[s] # 0}
           wait == [T EXCEPT !.pc = "lock"]
           enter == [T EXCEPT !.pc = "flatcancel", !.left = Retries, !.syms = quoted]
<1>1. \/ ctl' = c /\ task' = [task EXCEPT ![t] = wait]
      \/ /\ ctl' = [c EXCEPT !.lock = TRUE, !.emergency = TRUE]
         /\ task' = [task EXCEPT ![t] = enter]
  BY DEF EnterFlatten, Flatten
<1>2. ctl' \in Ctl
  BY <1>1 DEF Ctl
<1>3. wait \in Task /\ Steady(wait) /\ wait.pc # "ack"
  BY DEF Task, Pcs, Steady
<1>4. Retries \in Nat /\ Retries > 0 /\ quoted \in SUBSET Symbols
  BY BoundsInNat
<1>5. enter \in Task
  BY <1>4 DEF Task, Pcs
<1>6. Steady(enter) /\ enter.pc # "ack"
  BY <1>4 DEF Steady, Task
<1>7. OrdersKept
  BY Frames
<1>8. TaskTyped' /\ AcksOrdered'
  BY <1>1, <1>3, <1>5, <1>6, <1>7, MoveTyped
<1> QED BY <1>2, <1>8

LEMMA FlattenLockTyped ==
    ASSUME TypeInv, NEW t \in Tasks, FlattenLock(t) PROVE TypeInv'
<1> USE DEF TypeInv
<1>1. task[t] \in Task /\ task[t].then # "recover" /\ ctl \in Ctl
  BY DEF FlattenLock, At, TaskTyped, Steady, ControlTyped
<1>2. EnterFlatten(t, task[t], ctl) /\ UNCHANGED quoteVars
  BY DEF FlattenLock
<1>3. ctl' \in Ctl /\ TaskTyped' /\ AcksOrdered'
  BY <1>1, <1>2, EnterFlattenTyped
<1>4. ControlTyped'
  BY <1>3 DEF FlattenLock, ControlTyped
<1> QED BY <1>3, <1>4, Frames DEF FlattenLock

LEMMA FlattenCancelTyped ==
    ASSUME TypeInv, NEW t \in Tasks, NEW s \in Symbols, FlattenCancel(t, s)
    PROVE  TypeInv'
<1> USE DEF TypeInv
<1> DEFINE T == [task[t] EXCEPT !.syms = task[t].syms \ {s}]
<1>1. /\ task[t].pc = "flatcancel"
      /\ CancelOrders(s)
      /\ quotes' = [quotes EXCEPT ![s] = 0]
      /\ task' = [task EXCEPT ![t].syms = task[t].syms \ {s}]
      /\ UNCHANGED <<venue, hist, quote, bookVars, cache, attach, ctl, made, ops>>
  BY DEF FlattenCancel, At
<1>2. VenueTyped' /\ faults' \in 0..MaxFaults
  BY <1>1, CancelOrdersTyped, FaultTyped DEF CancelOrders, ControlTyped
<1>3. QuoteTyped' /\ OrdersKept
  BY <1>1, ZeroInRange, QuotesSet, QuoteKept DEF QuoteTyped
<1>4. task[t] \in Task /\ Steady(task[t]) /\ task[t].syms \ {s} \in SUBSET Symbols
  BY DEF TaskTyped, Task
<1>5. T \in Task
  BY <1>4 DEF Task
<1>6. Steady(T) /\ T.pc # "ack"
  BY <1>1, <1>4 DEF Steady, Task
<1>7. task' = [task EXCEPT ![t] = T]
  BY <1>1 DEF TaskTyped, Task
<1>8. TaskTyped' /\ AcksOrdered'
  BY <1>3, <1>5, <1>6, <1>7, MoveTyped
<1>9. BookTyped' /\ CacheTyped' /\ ControlTyped'
  BY <1>1, <1>2, Frames DEF ControlTyped
<1> QED BY <1>2, <1>3, <1>8, <1>9

LEMMA FlattenSnapshotTyped ==
    ASSUME TypeInv, NEW t \in Tasks, FlattenSnapshot(t) PROVE TypeInv'
<1> USE DEF TypeInv
<1> DEFINE row(snap, s) == IF snap.pos[s].units > 0 \/ positions[s] = 0 THEN snap.pos[s]
                           ELSE [pid |-> 0, units |-> obj[positions[s]].qty]
           rows(snap) == [s \in Symbols |-> row(snap, s)]
           left(snap) == {s \in Symbols : row(snap, s).units > 0}
           T(snap) == [task[t] EXCEPT
              !.pc = IF left(snap) = {} THEN "flatfinal" ELSE "flatclose",
              !.syms = left(snap),
              !.snap = [snap EXCEPT !.pos = rows(snap)]]
<1>1. PICK snap \in Snaps : PositionsForced(snap) /\ task' = [task EXCEPT ![t] = T(snap)]
  BY DEF FlattenSnapshot
<1>2. /\ task[t].pc \in {"flatcancel", "flatsnap"}
      /\ UNCHANGED <<venueVars, quoteVars, bookVars, attach, ctl, made, ops>>
  BY DEF FlattenSnapshot, At
<1>3. snap \in Snapshot /\ CacheTyped' /\ faults' \in 0..MaxFaults
  BY <1>1, SnapTyped
<1>4. ASSUME NEW s \in Symbols PROVE row(snap, s) \in Position
  <2>1. snap.pos[s] \in Position
    BY <1>3 DEF Snapshot
  <2>2. positions[s] # 0 => obj[positions[s]].qty \in Nat
    BY BoundsInNat DEF BookTyped, Object, Objs
  <2> QED BY <2>1, <2>2, ZeroInRange DEF Position
<1>5. rows(snap) \in [Symbols -> Position] /\ left(snap) \in SUBSET Symbols
  BY <1>4
<1>6. task[t] \in Task /\ Steady(task[t])
  BY DEF TaskTyped
<1> HIDE DEF rows, left
<1>7. [snap EXCEPT !.pos = rows(snap)] \in Snapshot
  BY <1>3, <1>5 DEF Snapshot
<1>8. T(snap) \in Task
  BY <1>5, <1>6, <1>7 DEF Task, Pcs
<1>9. Steady(T(snap)) /\ T(snap).pc # "ack"
  BY <1>2, <1>6 DEF Steady, Task
<1>10. OrdersKept /\ VenueTyped' /\ QuoteTyped' /\ BookTyped' /\ ControlTyped'
  BY <1>2, <1>3, Frames DEF ControlTyped
<1>11. TaskTyped' /\ AcksOrdered'
  BY <1>1, <1>8, <1>9, <1>10, MoveTyped
<1> QED BY <1>3, <1>10, <1>11

LEMMA FlattenCloseTyped ==
    ASSUME TypeInv, NEW t \in Tasks, NEW s \in Symbols, FlattenClose(t, s)
    PROVE  TypeInv'
<1> USE DEF TypeInv
<1> DEFINE row == task[t].snap.pos[s]
           pid == IF row.pid = 0 /\ positions[s] # 0 THEN obj[positions[s]].pid ELSE row.pid
           T == [task[t] EXCEPT !.syms = task[t].syms \ {s}]
<1>1. /\ task[t].pc = "flatclose"
      /\ task' = [task EXCEPT ![t].syms = task[t].syms \ {s}]
      /\ UNCHANGED <<quoteVars, bookVars, cache, attach, ctl, made, ops>>
  BY DEF FlattenClose, At
<1>2. \/ VenueTakesClose(s, pid, row.units) /\ UNCHANGED faults
      \/ UNCHANGED <<venueVars, faults>>
      \/ Fault("close") /\ UNCHANGED venueVars
  BY DEF FlattenClose
<1>3. task[t] \in Task /\ Steady(task[t]) /\ task[t].syms \ {s} \in SUBSET Symbols
  BY DEF TaskTyped, Task
<1>4. row.units \in Nat
  BY <1>3 DEF Task, Snapshot, Position
<1>5. VenueTyped' /\ faults' \in 0..MaxFaults
  BY <1>2, <1>4, TakesCloseTyped, FaultTyped, Frames DEF ControlTyped
<1>6. T \in Task
  BY <1>3 DEF Task
<1>7. Steady(T) /\ T.pc # "ack"
  BY <1>1, <1>3 DEF Steady, Task
<1>8. task' = [task EXCEPT ![t] = T]
  BY <1>1 DEF TaskTyped, Task
<1>9. OrdersKept /\ QuoteTyped' /\ BookTyped' /\ CacheTyped' /\ ControlTyped'
  BY <1>1, <1>5, Frames DEF ControlTyped
<1>10. TaskTyped' /\ AcksOrdered'
  BY <1>6, <1>7, <1>8, <1>9, MoveTyped
<1> QED BY <1>5, <1>9, <1>10

LEMMA FlattenCheckTyped ==
    ASSUME TypeInv, NEW t \in Tasks, FlattenCheck(t) PROVE TypeInv'
<1> USE DEF TypeInv
<1> DEFINE gone(snap) == {positions[s] : s \in {x \in Managed : snap.pos[x].units = 0}}
           T(snap) == [task[t] EXCEPT !.pc = "flatbook", !.left = task[t].left - 1,
                         !.todo = gone(snap), !.snap = NoSnap]
<1>1. PICK snap \in Snaps : PositionsForced(snap) /\ task' = [task EXCEPT ![t] = T(snap)]
  BY DEF FlattenCheck
<1>2. /\ task[t].pc = "flatclose"
      /\ UNCHANGED <<venueVars, quoteVars, bookVars, attach, ctl, made, ops>>
  BY DEF FlattenCheck, At
<1>3. CacheTyped' /\ faults' \in 0..MaxFaults
  BY <1>1, SnapTyped
<1>4. task[t] \in Task /\ Steady(task[t]) /\ task[t].left - 1 \in Nat
  BY <1>2 DEF TaskTyped, Task, Steady
<1>5. gone(snap) \in SUBSET Nat
  BY BoundsInNat DEF BookTyped, Managed
<1> HIDE DEF gone
<1>6. T(snap) \in Task
  BY <1>4, <1>5, EmptyPositions DEF Task, Pcs
<1>7. Steady(T(snap)) /\ T(snap).pc # "ack"
  BY <1>2, <1>4 DEF Steady, Task
<1>8. OrdersKept /\ VenueTyped' /\ QuoteTyped' /\ BookTyped' /\ ControlTyped'
  BY <1>2, <1>3, Frames DEF ControlTyped
<1>9. TaskTyped' /\ AcksOrdered'
  BY <1>1, <1>6, <1>7, <1>8, MoveTyped
<1> QED BY <1>3, <1>8, <1>9

LEMMA FlattenBookTyped ==
    ASSUME TypeInv, NEW t \in Tasks, NEW o \in Objs, FlattenBook(t, o) PROVE TypeInv'
<1> USE DEF TypeInv
<1> DEFINE T == [task[t] EXCEPT !.todo = task[t].todo \ {o}]
<1>1. /\ task[t].pc = "flatbook"
      /\ task' = [task EXCEPT ![t].todo = task[t].todo \ {o}]
      /\ UNCHANGED <<venueVars, quoteVars, cache, attach, ctl, made, faults, ops>>
  BY DEF FlattenBook, At
<1>2. BookTyped'
  BY MarkClosedTyped DEF FlattenBook
<1>3. task[t] \in Task /\ Steady(task[t]) /\ task[t].todo \ {o} \in SUBSET Nat
  BY DEF TaskTyped, Task
<1>4. T \in Task
  BY <1>3 DEF Task
<1>5. Steady(T) /\ T.pc # "ack"
  BY <1>1, <1>3 DEF Steady, Task
<1>6. task' = [task EXCEPT ![t] = T]
  BY <1>1 DEF TaskTyped, Task
<1>7. TaskTyped' /\ AcksOrdered'
  BY <1>1, <1>4, <1>5, <1>6, Frames, MoveTyped
<1> QED BY <1>1, <1>2, <1>7, Frames

LEMMA FlattenAgainTyped ==
    ASSUME TypeInv, NEW t \in Tasks, FlattenAgain(t) PROVE TypeInv'
<1> USE DEF TypeInv
<1> DEFINE pc == IF task[t].left = 0 THEN "flatfinal" ELSE "flatsnap"
           T == [task[t] EXCEPT !.pc = pc]
<1>1. /\ task[t].pc = "flatbook" /\ Goto(t, pc)
      /\ UNCHANGED <<venueVars, quoteVars, bookVars, cache, attach, ctl, made, faults, ops>>
  BY DEF FlattenAgain, At
<1>2. task[t] \in Task /\ Steady(task[t]) /\ task[t].left \in Nat
  BY DEF TaskTyped, Task
<1>3. T \in Task
  BY <1>2 DEF Task, Pcs
<1>4. Steady(T) /\ T.pc # "ack"
  BY <1>1, <1>2 DEF Steady, Task
<1>5. task' = [task EXCEPT ![t] = T]
  BY <1>1, SetPc DEF TaskTyped
<1> QED BY <1>1, <1>3, <1>4, <1>5, Frames, MoveTyped

LEMMA FlattenDoneTyped ==
    ASSUME TypeInv, NEW t \in Tasks, FlattenDone(t) PROVE TypeInv'
<1> USE DEF TypeInv
<1> DEFINE T == [IdleTask EXCEPT !.pc = task[t].then]
<1>1. /\ task[t].pc = "flatfinal" /\ task' = [task EXCEPT ![t] = T]
      /\ UNCHANGED <<venueVars, quoteVars, bookVars, attach, made, ops>>
  BY DEF FlattenDone, FlattenEnds, At
<1>2. CacheTyped' /\ faults' \in 0..MaxFaults
  BY SnapTyped DEF FlattenDone, FlattenEnds
<1>3. ctl' \in Ctl
  BY DEF FlattenDone, FlattenEnds, ControlTyped, Ctl
<1>4. OrdersKept /\ VenueTyped' /\ QuoteTyped' /\ BookTyped' /\ ControlTyped'
  BY <1>1, <1>2, <1>3, Frames DEF ControlTyped
<1>5. task[t].then \in {"idle", "off", "quotes", "manage"}
  BY <1>1 DEF TaskTyped, Task, Steady
<1>6. T \in Task
  BY <1>5, IdleTaskTyped DEF Task, Pcs
<1>7. Steady(T) /\ T.pc # "ack"
  BY <1>5 DEF Steady, IdleTask
<1>8. TaskTyped' /\ AcksOrdered'
  BY <1>1, <1>4, <1>6, <1>7, MoveTyped
<1> QED BY <1>2, <1>4, <1>8

LEMMA FlatteningTyped ==
    ASSUME TypeInv, NEW t \in Tasks, Flattening(t) PROVE TypeInv'
BY FlattenLockTyped, FlattenCancelTyped, FlattenSnapshotTyped, FlattenCloseTyped,
   FlattenCheckTyped, FlattenBookTyped, FlattenAgainTyped, FlattenDoneTyped
   DEF Flattening

LEMMA LoopEndsTyped ==
    ASSUME TypeInv, LoopExit \/ LoopKillCheck PROVE TypeInv'
<1> USE DEF TypeInv
<1>1. /\ task["loop"].pc \in {"idle", "manage"}
      /\ UNCHANGED <<venueVars, quoteVars, bookVars, cache, attach, made, faults>>
  BY DEF LoopExit, LoopKillCheck, At
<1>2. OrdersKept /\ VenueTyped' /\ QuoteTyped' /\ BookTyped' /\ CacheTyped'
  BY <1>1, Frames
<1>3. ops' \in 0..MaxOps
  BY BoundsInNat DEF LoopExit, LoopKillCheck, ControlTyped
<1>4. ctl' \in Ctl /\ TaskTyped' /\ AcksOrdered'
  <2>1. CASE ctl' = ctl /\ \E T \in {IdleTask, [task["loop"] EXCEPT !.pc = "off"]} :
               task' = [task EXCEPT !["loop"] = T]
    <3>1. /\ [task["loop"] EXCEPT !.pc = "off"] \in Task
          /\ Steady([task["loop"] EXCEPT !.pc = "off"])
          /\ [task["loop"] EXCEPT !.pc = "off"].pc # "ack"
      BY <1>1, LoopTask DEF Task, Pcs, Steady
    <3>2. PICK T \in {IdleTask, [task["loop"] EXCEPT !.pc = "off"]} :
            task' = [task EXCEPT !["loop"] = T]
      BY <2>1
    <3>3. T \in Task /\ Steady(T) /\ T.pc # "ack"
      <4>1. IdleTask.pc # "ack"
        BY DEF IdleTask
      <4> QED BY <3>1, <4>1, IdleTaskTyped
    <3> QED BY <1>2, <2>1, <3>2, <3>3, LoopTask, MoveTyped DEF ControlTyped
  <2>2. CASE LoopExit /\ ~ctl.cleanup
    <3> DEFINE T == [task["loop"] EXCEPT !.then = "off", !.why = "loop_exit"]
    <3>1. T \in Task /\ T.then # "recover"
      BY LoopTask DEF Task
    <3>2. EnterFlatten("loop", T, ctl)
      BY <2>2 DEF LoopExit
    <3> QED BY <1>1, <3>1, <3>2, LoopTask, EnterFlattenTyped DEF ControlTyped
  <2>3. CASE LoopKillCheck /\ ~(task' = [task EXCEPT !["loop"] = IdleTask] /\ ctl' = ctl)
    <3> DEFINE T == [IdleTask EXCEPT !.why = "trip"]
               c == [ctl EXCEPT !.kill = TRUE, !.running = FALSE]
    <3>1. T \in Task /\ T.then # "recover"
      BY IdleTaskTyped DEF Task, IdleTask
    <3>2. c \in Ctl
      BY DEF ControlTyped, Ctl
    <3>3. EnterFlatten("loop", T, c)
      BY <2>3 DEF LoopKillCheck
    <3> QED BY <1>1, <3>1, <3>2, <3>3, LoopTask, EnterFlattenTyped
  <2>4. LoopExit /\ ctl.cleanup => /\ ctl' = ctl
          /\ task' = [task EXCEPT !["loop"] = [task["loop"] EXCEPT !.pc = "off"]]
    BY LoopTask, SetPc DEF LoopExit, TaskTyped
  <2> QED BY <2>1, <2>2, <2>3, <2>4
<1>5. ControlTyped'
  BY <1>1, <1>3, <1>4 DEF ControlTyped
<1> QED BY <1>2, <1>4, <1>5

LEMMA OpStepTyped ==
    ASSUME TypeInv, OpStep PROVE TypeInv'
<1> USE DEF TypeInv
<1>1. "op" \in Tasks /\ "loop" \in Tasks
  BY DEF Tasks
<1>2. CASE Flattening("op")
  BY <1>1, <1>2, FlatteningTyped
<1>3. ASSUME NEW what \in {"kill_all", "run_stop", "run"}, Request(what),
             ctl' \in Ctl, TaskTyped', AcksOrdered'
      PROVE  TypeInv'
  <2>1. ops' \in 0..MaxOps
    BY <1>3, BoundsInNat DEF Request, ControlTyped
  <2>2. ControlTyped'
    BY <1>3, <2>1 DEF Request, ControlTyped
  <2> QED BY <1>3, <2>2, Frames DEF Request
<1>4. ASSUME NEW why \in {"kill_all", "run_stop"}, NEW c \in Ctl, UNCHANGED quoteVars,
             EnterFlatten("op", [IdleTask EXCEPT !.why = why], c)
      PROVE  ctl' \in Ctl /\ TaskTyped' /\ AcksOrdered'
  <2> DEFINE T == [IdleTask EXCEPT !.why = why]
  <2>1. T \in Task /\ T.then # "recover"
    BY IdleTaskTyped DEF Task, IdleTask
  <2> QED BY <1>1, <1>4, <2>1, EnterFlattenTyped
<1>5. CASE OpKillAll
  <2>1. [ctl EXCEPT !.kill = TRUE] \in Ctl
    BY DEF ControlTyped, Ctl
  <2> QED BY <1>3, <1>4, <1>5, <2>1 DEF OpKillAll, Request
<1>6. CASE OpRunStop
  <2>1. [ctl EXCEPT !.running = FALSE, !.stop = TRUE] \in Ctl
    BY DEF ControlTyped, Ctl
  <2> QED BY <1>3, <1>4, <1>6, <2>1 DEF OpRunStop, Request
<1>7. CASE OpRun
  <2>1. [ctl EXCEPT !.running = TRUE, !.kill = FALSE, !.stop = FALSE] \in Ctl
    BY DEF ControlTyped, Ctl
  <2>2. [IdleTask EXCEPT !.pc = "start"].pc # "ack"
    BY DEF IdleTask
  <2>3. OrdersKept
    BY <1>7, Frames DEF OpRun, Request
  <2>4. TaskTyped' /\ AcksOrdered'
    BY <1>1, <1>7, <2>2, <2>3, IdleTaskTyped, MoveTyped DEF OpRun
  <2> QED BY <1>3, <1>7, <2>1, <2>4 DEF OpRun
<1> QED BY <1>2, <1>5, <1>6, <1>7 DEF OpStep

(***************************************************************************)
(* The theorem.                                                            *)
(***************************************************************************)
LEMMA SigStepTyped ==
    ASSUME TypeInv, SigStep PROVE TypeInv'
<1>1. "sig" \in Tasks
  BY DEF Tasks
<1> QED BY <1>1, DecideTyped, ArmTakerTyped, AckMakerTyped, SubmitRefusedTyped,
           SendTyped, NotAckedTyped, AckTakerTyped, FindTyped, OpenDoneTyped,
           CloseSendTyped, CloseReplyTyped, CloseBookTyped
        DEF SigStep, SigWork, Submitting, Opening, Closing

LEMMA LoopStepTyped ==
    ASSUME TypeInv, LoopStep PROVE TypeInv'
<1>1. "loop" \in Tasks
  BY DEF Tasks
<1>2. CASE Submitting("loop") \/ Opening("loop") \/ Closing("loop")
  BY <1>1, <1>2, SubmitRefusedTyped, SendTyped, NotAckedTyped, AckTakerTyped,
     FindTyped, OpenDoneTyped, CloseSendTyped, CloseReplyTyped, CloseBookTyped
     DEF Submitting, Opening, Closing
<1>3. CASE Flattening("loop")
  BY <1>1, <1>3, FlatteningTyped
<1> QED BY <1>2, <1>3, LoopStartTyped, LoopQuotesTyped, LoopQuoteUnsentTyped,
           LoopQuoteAskTyped, LoopQuoteFilledTyped, LoopQuoteUnfilledTyped,
           LoopCancelTyped, LoopSnapshotTyped, LoopRecoverTyped, LoopAdoptTyped,
           LoopAdoptFailsTyped, LoopRecoveredTyped, LoopManageTyped, LoopMissingTyped,
           LoopTrailTyped, LoopVanishedTyped, LoopEndsTyped
        DEF LoopStep

LEMMA TypeInvNext == TypeInv /\ [Next]_vars => TypeInv'
<1> SUFFICES ASSUME TypeInv, [Next]_vars PROVE TypeInv'
  OBVIOUS
<1>1. CASE UNCHANGED vars
  <2>1. /\ UNCHANGED <<venueVars, quoteVars, bookVars, cache, attach, ctl, task,
                       made, faults, ops>>
    BY <1>1 DEF vars, venueVars, quoteVars, bookVars
  <2> QED BY <2>1, Frames, StayTyped DEF TypeInv
<1>2. CASE Next
  BY <1>2, SigStepTyped, LoopStepTyped, OpStepTyped, EnvironmentTyped DEF Next
<1> QED BY <1>1, <1>2

THEOREM TypeInvHolds == Spec => []TypeInv
BY TypeInvInit, TypeInvNext, PTL DEF Spec

\* Every variable of the executor keeps its type, whatever the tasks, the venue
\* and the operator do.
THEOREM TypeCorrect == Spec => []TypeOK
BY TypeInvHolds, TypeInvTypes, PTL

(***************************************************************************)
(* The trade ledger: no close key is booked twice, and no booked trade is  *)
(* ever rewritten.  The argument: an object is booked only if it exists    *)
(* and is not closed, and booking closes it and spends its key; nothing    *)
(* reopens an object but Adopt, which makes a new one.                     *)
(***************************************************************************)

(***************************************************************************)
(* Objects are made before they are used.                                  *)
(***************************************************************************)
FlattenOrLock == FlattenPcs \cup {"lock"}

\* The task T holds only objects among the first k; a flatten returns to a task
\* that has nothing in hand.
MadeTask(T, k) ==
    /\ T.o <= k
    /\ T.pc = "manage" => T.then = "manage"
    /\ T.pc \in FlattenOrLock => T.then \in {"idle", "off"}
    /\ T.pc = "flatbook" \/ T.then = "manage" => \A x \in T.todo : x <= k

MadeTasks == \A t \in Tasks : MadeTask(task[t], made.objs)
MadeInv   == MadeTasks /\ \A s \in Symbols : positions[s] <= made.objs

\* What a step may do: objects are only added.
Grows == made.objs' \in Nat /\ made.objs <= made.objs'

LEMMA MadeMove ==
    ASSUME TypeInv, MadeTasks, Grows, NEW t \in Tasks, NEW T,
           MadeTask(T, made'.objs), task' = [task EXCEPT ![t] = T]
    PROVE  MadeTasks'
<1>1. task'[t] = T /\ \A u \in Tasks : u # t => task'[u] = task[u]
  BY DEF TypeInv, TaskTyped
<1>2. ASSUME NEW u \in Tasks PROVE MadeTask(task'[u], made'.objs)
  <2>1. CASE u = t
    BY <1>1, <2>1
  <2>2. CASE u # t
    <3>1. /\ task'[u] = task[u] /\ task[u].o \in Nat /\ task[u].todo \subseteq Nat
          /\ made.objs \in Nat /\ made'.objs \in Nat /\ made.objs <= made'.objs
      BY <1>1, <2>2, BoundsInNat
         DEF TypeInv, TaskTyped, Task, ControlTyped, Grows
    <3>2. MadeTask(task[u], made.objs)
      BY DEF MadeTasks
    <3> QED BY <3>1, <3>2 DEF MadeTask
  <2> QED BY <2>1, <2>2
<1> QED BY <1>2 DEF MadeTasks

LEMMA MadeStay ==
    ASSUME TypeInv, MadeInv, UNCHANGED <<task, made, positions>>
    PROVE  MadeInv'
BY DEF MadeInv, MadeTasks, MadeTask

LEMMA MadeKept ==
    ASSUME TypeInv, UNCHANGED made
    PROVE  Grows
BY BoundsInNat DEF TypeInv, ControlTyped, Grows

LEMMA MadeBack ==
    ASSUME TypeInv, MadeTasks, Grows, NEW t \in Tasks, Back(t)
    PROVE  MadeTasks'
<1> DEFINE T == Return(task[t])
<1>1. MadeTask(task[t], made.objs) /\ task[t] \in Task
  BY DEF MadeTasks, TypeInv, TaskTyped
<1>2. /\ task[t].todo \subseteq Nat /\ task[t].then # "flatbook"
      /\ made.objs \in Nat /\ made'.objs \in Nat /\ made.objs <= made'.objs
  BY <1>1, BoundsInNat DEF Task, TypeInv, ControlTyped, Grows
<1>3. T.o = 0 /\ T.pc = task[t].then /\ T.then = task[t].then /\ T.todo = task[t].todo
  BY <1>1 DEF Return, Task
<1>4. MadeTask(T, made'.objs)
  <2>1. T.pc \notin FlattenOrLock
    BY <1>1, <1>3 DEF Task, FlattenOrLock, FlattenPcs
  <2> QED BY <1>1, <1>2, <1>3, <2>1 DEF MadeTask
<1>5. task' = [task EXCEPT ![t] = T]
  BY DEF Back
<1> QED BY <1>4, <1>5, MadeMove

\* A task that goes on with the objects it holds.
OrdinaryPcs == {"start", "balance", "tick", "submit", "ack", "find", "open", "check",
                "cancel", "close", "closing", "resolve", "adopt"}

LEMMA MadeGoes ==
    ASSUME TypeInv, MadeTasks, Grows, NEW t \in Tasks, NEW T,
           T.o = task[t].o, T.then = task[t].then, T.todo \subseteq task[t].todo,
           \/ T.pc \in OrdinaryPcs \cup {task[t].pc}
           \/ task[t].pc \in FlattenOrLock /\ T.pc \in FlattenOrLock \ {"flatbook"},
           task' = [task EXCEPT ![t] = T]
    PROVE  MadeTasks'
<1>1. MadeTask(task[t], made.objs) /\ task[t] \in Task
  BY DEF MadeTasks, TypeInv, TaskTyped
<1>2. /\ task[t].o \in Nat /\ task[t].todo \subseteq Nat
      /\ made.objs \in Nat /\ made'.objs \in Nat /\ made.objs <= made'.objs
  BY <1>1, BoundsInNat DEF Task, TypeInv, ControlTyped, Grows
<1>3. MadeTask(T, made'.objs)
  <2>1. T.o <= made'.objs
    BY <1>1, <1>2 DEF MadeTask
  <2>2. T.pc = "manage" => T.then = "manage"
    BY <1>1 DEF MadeTask, OrdinaryPcs, FlattenOrLock, FlattenPcs
  <2>3. T.pc \in FlattenOrLock => T.then \in {"idle", "off"}
    BY <1>1 DEF MadeTask, OrdinaryPcs, FlattenOrLock, FlattenPcs
  <2>4. T.pc = "flatbook" \/ T.then = "manage" => \A x \in T.todo : x <= made'.objs
    BY <1>1, <1>2 DEF MadeTask, OrdinaryPcs, FlattenOrLock, FlattenPcs
  <2> QED BY <2>1, <2>2, <2>3, <2>4 DEF MadeTask
<1> QED BY <1>3, MadeMove

LEMMA MadeReturns ==
    ASSUME TypeInv, MadeTasks, Grows, NEW t \in Tasks, NEW T \in Task,
           T.then = task[t].then, T.todo \subseteq task[t].todo,
           task' = [task EXCEPT ![t] = Return(T)]
    PROVE  MadeTasks'
<1> DEFINE R == Return(T)
<1>1. MadeTask(task[t], made.objs)
  BY DEF MadeTasks
<1>2. /\ task[t].todo \subseteq Nat /\ made.objs \in Nat /\ made'.objs \in Nat
      /\ made.objs <= made'.objs
  BY BoundsInNat DEF Task, TypeInv, TaskTyped, ControlTyped, Grows
<1>3. R.o = 0 /\ R.pc = T.then /\ R.then = T.then /\ R.todo = T.todo
  BY DEF Return, Task
<1>4. R.pc \notin FlattenOrLock
  BY <1>3 DEF Task, FlattenOrLock, FlattenPcs
<1>5. MadeTask(R, made'.objs)
  BY <1>1, <1>2, <1>3, <1>4 DEF MadeTask, FlattenOrLock, FlattenPcs
<1> QED BY <1>5, MadeMove

LEMMA MadeGoto ==
    ASSUME TypeInv, MadeTasks, Grows, NEW t \in Tasks, NEW pc, Goto(t, pc),
           \/ pc \in OrdinaryPcs
           \/ task[t].pc \in FlattenOrLock /\ pc \in FlattenOrLock \ {"flatbook"}
    PROVE  MadeTasks'
<1> DEFINE T == [task[t] EXCEPT !.pc = pc]
<1>1. T.o = task[t].o /\ T.then = task[t].then /\ T.todo = task[t].todo /\ T.pc = pc
  BY DEF TypeInv, TaskTyped, Task
<1>2. task' = [task EXCEPT ![t] = T]
  BY SetPc DEF TypeInv, TaskTyped
<1> HIDE DEF T
<1> QED BY <1>1, <1>2, MadeGoes

LEMMA AdoptMade ==
    ASSUME TypeInv, MadeInv, NEW s, NEW row, NEW pnl, NEW closed,
           Adopt(s, row, pnl, closed)
    PROVE  /\ Grows /\ made'.objs = made.objs + 1
           /\ \A x \in Symbols : positions'[x] <= made'.objs
BY BoundsInNat DEF TypeInv, ControlTyped, BookTyped, MadeInv, Adopt, Grows

LEMMA ReleaseMade ==
    ASSUME TypeInv, MadeInv, NEW s, Release(s), UNCHANGED made
    PROVE  \A x \in Symbols : positions'[x] <= made'.objs
BY BoundsInNat DEF TypeInv, ControlTyped, BookTyped, MadeInv, Release

LEMMA PositionsMade ==
    ASSUME MadeInv, UNCHANGED <<positions, made>>
    PROVE  \A x \in Symbols : positions'[x] <= made'.objs
BY DEF MadeInv

(* One lemma per group of actions.                                         *)
LEMMA SubmitMade ==
    ASSUME TypeInv, MadeInv, NEW t \in Tasks, NEW n, NEW armed, NEW T \in Task,
           T.o = task[t].o, T.then = task[t].then, T.todo \subseteq task[t].todo,
           SubmitHead(t, n, armed, T)
    PROVE  MadeInv'
<1> DEFINE S == [T EXCEPT !.pc = "submit", !.q = n]
<1>1. UNCHANGED <<bookVars, made>>
  BY DEF SubmitHead, SubmitIf
<1>2. Grows /\ MadeTasks /\ UNCHANGED positions
  BY <1>1, MadeKept DEF MadeInv, bookVars
<1>3. \/ task' = [task EXCEPT ![t] = Return(T)]
      \/ task' = [task EXCEPT ![t] = S]
  BY DEF SubmitHead, SubmitIf
<1>4. S.o = T.o /\ S.then = T.then /\ S.todo = T.todo /\ S.pc \in OrdinaryPcs
  BY DEF Task, OrdinaryPcs
<1> HIDE DEF S
<1>5. MadeTasks'
  BY <1>2, <1>3, <1>4, MadeReturns, MadeGoes
<1> QED BY <1>1, <1>2, <1>5, PositionsMade DEF MadeInv

LEMMA OpenFromMade ==
    ASSUME TypeInv, MadeTasks, Grows, NEW t \in Tasks, NEW n, NEW row, NEW q,
           OpenFrom(t, n, row, q)
    PROVE  MadeTasks'
<1> DEFINE T == [task[t] EXCEPT !.pc = "open", !.q = n, !.raw = row]
<1>1. task' = [task EXCEPT ![t] = Return(task[t])] \/ task' = [task EXCEPT ![t] = T]
  BY DEF OpenFrom
<1>2. task[t] \in Task
  BY DEF TypeInv, TaskTyped
<1>3. T.o = task[t].o /\ T.then = task[t].then /\ T.todo = task[t].todo /\ T.pc = "open"
  BY <1>2 DEF Task
<1> HIDE DEF T
<1> QED BY <1>1, <1>2, <1>3, MadeReturns, MadeGoes DEF OrdinaryPcs

LEMMA EntryMade ==
    ASSUME TypeInv, MadeInv, NEW t \in Tasks,
           \/ (\E s \in Symbols : Decide(s)) \/ AckMaker
           \/ SubmitRefused(t) \/ Send(t) \/ NotAcked(t) \/ AckTaker(t) \/ Find(t)
    PROVE  MadeInv'
<1> USE DEF MadeInv
<1>1. UNCHANGED positions /\ made'.objs = made.objs
  BY DEF Decide, DecideIf, AckMaker, SubmitRefused, Send, NotAcked, AckTaker, Find,
         bookVars, TypeInv, ControlTyped
<1>2. Grows
  BY <1>1, BoundsInNat DEF TypeInv, ControlTyped, Grows
<1>3. CASE \E s \in Symbols : Decide(s)
  <2> DEFINE T == [task["sig"] EXCEPT !.pc = "tick", !.q = made.quotes + 1]
  <2>1. "sig" \in Tasks /\ task["sig"] \in Task
    BY DEF TypeInv, TaskTyped, Tasks
  <2>2. /\ T.o = task["sig"].o /\ T.then = task["sig"].then
        /\ T.todo = task["sig"].todo /\ T.pc = "tick"
    BY <2>1 DEF Task
  <2>3. task' = [task EXCEPT !["sig"] = T]
    BY <1>3 DEF Decide, DecideIf
  <2> HIDE DEF T
  <2>4. MadeTasks'
    BY <1>2, <2>1, <2>2, <2>3, MadeGoes DEF OrdinaryPcs
  <2> QED BY <1>1, <2>4
<1>4. CASE AckMaker \/ SubmitRefused(t) \/ NotAcked(t)
  <2>1. "sig" \in Tasks
    BY DEF Tasks
  <2>2. Back("sig") \/ Back(t)
    BY <1>4 DEF AckMaker, SubmitRefused, NotAcked, Drop
  <2> QED BY <1>1, <1>2, <2>1, <2>2, MadeBack
<1>5. CASE Send(t)
  <2>1. Goto(t, "ack")
    BY <1>5 DEF Send
  <2> QED BY <1>1, <1>2, <2>1, MadeGoto DEF OrdinaryPcs
<1>6. CASE AckTaker(t)
  <2>1. (\E n, row, q : OpenFrom(t, n, row, q)) \/ Goto(t, "find")
    BY <1>6 DEF AckTaker
  <2> QED BY <1>1, <1>2, <2>1, OpenFromMade, MadeGoto DEF OrdinaryPcs
<1>7. CASE Find(t)
  <2>1. (\E n, row, q : OpenFrom(t, n, row, q)) \/ Back(t)
    BY <1>7 DEF Find
  <2> QED BY <1>1, <1>2, <2>1, OpenFromMade, MadeBack
<1> QED BY <1>3, <1>4, <1>5, <1>6, <1>7

LEMMA ArmTakerMade ==
    ASSUME TypeInv, MadeInv, ArmTaker PROVE MadeInv'
<1>1. "sig" \in Tasks /\ task["sig"] \in Task
  BY DEF TypeInv, TaskTyped, Tasks
<1> QED BY <1>1, SubmitMade DEF ArmTaker

LEMMA OpenDoneMade ==
    ASSUME TypeInv, MadeInv, NEW t \in Tasks, OpenDone(t) PROVE MadeInv'
<1> DEFINE o == made.objs + 1
           T == [task[t] EXCEPT !.pc = "close", !.o = o, !.left = 3]
<1>1. /\ Adopt(SymOf(task[t].q), task[t].raw, FALSE, FALSE)
      /\ Back(t) \/ task' = [task EXCEPT ![t] = T]
  BY DEF OpenDone
<1>2. /\ Grows /\ made'.objs = o
      /\ \A x \in Symbols : positions'[x] <= made'.objs
  BY <1>1, AdoptMade
<1>3. /\ task[t] \in Task /\ MadeTask(task[t], made.objs) /\ task[t].todo \subseteq Nat
      /\ made.objs \in Nat /\ made'.objs \in Nat /\ made.objs <= made'.objs
  BY <1>2, BoundsInNat DEF TypeInv, TaskTyped, Task, ControlTyped, MadeInv, MadeTasks, Grows
<1>4. T.pc = "close" /\ T.o = o /\ T.then = task[t].then /\ T.todo = task[t].todo
  BY <1>3 DEF Task
<1> HIDE DEF T
<1>5. MadeTask(T, made'.objs)
  BY <1>2, <1>3, <1>4 DEF MadeTask, FlattenOrLock, FlattenPcs
<1>6. MadeTasks'
  BY <1>1, <1>2, <1>5, MadeBack, MadeMove DEF MadeInv
<1> QED BY <1>2, <1>6 DEF MadeInv

LEMMA ClosingMade ==
    ASSUME TypeInv, MadeInv, NEW t \in Tasks,
           CloseSend(t) \/ CloseReply(t) \/ CloseBook(t)
    PROVE  MadeInv'
<1>1. UNCHANGED made /\ Grows /\ MadeTasks
  BY MadeKept DEF CloseSend, CloseReply, CloseBook, MadeInv
<1>2. \A x \in Symbols : positions'[x] <= made'.objs
  BY <1>1, PositionsMade, ReleaseMade DEF CloseSend, CloseReply, CloseBook, MarkClosed, bookVars
<1>3. task[t] \in Task
  BY DEF TypeInv, TaskTyped
<1>4. MadeTasks'
  <2>1. CASE CloseSend(t)
    <3> DEFINE sent == [task[t] EXCEPT !.pc = "closing", !.left = task[t].left - 1]
               again == [task[t] EXCEPT !.left = task[t].left - 1]
    <3>1. \/ task' = [task EXCEPT ![t] = sent]
          \/ Back(t)
          \/ task' = [task EXCEPT ![t] = again]
          \/ task' = [task EXCEPT ![t] = Return(task[t])]
      BY <2>1 DEF CloseSend
    <3>2. /\ sent.o = task[t].o /\ sent.then = task[t].then
          /\ sent.todo = task[t].todo /\ sent.pc = "closing"
      BY <1>3 DEF Task
    <3>3. /\ again.o = task[t].o /\ again.then = task[t].then
          /\ again.todo = task[t].todo /\ again.pc = task[t].pc
      BY <1>3 DEF Task
    <3> HIDE DEF sent, again
    <3> QED BY <1>1, <1>3, <3>1, <3>2, <3>3, MadeBack, MadeReturns, MadeGoes
            DEF OrdinaryPcs
  <2>2. CASE CloseReply(t)
    <3> DEFINE again == [task[t] EXCEPT !.pc = "close"]
    <3>1. \/ Goto(t, "resolve")
          \/ task' = [task EXCEPT ![t] = again]
          \/ task' = [task EXCEPT ![t] = Return(task[t])]
      BY <2>2 DEF CloseReply
    <3>2. /\ again.o = task[t].o /\ again.then = task[t].then
          /\ again.todo = task[t].todo /\ again.pc = "close"
      BY <1>3 DEF Task
    <3> HIDE DEF again
    <3> QED BY <1>1, <1>3, <3>1, <3>2, MadeGoto, MadeReturns, MadeGoes DEF OrdinaryPcs
  <2>3. CASE CloseBook(t)
    BY <1>1, <2>3, MadeBack DEF CloseBook
  <2> QED BY <2>1, <2>2, <2>3
<1> QED BY <1>2, <1>4 DEF MadeInv

LEMMA LoopQuotesMade ==
    ASSUME TypeInv, MadeInv,
           \/ LoopStart \/ LoopTick \/ LoopQuotes
           \/ (\E n \in Quotes : LoopQuoteUnsent(n) \/ LoopQuoteAsk(n))
           \/ LoopQuoteFilled \/ LoopQuoteUnfilled \/ LoopCancel
    PROVE  MadeInv'
<1> USE DEF MadeInv
<1>1. "loop" \in Tasks /\ task["loop"] \in Task
  BY LoopTask
<1>2. CASE \E n \in Quotes : LoopQuoteUnsent(n) /\ quote[n].st = "armed"
  <2>1. PICK n \in Quotes : LoopQuoteUnsent(n) /\ quote[n].st = "armed"
    BY <1>2
  <2> DEFINE T == [task["loop"] EXCEPT !.todo = task["loop"].todo \ {n}]
  <2>2. SubmitHead("loop", n, quotes, T)
    BY <2>1 DEF LoopQuoteUnsent
  <2>3. /\ T \in Task /\ T.o = task["loop"].o /\ T.then = task["loop"].then
        /\ T.todo \subseteq task["loop"].todo
    BY <1>1 DEF Task
  <2> HIDE DEF T
  <2> QED BY <1>1, <2>2, <2>3, SubmitMade
<1>3. CASE ~ \E n \in Quotes : LoopQuoteUnsent(n) /\ quote[n].st = "armed"
  <2>1. UNCHANGED <<positions, made>>
    BY <1>3 DEF LoopStart, LoopTick, LoopQuotes, LoopQuoteUnsent, LoopQuoteAsk,
       LoopQuoteFilled, LoopQuoteUnfilled, LoopCancel, bookVars
  <2>2. Grows
    BY <2>1, MadeKept
  <2>3. MadeTasks'
    <3>1. CASE LoopStart \/ LoopTick
      <4> DEFINE T(pc) == [task["loop"] EXCEPT !.pc = pc]
      <4>1. PICK pc \in {"idle", "balance"} : task' = [task EXCEPT !["loop"] = T(pc)]
        BY <1>1, <3>1, SetPc DEF LoopStart, LoopTick, TypeInv, TaskTyped
      <4>2. /\ T(pc).o = task["loop"].o /\ T(pc).then = task["loop"].then
            /\ T(pc).todo = task["loop"].todo /\ T(pc).pc = pc
        BY <1>1 DEF Task
      <4>3. MadeTask(task["loop"], made.objs)
        BY <1>1 DEF MadeTasks
      <4> HIDE DEF T
      <4>4. MadeTask(T(pc), made'.objs)
        BY <2>1, <4>2, <4>3 DEF MadeTask, FlattenOrLock, FlattenPcs
      <4> QED BY <1>1, <2>2, <4>1, <4>4, MadeMove
    <3>2. CASE LoopQuotes
      <4> DEFINE T == [task["loop"] EXCEPT !.pc = "quotes", !.then = "quotes",
                         !.todo = {quotes[s] : s \in Symbols} \ {0}]
      <4>1. task' = [task EXCEPT !["loop"] = T]
        BY <3>2 DEF LoopQuotes
      <4>2. T.o = task["loop"].o /\ T.then = "quotes" /\ T.pc = "quotes"
        BY <1>1 DEF Task
      <4>3. MadeTask(task["loop"], made.objs)
        BY <1>1 DEF MadeTasks
      <4> HIDE DEF T
      <4>4. MadeTask(T, made'.objs)
        BY <2>1, <4>2, <4>3 DEF MadeTask, FlattenOrLock, FlattenPcs
      <4> QED BY <1>1, <2>2, <4>1, <4>4, MadeMove
    <3>3. ASSUME NEW n \in Quotes, LoopQuoteUnsent(n) \/ LoopQuoteAsk(n)
          PROVE  MadeTasks'
      <4> DEFINE rest == [task["loop"] EXCEPT !.todo = task["loop"].todo \ {n}]
                 ask  == [task["loop"] EXCEPT !.todo = task["loop"].todo \ {n},
                                              !.pc = "check", !.q = n]
      <4>1. task' = [task EXCEPT !["loop"] = rest] \/ task' = [task EXCEPT !["loop"] = ask]
        BY <1>3, <3>3 DEF LoopQuoteUnsent, LoopQuoteAsk
      <4>2. /\ rest.o = task["loop"].o /\ rest.then = task["loop"].then
            /\ rest.todo \subseteq task["loop"].todo /\ rest.pc = task["loop"].pc
        BY <1>1 DEF Task
      <4>3. /\ ask.o = task["loop"].o /\ ask.then = task["loop"].then
            /\ ask.todo \subseteq task["loop"].todo /\ ask.pc = "check"
        BY <1>1 DEF Task
      <4> HIDE DEF rest, ask
      <4> QED BY <1>1, <2>2, <4>1, <4>2, <4>3, MadeGoes DEF OrdinaryPcs
    <3>4. CASE LoopQuoteFilled
      <4>1. \/ Back("loop") \/ Goto("loop", "find")
            \/ \E n, row, q : OpenFrom("loop", n, row, q)
        BY <3>4 DEF LoopQuoteFilled
      <4> QED BY <1>1, <2>2, <4>1, MadeBack, MadeGoto, OpenFromMade DEF OrdinaryPcs
    <3>5. CASE LoopQuoteUnfilled \/ LoopCancel
      <4>1. Back("loop") \/ Goto("loop", "cancel")
        BY <3>5 DEF LoopQuoteUnfilled, LoopCancel
      <4> QED BY <1>1, <2>2, <4>1, MadeBack, MadeGoto DEF OrdinaryPcs
    <3> QED BY <3>1, <3>2, <3>3, <3>4, <3>5
  <2> QED BY <2>1, <2>3, PositionsMade
<1> QED BY <1>2, <1>3

LEMMA LoopRecoverMade ==
    ASSUME TypeInv, MadeInv,
           \/ LoopSnapshot \/ (\E s \in Symbols : LoopRecover(s))
           \/ LoopAdopt \/ LoopAdoptFails \/ LoopRecovered
    PROVE  MadeInv'
<1> USE DEF MadeInv
<1>1. /\ "loop" \in Tasks /\ task["loop"] \in Task
      /\ MadeTask(task["loop"], made.objs)
  BY LoopTask DEF MadeTasks
<1>2. CASE LoopAdopt
  <2>1. (\E s, row, pnl, closed : Adopt(s, row, pnl, closed)) /\ Back("loop")
    BY <1>2 DEF LoopAdopt
  <2> QED BY <1>1, <2>1, AdoptMade, MadeBack
<1>3. CASE ~LoopAdopt
  <2>1. UNCHANGED <<positions, made>>
    BY <1>3 DEF LoopSnapshot, LoopRecover, RecoverUnless, LoopAdoptFails,
       LoopRecovered, ManageAll, bookVars
  <2>2. Grows /\ made.objs = made'.objs /\ made.objs \in Nat
    BY <2>1, MadeKept, BoundsInNat DEF TypeInv, ControlTyped
  <2>3. MadeTasks'
    <3>1. CASE LoopSnapshot
      <4>1. PICK T : /\ task' = [task EXCEPT !["loop"] = T] /\ T.o = task["loop"].o
                     /\ T.pc = "recover" /\ T.then = "recover"
        <5> DEFINE N(snap) == [task["loop"] EXCEPT !.pc = "recover", !.then = "recover",
              !.snap = snap, !.syms = {s \in Symbols : snap.pos[s].units > 0}]
        <5>1. PICK snap : task' = [task EXCEPT !["loop"] = N(snap)]
          BY <3>1 DEF LoopSnapshot
        <5>2. /\ N(snap).o = task["loop"].o /\ N(snap).pc = "recover"
              /\ N(snap).then = "recover"
          BY <1>1 DEF Task
        <5> QED BY <5>1, <5>2
      <4>2. MadeTask(T, made'.objs)
        BY <1>1, <2>2, <4>1 DEF MadeTask, FlattenOrLock, FlattenPcs
      <4> QED BY <1>1, <2>2, <4>1, <4>2, MadeMove
    <3>2. ASSUME NEW s \in Symbols, LoopRecover(s) PROVE MadeTasks'
      <4> DEFINE T == [task["loop"] EXCEPT !.syms = task["loop"].syms \ {s}]
                 A == [T EXCEPT !.pc = "adopt", !.q = quotes[s],
                                !.raw = RowOf(T.snap.pos[s])]
      <4>1. task' = [task EXCEPT !["loop"] = T] \/ task' = [task EXCEPT !["loop"] = A]
        BY <3>2 DEF LoopRecover, RecoverUnless
      <4>2. /\ T.o = task["loop"].o /\ T.then = task["loop"].then
            /\ T.todo = task["loop"].todo /\ T.pc = task["loop"].pc
        BY <1>1 DEF Task
      <4>3. /\ A.o = task["loop"].o /\ A.then = task["loop"].then
            /\ A.todo = task["loop"].todo /\ A.pc = "adopt"
        BY <1>1 DEF Task
      <4> HIDE DEF T, A
      <4> QED BY <1>1, <2>2, <4>1, <4>2, <4>3, MadeGoes DEF OrdinaryPcs
    <3>3. CASE LoopAdoptFails
      BY <1>1, <2>2, <3>3, MadeBack DEF LoopAdoptFails
    <3>4. CASE LoopRecovered
      <4> DEFINE held == {positions[s] : s \in Managed}
                 T == [task["loop"] EXCEPT !.pc = "manage", !.then = "manage",
                                           !.todo = held]
      <4>1. task' = [task EXCEPT !["loop"] = T]
        BY <3>4 DEF LoopRecovered, ManageAll
      <4>2. \A x \in held : x <= made.objs
        BY DEF Managed
      <4>3. /\ T.o = task["loop"].o /\ T.then = "manage" /\ T.pc = "manage"
            /\ T.todo = held
        BY <1>1 DEF Task
      <4> HIDE DEF T, held
      <4>4. MadeTask(T, made'.objs)
        BY <1>1, <2>2, <4>2, <4>3 DEF MadeTask, FlattenOrLock, FlattenPcs
      <4> QED BY <1>1, <2>2, <4>1, <4>4, MadeMove
    <3> QED BY <1>3, <3>1, <3>2, <3>3, <3>4
  <2> QED BY <2>1, <2>3, PositionsMade
<1> QED BY <1>2, <1>3

LEMMA LoopManageMade ==
    ASSUME TypeInv, MadeInv,
           \/ \E o \in Objs : LoopHold(o) \/ LoopMove(o) \/ LoopRule(o) \/ LoopMissing(o)
           \/ LoopTrail \/ LoopVanished
    PROVE  MadeInv'
<1> USE DEF MadeInv
<1>1. /\ "loop" \in Tasks /\ task["loop"] \in Task
      /\ MadeTask(task["loop"], made.objs) /\ made.objs \in Nat
  BY LoopTask, BoundsInNat DEF MadeTasks, TypeInv, ControlTyped
<1>2. ASSUME NEW o \in Objs,
             LoopHold(o) \/ LoopMove(o) \/ LoopRule(o) \/ LoopMissing(o)
      PROVE  MadeInv'
  <2>1. /\ task["loop"].pc = "manage" /\ o \in task["loop"].todo
        /\ UNCHANGED <<positions, made>>
    BY <1>2 DEF LoopHold, LoopMove, LoopRule, LoopMissing, Manage, ManageBelow, At
  <2>2. o <= made.objs /\ Grows
    BY <1>1, <2>1, MadeKept DEF MadeTask
  <2>3. PICK T : /\ task' = [task EXCEPT !["loop"] = T]
                 /\ T.o \in {o, task["loop"].o} /\ T.then = task["loop"].then
                 /\ T.todo \subseteq task["loop"].todo
                 /\ T.pc \in {"manage", "trail", "close", "history"}
    <3> DEFINE rest == task["loop"].todo \ {o}
               row == IF Seen(o) THEN RowOf(task["loop"].snap.pos[obj[o].sym]) ELSE MadeUp(o)
               trail == [task["loop"] EXCEPT !.pc = "trail", !.o = o]
               close == [task["loop"] EXCEPT !.pc = "close", !.o = o, !.left = 3, !.raw = row]
               gone == [task["loop"] EXCEPT !.pc = "history", !.todo = rest, !.o = o]
    <3>1. CASE LoopHold(o)
      <4> DEFINE N == [task["loop"] EXCEPT !.todo = rest]
      <4>1. task' = [task EXCEPT !["loop"] = N]
        BY <3>1 DEF LoopHold, Manage, ManageBelow
      <4>2. /\ N.o = task["loop"].o /\ N.then = task["loop"].then
            /\ N.todo = rest /\ N.pc = "manage"
        BY <1>1, <2>1 DEF Task
      <4> QED BY <4>1, <4>2
    <3>2. CASE LoopMove(o)
      <4> DEFINE N == [trail EXCEPT !.todo = trail.todo \ {o}]
      <4>1. task' = [task EXCEPT !["loop"] = N]
        BY <3>2 DEF LoopMove, Manage, ManageBelow
      <4>2. /\ N.o = o /\ N.then = task["loop"].then
            /\ N.todo = rest /\ N.pc = "trail"
        BY <1>1, <2>1 DEF Task
      <4> QED BY <4>1, <4>2
    <3>3. CASE LoopRule(o)
      <4> DEFINE N == [close EXCEPT !.todo = close.todo \ {o}]
      <4>1. task' = [task EXCEPT !["loop"] = N]
        BY <3>3 DEF LoopRule, Manage, ManageBelow
      <4>2. /\ N.o = o /\ N.then = task["loop"].then
            /\ N.todo = rest /\ N.pc = "close"
        BY <1>1, <2>1 DEF Task
      <4> QED BY <4>1, <4>2
    <3>4. CASE LoopMissing(o)
      <4>1. task' = [task EXCEPT !["loop"] = gone]
        BY <3>4 DEF LoopMissing
      <4>2. /\ gone.o = o /\ gone.then = task["loop"].then
            /\ gone.todo = rest /\ gone.pc = "history"
        BY <1>1, <2>1 DEF Task
      <4> QED BY <4>1, <4>2
    <3> QED BY <1>2, <3>1, <3>2, <3>3, <3>4
  <2>4. MadeTask(T, made'.objs)
    BY <1>1, <2>1, <2>2, <2>3 DEF MadeTask, FlattenOrLock, FlattenPcs
  <2> QED BY <1>1, <2>1, <2>2, <2>3, <2>4, MadeMove, PositionsMade
<1>3. CASE LoopTrail
  BY <1>1, <1>3, MadeKept, MadeBack, PositionsMade DEF LoopTrail
<1>4. CASE LoopVanished
  <2>1. \/ \E id : MarkClosed(task["loop"].o, id, "exchange_close")
        \/ UNCHANGED bookVars
    BY <1>4 DEF LoopVanished, Vanished
  <2>2. Back("loop") /\ UNCHANGED made
    BY <1>4 DEF LoopVanished, Vanished
  <2>3. \A x \in Symbols : positions'[x] <= made'.objs
    BY <2>1, <2>2, ReleaseMade, PositionsMade DEF MarkClosed, bookVars
  <2> QED BY <1>1, <2>2, <2>3, MadeKept, MadeBack
<1> QED BY <1>2, <1>3, <1>4

LEMMA EnterFlattenMade ==
    ASSUME TypeInv, MadeTasks, Grows, NEW t \in Tasks, NEW T \in Task, NEW c,
           T.o <= made.objs, T.then \in {"idle", "off"}, EnterFlatten(t, T, c)
    PROVE  MadeTasks'
<1> DEFINE wait == [T EXCEPT !.pc = "lock"]
           enter == [T EXCEPT !.pc = "flatcancel", !.left = Retries,
                              !.syms = {s \in Symbols : quotes[s] # 0}]
<1>1. task' = [task EXCEPT ![t] = wait] \/ task' = [task EXCEPT ![t] = enter]
  BY DEF EnterFlatten, Flatten
<1>2. wait.o = T.o /\ wait.then = T.then /\ wait.pc = "lock"
  BY DEF Task
<1>3. enter.o = T.o /\ enter.then = T.then /\ enter.pc = "flatcancel"
  BY DEF Task
<1>4. T.o <= made'.objs
  BY BoundsInNat DEF Task, TypeInv, ControlTyped, Grows
<1> HIDE DEF wait, enter
<1>5. MadeTask(wait, made'.objs) /\ MadeTask(enter, made'.objs)
  BY <1>2, <1>3, <1>4 DEF MadeTask
<1> QED BY <1>1, <1>5, MadeMove

LEMMA IdleTaskMade ==
    ASSUME TypeInv
    PROVE  /\ IdleTask.o = 0 /\ IdleTask.then = "idle" /\ IdleTask \in Task
           /\ 0 <= made.objs /\ IdleTask.pc = "idle" /\ IdleTask.todo = {}
BY IdleTaskTyped, BoundsInNat DEF IdleTask, TypeInv, ControlTyped

LEMMA FlatteningMade ==
    ASSUME TypeInv, MadeInv, NEW t \in Tasks, Flattening(t) PROVE MadeInv'
<1> USE DEF MadeInv
<1>1. UNCHANGED made /\ Grows /\ made'.objs = made.objs
  BY MadeKept DEF Flattening, FlattenLock, FlattenSnapshot, FlattenCheck, FlattenAgain,
     FlattenDone, FlattenEnds, FlattenCancel, FlattenClose, FlattenBook
<1>2. task[t] \in Task /\ MadeTask(task[t], made.objs) /\ made.objs \in Nat
  BY BoundsInNat DEF TypeInv, TaskTyped, MadeTasks, ControlTyped
<1>3. ASSUME NEW o \in Objs, FlattenBook(t, o) PROVE MadeInv'
  <2> DEFINE T == [task[t] EXCEPT !.todo = task[t].todo \ {o}]
  <2>1. task' = [task EXCEPT ![t] = T]
    BY <1>2, <1>3 DEF FlattenBook, TypeInv, TaskTyped, Task
  <2>2. /\ T.o = task[t].o /\ T.then = task[t].then
        /\ T.todo \subseteq task[t].todo /\ T.pc = task[t].pc
    BY <1>2 DEF Task
  <2> HIDE DEF T
  <2>3. MadeTasks'
    BY <1>1, <2>1, <2>2, MadeGoes
  <2>4. Release(obj[o].sym)
    BY <1>3 DEF FlattenBook, MarkClosed
  <2> QED BY <1>1, <2>3, <2>4, ReleaseMade
<1>4. CASE ~ \E o \in Objs : FlattenBook(t, o)
  <2>1. UNCHANGED positions
    BY <1>4 DEF Flattening, FlattenLock, FlattenSnapshot, FlattenCheck, FlattenAgain,
       FlattenDone, FlattenEnds, FlattenCancel, FlattenClose, bookVars
  <2>2. MadeTasks'
    <3>1. CASE FlattenLock(t)
      <4>1. task[t].pc = "lock" /\ EnterFlatten(t, task[t], ctl)
        BY <3>1 DEF FlattenLock, At
      <4> QED BY <1>1, <1>2, <4>1, EnterFlattenMade DEF MadeTask, FlattenOrLock
    <3>2. ASSUME NEW s \in Symbols, FlattenCancel(t, s) \/ FlattenClose(t, s)
          PROVE  MadeTasks'
      <4> DEFINE T == [task[t] EXCEPT !.syms = task[t].syms \ {s}]
      <4>1. task' = [task EXCEPT ![t] = T]
        BY <1>2, <3>2 DEF FlattenCancel, FlattenClose, TypeInv, TaskTyped, Task
      <4>2. /\ T.o = task[t].o /\ T.then = task[t].then
            /\ T.todo = task[t].todo /\ T.pc = task[t].pc
        BY <1>2 DEF Task
      <4> HIDE DEF T
      <4> QED BY <1>1, <4>1, <4>2, MadeGoes
    <3>3. CASE FlattenSnapshot(t)
      <4>1. PICK syms, snap :
               task' = [task EXCEPT ![t] = [task[t] EXCEPT
                 !.pc = IF syms = {} THEN "flatfinal" ELSE "flatclose",
                 !.syms = syms, !.snap = snap]]
        BY <3>3 DEF FlattenSnapshot
      <4> DEFINE pc == IF syms = {} THEN "flatfinal" ELSE "flatclose"
                 T == [task[t] EXCEPT !.pc = pc, !.syms = syms, !.snap = snap]
      <4>2. T.o = task[t].o /\ T.then = task[t].then /\ T.todo = task[t].todo /\ T.pc = pc
        BY <1>2 DEF Task
      <4>3. task[t].pc \in FlattenOrLock
        BY <3>3 DEF FlattenSnapshot, At, FlattenOrLock, FlattenPcs
      <4>4. pc \in FlattenOrLock \ {"flatbook"}
        BY DEF FlattenPcs, FlattenOrLock
      <4>5. task' = [task EXCEPT ![t] = T]
        BY <4>1
      <4> HIDE DEF T, pc
      <4>6. T.todo \subseteq task[t].todo
        BY <4>2
      <4> QED BY <1>1, <4>2, <4>3, <4>4, <4>5, <4>6, MadeGoes
    <3>4. CASE FlattenCheck(t)
      <4> DEFINE gone(snap) == {positions[s] : s \in {x \in Managed : snap.pos[x].units = 0}}
                 T(snap) == [task[t] EXCEPT !.pc = "flatbook", !.left = task[t].left - 1,
                               !.todo = gone(snap), !.snap = NoSnap]
      <4>1. PICK snap : task' = [task EXCEPT ![t] = T(snap)]
        BY <3>4 DEF FlattenCheck
      <4>2. \A x \in gone(snap) : x <= made.objs
        BY DEF Managed
      <4>3. /\ T(snap).o = task[t].o /\ T(snap).then = task[t].then
            /\ T(snap).todo = gone(snap) /\ T(snap).pc = "flatbook"
        BY <1>2 DEF Task
      <4>4. task[t].pc \in FlattenOrLock
        BY <3>4 DEF FlattenCheck, At, FlattenOrLock, FlattenPcs
      <4> HIDE DEF T, gone
      <4>5. MadeTask(T(snap), made'.objs)
        BY <1>1, <1>2, <4>2, <4>3, <4>4 DEF MadeTask, FlattenOrLock, FlattenPcs
      <4> QED BY <1>1, <4>1, <4>5, MadeMove
    <3>5. CASE FlattenAgain(t)
      <4>1. task[t].pc = "flatbook"
        BY <3>5 DEF FlattenAgain, At
      <4>2. Goto(t, "flatfinal") \/ Goto(t, "flatsnap")
        BY <3>5 DEF FlattenAgain
      <4> QED BY <1>1, <4>1, <4>2, MadeGoto DEF FlattenOrLock, FlattenPcs
    <3>6. CASE FlattenDone(t)
      <4> DEFINE T == [IdleTask EXCEPT !.pc = task[t].then]
      <4>1. task[t].pc = "flatfinal" /\ task' = [task EXCEPT ![t] = T]
        BY <3>6 DEF FlattenDone, FlattenEnds, At
      <4>2. task[t].then \in {"idle", "off"}
        BY <1>2, <4>1 DEF MadeTask, FlattenOrLock, FlattenPcs
      <4>3. T.o = 0 /\ T.then = "idle" /\ T.pc = task[t].then
        BY DEF IdleTask
      <4> HIDE DEF T
      <4>4. MadeTask(T, made'.objs)
        BY <1>1, <1>2, <4>2, <4>3 DEF MadeTask, FlattenOrLock, FlattenPcs
      <4> QED BY <1>1, <4>1, <4>4, MadeMove
    <3> QED BY <1>4, <3>1, <3>2, <3>3, <3>4, <3>5, <3>6 DEF Flattening
  <2> QED BY <1>1, <2>1, <2>2, PositionsMade
<1> QED BY <1>3, <1>4 DEF Flattening

LEMMA LoopEndsMade ==
    ASSUME TypeInv, MadeInv, LoopExit \/ LoopKillCheck PROVE MadeInv'
<1> USE DEF MadeInv
<1>1. UNCHANGED <<positions, made>> /\ Grows /\ made'.objs = made.objs
  BY MadeKept DEF LoopExit, LoopKillCheck, bookVars
<1>2. /\ "loop" \in Tasks /\ task["loop"] \in Task
      /\ MadeTask(task["loop"], made.objs) /\ made.objs \in Nat
  BY LoopTask, BoundsInNat DEF MadeTasks, TypeInv, ControlTyped
<1>3. MadeTasks'
  <2>1. CASE Goto("loop", "off") /\ LoopExit
    <3> DEFINE T == [task["loop"] EXCEPT !.pc = "off"]
    <3>1. task' = [task EXCEPT !["loop"] = T]
      BY <1>2, <2>1, SetPc DEF TypeInv, TaskTyped
    <3>2. T.o = task["loop"].o /\ T.then = task["loop"].then
          /\ T.todo = task["loop"].todo /\ T.pc = "off"
      BY <1>2 DEF Task
    <3> HIDE DEF T
    <3>3. MadeTask(T, made'.objs)
      BY <1>1, <1>2, <3>2 DEF MadeTask, FlattenOrLock, FlattenPcs
    <3> QED BY <1>1, <1>2, <3>1, <3>3, MadeMove
  <2>2. CASE LoopExit /\ ~Goto("loop", "off")
    <3> DEFINE T == [task["loop"] EXCEPT !.then = "off", !.why = "loop_exit"]
    <3>1. T \in Task /\ T.o = task["loop"].o /\ T.then = "off"
      BY <1>2 DEF Task
    <3>2. EnterFlatten("loop", T, ctl)
      BY <2>2 DEF LoopExit
    <3> HIDE DEF T
    <3> QED BY <1>1, <1>2, <3>1, <3>2, EnterFlattenMade DEF MadeTask
  <2>3. CASE task' = [task EXCEPT !["loop"] = IdleTask]
    <3>1. MadeTask(IdleTask, made'.objs)
      BY <1>1, IdleTaskMade DEF MadeTask, FlattenOrLock, FlattenPcs
    <3> QED BY <1>1, <1>2, <2>3, <3>1, MadeMove
  <2>4. CASE LoopKillCheck /\ task' # [task EXCEPT !["loop"] = IdleTask]
    <3> DEFINE T == [IdleTask EXCEPT !.why = "trip"]
               c == [ctl EXCEPT !.kill = TRUE, !.running = FALSE]
    <3>1. T \in Task /\ T.o = 0 /\ T.then = "idle"
      BY IdleTaskMade DEF Task
    <3>2. EnterFlatten("loop", T, c)
      BY <2>4 DEF LoopKillCheck
    <3> HIDE DEF T, c
    <3> QED BY <1>1, <1>2, <3>1, <3>2, IdleTaskMade, EnterFlattenMade
  <2> QED BY <2>1, <2>2, <2>3, <2>4
<1> QED BY <1>1, <1>3, PositionsMade

LEMMA OpStepMade ==
    ASSUME TypeInv, MadeInv, OpStep PROVE MadeInv'
<1> USE DEF MadeInv
<1>1. "op" \in Tasks /\ "loop" \in Tasks
  BY DEF Tasks
<1>2. CASE Flattening("op")
  BY <1>1, <1>2, FlatteningMade
<1>3. CASE OpKillAll \/ OpRunStop \/ OpRun
  <2>1. UNCHANGED <<positions, made>> /\ Grows /\ made'.objs = made.objs
    BY <1>3, MadeKept DEF OpKillAll, OpRunStop, OpRun, Request, bookVars
  <2>2. MadeTasks'
    <3>1. CASE OpKillAll \/ OpRunStop
      <4> DEFINE T(why) == [IdleTask EXCEPT !.why = why]
      <4>1. PICK why \in {"kill_all", "run_stop"} : \E c : EnterFlatten("op", T(why), c)
        BY <3>1 DEF OpKillAll, OpRunStop
      <4>2. T(why) \in Task /\ T(why).o = 0 /\ T(why).then = "idle"
        BY IdleTaskMade DEF Task
      <4> HIDE DEF T
      <4> QED BY <1>1, <2>1, <4>1, <4>2, IdleTaskMade, EnterFlattenMade
    <3>2. CASE OpRun
      <4> DEFINE T == [IdleTask EXCEPT !.pc = "start"]
      <4>1. task' = [task EXCEPT !["loop"] = T]
        BY <3>2 DEF OpRun
      <4>2. T.o = 0 /\ T.then = "idle" /\ T.pc = "start"
        BY DEF IdleTask
      <4> HIDE DEF T
      <4>3. MadeTask(T, made'.objs)
        BY <2>1, <4>2, IdleTaskMade DEF MadeTask, FlattenOrLock, FlattenPcs
      <4> QED BY <1>1, <2>1, <4>1, <4>3, MadeMove
    <3> QED BY <1>3, <3>1, <3>2
  <2> QED BY <2>1, <2>2, PositionsMade
<1> QED BY <1>2, <1>3 DEF OpStep

LEMMA EnvironmentMade ==
    ASSUME TypeInv, MadeInv, Environment PROVE MadeInv'
<1>1. UNCHANGED <<task, made, positions>>
  BY DEF Environment, VenueAccept, VenueFill, VenueExpire, VenueClose, AttachDone, bookVars
<1> QED BY <1>1, MadeStay

LEMMA MadeInvNext ==
    ASSUME TypeInv, MadeInv, [Next]_vars PROVE MadeInv'
<1>1. CASE UNCHANGED vars
  BY <1>1, MadeStay DEF vars
<1>2. CASE SigStep
  <2>1. "sig" \in Tasks
    BY DEF Tasks
  <2> QED BY <1>2, <2>1, EntryMade, ArmTakerMade, OpenDoneMade, ClosingMade
          DEF SigStep, SigWork, Submitting, Opening, Closing
<1>3. CASE LoopStep
  <2>1. "loop" \in Tasks
    BY DEF Tasks
  <2> QED BY <1>3, <2>1, EntryMade, OpenDoneMade, ClosingMade, LoopQuotesMade,
             LoopRecoverMade, LoopManageMade, LoopEndsMade, FlatteningMade
          DEF LoopStep, Submitting, Opening, Closing
<1>4. CASE OpStep
  BY <1>4, OpStepMade
<1>5. CASE Environment
  BY <1>5, EnvironmentMade
<1> QED BY <1>1, <1>2, <1>3, <1>4, <1>5 DEF Next

(***************************************************************************)
(* The ledger.                                                             *)
(***************************************************************************)
\* Whatever is in the ledger is closed, its key is spent and it was made.
Recorded(o) ==
    Booked(o) => obj[o].closed /\ obj[o].key \in closedKeys /\ o <= made.objs

LedgerInv == /\ \A o \in Objs : Recorded(o)
             /\ BookedOncePerKey

\* The ways a step can touch the objects and the spent keys.
Untouched == /\ closedKeys' = closedKeys
             /\ \A o \in Objs : /\ obj'[o].key = obj[o].key
                                /\ obj'[o].reason = obj[o].reason
                                /\ obj'[o].closed = obj[o].closed
             /\ made.objs <= made.objs'

Adopted == \E s \in Symbols, row \in RawRow, pnl, closed \in BOOLEAN :
              Adopt(s, row, pnl, closed)

MarkedClosed ==
    /\ UNCHANGED made
    /\ \E o \in Objs, id \in 0..MaxOrders, why \in {"exit", "exchange_close", "emergency"} :
          o <= made.objs /\ MarkClosed(o, id, why)

LEMMA UntouchedLedger ==
    ASSUME TypeInv, LedgerInv, Untouched, made'.objs \in Nat
    PROVE  LedgerInv' /\ LedgerStep
<1>1. \A o \in Objs : o \in Nat
  BY BoundsInNat DEF Objs
<1>2. made.objs \in Nat
  BY BoundsInNat DEF TypeInv, ControlTyped
<1>3. \A o \in Objs : Booked(o)' <=> Booked(o)
  BY DEF Untouched, Booked
<1>4. ASSUME NEW o \in Objs PROVE Recorded(o)'
  BY <1>1, <1>2, <1>3 DEF Untouched, LedgerInv, Recorded
<1>5. BookedOncePerKey'
  BY <1>3 DEF Untouched, LedgerInv, BookedOncePerKey
<1> QED BY <1>4, <1>5 DEF LedgerInv, Untouched, LedgerStep

LEMMA AdoptedLedger ==
    ASSUME TypeInv, LedgerInv, Adopted
    PROVE  LedgerInv' /\ LedgerStep
<1>1. PICK s \in Symbols, row \in RawRow, pnl \in BOOLEAN, closed \in BOOLEAN :
        Adopt(s, row, pnl, closed)
  BY DEF Adopted
<1> DEFINE n == made.objs + 1
<1>2. /\ n \in Objs /\ made.objs \in Nat /\ made'.objs = n /\ closedKeys' = closedKeys
      /\ obj \in [Objs -> Object] /\ \A o \in Objs : o \in Nat
  BY <1>1, BoundsInNat DEF TypeInv, ControlTyped, BookTyped, Adopt, Objs
<1>3. ~Booked(n)
  BY <1>2 DEF LedgerInv, Recorded
<1>4. obj'[n].key = NoKey
  BY <1>1, <1>2 DEF Adopt, NoObj
<1>5. \A o \in Objs : o # n => obj'[o] = obj[o]
  BY <1>1, <1>2 DEF Adopt
<1>6. \A o \in Objs : Booked(o)' => o # n /\ Booked(o)
  BY <1>4, <1>5 DEF Booked
<1>7. ASSUME NEW o \in Objs PROVE Recorded(o)'
  BY <1>2, <1>5, <1>6 DEF LedgerInv, Recorded
<1>8. BookedOncePerKey'
  BY <1>4, <1>5, <1>6 DEF LedgerInv, BookedOncePerKey, Booked
<1>9. LedgerStep
  BY <1>3, <1>5 DEF LedgerStep
<1> QED BY <1>7, <1>8, <1>9 DEF LedgerInv

LEMMA MarkedClosedLedger ==
    ASSUME TypeInv, LedgerInv, MarkedClosed
    PROVE  LedgerInv' /\ LedgerStep
<1>1. PICK n \in Objs, id \in 0..MaxOrders, why \in {"exit", "exchange_close", "emergency"} :
        n <= made.objs /\ MarkClosed(n, id, why)
  BY DEF MarkedClosed
<1> DEFINE pid == IF id # 0 THEN id ELSE obj[n].pid
           key == CloseKey(n, pid)
<1>2. obj \in [Objs -> Object] /\ made.objs \in Nat /\ made' = made
  BY BoundsInNat DEF TypeInv, BookTyped, ControlTyped, MarkedClosed
<1>3. CASE Duplicate(n, pid)
  <2>1. obj' = [obj EXCEPT ![n].pid = pid] /\ closedKeys' = closedKeys
    BY <1>1, <1>3 DEF MarkClosed
  <2>2. Untouched
    BY <1>2, <2>1 DEF Untouched, Object
  <2> QED BY <1>2, <2>2, UntouchedLedger
<1>4. CASE ~Duplicate(n, pid)
  <2>1. /\ obj' = [obj EXCEPT ![n] = [obj[n] EXCEPT !.pid = pid, !.closed = TRUE,
                                       !.reason = why, !.key = key]]
        /\ closedKeys' = closedKeys \cup {key}
    BY <1>1, <1>4 DEF MarkClosed, Book
  <2>2. /\ obj'[n].key = key /\ obj'[n].closed
        /\ \A o \in Objs : o # n => obj'[o] = obj[o]
    BY <1>2, <2>1 DEF Object
  <2>3. ~obj[n].closed /\ key \notin closedKeys
    BY <1>4 DEF Duplicate
  <2>4. ~Booked(n)
    BY <2>3 DEF LedgerInv, Recorded
  <2>5. ASSUME NEW o \in Objs PROVE Recorded(o)'
    BY <1>1, <1>2, <2>1, <2>2 DEF LedgerInv, Recorded, Booked
  <2>6. \A o \in Objs : Booked(o) => obj[o].key # key
    BY <2>3 DEF LedgerInv, Recorded
  <2>7. BookedOncePerKey'
    BY <2>2, <2>6 DEF LedgerInv, BookedOncePerKey, Booked
  <2>8. LedgerStep
    BY <2>2, <2>4 DEF LedgerStep
  <2> QED BY <2>5, <2>7, <2>8 DEF LedgerInv
<1> QED BY <1>3, <1>4

\* Every step of the specification is one of the three.
LEMMA UnchangedUntouched ==
    ASSUME TypeInv, UNCHANGED <<obj, closedKeys>>, Grows PROVE Untouched
BY DEF Untouched, Grows

LEMMA HistoryIdsIn ==
    ASSUME TypeInv, NEW o, NEW id \in HistoryIds(o) PROVE id \in 0..MaxOrders
BY HistoryIdsTyped DEF TypeInv

LEMMA MarkedClosedBy ==
    ASSUME TypeInv, NEW o \in Objs, o <= made.objs, UNCHANGED made,
           NEW why \in {"exit", "exchange_close", "emergency"},
           NEW id \in HistoryIds(o), MarkClosed(o, id, why)
    PROVE  MarkedClosed
BY HistoryIdsIn DEF MarkedClosed

LEMMA EntryLedger ==
    ASSUME TypeInv, NEW t \in Tasks,
           \/ (\E s \in Symbols : Decide(s)) \/ ArmTaker \/ AckMaker
           \/ SubmitRefused(t) \/ Send(t) \/ NotAcked(t) \/ AckTaker(t) \/ Find(t)
    PROVE  Untouched
<1>1. UNCHANGED <<obj, closedKeys>> /\ made'.objs = made.objs
  BY DEF Decide, DecideIf, ArmTaker, SubmitHead, SubmitIf, AckMaker, SubmitRefused, Send,
         NotAcked, AckTaker, Find, bookVars, TypeInv, ControlTyped
<1>2. Grows
  BY <1>1, BoundsInNat DEF TypeInv, ControlTyped, Grows
<1> QED BY <1>1, <1>2, UnchangedUntouched

LEMMA OpenDoneLedger ==
    ASSUME TypeInv, NEW t \in Tasks, OpenDone(t) PROVE Adopted
<1>1. Adopt(SymOf(task[t].q), task[t].raw, FALSE, FALSE) /\ task[t].pc = "open"
  BY DEF OpenDone, At
<1>2. task[t].q \in Quotes /\ task[t].raw \in RawRow
  BY <1>1 DEF TypeInv, TaskTyped, Steady, Task
<1>3. SymOf(task[t].q) \in Symbols
  BY <1>2 DEF TypeInv, QuoteTyped, Quote, SymOf
<1> QED BY <1>1, <1>2, <1>3 DEF Adopted

LEMMA ClosingLedger ==
    ASSUME TypeInv, MadeInv, NEW t \in Tasks,
           CloseSend(t) \/ CloseReply(t) \/ CloseBook(t)
    PROVE  Untouched \/ MarkedClosed
<1>1. CASE CloseSend(t) \/ CloseReply(t)
  <2>1. UNCHANGED <<obj, closedKeys, made>>
    BY <1>1 DEF CloseSend, CloseReply, bookVars
  <2> QED BY <2>1, MadeKept, UnchangedUntouched
<1>2. CASE CloseBook(t)
  <2>1. task[t].o \in Objs /\ task[t].o <= made.objs
    BY <1>2 DEF CloseBook, At, TypeInv, TaskTyped, Steady, MadeInv, MadeTasks, MadeTask
  <2> QED BY <1>2, <2>1, MarkedClosedBy DEF CloseBook
<1> QED BY <1>1, <1>2

LEMMA FlatteningLedger ==
    ASSUME TypeInv, MadeInv, NEW t \in Tasks, Flattening(t)
    PROVE  Untouched \/ MarkedClosed
<1>1. ASSUME NEW o \in Objs, FlattenBook(t, o) PROVE MarkedClosed
  <2>1. task[t].pc = "flatbook" /\ o \in task[t].todo
    BY <1>1 DEF FlattenBook, At
  <2>2. o <= made.objs
    BY <2>1 DEF MadeInv, MadeTasks, MadeTask
  <2> QED BY <1>1, <2>2, MarkedClosedBy DEF FlattenBook
<1>2. CASE ~ \E o \in Objs : FlattenBook(t, o)
  <2>1. UNCHANGED <<obj, closedKeys, made>>
    BY <1>2 DEF Flattening, FlattenLock, FlattenSnapshot, FlattenCheck, FlattenAgain,
       FlattenDone, FlattenEnds, FlattenCancel, FlattenClose, bookVars
  <2> QED BY <2>1, MadeKept, UnchangedUntouched
<1> QED BY <1>1, <1>2 DEF Flattening

LEMMA LoopLedger ==
    ASSUME TypeInv, MadeInv, LoopStep
    PROVE  Untouched \/ Adopted \/ MarkedClosed
<1>1. "loop" \in Tasks
  BY DEF Tasks
<1>2. CASE Submitting("loop") \/ Opening("loop") \/ Closing("loop")
  BY <1>1, <1>2, EntryLedger, OpenDoneLedger, ClosingLedger
     DEF Submitting, Opening, Closing
<1>3. CASE Flattening("loop")
  BY <1>1, <1>3, FlatteningLedger
<1>4. CASE LoopAdopt
  <2> DEFINE T == task["loop"]
             s == order[T.raw.pid].sym
             revived == T.q = 0 /\ store[s].kept /\ store[s].pid \in {0, T.raw.pid}
             closed == revived /\ store[s].closed
             pnl == T.q = 0
  <2>1. T.pc = "adopt" /\ Adopt(s, T.raw, pnl, closed)
    BY <1>4 DEF LoopAdopt, At
  <2>2. T.raw.pid \in Orders /\ T.raw \in RawRow
    BY <2>1, LoopTask DEF Steady
  <2>3. s \in Symbols
    BY <2>2 DEF TypeInv, VenueTyped, Order
  <2>4. pnl \in BOOLEAN /\ closed \in BOOLEAN
    <3>1. store[s].closed \in BOOLEAN
      BY <2>3 DEF TypeInv, BookTyped, Record
    <3> QED BY <3>1
  <2> HIDE DEF s, closed, pnl
  <2> QED BY <2>1, <2>2, <2>3, <2>4 DEF Adopted
<1>5. CASE LoopVanished
  <2>1. task["loop"].pc = "history" /\ UNCHANGED made
    BY <1>5 DEF LoopVanished, Vanished, At
  <2>2. task["loop"].o \in Objs /\ task["loop"].o <= made.objs
    BY <1>1, <2>1, LoopTask DEF Steady, MadeInv, MadeTasks, MadeTask
  <2>3. \/ \E id \in HistoryIds(task["loop"].o) :
             MarkClosed(task["loop"].o, id, "exchange_close")
        \/ UNCHANGED bookVars
    BY <1>5 DEF LoopVanished, Vanished
  <2> QED BY <2>1, <2>2, <2>3, MarkedClosedBy, MadeKept, UnchangedUntouched DEF bookVars
<1>6. ASSUME NEW o \in Objs, LoopHold(o) \/ LoopMove(o) \/ LoopRule(o) PROVE Untouched
  <2>1. PICK b : obj' = [obj EXCEPT ![o].pnl = b]
    BY <1>6 DEF LoopHold, LoopMove, LoopRule, Manage, ManageBelow
  <2>2. UNCHANGED <<closedKeys, made>>
    BY <1>6 DEF LoopHold, LoopMove, LoopRule, Manage, ManageBelow
  <2> QED BY <2>1, <2>2, MadeKept DEF Untouched, Grows, TypeInv, BookTyped, Object
<1>7. CASE /\ ~(Submitting("loop") \/ Opening("loop") \/ Closing("loop"))
           /\ ~Flattening("loop") /\ ~LoopAdopt /\ ~LoopVanished
           /\ ~ \E o \in Objs : LoopHold(o) \/ LoopMove(o) \/ LoopRule(o)
  <2>1. UNCHANGED <<obj, closedKeys, made>>
    BY <1>7 DEF LoopStep, LoopStart, LoopTick, LoopExit, LoopQuotes, LoopQuoteUnsent,
       SubmitHead, SubmitIf, LoopQuoteAsk, LoopQuoteFilled, LoopQuoteUnfilled,
       LoopCancel, LoopSnapshot, LoopRecover, RecoverUnless, LoopAdoptFails,
       LoopRecovered, ManageAll, LoopMissing, LoopTrail, LoopKillCheck, bookVars
  <2> QED BY <2>1, MadeKept, UnchangedUntouched
<1> QED BY <1>2, <1>3, <1>4, <1>5, <1>6, <1>7

LEMMA LedgerSteps ==
    ASSUME TypeInv, MadeInv, [Next]_vars
    PROVE  Untouched \/ Adopted \/ MarkedClosed
<1>1. CASE UNCHANGED vars
  <2>1. UNCHANGED <<obj, closedKeys, made>>
    BY <1>1 DEF vars
  <2> QED BY <2>1, MadeKept, UnchangedUntouched
<1>2. CASE SigStep
  <2>1. "sig" \in Tasks
    BY DEF Tasks
  <2> QED BY <1>2, <2>1, EntryLedger, OpenDoneLedger, ClosingLedger
          DEF SigStep, SigWork, Submitting, Opening, Closing
<1>3. CASE LoopStep
  BY <1>3, LoopLedger
<1>4. CASE OpStep
  <2>1. "op" \in Tasks
    BY DEF Tasks
  <2>2. CASE Flattening("op")
    BY <2>1, <2>2, FlatteningLedger
  <2>3. CASE ~Flattening("op")
    <3>1. UNCHANGED <<obj, closedKeys, made>>
      BY <1>4, <2>3 DEF OpStep, OpKillAll, OpRunStop, OpRun, Request, bookVars
    <3> QED BY <3>1, MadeKept, UnchangedUntouched
  <2> QED BY <2>2, <2>3
<1>5. CASE Environment
  <2>1. ASSUME NEW s \in Symbols, NEW pid \in Orders, AttachDone(s, pid) PROVE Untouched
    <3>1. obj' = obj \/ obj' = [obj EXCEPT ![positions[s]].pid = pid]
      BY <2>1 DEF AttachDone
    <3>2. UNCHANGED <<closedKeys, made>>
      BY <2>1 DEF AttachDone
    <3> QED BY <3>1, <3>2, MadeKept DEF Untouched, Grows, TypeInv, BookTyped, Object
  <2>2. CASE ~ \E s \in Symbols, pid \in Orders : AttachDone(s, pid)
    <3>1. UNCHANGED <<obj, closedKeys, made>>
      BY <1>5, <2>2 DEF Environment, VenueAccept, VenueFill, VenueExpire, VenueClose, bookVars
    <3> QED BY <3>1, MadeKept, UnchangedUntouched
  <2> QED BY <2>1, <2>2
<1> QED BY <1>1, <1>2, <1>3, <1>4, <1>5 DEF Next

LEMMA LedgerInvNext ==
    ASSUME TypeInv, TypeInv', MadeInv, LedgerInv, [Next]_vars
    PROVE  LedgerInv' /\ LedgerStep
<1>1. made'.objs \in Nat
  BY BoundsInNat DEF TypeInv, ControlTyped
<1> QED BY <1>1, LedgerSteps, UntouchedLedger, AdoptedLedger, MarkedClosedLedger

LEMMA LedgerInit == Init => MadeInv /\ LedgerInv
BY BoundsInNat DEF Init, MadeInv, MadeTasks, MadeTask, FlattenOrLock, FlattenPcs, IdleTask,
   LedgerInv, Recorded, BookedOncePerKey, Booked, NoObj

THEOREM LedgerInvHolds == Spec => [](TypeInv /\ MadeInv /\ LedgerInv)
<1>1. Init => TypeInv /\ MadeInv /\ LedgerInv
  BY TypeInvInit, LedgerInit
<1>2. TypeInv /\ MadeInv /\ LedgerInv /\ [Next]_vars => (TypeInv /\ MadeInv /\ LedgerInv)'
  BY TypeInvNext, MadeInvNext, LedgerInvNext
<1> QED BY <1>1, <1>2, PTL DEF Spec

\* No two trades of the ledger have the same close key: whatever is lost or late,
\* and whichever tasks close the position, _mark_closed_externally books a key once.
THEOREM LedgerOncePerKey == Spec => []BookedOncePerKey
<1>1. TypeInv /\ MadeInv /\ LedgerInv => BookedOncePerKey
  BY DEF LedgerInv
<1> QED BY <1>1, LedgerInvHolds, PTL

\* A booked trade keeps its key and its reason for ever.
THEOREM LedgerNeverRewritten == Spec => LedgerIsFinal
<1>1. /\ TypeInv /\ MadeInv /\ LedgerInv
      /\ (TypeInv /\ MadeInv /\ LedgerInv)'
      /\ [Next]_vars
      => [LedgerStep]_vars
  BY LedgerInvNext
<1> QED BY <1>1, LedgerInvHolds, PTL DEF Spec, LedgerIsFinal

(***************************************************************************)
(* The flags of a stop.                                                    *)
(*                                                                         *)
(* _shutdown_lock: one task at a time is inside _emergency_flatten_all.    *)
(* The lock is taken on entry and freed on return, and no other step moves *)
(* a task in or out; a flatten returns to a task that is not flattening.   *)
(***************************************************************************)

InFlatten(t) == task[t].pc \in FlattenPcs

LockInv ==
    /\ \A t, u \in Tasks : InFlatten(t) /\ InFlatten(u) => t = u
    /\ ctl.lock <=> \E t \in Tasks : InFlatten(t)
    /\ ctl.emergency <=> \E t \in Tasks : InFlatten(t)

\* A step that leaves the flattening and its lock alone.
Calm == /\ \A u \in Tasks : InFlatten(u)' <=> InFlatten(u)
        /\ ctl'.lock = ctl.lock /\ ctl'.emergency = ctl.emergency

LEMMA CalmLock ==
    ASSUME LockInv, Calm PROVE LockInv'
BY DEF LockInv, Calm

\* Only t moves, from outside a flatten to outside a flatten.
LEMMA CalmMove ==
    ASSUME TypeInv, NEW t \in Tasks, NEW T, ~InFlatten(t), T.pc \notin FlattenPcs,
           task' = [task EXCEPT ![t] = T],
           ctl'.lock = ctl.lock, ctl'.emergency = ctl.emergency
    PROVE  Calm
BY DEF Calm, InFlatten, TypeInv, TaskTyped

LEMMA CalmStay ==
    ASSUME UNCHANGED <<task, ctl>> PROVE Calm
BY DEF Calm, InFlatten

LEMMA CalmGoto ==
    ASSUME TypeInv, NEW t \in Tasks, ~InFlatten(t), NEW pc \in Pcs \ FlattenPcs,
           Goto(t, pc), UNCHANGED ctl
    PROVE  Calm
<1>1. task[t] \in Task
  BY DEF TypeInv, TaskTyped
<1> DEFINE T == [task[t] EXCEPT !.pc = pc]
<1>2. task' = [task EXCEPT ![t] = T]
  BY <1>1, SetPc DEF Goto, TypeInv, TaskTyped
<1>3. T.pc = pc
  BY <1>1 DEF Task
<1> HIDE DEF T
<1> QED BY <1>2, <1>3, CalmMove

Locked  == FlattenPcs \cup {"lock"}
Guarded  == {"tick", "submit"}
Unlocked(t) == task[t].pc \notin Locked

\* A step outside of flattens: one task moves, and the flags stay.  It comes
\* before an order only if the flags allow one.
Proceeds ==
    /\ UNCHANGED ctl
    /\ \/ UNCHANGED task
       \/ \E t \in Tasks :
            /\ Unlocked(t) /\ task'[t].pc \notin Locked
            /\ task'[t].pc \in Guarded => \/ task'[t].pc = task[t].pc
                                         \/ ~(ctl.kill /\ ShuttingDown)
            /\ \A u \in Tasks : u # t => task'[u] = task[u]

LEMMA WorkMove ==
    ASSUME TypeInv, NEW t \in Tasks, NEW T, Unlocked(t), T.pc \notin Locked,
           T.pc \in Guarded => T.pc = task[t].pc \/ ~(ctl.kill /\ ShuttingDown),
           task' = [task EXCEPT ![t] = T], UNCHANGED ctl
    PROVE  Proceeds
<1>1. task'[t] = T /\ \A u \in Tasks : u # t => task'[u] = task[u]
  BY DEF TypeInv, TaskTyped
<1> QED BY <1>1 DEF Proceeds

\* The steps of a task that are neither a flatten nor the eve of an order.
LEMMA Plain ==
    \A p \in {"ack", "find", "open", "quotes", "check", "cancel", "recover", "adopt",
             "manage", "trail", "history", "close", "closing", "resolve"} :
        p \notin Locked /\ p \notin Guarded
BY DEF Locked, FlattenPcs, Guarded

LEMMA WorksCalm ==
    ASSUME Proceeds PROVE Calm
BY DEF Proceeds, Calm, Unlocked, Locked, InFlatten

\* The return to the caller is not into a flatten, nor before an order.
LEMMA WorkBack ==
    ASSUME TypeInv, NEW t \in Tasks, Unlocked(t), Back(t), UNCHANGED ctl
    PROVE  Proceeds
<1>1. task[t] \in Task
  BY DEF TypeInv, TaskTyped
<1> DEFINE T == Return(task[t])
<1>2. task' = [task EXCEPT ![t] = T]
  BY DEF Back
<1>3. T.pc = task[t].then
  BY <1>1 DEF Return, Task
<1>4. T.pc \notin Locked \cup Guarded
  BY <1>1, <1>3 DEF Task, Locked, FlattenPcs, Guarded
<1> HIDE DEF T
<1> QED BY <1>2, <1>4, WorkMove

LEMMA WorkGoto ==
    ASSUME TypeInv, NEW t \in Tasks, Unlocked(t), NEW pc \in Pcs \ (Locked \cup Guarded),
           Goto(t, pc), UNCHANGED ctl
    PROVE  Proceeds
<1>1. task[t] \in Task
  BY DEF TypeInv, TaskTyped
<1> DEFINE T == [task[t] EXCEPT !.pc = pc]
<1>2. task' = [task EXCEPT ![t] = T]
  BY <1>1, SetPc DEF Goto, TypeInv, TaskTyped
<1>3. T.pc = pc
  BY <1>1 DEF Task
<1> HIDE DEF T
<1> QED BY <1>2, <1>3, WorkMove

\* The submission of a quote, by the scoring task or by the loop.
LEMMA SubmitProceeds ==
    ASSUME TypeInv, NEW t \in Tasks, NEW n, NEW armed, NEW T \in Task, Unlocked(t),
           SubmitHead(t, n, armed, T)
    PROVE  Proceeds
<1>1. UNCHANGED ctl
  BY DEF SubmitHead, SubmitIf
<1>2. CASE task' = [task EXCEPT ![t] = Return(T)]
  <2> DEFINE R == Return(T)
  <2>1. R.pc = T.then
    BY DEF Return, Task
  <2>2. R.pc \notin Locked \cup Guarded
    BY <2>1 DEF Task, Locked, FlattenPcs, Guarded
  <2>3. task' = [task EXCEPT ![t] = R]
    BY <1>2
  <2> HIDE DEF R
  <2> QED BY <1>1, <2>2, <2>3, WorkMove
<1>3. CASE /\ ~ShuttingDown
           /\ task' = [task EXCEPT ![t] = [T EXCEPT !.pc = "submit", !.q = n]]
  <2> DEFINE R == [T EXCEPT !.pc = "submit", !.q = n]
  <2>1. R.pc = "submit"
    BY DEF Task
  <2>2. task' = [task EXCEPT ![t] = R]
    BY <1>3
  <2>3. R.pc \notin Locked
    BY <2>1 DEF Locked, FlattenPcs
  <2> HIDE DEF R
  <2> QED BY <1>1, <1>3, <2>2, <2>3, WorkMove
<1> QED BY <1>2, <1>3 DEF SubmitHead, SubmitIf

LEMMA OpenFromProceeds ==
    ASSUME TypeInv, NEW t \in Tasks, NEW n, NEW row, NEW q, Unlocked(t),
           OpenFrom(t, n, row, q), UNCHANGED ctl
    PROVE  Proceeds
<1>1. CASE Back(t)
  BY <1>1, WorkBack
<1>2. CASE ~Back(t)
  <2> DEFINE R == [task[t] EXCEPT !.pc = "open", !.q = n, !.raw = row]
  <2>1. task' = [task EXCEPT ![t] = R]
    BY <1>2 DEF OpenFrom, Back
  <2>2. R.pc = "open"
    BY DEF TypeInv, TaskTyped, Task
  <2> HIDE DEF R
  <2> QED BY <2>1, <2>2, WorkMove, Plain
<1> QED BY <1>1, <1>2

LEMMA EntryWorks ==
    ASSUME TypeInv, NEW t \in Tasks, Submitting(t) \/ Opening(t) PROVE Proceeds
<1>1. task[t] \in Task /\ UNCHANGED ctl
  BY DEF TypeInv, TaskTyped, Submitting, Opening, SubmitRefused, Send, NotAcked, AckTaker,
     Find, OpenDone
<1>2. Unlocked(t)
  BY DEF Submitting, Opening, SubmitRefused, Send, NotAcked, AckTaker, Find, OpenDone, At,
     Unlocked, Locked, FlattenPcs
<1>3. CASE Back(t)
  BY <1>1, <1>2, <1>3, WorkBack
<1>4. CASE \E pc \in {"ack", "find"} : Goto(t, pc)
  BY <1>1, <1>2, <1>4, WorkGoto DEF Pcs, Locked, FlattenPcs, Guarded
<1>5. CASE \E n, row, q : OpenFrom(t, n, row, q)
  BY <1>1, <1>2, <1>5, OpenFromProceeds
<1>6. CASE OpenDone(t) /\ ~Back(t)
  <2> DEFINE R == [task[t] EXCEPT !.pc = "close", !.o = made.objs + 1, !.left = 3]
  <2>1. task' = [task EXCEPT ![t] = R]
    BY <1>6 DEF OpenDone
  <2>2. R.pc = "close"
    BY <1>1 DEF Task
  <2> HIDE DEF R
  <2> QED BY <1>1, <1>2, <2>1, <2>2, WorkMove, Plain
<1> QED BY <1>3, <1>4, <1>5, <1>6 DEF Submitting, Opening, SubmitRefused, Drop, Send, NotAcked,
         AckTaker, Find

LEMMA ClosingProceeds ==
    ASSUME TypeInv, NEW t \in Tasks, Closing(t) PROVE Proceeds
<1>1. task[t] \in Task /\ UNCHANGED ctl
  BY DEF TypeInv, TaskTyped, Closing, CloseSend, CloseReply, CloseBook
<1>2. Unlocked(t)
  BY DEF Closing, CloseSend, CloseReply, CloseBook, At, Unlocked, Locked, FlattenPcs
<1>3. CASE Back(t)
  BY <1>1, <1>2, <1>3, WorkBack
<1>4. CASE Goto(t, "resolve")
  BY <1>1, <1>2, <1>4, WorkGoto DEF Pcs, Locked, FlattenPcs, Guarded
<1> DEFINE sent  == [task[t] EXCEPT !.pc = "closing", !.left = task[t].left - 1]
           again == [task[t] EXCEPT !.left = task[t].left - 1]
           retry == [task[t] EXCEPT !.pc = "close"]
<1>5. CASE \E T \in {sent, again, retry} : task' = [task EXCEPT ![t] = T]
  <2>1. sent.pc = "closing" /\ again.pc = task[t].pc /\ retry.pc = "close"
    BY <1>1 DEF Task
  <2> HIDE DEF sent, again, retry
  <2>2. PICK T \in {sent, again, retry} : task' = [task EXCEPT ![t] = T]
    BY <1>5
  <2>3. T.pc \notin Locked /\ (T.pc \in Guarded => T.pc = task[t].pc)
    BY <1>2, <2>1, Plain DEF Unlocked
  <2> QED BY <1>1, <1>2, <2>2, <2>3, WorkMove
<1> QED BY <1>3, <1>4, <1>5 DEF Closing, CloseSend, CloseReply, CloseBook, Back


\* The loop's own steps of a tick, apart from those it shares with the others.
LEMMA LoopQuotesWorks ==
    ASSUME TypeInv,
           \/ LoopStart \/ LoopTick \/ LoopQuotes
           \/ \E n \in Quotes : LoopQuoteUnsent(n) \/ LoopQuoteAsk(n)
           \/ LoopQuoteFilled \/ LoopQuoteUnfilled \/ LoopCancel
    PROVE  Proceeds
<1>1. /\ "loop" \in Tasks /\ task["loop"] \in Task /\ UNCHANGED ctl
  BY LoopTask DEF TypeInv, TaskTyped, LoopStart, LoopTick, LoopQuotes, LoopQuoteUnsent,
     LoopQuoteAsk, LoopQuoteFilled, LoopQuoteUnfilled, LoopCancel, SubmitHead, SubmitIf
<1>2. Unlocked("loop")
  BY DEF LoopStart, LoopTick, LoopQuotes, LoopQuoteUnsent, LoopQuoteAsk, LoopQuoteFilled,
     LoopQuoteUnfilled, LoopCancel, At, Unlocked, Locked, FlattenPcs
<1>3. CASE Back("loop")
  BY <1>1, <1>2, <1>3, WorkBack
<1>4. CASE \E pc \in {"idle", "balance", "find", "cancel"} : Goto("loop", pc)
  BY <1>1, <1>2, <1>4, WorkGoto DEF Pcs, Locked, FlattenPcs, Guarded
<1>5. CASE LoopQuotes
  <2> DEFINE R == [task["loop"] EXCEPT !.pc = "quotes", !.then = "quotes",
                     !.todo = {quotes[s] : s \in Symbols} \ {0}]
  <2>1. task' = [task EXCEPT !["loop"] = R] /\ R.pc = "quotes"
    BY <1>1, <1>5 DEF LoopQuotes, Task
  <2> HIDE DEF R
  <2> QED BY <1>1, <1>2, <2>1, WorkMove, Plain
<1>6. ASSUME NEW n \in Quotes, LoopQuoteUnsent(n) PROVE Proceeds
  <2> DEFINE T == [task["loop"] EXCEPT !.todo = task["loop"].todo \ {n}]
  <2>1. T \in Task /\ T.pc = task["loop"].pc
    BY <1>1 DEF Task
  <2>2. SubmitHead("loop", n, quotes, T) \/ task' = [task EXCEPT !["loop"] = T]
    BY <1>6 DEF LoopQuoteUnsent
  <2> HIDE DEF T
  <2> QED BY <1>1, <1>2, <2>1, <2>2, SubmitProceeds, WorkMove DEF Unlocked
<1>7. ASSUME NEW n \in Quotes, LoopQuoteAsk(n) PROVE Proceeds
  <2> DEFINE R == [task["loop"] EXCEPT !.todo = task["loop"].todo \ {n}, !.pc = "check",
                                       !.q = n]
  <2>1. task' = [task EXCEPT !["loop"] = R] /\ R.pc = "check"
    BY <1>1, <1>7 DEF LoopQuoteAsk, Task
  <2> HIDE DEF R
  <2> QED BY <1>1, <1>2, <2>1, WorkMove, Plain
<1>8. CASE \E n, row, q : OpenFrom("loop", n, row, q)
  BY <1>1, <1>2, <1>8, OpenFromProceeds
<1> QED BY <1>3, <1>4, <1>5, <1>6, <1>7, <1>8
        DEF LoopStart, LoopTick, LoopQuoteFilled, LoopQuoteUnfilled, LoopCancel

LEMMA LoopPositionsWorks ==
    ASSUME TypeInv,
           \/ LoopSnapshot \/ (\E s \in Symbols : LoopRecover(s))
           \/ LoopAdopt \/ LoopAdoptFails \/ LoopRecovered
           \/ \E o \in Objs : LoopHold(o) \/ LoopMove(o) \/ LoopRule(o) \/ LoopMissing(o)
           \/ LoopTrail \/ LoopVanished
    PROVE  Proceeds
<1>1. /\ "loop" \in Tasks /\ task["loop"] \in Task /\ UNCHANGED ctl
  BY LoopTask DEF TypeInv, TaskTyped, LoopSnapshot, LoopRecover, RecoverUnless, LoopAdopt,
     LoopAdoptFails, LoopRecovered, ManageAll, LoopHold, LoopMove, LoopRule, LoopMissing,
     Manage, ManageBelow, LoopTrail, LoopVanished, Vanished
<1>2. Unlocked("loop")
  BY DEF LoopSnapshot, LoopRecover, RecoverUnless, LoopAdopt, LoopAdoptFails, LoopRecovered,
     ManageAll, LoopHold, LoopMove, LoopRule, LoopMissing, Manage, ManageBelow, LoopTrail,
     LoopVanished, Vanished, At, Unlocked, Locked, FlattenPcs
<1>3. CASE Back("loop")
  BY <1>1, <1>2, <1>3, WorkBack
<1>4. CASE LoopSnapshot
  <2>1. PICK snap : task' = [task EXCEPT !["loop"] = [task["loop"] EXCEPT !.pc = "recover",
              !.then = "recover", !.snap = snap,
              !.syms = {s \in Symbols : snap.pos[s].units > 0}]]
    BY <1>4 DEF LoopSnapshot
  <2> DEFINE R == [task["loop"] EXCEPT !.pc = "recover", !.then = "recover", !.snap = snap,
                     !.syms = {s \in Symbols : snap.pos[s].units > 0}]
  <2>2. task' = [task EXCEPT !["loop"] = R] /\ R.pc = "recover"
    BY <1>1, <2>1 DEF Task
  <2> HIDE DEF R
  <2> QED BY <1>1, <1>2, <2>2, WorkMove, Plain
<1>5. ASSUME NEW s \in Symbols, LoopRecover(s) PROVE Proceeds
  <2> DEFINE T == [task["loop"] EXCEPT !.syms = task["loop"].syms \ {s}]
             R == [T EXCEPT !.pc = "adopt", !.q = quotes[s], !.raw = RowOf(T.snap.pos[s])]
  <2>1. T \in Task /\ T.pc = task["loop"].pc
    BY <1>1 DEF Task
  <2>2. task' = [task EXCEPT !["loop"] = T] \/ task' = [task EXCEPT !["loop"] = R]
    BY <1>5 DEF LoopRecover, RecoverUnless
  <2> HIDE DEF T
  <2>3. R.pc = "adopt"
    BY <2>1 DEF Task
  <2> HIDE DEF R
  <2> QED BY <1>1, <1>2, <2>1, <2>2, <2>3, WorkMove, Plain DEF Unlocked
<1>6. CASE LoopRecovered
  <2> DEFINE R == [task["loop"] EXCEPT !.pc = "manage", !.then = "manage",
                     !.todo = {positions[s] : s \in Managed}]
  <2>1. task' = [task EXCEPT !["loop"] = R] /\ R.pc = "manage"
    BY <1>1, <1>6 DEF LoopRecovered, ManageAll, Task
  <2> HIDE DEF R
  <2> QED BY <1>1, <1>2, <2>1, WorkMove, Plain
<1>7. ASSUME NEW o \in Objs, LoopHold(o) \/ LoopMove(o) \/ LoopRule(o) \/ LoopMissing(o)
      PROVE  Proceeds
  <2>1. task["loop"].pc = "manage"
    BY <1>7 DEF LoopHold, LoopMove, LoopRule, LoopMissing, Manage, ManageBelow, At
  <2>2. CASE \E T \in {task["loop"], [task["loop"] EXCEPT !.pc = "trail", !.o = o]} : Manage(o, T)
    <3>1. PICK T \in {task["loop"], [task["loop"] EXCEPT !.pc = "trail", !.o = o]} :
             Manage(o, T)
      BY <2>2
    <3> DEFINE R == [T EXCEPT !.todo = T.todo \ {o}]
    <3>2. CASE T = task["loop"]
      <4>1. R.pc = "manage"
        BY <1>1, <2>1, <3>2 DEF Task
      <4>2. task' = [task EXCEPT !["loop"] = R]
        BY <3>1 DEF Manage, ManageBelow
      <4> HIDE DEF R
      <4> QED BY <1>1, <1>2, <4>1, <4>2, WorkMove, Plain
    <3>3. CASE T = [task["loop"] EXCEPT !.pc = "trail", !.o = o]
      <4>1. T.pc = "trail" /\ R.pc = T.pc
        BY <1>1, <3>3 DEF Task
      <4>2. task' = [task EXCEPT !["loop"] = R]
        BY <3>1 DEF Manage, ManageBelow
      <4>3. R.pc \notin Locked /\ R.pc \notin Guarded
        BY <4>1, Plain
      <4> HIDE DEF R
      <4> QED BY <1>1, <1>2, <4>2, <4>3, WorkMove
    <3> QED BY <3>1, <3>2, <3>3
  <2>3. CASE \E raw : Manage(o, [task["loop"] EXCEPT !.pc = "close", !.o = o, !.left = 3,
                                                   !.raw = raw])
    <3>1. PICK raw : Manage(o, [task["loop"] EXCEPT !.pc = "close", !.o = o, !.left = 3,
                                                    !.raw = raw])
      BY <2>3
    <3> DEFINE T == [task["loop"] EXCEPT !.pc = "close", !.o = o, !.left = 3, !.raw = raw]
               R == [T EXCEPT !.todo = T.todo \ {o}]
    <3>2. T.pc = "close" /\ R.pc = T.pc
      BY <1>1 DEF Task
    <3>3. task' = [task EXCEPT !["loop"] = R]
      BY <3>1 DEF Manage, ManageBelow
    <3> HIDE DEF T, R
    <3> QED BY <1>1, <1>2, <3>2, <3>3, WorkMove, Plain
  <2>4. CASE LoopMissing(o)
    <3> DEFINE R == [task["loop"] EXCEPT !.pc = "history", !.todo = task["loop"].todo \ {o},
                                         !.o = o]
    <3>1. task' = [task EXCEPT !["loop"] = R] /\ R.pc = "history"
      BY <1>1, <2>4 DEF LoopMissing, Task
    <3> HIDE DEF R
    <3> QED BY <1>1, <1>2, <3>1, WorkMove, Plain
  <2> QED BY <1>7, <2>2, <2>3, <2>4 DEF LoopHold, LoopMove, LoopRule
<1> QED BY <1>3, <1>4, <1>5, <1>6, <1>7
        DEF LoopAdopt, LoopAdoptFails, LoopTrail, LoopVanished, Vanished

\* The scoring task's own steps.
LEMMA SigWorks ==
    ASSUME TypeInv, ArmTaker \/ AckMaker \/ \E s \in Symbols : Decide(s) PROVE Proceeds
<1>1. "sig" \in Tasks /\ task["sig"] \in Task /\ UNCHANGED ctl
  BY DEF TypeInv, TaskTyped, Tasks, ArmTaker, AckMaker, Decide, DecideIf, SubmitHead, SubmitIf
<1>2. Unlocked("sig")
  BY DEF ArmTaker, AckMaker, Decide, DecideIf, At, Unlocked, Locked, FlattenPcs
<1>3. CASE Back("sig")
  BY <1>1, <1>2, <1>3, WorkBack
<1>4. CASE ArmTaker
  BY <1>1, <1>2, <1>4, SubmitProceeds DEF ArmTaker
<1>5. ASSUME NEW s \in Symbols, Decide(s) PROVE Proceeds
  <2> DEFINE R == [task["sig"] EXCEPT !.pc = "tick", !.q = made.quotes + 1]
  <2>1. task' = [task EXCEPT !["sig"] = R] /\ R.pc = "tick" /\ ~ShuttingDown
    BY <1>1, <1>5 DEF Decide, DecideIf, Task
  <2>2. R.pc \notin Locked
    BY <2>1 DEF Locked, FlattenPcs
  <2> HIDE DEF R
  <2> QED BY <1>1, <1>2, <2>1, <2>2, WorkMove
<1> QED BY <1>3, <1>4, <1>5 DEF AckMaker

LEMMA EnvironmentWorks ==
    ASSUME Environment PROVE Proceeds
<1>1. UNCHANGED <<task, ctl>>
  BY DEF Environment, VenueAccept, VenueFill, VenueExpire, VenueClose, AttachDone
<1> QED BY <1>1 DEF Proceeds

\* A task enters only with the lock free, when no other task is inside.
LEMMA EnterLocks ==
    ASSUME TypeInv, LockInv, NEW t \in Tasks, NEW T \in Task, NEW c \in Ctl, ~InFlatten(t),
           c.lock = ctl.lock, c.emergency = ctl.emergency, EnterFlatten(t, T, c)
    PROVE  LockInv'
<1>1. CASE c.lock
  <2> DEFINE R == [T EXCEPT !.pc = "lock"]
  <2>1. task' = [task EXCEPT ![t] = R] /\ R.pc = "lock" /\ ctl' = c
    BY <1>1 DEF EnterFlatten, Task
  <2> HIDE DEF R
  <2>2. Calm
    BY <2>1, CalmMove DEF FlattenPcs
  <2> QED BY <2>2, CalmLock
<1>2. CASE ~c.lock
  <2> DEFINE R == [T EXCEPT !.pc = "flatcancel", !.left = Retries,
                            !.syms = {s \in Symbols : quotes[s] # 0}]
  <2>1. task' = [task EXCEPT ![t] = R] /\ ctl' = [c EXCEPT !.lock = TRUE, !.emergency = TRUE]
    BY <1>2 DEF EnterFlatten, Flatten
  <2>2. R.pc = "flatcancel"
    BY DEF Task
  <2> HIDE DEF R
  <2>3. ctl'.lock /\ ctl'.emergency
    BY <2>1 DEF Ctl
  <2>4. \A u \in Tasks : ~InFlatten(u)
    BY <1>2 DEF LockInv
  <2>5. \A u \in Tasks : InFlatten(u)' <=> u = t
    BY <2>1, <2>2, <2>4 DEF InFlatten, FlattenPcs, TypeInv, TaskTyped
  <2> QED BY <2>3, <2>5 DEF LockInv
<1> QED BY <1>1, <1>2

\* A step inside a flatten: the flags and the reason for the flatten stay.
Inside ==
    /\ UNCHANGED ctl
    /\ \E t \in Tasks :
         /\ InFlatten(t) /\ InFlatten(t)' /\ task'[t].why = task[t].why
         /\ \A u \in Tasks : u # t => task'[u] = task[u]

LEMMA InsideMove ==
    ASSUME TypeInv, NEW t \in Tasks, InFlatten(t), NEW T, T.pc \in FlattenPcs,
           T.why = task[t].why, task' = [task EXCEPT ![t] = T], UNCHANGED ctl
    PROVE  Inside
BY DEF Inside, InFlatten, TypeInv, TaskTyped

LEMMA InsideCalm ==
    ASSUME Inside PROVE Calm
BY DEF Inside, Calm, InFlatten

\* The steps between entry and return.
LEMMA FlattenStays ==
    ASSUME TypeInv, NEW t \in Tasks,
           \/ FlattenSnapshot(t) \/ FlattenCheck(t) \/ FlattenAgain(t)
           \/ \E s \in Symbols : FlattenCancel(t, s) \/ FlattenClose(t, s)
           \/ \E o \in Objs : FlattenBook(t, o)
    PROVE  Inside
<1>1. task[t] \in Task /\ UNCHANGED ctl
  BY DEF TypeInv, TaskTyped, FlattenSnapshot, FlattenCheck, FlattenAgain, FlattenCancel,
     FlattenClose, FlattenBook
<1>2. InFlatten(t)
  BY DEF FlattenSnapshot, FlattenCheck, FlattenAgain, FlattenCancel, FlattenClose, FlattenBook,
     At, InFlatten, FlattenPcs
<1>3. CASE FlattenSnapshot(t)
  <2> DEFINE row(snap, s) == IF snap.pos[s].units > 0 \/ positions[s] = 0 THEN snap.pos[s]
                             ELSE [pid |-> 0, units |-> obj[positions[s]].qty]
             left(snap) == {s \in Symbols : row(snap, s).units > 0}
             R(snap) == [task[t] EXCEPT
                !.pc = IF left(snap) = {} THEN "flatfinal" ELSE "flatclose",
                !.syms = left(snap),
                !.snap = [snap EXCEPT !.pos = [s \in Symbols |-> row(snap, s)]]]
  <2>1. PICK snap \in Snaps : task' = [task EXCEPT ![t] = R(snap)]
    BY <1>3 DEF FlattenSnapshot
  <2>2. R(snap).pc \in FlattenPcs /\ R(snap).why = task[t].why
    BY <1>1 DEF Task, FlattenPcs
  <2> HIDE DEF R
  <2> QED BY <1>1, <1>2, <2>1, <2>2, InsideMove
<1>4. CASE FlattenCheck(t)
  <2>1. PICK y : task' = [task EXCEPT ![t] = [task[t] EXCEPT !.pc = "flatbook",
              !.left = task[t].left - 1, !.todo = y, !.snap = NoSnap]]
    BY <1>4 DEF FlattenCheck
  <2> DEFINE R == [task[t] EXCEPT !.pc = "flatbook", !.left = task[t].left - 1, !.todo = y,
                                  !.snap = NoSnap]
  <2>2. R.pc = "flatbook" /\ R.why = task[t].why /\ task' = [task EXCEPT ![t] = R]
    BY <1>1, <2>1 DEF Task
  <2> HIDE DEF R
  <2>3. R.pc \in FlattenPcs
    BY <2>1, <2>2 DEF FlattenPcs
  <2> QED BY <1>1, <1>2, <2>2, <2>3, InsideMove
<1>5. CASE FlattenAgain(t)
  <2>1. PICK x \in {"flatfinal", "flatsnap"} : Goto(t, x)
    BY <1>5 DEF FlattenAgain
  <2> DEFINE R == [task[t] EXCEPT !.pc = x]
  <2>2. R.pc = x /\ R.why = task[t].why /\ task' = [task EXCEPT ![t] = R]
    BY <1>1, <2>1, SetPc DEF Task, TypeInv, TaskTyped
  <2> HIDE DEF R
  <2>3. R.pc \in FlattenPcs
    BY <2>1, <2>2 DEF FlattenPcs
  <2> QED BY <1>1, <1>2, <2>2, <2>3, InsideMove
<1>6. ASSUME NEW s \in Symbols, FlattenCancel(t, s) \/ FlattenClose(t, s) PROVE Inside
  <2> DEFINE R == [task[t] EXCEPT !.syms = task[t].syms \ {s}]
  <2>1. R.pc = task[t].pc /\ R.why = task[t].why /\ task' = [task EXCEPT ![t] = R]
    BY <1>1, <1>6 DEF Task, FlattenCancel, FlattenClose
  <2> HIDE DEF R
  <2> QED BY <1>1, <1>2, <2>1, InsideMove DEF InFlatten
<1>7. ASSUME NEW o \in Objs, FlattenBook(t, o) PROVE Inside
  <2> DEFINE R == [task[t] EXCEPT !.todo = task[t].todo \ {o}]
  <2>1. R.pc = task[t].pc /\ R.why = task[t].why /\ task' = [task EXCEPT ![t] = R]
    BY <1>1, <1>7 DEF Task, FlattenBook
  <2> HIDE DEF R
  <2> QED BY <1>1, <1>2, <2>1, InsideMove DEF InFlatten
<1> QED BY <1>3, <1>4, <1>5, <1>6, <1>7

\* The return frees the lock; the task was the only one inside.
LEMMA ReturnUnlocks ==
    ASSUME TypeInv, LockInv, NEW t \in Tasks, FlattenDone(t) PROVE LockInv'
<1>1. task[t] \in Task /\ ctl \in Ctl /\ InFlatten(t)
  BY DEF TypeInv, TaskTyped, ControlTyped, FlattenDone, FlattenEnds, At, InFlatten, FlattenPcs
<1>2. \A u \in Tasks : u # t => ~InFlatten(u)
  BY <1>1 DEF LockInv
<1> DEFINE R == [IdleTask EXCEPT !.pc = task[t].then]
<1>3. task' = [task EXCEPT ![t] = R]
  BY DEF FlattenDone, FlattenEnds
<1>4. R.pc \notin FlattenPcs
  BY <1>1 DEF IdleTask, Task, FlattenPcs
<1>5. ~ctl'.lock /\ ~ctl'.emergency
  BY <1>1 DEF FlattenDone, FlattenEnds, Ctl
<1> HIDE DEF R
<1>6. \A u \in Tasks : ~InFlatten(u)'
  BY <1>2, <1>3, <1>4 DEF InFlatten, TypeInv, TaskTyped
<1> QED BY <1>5, <1>6 DEF LockInv

LEMMA FlatteningLock ==
    ASSUME TypeInv, LockInv, NEW t \in Tasks, Flattening(t) PROVE LockInv'
<1>1. CASE FlattenLock(t)
  <2>1. task[t] \in Task /\ ctl \in Ctl /\ ~InFlatten(t) /\ EnterFlatten(t, task[t], ctl)
    BY <1>1 DEF TypeInv, TaskTyped, ControlTyped, FlattenLock, At, InFlatten, FlattenPcs
  <2> QED BY <2>1, EnterLocks
<1>2. CASE FlattenDone(t)
  BY <1>2, ReturnUnlocks
<1> QED BY <1>1, <1>2, FlattenStays, InsideCalm, CalmLock DEF Flattening

\* The loop's two ways into a flatten: at the end of a tick and on its way out.
LEMMA LoopEndsLock ==
    ASSUME TypeInv, LockInv, LoopExit \/ LoopKillCheck PROVE LockInv'
<1>1. /\ "loop" \in Tasks /\ task["loop"] \in Task /\ ctl \in Ctl /\ ~InFlatten("loop")
  BY LoopTask DEF TypeInv, ControlTyped, LoopExit, LoopKillCheck, At, InFlatten, FlattenPcs
<1>2. CASE LoopExit /\ Goto("loop", "off") /\ UNCHANGED ctl
  BY <1>1, <1>2, CalmGoto, CalmLock DEF Pcs, FlattenPcs
<1>3. CASE LoopExit /\ ~(Goto("loop", "off") /\ UNCHANGED ctl)
  <2> DEFINE T == [task["loop"] EXCEPT !.then = "off", !.why = "loop_exit"]
  <2>1. EnterFlatten("loop", T, ctl)
    BY <1>3 DEF LoopExit
  <2>2. T \in Task
    BY <1>1 DEF Task
  <2> HIDE DEF T
  <2> QED BY <1>1, <2>1, <2>2, EnterLocks
<1>4. CASE task' = [task EXCEPT !["loop"] = IdleTask] /\ UNCHANGED ctl
  <2>1. Calm
    BY <1>1, <1>4, CalmMove DEF IdleTask, FlattenPcs
  <2> QED BY <2>1, CalmLock
<1>5. CASE LoopKillCheck /\ ~(task' = [task EXCEPT !["loop"] = IdleTask] /\ UNCHANGED ctl)
  <2> DEFINE T == [IdleTask EXCEPT !.why = "trip"]
             c == [ctl EXCEPT !.kill = TRUE, !.running = FALSE]
  <2>1. EnterFlatten("loop", T, c)
    BY <1>5 DEF LoopKillCheck
  <2>2. T \in Task /\ c \in Ctl /\ c.lock = ctl.lock /\ c.emergency = ctl.emergency
    BY <1>1, IdleTaskTyped DEF Task, Ctl
  <2> HIDE DEF T, c
  <2> QED BY <1>1, <2>1, <2>2, EnterLocks
<1> QED BY <1>2, <1>3, <1>4, <1>5

LEMMA OpLock ==
    ASSUME TypeInv, LockInv, OpKillAll \/ OpRunStop \/ OpRun PROVE LockInv'
<1>1. "op" \in Tasks /\ ctl \in Ctl
  BY DEF TypeInv, ControlTyped, Tasks
<1>2. ASSUME NEW why \in {"kill_all", "run_stop"}, NEW c \in Ctl, c.lock = ctl.lock,
             c.emergency = ctl.emergency, EnterFlatten("op", [IdleTask EXCEPT !.why = why], c),
             At("op", "idle")
      PROVE  LockInv'
  <2>1. ~InFlatten("op")
    BY <1>2 DEF At, InFlatten, FlattenPcs
  <2> DEFINE T == [IdleTask EXCEPT !.why = why]
  <2>2. T \in Task
    BY IdleTaskTyped DEF Task
  <2> HIDE DEF T
  <2> QED BY <1>1, <1>2, <2>1, <2>2, EnterLocks DEF T
<1>3. CASE OpKillAll
  <2> DEFINE c == [ctl EXCEPT !.kill = TRUE]
  <2>1. c \in Ctl /\ c.lock = ctl.lock /\ c.emergency = ctl.emergency
    BY <1>1 DEF Ctl
  <2>2. EnterFlatten("op", [IdleTask EXCEPT !.why = "kill_all"], c) /\ At("op", "idle")
    BY <1>3 DEF OpKillAll, Request
  <2> HIDE DEF c
  <2> QED BY <1>2, <2>1, <2>2
<1>4. CASE OpRunStop
  <2> DEFINE c == [ctl EXCEPT !.running = FALSE, !.stop = TRUE]
  <2>1. c \in Ctl /\ c.lock = ctl.lock /\ c.emergency = ctl.emergency
    BY <1>1 DEF Ctl
  <2>2. EnterFlatten("op", [IdleTask EXCEPT !.why = "run_stop"], c) /\ At("op", "idle")
    BY <1>4 DEF OpRunStop, Request
  <2> HIDE DEF c
  <2> QED BY <1>2, <2>1, <2>2
<1>5. CASE OpRun
  <2>1. ctl'.lock = ctl.lock /\ ctl'.emergency = ctl.emergency /\ ~InFlatten("loop")
    BY <1>1, <1>5 DEF OpRun, Ctl, InFlatten, FlattenPcs
  <2> DEFINE T == [IdleTask EXCEPT !.pc = "start"]
  <2>2. task' = [task EXCEPT !["loop"] = T] /\ T.pc = "start"
    BY <1>5 DEF OpRun, IdleTask
  <2> HIDE DEF T
  <2>3. Calm
    BY <2>1, <2>2, LoopTask, CalmMove DEF FlattenPcs
  <2> QED BY <2>3, CalmLock
<1> QED BY <1>3, <1>4, <1>5

LEMMA LockInit == Init => LockInv
BY DEF Init, LockInv, InFlatten, FlattenPcs, IdleTask

LEMMA LockInvNext ==
    ASSUME TypeInv, LockInv, [Next]_vars PROVE LockInv'
<1>1. "sig" \in Tasks /\ "loop" \in Tasks /\ "op" \in Tasks
  BY DEF Tasks
<1>2. CASE UNCHANGED vars
  BY <1>2, CalmStay, CalmLock DEF vars
<1>3. CASE SigStep
  BY <1>1, <1>3, SigWorks, EntryWorks, ClosingProceeds, WorksCalm, CalmLock DEF SigStep, SigWork
<1>4. CASE LoopStep
  BY <1>1, <1>4, LoopQuotesWorks, LoopPositionsWorks, EntryWorks, ClosingProceeds,
     FlatteningLock, LoopEndsLock, WorksCalm, CalmLock DEF LoopStep
<1>5. CASE OpStep
  BY <1>1, <1>5, OpLock, FlatteningLock DEF OpStep
<1>6. CASE Environment
  BY <1>6, EnvironmentWorks, WorksCalm, CalmLock
<1> QED BY <1>2, <1>3, <1>4, <1>5, <1>6 DEF Next

LEMMA LockExcludes == LockInv => FlattenExclusive
<1> SUFFICES ASSUME LockInv PROVE FlattenExclusive
  OBVIOUS
<1>1. ctl.emergency <=> Flatteners # {}
  BY DEF LockInv, InFlatten, Flatteners
<1>2. Flatteners = {} \/ \E t : Flatteners = {t}
  BY DEF LockInv, InFlatten, Flatteners
<1>3. Cardinality(Flatteners) \in {0, 1}
  BY <1>2, FS_EmptySet, FS_Singleton
<1> QED BY <1>1, <1>3 DEF FlattenExclusive

\* _shutdown_lock: two flattens never overlap, whoever asks for them (the operator's
\* KILL ALL or stop, a kill check, the loop's way out), and the emergency flag is up
\* exactly while one runs.
THEOREM FlattensExclude == Spec => []FlattenExclusive
<1>1. Init => TypeInv /\ LockInv
  BY TypeInvInit, LockInit
<1>2. TypeInv /\ LockInv /\ [Next]_vars => (TypeInv /\ LockInv)'
  BY TypeInvNext, LockInvNext
<1> QED BY <1>1, <1>2, LockExcludes, PTL DEF Spec

(***************************************************************************)
(* The kill switch.  From the request on one of the flags keeps every      *)
(* submission away: the emergency flag while a flatten runs or is waited   *)
(* for, the stop flag afterwards.  The tick sizes being cached, no task is *)
(* then between its look at the flags and its order.                       *)
(***************************************************************************)
Waits(t) == /\ t # "sig" /\ task[t].why # "none"
            /\ task[t].why \in {"loop_exit", "run_stop"} => ctl.stop

KillInv ==
    /\ ctl.kill => ShuttingDown
    /\ ctl.kill => \A t \in Tasks : task[t].pc \notin Guarded
    /\ \A t \in Tasks : ~Unlocked(t) => Waits(t)

LEMMA KillStay ==
    ASSUME KillInv, UNCHANGED <<task, ctl>> PROVE KillInv'
BY DEF KillInv, Waits, Unlocked, ShuttingDown

LEMMA WorksKill ==
    ASSUME KillInv, Proceeds PROVE KillInv'
<1>1. CASE UNCHANGED task
  BY <1>1, KillStay DEF Proceeds
<1>2. ASSUME NEW t \in Tasks, task'[t].pc \notin Locked,
             task'[t].pc \in Guarded => \/ task'[t].pc = task[t].pc
                                        \/ ~(ctl.kill /\ ShuttingDown),
             \A u \in Tasks : u # t => task'[u] = task[u]
      PROVE  KillInv'
  <2>1. ctl.kill' => ShuttingDown'
    BY DEF Proceeds, KillInv, ShuttingDown
  <2>2. ctl.kill' => \A u \in Tasks : task[u].pc' \notin Guarded
    BY <1>2 DEF Proceeds, KillInv
  <2>3. \A u \in Tasks : ~Unlocked(u)' => Waits(u)'
    BY <1>2 DEF Proceeds, KillInv, Unlocked, Waits
  <2> QED BY <2>1, <2>2, <2>3 DEF KillInv
<1> QED BY <1>1, <1>2 DEF Proceeds

LEMMA InsideKill ==
    ASSUME KillInv, Inside PROVE KillInv'
<1>1. UNCHANGED ctl
  BY DEF Inside
<1>2. PICK t \in Tasks :
         /\ InFlatten(t) /\ InFlatten(t)' /\ task'[t].why = task[t].why
         /\ \A u \in Tasks : u # t => task'[u] = task[u]
  BY DEF Inside
<1>3. ctl.kill' => ShuttingDown'
  BY <1>1 DEF KillInv, ShuttingDown
<1>4. \A u \in Tasks : Unlocked(u)' <=> Unlocked(u)
  BY <1>2 DEF Unlocked, Locked, InFlatten
<1>5. \A u \in Tasks : Waits(u) => Waits(u)'
  BY <1>1, <1>2 DEF Waits
<1>6. task[t].pc' \notin Guarded
  BY <1>2 DEF InFlatten, FlattenPcs, Guarded
<1>7. ctl.kill' => \A u \in Tasks : task[u].pc' \notin Guarded
  BY <1>1, <1>2, <1>6 DEF KillInv
<1> QED BY <1>3, <1>4, <1>5, <1>7 DEF KillInv

\* A task enters, or waits to, while no other is about to send.
LEMMA EnterKill ==
    ASSUME MetaCached, TypeInv, LockInv, KillInv,
           NEW t \in Tasks, NEW T \in Task, NEW c \in Ctl, t # "sig", T.why # "none",
           T.why \in {"loop_exit", "run_stop"} => c.stop, ctl.stop => c.stop,
           c.lock = ctl.lock, c.emergency = ctl.emergency, EnterFlatten(t, T, c),
           \A u \in Tasks \ {t} : ~RunsOn(u)
    PROVE  KillInv'
<1>1. ctl' \in Ctl /\ ctl'.emergency /\ ctl'.stop = c.stop
  BY DEF EnterFlatten, Flatten, Ctl, LockInv
<1>2. PICK R : task' = [task EXCEPT ![t] = R] /\ R.pc \in {"lock", "flatcancel"} /\ R.why = T.why
  <2>1. CASE c.lock
    <3> DEFINE R == [T EXCEPT !.pc = "lock"]
    <3>1. task' = [task EXCEPT ![t] = R] /\ R.pc = "lock" /\ R.why = T.why
      BY <2>1 DEF EnterFlatten, Task
    <3> QED BY <3>1
  <2>2. CASE ~c.lock
    <3> DEFINE R == [T EXCEPT !.pc = "flatcancel", !.left = Retries,
                              !.syms = {s \in Symbols : quotes[s] # 0}]
    <3>1. task' = [task EXCEPT ![t] = R]
      BY <2>2 DEF EnterFlatten, Flatten
    <3>2. R.pc = "flatcancel" /\ R.why = T.why
      BY DEF Task
    <3> QED BY <3>1, <3>2
  <2> QED BY <2>1, <2>2
<1>3. task'[t] = R /\ \A u \in Tasks : u # t => task'[u] = task[u]
  BY <1>2 DEF TypeInv, TaskTyped
<1>4. ShuttingDown'
  BY <1>1 DEF ShuttingDown
<1>5. \A u \in Tasks : task[u].pc' \notin Guarded
  <2>1. R.pc \notin Guarded
    BY <1>2 DEF Guarded
  <2>2. \A u \in Tasks \ {t} : task[u].pc \notin Guarded
    BY DEF RunsOn, Guarded
  <2> QED BY <1>3, <2>1, <2>2
<1>6. \A u \in Tasks : ~Unlocked(u)' => Waits(u)'
  <2>1. Waits(t)'
    BY <1>1, <1>2, <1>3 DEF Waits
  <2>2. ASSUME NEW u \in Tasks, u # t, ~Unlocked(u)' PROVE Waits(u)'
    BY <1>1, <1>3, <2>2 DEF KillInv, Unlocked, Waits
  <2> QED BY <2>1, <2>2
<1> QED BY <1>4, <1>5, <1>6 DEF KillInv

\* Whatever the flatten was for, the executor is stopped when it ends.
LEMMA DoneKill ==
    ASSUME TypeInv, KillInv, NEW t \in Tasks, FlattenDone(t) PROVE KillInv'
<1>1. task[t] \in Task /\ ctl \in Ctl
  BY DEF TypeInv, TaskTyped, ControlTyped
<1>2. ~Unlocked(t)
  BY DEF FlattenDone, FlattenEnds, At, Unlocked, Locked, FlattenPcs
<1>3. Waits(t)
  BY <1>2 DEF KillInv
<1>4. ctl' \in Ctl /\ ctl'.stop /\ ctl'.kill = ctl.kill
  BY <1>1, <1>3 DEF FlattenDone, FlattenEnds, Waits, Task, Ctl
<1> DEFINE R == [IdleTask EXCEPT !.pc = task[t].then]
<1>5. task' = [task EXCEPT ![t] = R]
  BY DEF FlattenDone, FlattenEnds
<1>6. R.pc \notin Locked /\ R.pc \notin Guarded
  BY <1>1 DEF IdleTask, Task, Locked, FlattenPcs, Guarded
<1> HIDE DEF R
<1>7. task'[t] = R /\ \A u \in Tasks : u # t => task'[u] = task[u]
  BY <1>5 DEF TypeInv, TaskTyped
<1>8. ShuttingDown'
  BY <1>4 DEF ShuttingDown
<1>9. ctl.kill' => \A u \in Tasks : task[u].pc' \notin Guarded
  BY <1>4, <1>6, <1>7 DEF KillInv
<1>10. \A u \in Tasks : ~Unlocked(u)' => Waits(u)'
  BY <1>4, <1>6, <1>7 DEF KillInv, Unlocked, Waits
<1> QED BY <1>8, <1>9, <1>10 DEF KillInv

LEMMA FlatteningKill ==
    ASSUME MetaCached, TypeInv, LockInv, KillInv, NEW t \in Tasks, Flattening(t)
    PROVE  KillInv'
<1>1. CASE FlattenLock(t)
  <2>1. /\ task[t] \in Task /\ ctl \in Ctl /\ EnterFlatten(t, task[t], ctl)
        /\ ~Unlocked(t) /\ \A u \in Tasks \ {t} : ~RunsOn(u)
    BY <1>1 DEF TypeInv, TaskTyped, ControlTyped, FlattenLock, At, Unlocked, Locked
  <2>2. Waits(t)
    BY <2>1 DEF KillInv
  <2> QED BY <2>1, <2>2, EnterKill DEF Waits
<1>2. CASE FlattenDone(t)
  BY <1>2, DoneKill
<1> QED BY <1>1, <1>2, FlattenStays, InsideKill DEF Flattening

LEMMA LoopEndsKill ==
    ASSUME MetaCached, TypeInv, LockInv, KillInv, LoopExit \/ LoopKillCheck PROVE KillInv'
<1>1. /\ "loop" \in Tasks /\ task["loop"] \in Task /\ ctl \in Ctl /\ Unlocked("loop")
      /\ "loop" # "sig" /\ \A u \in Tasks \ {"loop"} : ~RunsOn(u)
  BY LoopTask DEF TypeInv, ControlTyped, LoopExit, LoopKillCheck, At, Unlocked, Locked, FlattenPcs
<1>2. CASE LoopExit /\ Goto("loop", "off") /\ UNCHANGED ctl
  <2>1. "off" \in Pcs \ (Locked \cup Guarded)
    BY DEF Pcs, Locked, FlattenPcs, Guarded
  <2> QED BY <1>1, <1>2, <2>1, WorkGoto, WorksKill
<1>3. CASE LoopExit /\ ~(Goto("loop", "off") /\ UNCHANGED ctl)
  <2> DEFINE T == [task["loop"] EXCEPT !.then = "off", !.why = "loop_exit"]
  <2>1. EnterFlatten("loop", T, ctl) /\ ctl.stop
    BY <1>3 DEF LoopExit
  <2>2. T \in Task /\ T.why = "loop_exit"
    BY <1>1 DEF Task
  <2> HIDE DEF T
  <2> QED BY <1>1, <2>1, <2>2, EnterKill
<1>4. CASE task' = [task EXCEPT !["loop"] = IdleTask] /\ UNCHANGED ctl
  <2>1. IdleTask.pc \notin Locked /\ IdleTask.pc \notin Guarded
    BY DEF IdleTask, Locked, FlattenPcs, Guarded
  <2>2. Proceeds
    BY <1>1, <1>4, <2>1, WorkMove
  <2> QED BY <2>2, WorksKill
<1>5. CASE LoopKillCheck /\ ~(task' = [task EXCEPT !["loop"] = IdleTask] /\ UNCHANGED ctl)
  <2> DEFINE T == [IdleTask EXCEPT !.why = "trip"]
             c == [ctl EXCEPT !.kill = TRUE, !.running = FALSE]
  <2>1. EnterFlatten("loop", T, c)
    BY <1>5 DEF LoopKillCheck
  <2>2. T \in Task /\ T.why = "trip"
    BY IdleTaskTyped DEF Task
  <2>3. c \in Ctl /\ c.lock = ctl.lock /\ c.emergency = ctl.emergency /\ c.stop = ctl.stop
    BY <1>1 DEF Ctl
  <2> HIDE DEF T, c
  <2> QED BY <1>1, <2>1, <2>2, <2>3, EnterKill
<1> QED BY <1>2, <1>3, <1>4, <1>5

LEMMA OpKill ==
    ASSUME MetaCached, TypeInv, LockInv, KillInv, OpKillAll \/ OpRunStop \/ OpRun
    PROVE  KillInv'
<1>1. "op" \in Tasks /\ "op" # "sig" /\ ctl \in Ctl /\ At("op", "idle")
  BY DEF TypeInv, ControlTyped, Tasks, OpKillAll, OpRunStop, OpRun, Request
<1>2. \A u \in Tasks \ {"op"} : ~RunsOn(u)
  BY <1>1 DEF At
<1>3. CASE OpKillAll
  <2> DEFINE c == [ctl EXCEPT !.kill = TRUE]
             T == [IdleTask EXCEPT !.why = "kill_all"]
  <2>1. c \in Ctl /\ c.lock = ctl.lock /\ c.emergency = ctl.emergency /\ c.stop = ctl.stop
    BY <1>1 DEF Ctl
  <2>2. T \in Task /\ T.why = "kill_all"
    BY IdleTaskTyped DEF Task
  <2>3. EnterFlatten("op", T, c)
    BY <1>3 DEF OpKillAll
  <2> HIDE DEF c, T
  <2> QED BY <1>1, <1>2, <2>1, <2>2, <2>3, EnterKill
<1>4. CASE OpRunStop
  <2> DEFINE c == [ctl EXCEPT !.running = FALSE, !.stop = TRUE]
             T == [IdleTask EXCEPT !.why = "run_stop"]
  <2>1. c \in Ctl /\ c.lock = ctl.lock /\ c.emergency = ctl.emergency /\ c.stop
    BY <1>1 DEF Ctl
  <2>2. T \in Task /\ T.why = "run_stop"
    BY IdleTaskTyped DEF Task
  <2>3. EnterFlatten("op", T, c)
    BY <1>4 DEF OpRunStop
  <2> HIDE DEF c, T
  <2> QED BY <1>1, <1>2, <2>1, <2>2, <2>3, EnterKill
<1>5. CASE OpRun
  <2>1. ~ctl'.kill
    BY <1>1, <1>5 DEF OpRun, Ctl
  <2>2. /\ task["loop"].pc = "off" /\ task["op"].pc = "idle" /\ task'["loop"].pc = "start"
        /\ \A u \in Tasks : u # "loop" => task'[u] = task[u]
    BY <1>1, <1>5 DEF OpRun, At, TypeInv, TaskTyped, IdleTask, Tasks
  <2>3. Unlocked("sig")
    BY DEF KillInv, Waits, Tasks
  <2>4. \A u \in Tasks : Unlocked(u)'
    BY <2>2, <2>3 DEF Unlocked, Tasks, Locked, FlattenPcs
  <2> QED BY <2>1, <2>4 DEF KillInv
<1> QED BY <1>3, <1>4, <1>5

LEMMA KillInit == Init => KillInv
BY DEF Init, KillInv, Unlocked, Locked, FlattenPcs, IdleTask

LEMMA KillInvNext ==
    ASSUME MetaCached, TypeInv, LockInv, KillInv, [Next]_vars PROVE KillInv'
<1>1. "sig" \in Tasks /\ "loop" \in Tasks /\ "op" \in Tasks
  BY DEF Tasks
<1>2. CASE UNCHANGED vars
  BY <1>2, KillStay DEF vars
<1>3. CASE SigStep
  BY <1>1, <1>3, SigWorks, EntryWorks, ClosingProceeds, WorksKill DEF SigStep, SigWork
<1>4. CASE LoopStep
  BY <1>1, <1>4, LoopQuotesWorks, LoopPositionsWorks, EntryWorks, ClosingProceeds,
     FlatteningKill, LoopEndsKill, WorksKill DEF LoopStep
<1>5. CASE OpStep
  BY <1>1, <1>5, OpKill, FlatteningKill DEF OpStep
<1>6. CASE Environment
  BY <1>6, EnvironmentWorks, WorksKill
<1> QED BY <1>2, <1>3, <1>4, <1>5, <1>6 DEF Next

\* No other step than Send makes an order.
NoneSent == \A m \in Orders : order'[m].st = "sent" => order[m].st = "sent"

LEMMA EntrySends ==
    ASSUME TypeInv, NEW t \in Tasks, SubmitRefused(t) \/ NotAcked(t) \/ AckTaker(t)
    PROVE  NoneSent
<1>1. CASE UNCHANGED order
  BY <1>1 DEF NoneSent
<1>2. CASE \E m : order' = [order EXCEPT ![m].st = "dead"]
  BY <1>2 DEF NoneSent, TypeInv, VenueTyped, Order
<1> QED BY <1>1, <1>2 DEF SubmitRefused, NotAcked, AckTaker, venueVars

LEMMA VenueSends ==
    ASSUME TypeInv, Environment PROVE NoneSent
<1>1. CASE UNCHANGED order
  BY <1>1 DEF NoneSent
<1>2. ASSUME NEW m \in Orders, VenueAccept(m) \/ VenueFill(m) \/ VenueExpire(m)
      PROVE  NoneSent
  BY <1>2 DEF NoneSent, TypeInv, VenueTyped, Order, VenueAccept, VenueFill, VenueExpire
<1>3. ASSUME NEW x \in Symbols, VenueClose(x) PROVE UNCHANGED order
  BY <1>3 DEF VenueClose, VenueTakesClose
<1>4. ASSUME NEW x \in Symbols, NEW pid \in Orders, AttachDone(x, pid) PROVE UNCHANGED order
  BY <1>4 DEF AttachDone, venueVars
<1> QED BY <1>1, <1>2, <1>3, <1>4 DEF Environment

LEMMA CancelSends ==
    ASSUME NEW s, CancelOrders(s) PROVE NoneSent
<1>1. CASE UNCHANGED order
  BY <1>1 DEF NoneSent
<1>2. CASE order' = [m \in Orders |->
                      IF order[m].sym = s /\ order[m].st = "live"
                      THEN [order[m] EXCEPT !.st = "dead"] ELSE order[m]]
  BY <1>2 DEF NoneSent
<1> QED BY <1>1, <1>2 DEF CancelOrders

LEMMA FlatteningSends ==
    ASSUME NEW t \in Tasks, Flattening(t) PROVE NoneSent
<1>1. CASE UNCHANGED order
  BY <1>1 DEF NoneSent
<1>2. ASSUME NEW s \in Symbols, FlattenCancel(t, s) PROVE NoneSent
  BY <1>2, CancelSends DEF FlattenCancel
<1>3. ASSUME NEW s \in Symbols, FlattenClose(t, s) PROVE UNCHANGED order
  BY <1>3 DEF FlattenClose, VenueTakesClose, venueVars
<1>4. ASSUME \/ FlattenLock(t) \/ FlattenSnapshot(t) \/ FlattenCheck(t) \/ FlattenAgain(t)
             \/ FlattenDone(t) \/ \E o \in Objs : FlattenBook(t, o)
      PROVE  UNCHANGED order
  BY <1>4 DEF FlattenLock, FlattenSnapshot, FlattenCheck, FlattenAgain, FlattenDone,
     FlattenEnds, FlattenBook, venueVars
<1> QED BY <1>1, <1>2, <1>3, <1>4 DEF Flattening

\* The steps of an entry after the order, of an exit, and of the scoring.
LEMMA TaskSends ==
    ASSUME NEW t \in Tasks, Opening(t) \/ Closing(t) \/ ArmTaker \/ AckMaker
                            \/ \E s \in Symbols : Decide(s)
    PROVE  NoneSent
<1>1. CASE Opening(t)
  BY <1>1 DEF Opening, Find, OpenDone, venueVars, NoneSent
<1>2. CASE Closing(t)
  <2>1. UNCHANGED order
    BY <1>2 DEF Closing, CloseSend, CloseReply, CloseBook, VenueTakesClose, venueVars
  <2> QED BY <2>1 DEF NoneSent
<1>3. CASE ArmTaker \/ AckMaker
  <2>1. UNCHANGED order
    BY <1>3 DEF ArmTaker, SubmitHead, SubmitIf, AckMaker, venueVars
  <2> QED BY <2>1 DEF NoneSent
<1>4. ASSUME NEW s \in Symbols, Decide(s) PROVE NoneSent
  BY <1>4 DEF Decide, DecideIf, venueVars, NoneSent
<1> QED BY <1>1, <1>2, <1>3, <1>4

\* The steps of the loop's pass.
LEMMA PassSends ==
    ASSUME LoopStep, \A t \in Tasks : ~Flattening(t) /\ ~Closing(t) /\ ~Opening(t),
           ~Submitting("loop")
    PROVE  NoneSent
<1>1. CASE LoopCancel
  BY <1>1, CancelSends DEF LoopCancel
<1>2. CASE LoopStart \/ LoopTick \/ LoopExit \/ LoopQuotes \/ LoopKillCheck
  <2>1. UNCHANGED order
    BY <1>2 DEF LoopStart, LoopTick, LoopExit, LoopQuotes, LoopKillCheck, venueVars
  <2> QED BY <2>1 DEF NoneSent
<1>3. ASSUME NEW n \in Quotes, LoopQuoteUnsent(n) \/ LoopQuoteAsk(n) PROVE NoneSent
  <2>1. UNCHANGED order
    BY <1>3 DEF LoopQuoteUnsent, LoopQuoteAsk, SubmitHead, SubmitIf, venueVars
  <2> QED BY <2>1 DEF NoneSent
<1>4. CASE LoopQuoteFilled \/ LoopQuoteUnfilled
  <2>1. UNCHANGED order
    BY <1>4 DEF LoopQuoteFilled, LoopQuoteUnfilled, venueVars
  <2> QED BY <2>1 DEF NoneSent
<1>5. CASE LoopSnapshot \/ LoopAdopt \/ LoopAdoptFails \/ LoopRecovered
  <2>1. UNCHANGED order
    BY <1>5 DEF LoopSnapshot, LoopAdopt, LoopAdoptFails, LoopRecovered, ManageAll, venueVars
  <2> QED BY <2>1 DEF NoneSent
<1>6. ASSUME NEW s \in Symbols, LoopRecover(s) PROVE NoneSent
  BY <1>6 DEF LoopRecover, RecoverUnless, venueVars, NoneSent
<1>7. CASE LoopTrail \/ LoopVanished
  <2>1. UNCHANGED order
    BY <1>7 DEF LoopTrail, LoopVanished, Vanished, venueVars
  <2> QED BY <2>1 DEF NoneSent
<1>8. ASSUME NEW o \in Objs, LoopHold(o) \/ LoopMove(o) \/ LoopRule(o) \/ LoopMissing(o)
      PROVE  NoneSent
  <2>1. UNCHANGED order
    BY <1>8 DEF LoopHold, LoopMove, LoopRule, LoopMissing, Manage, ManageBelow, venueVars
  <2> QED BY <2>1 DEF NoneSent
<1>9. "loop" \in Tasks
  BY DEF Tasks
<1> QED BY <1>1, <1>2, <1>3, <1>4, <1>5, <1>6, <1>7, <1>8, <1>9 DEF LoopStep

\* With the kill switch on no task is where Send starts.
LEMMA KilledSends ==
    ASSUME TypeInv, KillInv, [Next]_vars, NEW m \in Orders,
           order[m].st = "none", order'[m].st = "sent"
    PROVE  ~ctl.kill
<1>1. ~NoneSent
  BY DEF NoneSent
<1>2. "sig" \in Tasks /\ "loop" \in Tasks /\ "op" \in Tasks
  BY DEF Tasks
<1>3. ASSUME NEW t \in Tasks, Send(t) PROVE ~ctl.kill
  BY <1>3 DEF Send, At, KillInv, Guarded
<1>4. ASSUME NEW t \in Tasks, Submitting(t) PROVE ~ctl.kill
  BY <1>1, <1>3, <1>4, EntrySends DEF Submitting
<1>5. ~UNCHANGED vars
  BY <1>1 DEF vars, NoneSent
<1>6. ~OpKillAll /\ ~OpRunStop /\ ~OpRun
  BY <1>1 DEF OpKillAll, OpRunStop, OpRun, Request, venueVars, NoneSent
<1>7. CASE SigStep
  BY <1>1, <1>2, <1>4, <1>7, TaskSends DEF SigStep, SigWork
<1>8. CASE LoopStep
  BY <1>1, <1>2, <1>4, <1>8, TaskSends, FlatteningSends, PassSends
<1>9. CASE OpStep
  BY <1>1, <1>2, <1>6, <1>9, FlatteningSends DEF OpStep
<1>10. ~Environment
  BY <1>1, VenueSends
<1> QED BY <1>5, <1>7, <1>8, <1>9, <1>10 DEF Next

\* _maybe_place_quote and _submit_due_taker_quote look at the flags before their last
\* await only: with the contract's details cached nothing comes between, and no order
\* leaves for the venue once the kill switch is on.
THEOREM KilledSendsNothing == ASSUME MetaCached PROVE Spec => KillStopsOrders
<1>1. Init => TypeInv /\ LockInv /\ KillInv
  BY TypeInvInit, LockInit, KillInit
<1>2. TypeInv /\ LockInv /\ KillInv /\ [Next]_vars => (TypeInv /\ LockInv /\ KillInv)'
  BY TypeInvNext, LockInvNext, KillInvNext
<1>3. TypeInv /\ LockInv /\ KillInv /\ [Next]_vars
        => [\A m \in Orders : order[m].st = "none" /\ order'[m].st = "sent" => ~ctl.kill]_vars
  BY KilledSends
<1> QED BY <1>1, <1>2, <1>3, PTL DEF Spec, KillStopsOrders
===============================================================================
