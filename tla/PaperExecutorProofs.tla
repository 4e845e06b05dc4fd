-------------------------- MODULE PaperExecutorProofs --------------------------
(***************************************************************************)
(* A position of the simulation is never lost nor counted twice, when run  *)
(* is not called before the last loop has ended: of two loops one fills a  *)
(* quote again that the other has filled.                                  *)
(*                                                                         *)
(* A pass walks a copy of a table and may be suspended in it; the proof is *)
(* about what the copy still holds: nobody but the one loop takes anything *)
(* out of the tables, and the symbol the scoring task is suspended for     *)
(* stays free because on_signal holds a lock.                              *)
(***************************************************************************)
EXTENDS PaperExecutor, FiniteSetTheorems, WellFoundedInduction, TLAPS

(***************************************************************************)
(* Type correctness: one lemma per group of steps, and the facts about     *)
(* prices and records that they share.                                     *)
(***************************************************************************)

\* What the proofs use of the assumption on the constants.
LEMMA Constants ==
    /\ {HalfSpread, Inside, MaxConcurrent, Sigma, Hard, Breakeven, Lock, Trail, Margin, Fee,
        LossKill, TradesKill, MaxQuotes, MaxObjs, MaxOps} \subseteq Nat
    /\ Sides \subseteq {"LONG", "SHORT"} /\ Prices \subseteq Int
    /\ Hard \div 2 \in Int
    /\ MaxQuotes \in Nat /\ MaxObjs \in Nat /\ MaxOps \in Nat
    /\ 0 \in 0..MaxQuotes /\ 0 \in 0..MaxObjs
  BY PaperConstantsOK

\* There is a symbol.
LEMMA AnyIn == AnySymbol \in Symbols
  BY PaperConstantsOK DEF AnySymbol

\* The touches of a book are prices.
LEMMA TouchInt ==
    ASSUME TypeOK, NEW s \in Symbols, book[s] # None, NEW side
    PROVE  Taken(s, side) \in Int /\ Rested(s, side) \in Int
  <1>1. book[s] \in Int  BY Constants DEF TypeOK
  <1>2. Dir(side) \in {1, -1}  BY DEF Dir
  <1> QED BY <1>1, <1>2, Constants DEF Taken, Rested

\* A look moves the best excursion only.
LEMMA SeenTyped ==
    ASSUME TypeOK, NEW o \in Objs, HasBook(o)
    PROVE  /\ Seen(o) \in ObjRec
           /\ Seen(o).sym = obj[o].sym /\ Seen(o).side = obj[o].side
           /\ Seen(o).entry = obj[o].entry /\ Seen(o).stop = obj[o].stop
           /\ book[obj[o].sym] \in Int
  <1>1. obj[o] \in ObjRec  BY DEF TypeOK
  <1>2. book[obj[o].sym] \in Int  BY <1>1, Constants DEF TypeOK, HasBook, ObjRec
  <1>3. \A a, b \in Int : Larger(a, b) \in Int /\ Smaller(a, b) \in Int
    BY DEF Larger, Smaller
  <1>4. (IF obj[o].side = "LONG" THEN Larger(obj[o].best, book[obj[o].sym])
         ELSE Smaller(obj[o].best, book[obj[o].sym])) \in Int
    BY <1>1, <1>2, <1>3 DEF ObjRec
  <1> QED BY <1>1, <1>2, <1>4 DEF Seen, ObjRec

\* The stop rules give prices.
LEMMA StopsInt ==
    ASSUME NEW e \in Int, NEW b \in Int, NEW prev \in Int
    PROVE  /\ RTrailLong(e, b, Hard, Hard \div 2, Breakeven, Lock, Trail, prev) \in Int
           /\ RTrailShort(e, b, Hard, Hard \div 2, Breakeven, Lock, Trail, prev) \in Int
           /\ TrailLong(e, b, Sigma, Hard, Breakeven, Trail, prev) \in Int
           /\ TrailShort(e, b, Sigma, Hard, Breakeven, Trail, prev) \in Int
  <1>1. \A x, y \in Int : Larger(x, y) \in Int /\ Smaller(x, y) \in Int
    BY DEF Larger, Smaller
  <1>2. \A x \in Int : RatchetUp(x, prev) \in Int /\ RatchetDown(x, prev) \in Int
    BY <1>1 DEF RatchetUp, RatchetDown
  <1>3. \A x \in Int : OrElse(prev, x) \in Int  BY DEF OrElse
  <1> DEFINE up == Larger(0, b - e)
             down == Larger(0, e - b)
             h == Hard \div 2
  <1>4. up \in Int /\ down \in Int /\ h \in Int
    <2>1. 0 \in Int /\ b - e \in Int /\ e - b \in Int  OBVIOUS
    <2>2. up \in Int /\ down \in Int  BY <1>1, <2>1
    <2> QED BY <2>2, Constants
  <1>5. /\ e - Hard \in Int /\ e + Hard \in Int
        /\ e + h \in Int /\ e - h \in Int
        /\ b - Trail \in Int /\ b + Trail \in Int
    BY <1>4, Constants
  <1>6. /\ Larger(e, b - Trail) \in Int /\ Smaller(e, b + Trail) \in Int
        /\ Larger(e + h, b - Trail) \in Int /\ Smaller(e - h, b + Trail) \in Int
        /\ OrElse(prev, e - Hard) \in Int /\ OrElse(prev, e + Hard) \in Int
        /\ OrElse(prev, e) \in Int
    BY <1>1, <1>3, <1>5
  <1> HIDE DEF h, up, down
  <1>7. /\ (IF up < Breakeven THEN OrElse(prev, e - Hard)
            ELSE IF up < Lock THEN e ELSE Larger(e + h, b - Trail)) \in Int
        /\ (IF down < Breakeven THEN OrElse(prev, e + Hard)
            ELSE IF down < Lock THEN e ELSE Smaller(e - h, b + Trail)) \in Int
        /\ (IF Sigma <= 0 \/ up < Breakeven THEN OrElse(prev, e - Hard)
            ELSE Larger(e, b - Trail)) \in Int
        /\ (IF Sigma <= 0 \/ down < Breakeven THEN OrElse(prev, e + Hard)
            ELSE Smaller(e, b + Trail)) \in Int
    BY <1>6
  <1>8. RTrailLong(e, b, Hard, h, Breakeven, Lock, Trail, prev) \in Int
    BY <1>2, <1>6, <1>7 DEF RTrailLong, up
  <1>9. RTrailShort(e, b, Hard, h, Breakeven, Lock, Trail, prev) \in Int
    BY <1>2, <1>6, <1>7 DEF RTrailShort, down
  <1>10. TrailLong(e, b, Sigma, Hard, Breakeven, Trail, prev) \in Int
    BY <1>2, <1>6, <1>7 DEF TrailLong, up
  <1>11. TrailShort(e, b, Sigma, Hard, Breakeven, Trail, prev) \in Int
    BY <1>2, <1>6, <1>7 DEF TrailShort, down
  <1> QED BY <1>8, <1>9, <1>10, <1>11 DEF h

\* What the looks of a pass leave of the position: its identity, and its type.
SameTrade(p, o) ==
    p \in ObjRec /\ p.sym = obj[o].sym /\ p.side = obj[o].side /\ p.entry = obj[o].entry

Looks(o) == {obj[o], Seen(o), Queued(Seen(o))} \cup
            {[Seen(o) EXCEPT !.stop = NewStop(Seen(o))],
             Queued([Seen(o) EXCEPT !.stop = NewStop(Seen(o))])}

\* Every form a pass can leave a position in is the same trade.
LEMMA LooksTyped ==
    ASSUME TypeOK, NEW o \in Objs, HasBook(o), NEW p \in Looks(o)
    PROVE  SameTrade(p, o)
  <1>0. obj[o] \in ObjRec  BY DEF TypeOK
  <1>1. Seen(o) \in ObjRec /\ SameTrade(Seen(o), o)  BY SeenTyped DEF SameTrade
  <1>2. NewStop(Seen(o)) \in Int  BY <1>1, StopsInt DEF NewStop, ObjRec
  <1> DEFINE moved == [Seen(o) EXCEPT !.stop = NewStop(Seen(o))]
  <1>3. SameTrade(moved, o)  BY <1>1, <1>2 DEF SameTrade, ObjRec
  <1>4. ASSUME NEW q, SameTrade(q, o) PROVE SameTrade(Queued(q), o)
    BY <1>4 DEF SameTrade, ObjRec, Queued
  <1>5. SameTrade(obj[o], o)  BY <1>0 DEF SameTrade
  <1> HIDE DEF moved
  <1>6. p \in {obj[o], Seen(o), Queued(Seen(o))} \cup {moved, Queued(moved)}  BY DEF Looks, moved
  <1> QED BY <1>1, <1>3, <1>4, <1>5, <1>6

\* A pass that changes one position and nothing else.
LEMMA PassType ==
    ASSUME TypeOK, NEW l \in Loops, NEW o \in Objs, NEW p \in ObjRec, Passes(l, o, p)
    PROVE  TypeOK'
  <1>1. obj' \in [Objs -> ObjRec]  BY DEF Passes, TypeOK
  <1>2. loop' \in [Loops -> LoopRec] /\ cpu' \in Loops \cup {"none"}
    BY DEF Passes, Goes, PosDone, TypeOK, LoopRec
  <1> QED BY <1>1, <1>2 DEF Passes, TypeOK

\* The bookkeeping of a close.
LEMMA CloseType ==
    ASSUME TypeOK, NEW l \in Loops, NEW o \in Objs, HasBook(o), NEW p, SameTrade(p, o),
           Close(l, o, p)
    PROVE  TypeOK'
  <1>1. p \in ObjRec /\ p.sym \in Symbols /\ book[p.sym] # None
    BY DEF SameTrade, HasBook, ObjRec
  <1>2. Realized(p) \in Int
    <2>1. ExitPrice(p) \in Int  BY <1>1, TouchInt DEF ExitPrice
    <2>2. Uncapped(p) \in Int
      BY <1>1, <2>1, Constants DEF Uncapped, Dir, ObjRec
    <2> QED BY <2>2, Constants DEF Realized, Larger
  <1>3. obj' \in [Objs -> ObjRec]  BY <1>1 DEF Close, TypeOK, ObjRec
  <1>4. booked' \in Seq([pos : Objs, pnl : Int])
    <2>1. [pos |-> o, pnl |-> Realized(p)] \in [pos : Objs, pnl : Int]  BY <1>2
    <2> QED BY <2>1 DEF Close, TypeOK
  <1>5. acct' \in [balance : Int, trades : Nat, losses : Nat, base : Nat, since : Nat]
    <2>0. acct.losses \in Nat  BY DEF TypeOK
    <2>1. LossesAfter(Realized(p)) \in Nat  BY <1>2, <2>0 DEF LossesAfter
    <2>2. acct' = [acct EXCEPT !.balance = @ + Realized(p), !.trades = @ + 1,
                              !.losses = LossesAfter(Realized(p))]
      BY DEF Close
    <2>3. acct \in [balance : Int, trades : Nat, losses : Nat, base : Nat, since : Nat]
      BY DEF TypeOK
    <2>4. acct.balance + Realized(p) \in Int /\ acct.trades + 1 \in Nat
      BY <1>2, <2>3
    <2> HIDE DEF Realized, LossesAfter
    <2> QED BY <2>1, <2>2, <2>3, <2>4
  <1>6. positions' \in [Symbols -> 0..MaxObjs]
    BY <1>1, Constants DEF Close, TypeOK
  <1>7. loop' \in [Loops -> LoopRec] /\ cpu' \in Loops \cup {"none"}
    BY DEF Close, Awaits, Closing, PosDone, TypeOK, LoopRec, LoopPcs
  <1> QED BY <1>3, <1>4, <1>5, <1>6, <1>7 DEF Close, TypeOK

\* One position of a pass.
LEMMA PosType ==
    ASSUME TypeOK, NEW l \in Loops, NEW o \in Objs, LoopPos(l, o)
    PROVE  TypeOK'
  <1>0. obj[o] \in ObjRec  BY DEF TypeOK
  <1>1. CASE PosSkip(l, o)  BY <1>0, <1>1, PassType DEF PosSkip
  <1>2. HasBook(o) => \A p \in Looks(o) : SameTrade(p, o)  BY LooksTyped
  <1>3. ASSUME HasBook(o), NEW p \in Looks(o), Passes(l, o, p) PROVE TypeOK'
    BY <1>2, <1>3, PassType DEF SameTrade
  <1>4. ASSUME HasBook(o), NEW p \in Looks(o), Close(l, o, p) PROVE TypeOK'
    BY <1>2, <1>4, CloseType
  <1>5. CASE PosExchangeStop(l, o)  BY <1>4, <1>5 DEF PosExchangeStop, Looks
  <1>6. CASE PosWait(l, o)  BY <1>3, <1>6 DEF PosWait, Held, Looks
  <1>7. CASE PosDue(l, o)   BY <1>4, <1>7 DEF PosDue, Held, Looks
  <1>8. CASE PosRule(l, o)  BY <1>3, <1>8 DEF PosRule, Held, Looks
  <1>9. CASE PosTrail(l, o)
    <2>1. PICK p \in {Seen(o), [Seen(o) EXCEPT !.stop = NewStop(Seen(o))]} :
             Passes(l, o, p) \/ Close(l, o, p) \/ Passes(l, o, Queued(p))
      BY <1>9 DEF PosTrail
    <2>2. HasBook(o)  BY <1>9 DEF PosTrail, Held
    <2>3. p \in Looks(o) /\ Queued(p) \in Looks(o)  BY DEF Looks
    <2> QED BY <1>3, <1>4, <2>1, <2>2, <2>3
  <1>10. CASE PosTime(l, o)
    <2>1. PICK p \in {Seen(o), [Seen(o) EXCEPT !.stop = NewStop(Seen(o))]} :
             Passes(l, o, Queued(p))
      BY <1>10 DEF PosTime
    <2>2. HasBook(o)  BY <1>10 DEF PosTime, Held
    <2>3. Queued(p) \in Looks(o)  BY DEF Looks
    <2> QED BY <1>3, <2>1, <2>2, <2>3
  <1> QED BY <1>1, <1>5, <1>6, <1>7, <1>8, <1>9, <1>10 DEF LoopPos

\* A new position has the next number.
LEMMA OpenType ==
    ASSUME TypeOK, NEW s \in Symbols, NEW side \in {"LONG", "SHORT"}, NEW price \in Int,
           Open(s, side, price)
    PROVE  /\ made' \in [quotes : 0..MaxQuotes, objs : 0..MaxObjs]
           /\ obj' \in [Objs -> ObjRec]
           /\ positions' \in [Symbols -> 0..MaxObjs]
           /\ made.objs + 1 \in Objs
  <1>1. made.objs \in Nat /\ made.objs < MaxObjs /\ MaxObjs \in Nat
    BY Constants DEF Open, TypeOK
  <1>2. made.objs + 1 \in 0..MaxObjs /\ made.objs + 1 \in Objs  BY <1>1 DEF Objs
  <1>3. price - Dir(side) * Hard \in Int  BY Constants DEF Dir
  <1>4. [NoObj EXCEPT !.sym = s, !.side = side, !.entry = price,
                      !.best = price, !.stop = price - Dir(side) * Hard] \in ObjRec
    BY <1>3 DEF NoObj, ObjRec
  <1>5. obj' \in [Objs -> ObjRec]  BY <1>4 DEF Open, TypeOK
  <1>6. positions' \in [Symbols -> 0..MaxObjs]  BY <1>2 DEF Open, TypeOK
  <1>7. made' \in [quotes : 0..MaxQuotes, objs : 0..MaxObjs]  BY <1>2 DEF Open, TypeOK
  <1> QED BY <1>2, <1>5, <1>6, <1>7

\* A quote leaves the table.
LEMMA PopType ==
    ASSUME TypeOK, NEW n \in Quotes, Pop(n)
    PROVE  quotes' \in [Symbols -> 0..MaxQuotes]
  <1>1. quotes \in [Symbols -> 0..MaxQuotes] /\ quotes' = [quotes EXCEPT ![quote[n].sym] = 0]
    BY DEF Pop, TypeOK
  <1> QED BY <1>1, Constants

\* One quote of a pass.
LEMMA QuoteType ==
    ASSUME TypeOK, NEW l \in Loops, NEW n \in Quotes, LoopQuote(l, n)
    PROVE  TypeOK'
  <1>1. /\ QuoteDone(l, n) \in LoopRec
        /\ [QuoteDone(l, n) EXCEPT !.pc = "reject", !.cur = n] \in LoopRec
    <2>1. loop[l] \in LoopRec  BY DEF TypeOK
    <2>2. n \in 0..MaxQuotes  BY Constants DEF Quotes
    <2>3. loop[l].todo \ {n} \in SUBSET Nat  BY <2>1 DEF LoopRec
    <2>4. QuoteDone(l, n) \in LoopRec  BY <2>1, <2>3 DEF QuoteDone, LoopRec
    <2>5. "reject" \in LoopPcs  BY DEF LoopPcs
    <2> QED BY <2>2, <2>4, <2>5 DEF LoopRec
  <1>2. ASSUME NEW L \in LoopRec, Goes(l, L) \/ Awaits(l, L)
        PROVE  loop' \in [Loops -> LoopRec] /\ cpu' \in Loops \cup {"none"}
    <2>1. loop' = [loop EXCEPT ![l] = L] /\ cpu' \in {l, "none"}
      BY <1>2 DEF Goes, Awaits
    <2>2. loop \in [Loops -> LoopRec]  BY DEF TypeOK
    <2> QED BY <2>1, <2>2
  <1>3. quote[n] \in QuoteRec  BY DEF TypeOK
  <1>4. CASE LoopQuoteWaits(l, n)
    BY <1>1, <1>2, <1>4 DEF LoopQuoteWaits, bookVars, TypeOK
  <1>5. CASE LoopQuoteRefused(l, n)
    BY <1>1, <1>2, <1>5 DEF LoopQuoteRefused, bookVars, TypeOK
  <1>6. CASE LoopQuoteCancelled(l, n)
    BY <1>1, <1>2, <1>6, PopType DEF LoopQuoteCancelled, bookVars, TypeOK
  <1>7. CASE LoopQuoteFilled(l, n)
    <2> DEFINE s == quote[n].sym
               side == quote[n].side
    <2>1. s \in Symbols /\ side \in {"LONG", "SHORT"} /\ quote[n].price \in Int
      BY <1>3 DEF QuoteRec
    <2>2. Taken(s, side) \in Int
      BY <1>7, <2>1, TouchInt DEF LoopQuoteFilled
    <2>3. \/ Open(s, side, Taken(s, side))
          \/ Open(s, side, quote[n].price)
      BY <1>7 DEF LoopQuoteFilled
    <2> HIDE DEF s, side
    <2>4. /\ made' \in [quotes : 0..MaxQuotes, objs : 0..MaxObjs]
          /\ obj' \in [Objs -> ObjRec]
          /\ positions' \in [Symbols -> 0..MaxObjs]
      BY <2>1, <2>2, <2>3, OpenType
    <2> QED BY <1>1, <1>2, <1>7, <2>4, PopType DEF LoopQuoteFilled, TypeOK
  <1> QED BY <1>4, <1>5, <1>6, <1>7 DEF LoopQuote

\* Each step of a loop outside its two passes.
LEMMA LoopType ==
    ASSUME TypeOK, NEW l \in Loops, LoopStep(l)
    PROVE  TypeOK'
  <1>0. loop[l] \in LoopRec  BY DEF TypeOK
  <1>1. ASSUME NEW L \in LoopRec, Goes(l, L) \/ Awaits(l, L)
        PROVE  loop' \in [Loops -> LoopRec] /\ cpu' \in Loops \cup {"none"}
    <2>1. loop' = [loop EXCEPT ![l] = L] /\ cpu' \in {l, "none"}
      BY <1>1 DEF Goes, Awaits
    <2>2. loop \in [Loops -> LoopRec]  BY DEF TypeOK
    <2> QED BY <2>1, <2>2
  <1>2. \A pc \in LoopPcs : [loop[l] EXCEPT !.pc = pc] \in LoopRec
    BY <1>0 DEF LoopRec
  <1>3. CASE LoopStart(l)
    <2>1. Len(booked) \in Nat  BY DEF TypeOK
    <2>2. acct' \in [balance : Int, trades : Nat, losses : Nat, base : Nat, since : Nat]
      <3>1. acct \in [balance : Int, trades : Nat, losses : Nat, base : Nat, since : Nat]
        BY DEF TypeOK
      <3>2. acct' = [acct EXCEPT !.balance = 0, !.base = Len(booked)]
        BY <1>3 DEF LoopStart, StartWith
      <3> DEFINE n == Len(booked)
      <3>3. n \in Nat  BY <2>1
      <3> HIDE DEF n
      <3>4. acct' = [acct EXCEPT !.balance = 0, !.base = n]  BY <3>2 DEF n
      <3>5. acct' = [balance |-> 0, trades |-> acct.trades, losses |-> acct.losses,
                     base |-> n, since |-> acct.since]
        BY <3>1, <3>4
      <3> QED BY <3>1, <3>3, <3>5
    <2>3. [loop[l] EXCEPT !.pc = "top"] \in LoopRec  BY <1>2 DEF LoopPcs
    <2> QED BY <1>1, <1>3, <2>2, <2>3 DEF LoopStart, StartWith, TypeOK
  <1>4. CASE LoopTop(l)
    <2>1. OffLoop \in LoopRec  BY Constants DEF OffLoop, LoopRec, LoopPcs
    <2>2. {quotes[s] : s \in Symbols} \ {0} \in SUBSET Nat
      BY Constants DEF TypeOK
    <2>3. [pc |-> "quotes", cur |-> 0, todo |-> {quotes[s] : s \in Symbols} \ {0}] \in LoopRec
      BY <2>2, Constants DEF LoopRec, LoopPcs
    <2> QED BY <1>1, <1>4, <2>1, <2>3 DEF LoopTop, LoopEndsIf, bookVars, TypeOK
  <1>5. CASE \E n \in Quotes : LoopQuote(l, n)  BY <1>5, QuoteType
  <1>6. CASE LoopRejected(l)
    <2>1. [loop[l] EXCEPT !.pc = "quotes", !.cur = 0] \in LoopRec
      <3>1. "quotes" \in LoopPcs  BY DEF LoopPcs
      <3> QED BY <1>0, <3>1, Constants DEF LoopRec
    <2>2. quotes' \in [Symbols -> 0..MaxQuotes]
      <3>1. quotes' = [quotes EXCEPT ![quote[loop[l].cur].sym] = 0]
        BY <1>6 DEF LoopRejected, Pop
      <3>2. quotes \in [Symbols -> 0..MaxQuotes]  BY DEF TypeOK
      <3> QED BY <3>1, <3>2, Constants
    <2> QED BY <1>1, <1>6, <2>1, <2>2 DEF LoopRejected, bookVars, TypeOK
  <1>7. CASE LoopQuotesDone(l)
    <2>1. {positions[s] : s \in Managed} \in SUBSET Nat
      BY Constants DEF Managed, TypeOK
    <2>2. [pc |-> "positions", cur |-> 0, todo |-> {positions[s] : s \in Managed}] \in LoopRec
      BY <2>1, Constants DEF LoopRec, LoopPcs
    <2> QED BY <1>1, <1>7, <2>2 DEF LoopQuotesDone, bookVars, TypeOK
  <1>8. CASE \E o \in Objs : LoopPos(l, o)  BY <1>8, PosType
  <1>9. CASE LoopInserted(l)
    <2>1. [loop[l] EXCEPT !.pc = "positions"] \in LoopRec  BY <1>2 DEF LoopPcs
    <2> QED BY <1>1, <1>9, <2>1 DEF LoopInserted, bookVars, TypeOK
  <1>10. CASE LoopPositionsDone(l)
    <2>1. [loop[l] EXCEPT !.pc = "check"] \in LoopRec  BY <1>2 DEF LoopPcs
    <2> QED BY <1>10, <2>1 DEF LoopPositionsDone, bookVars, TypeOK
  <1>11. ASSUME NEW k, Sleeps(l, k), ops' \in 0..MaxOps PROVE TypeOK'
    <2>1. [loop[l] EXCEPT !.pc = "sleep"] \in LoopRec  BY <1>2 DEF LoopPcs
    <2>2. ctl' \in [stop : BOOLEAN, running : BOOLEAN, kill : BOOLEAN]
      BY <1>11 DEF Sleeps, TypeOK
    <2> QED BY <1>1, <1>11, <2>1, <2>2 DEF Sleeps, bookVars, TypeOK
  <1>12. CASE LoopCheck(l)
    BY <1>11, <1>12 DEF LoopCheck, TypeOK
  <1>13. CASE LoopTrips(l)
    <2>1. ops' \in 0..MaxOps
      <3>1. ops \in 0..MaxOps /\ ops < MaxOps /\ ops' = ops + 1
        BY <1>13 DEF LoopTrips, Request, TypeOK
      <3> QED BY <3>1, Constants
    <2> QED BY <1>11, <1>13, <2>1 DEF LoopTrips
  <1> QED BY <1>3, <1>4, <1>5, <1>6, <1>7, <1>8, <1>9, <1>10, <1>12, <1>13 DEF LoopStep

\* The scoring task.
LEMMA SigType ==
    ASSUME TypeOK,
           \/ SigRound \/ SigRoundEnds \/ SigSized
           \/ \E s \in Symbols, side \in Sides : SigSignal(s, side)
    PROVE  TypeOK'
  <1>1. ASSUME NEW s \in Symbols, NEW side \in {"LONG", "SHORT"}, Place(s, side)
        PROVE  /\ made' \in [quotes : 0..MaxQuotes, objs : 0..MaxObjs]
               /\ quote' \in [Quotes -> QuoteRec]
               /\ quotes' \in [Symbols -> 0..MaxQuotes]
    <2>1. made.quotes + 1 \in 0..MaxQuotes /\ made.quotes + 1 \in Quotes
      <3>1. made.quotes \in 0..MaxQuotes /\ made.quotes < MaxQuotes
        BY <1>1 DEF Place, TypeOK
      <3> QED BY <3>1, Constants DEF Quotes
    <2>2. QuotePrice(s, side) \in Int  BY <1>1, TouchInt, Constants DEF Place, QuotePrice, Dir
    <2>3. [sym |-> s, side |-> side, price |-> QuotePrice(s, side)] \in QuoteRec
      BY <2>2 DEF QuoteRec
    <2>4. made' \in [quotes : 0..MaxQuotes, objs : 0..MaxObjs]
      BY <1>1, <2>1 DEF Place, TypeOK
    <2>5. quote' \in [Quotes -> QuoteRec]  BY <1>1, <2>3 DEF Place, TypeOK
    <2>6. quotes' \in [Symbols -> 0..MaxQuotes]  BY <1>1, <2>1 DEF Place, TypeOK
    <2> QED BY <2>4, <2>5, <2>6
  <1>2. CASE SigRound  BY <1>2 DEF SigRound, bookVars, TypeOK
  <1>3. CASE SigRoundEnds
    BY <1>3, AnyIn DEF SigRoundEnds, IdleSig, bookVars, TypeOK
  <1>4. CASE SigSized
    <2>1. sig.sym \in Symbols /\ sig.side \in {"LONG", "SHORT"}  BY DEF TypeOK
    <2>2. sig' \in [pc : {"idle", "emit", "size"}, sym : Symbols, side : {"LONG", "SHORT"}]
      BY <1>4, AnyIn DEF SigSized, IdleSig
    <2>3. sized' \subseteq Symbols  BY <1>4, <2>1 DEF SigSized, TypeOK
    <2>4. CASE Place(sig.sym, sig.side)
      <3>1. /\ made' \in [quotes : 0..MaxQuotes, objs : 0..MaxObjs]
            /\ quote' \in [Quotes -> QuoteRec]
            /\ quotes' \in [Symbols -> 0..MaxQuotes]
        BY <1>1, <2>1, <2>4
      <3> QED BY <1>4, <2>2, <2>3, <3>1 DEF SigSized, bookVars, TypeOK
    <2>5. CASE UNCHANGED <<quotes, quote, made>>
      BY <1>4, <2>2, <2>3, <2>5 DEF SigSized, bookVars, TypeOK
    <2> QED BY <1>4, <2>4, <2>5 DEF SigSized
  <1>5. ASSUME NEW s \in Symbols, NEW side \in Sides, SigSignal(s, side) PROVE TypeOK'
    <2>1. side \in {"LONG", "SHORT"}  BY Constants
    <2>2. CASE Place(s, side) /\ UNCHANGED sig
      BY <1>1, <1>5, <2>1, <2>2 DEF SigSignal, bookVars, TypeOK
    <2>3. CASE /\ sig' = [pc |-> "size", sym |-> s, side |-> side]
               /\ UNCHANGED <<quotes, quote, made>>
      BY <1>5, <2>1, <2>3 DEF SigSignal, bookVars, TypeOK
    <2> QED BY <1>5, <2>2, <2>3 DEF SigSignal
  <1> QED BY <1>2, <1>3, <1>4, <1>5

\* The operator.
LEMMA OpType ==
    ASSUME TypeOK, OpKillAll \/ OpRunStop \/ \E l \in Loops : OpRun(l)
    PROVE  TypeOK'
  <1>1. ASSUME NEW k, Request(k) PROVE ops' \in 0..MaxOps
    <2>1. ops \in 0..MaxOps /\ ops < MaxOps /\ ops' = ops + 1
      BY <1>1 DEF Request, TypeOK
    <2> QED BY <2>1, Constants
  <1>2. CASE OpKillAll  BY <1>1, <1>2 DEF OpKillAll, Sets, TypeOK
  <1>3. CASE OpRunStop  BY <1>1, <1>3 DEF OpRunStop, Sets, TypeOK
  <1>4. ASSUME NEW l \in Loops, OpRun(l) PROVE TypeOK'
    <2> DEFINE n == Len(booked)
    <2>1. n \in Nat  BY DEF TypeOK
    <2>2. acct' = [acct EXCEPT !.trades = 0, !.losses = 0, !.since = n]
      BY <1>4 DEF OpRun
    <2>3. acct \in [balance : Int, trades : Nat, losses : Nat, base : Nat, since : Nat]
      BY DEF TypeOK
    <2> HIDE DEF n
    <2>4. acct' \in [balance : Int, trades : Nat, losses : Nat, base : Nat, since : Nat]
      BY <2>1, <2>2, <2>3
    <2>5. loop' \in [Loops -> LoopRec]
      <3>1. loop \in [Loops -> LoopRec] /\ loop' = [loop EXCEPT ![l].pc = "start"]
        BY <1>4 DEF OpRun, TypeOK
      <3>2. [loop[l] EXCEPT !.pc = "start"] \in LoopRec
        BY <3>1 DEF LoopRec, LoopPcs
      <3> QED BY <3>1, <3>2
    <2> QED BY <1>1, <1>4, <2>4, <2>5 DEF OpRun, Sets, TypeOK
  <1> QED BY <1>2, <1>3, <1>4

\* The initial state.
LEMMA TypeInit == Init => TypeOK
  <1> SUFFICES ASSUME Init PROVE TypeOK  OBVIOUS
  <1>1. NoQuote \in QuoteRec /\ NoObj \in ObjRec
    BY AnyIn DEF NoQuote, NoObj, QuoteRec, ObjRec
  <1>2. OffLoop \in LoopRec
    BY Constants DEF OffLoop, LoopRec, LoopPcs
  <1>3. IdleSig \in [pc : {"idle", "emit", "size"}, sym : Symbols, side : {"LONG", "SHORT"}]
    BY AnyIn DEF IdleSig
  <1>4. 0 \in 0..MaxOps  BY Constants
  <1> QED BY <1>1, <1>2, <1>3, <1>4, Constants DEF Init, TypeOK

\* Every step.
LEMMA TypeStep == TypeOK /\ [Next]_vars => TypeOK'
  <1> SUFFICES ASSUME TypeOK, [Next]_vars PROVE TypeOK'  OBVIOUS
  <1>1. CASE UNCHANGED vars  BY <1>1 DEF vars, TypeOK
  <1>2. ASSUME NEW s \in Symbols, NEW p \in Prices \cup {None}, BookMoves(s, p)
        PROVE  TypeOK'
    BY <1>2 DEF BookMoves, bookVars, TypeOK
  <1> QED BY <1>1, <1>2, SigType, LoopType, OpType DEF Next

\* Every variable keeps its type: the counters stay natural, the pnl integral,
\* and what is made within its bounds, for any symbols, prices and rules, with
\* any number of loops.
THEOREM PaperTypeCorrect == Spec => []TypeOK
  BY TypeInit, TypeStep, PTL DEF Spec

(***************************************************************************)
(* Positions, rows and stops.                                              *)
(***************************************************************************)

\* One loop at most is not off.
Alone == \A k, l \in Loops : loop[k].pc # "off" /\ loop[l].pc # "off" => k = l

\* The tables point at what has been made for the symbol.
Tables ==
    /\ \A s \in Symbols : quotes[s] # 0 => quotes[s] <= made.quotes /\ quote[quotes[s]].sym = s
    /\ \A s \in Symbols : positions[s] # 0 => positions[s] <= made.objs /\ obj[positions[s]].sym = s

\* A copy that a pass walks holds what the table still holds.
QuoteLive(n) == n \in 1..made.quotes /\ quotes[quote[n].sym] = n
ObjLive(o)   == o \in 1..made.objs /\ positions[obj[o].sym] = o
Copies ==
    \A l \in Loops :
        /\ loop[l].pc \in {"quotes", "reject"} => \A n \in loop[l].todo : QuoteLive(n)
        /\ loop[l].pc = "reject" => QuoteLive(loop[l].cur) /\ loop[l].cur \notin loop[l].todo
        /\ loop[l].pc \in {"positions", "insert"} => \A o \in loop[l].todo : ObjLive(o)

\* The symbol whose contract details are awaited stays free.
Asked == sig.pc = "size" => quotes[sig.sym] = 0 /\ positions[sig.sym] = 0

Rows ==
    /\ \A i \in DOMAIN booked : booked[i].pos <= made.objs
    /\ \A i, j \in DOMAIN booked : booked[i].pos = booked[j].pos => i = j
    /\ \A i \in DOMAIN booked : positions[obj[booked[i].pos].sym] # booked[i].pos
    /\ \A o \in 1..made.objs :
          positions[obj[o].sym] = o \/ \E i \in DOMAIN booked : booked[i].pos = o

Inv == Alone /\ Tables /\ QuoteOrPosition /\ Copies /\ Asked /\ Rows

\* The rows of the ledger name positions.
LEMMA RowsTyped ==
    ASSUME TypeOK
    PROVE  /\ booked \in Seq([pos : Objs, pnl : Int])
           /\ \A i \in DOMAIN booked : booked[i].pos \in Objs
  <1> DEFINE S == [pos : Objs, pnl : Int]
  <1>1. booked \in Seq(S)  BY DEF TypeOK
  <1> HIDE DEF S
  <1>2. \A i \in DOMAIN booked : booked[i] \in S  BY <1>1
  <1> QED BY <1>1, <1>2 DEF S

\* Steps that leave the tables and the loops alone.
LEMMA FrameStep ==
    ASSUME Inv, UNCHANGED <<quotes, quote, positions, obj, booked, made, loop>>,
           sig'.pc # "size" \/ UNCHANGED sig
    PROVE  Inv'
  BY DEF Inv, Alone, Tables, QuoteOrPosition, QuoteLive, ObjLive, Copies, Asked, Rows

\* A quote placed on a free symbol, by the scoring task or after its wait.
LEMMA PlaceStep ==
    ASSUME TypeOK, Inv, NEW s \in Symbols, NEW side, Place(s, side),
           quotes[s] = 0, positions[s] = 0, sig'.pc # "size",
           UNCHANGED <<positions, obj, booked, loop>>
    PROVE  Inv'
  <1> DEFINE n == made.quotes + 1
  <1>1. /\ n \in Quotes /\ made.quotes \in Nat /\ n > made.quotes
        /\ made' = [made EXCEPT !.quotes = n]
        /\ quote' = [quote EXCEPT ![n] = [sym |-> s, side |-> side, price |-> QuotePrice(s, side)]]
        /\ quotes' = [quotes EXCEPT ![s] = n]
    <2>1. made.quotes \in 0..MaxQuotes /\ made.quotes < MaxQuotes
      BY DEF Place, TypeOK
    <2>2. n \in Quotes /\ made.quotes \in Nat /\ n > made.quotes
      BY <2>1, Constants DEF Quotes
    <2> QED BY <2>2 DEF Place
  <1>2. /\ made \in [quotes : 0..MaxQuotes, objs : 0..MaxObjs]
        /\ quotes \in [Symbols -> 0..MaxQuotes] /\ quote \in [Quotes -> QuoteRec]
    BY DEF TypeOK
  <1> HIDE DEF n
  <1>3. made'.objs = made.objs /\ made'.quotes = n  BY <1>1, <1>2
  <1>4. /\ quote'[n].sym = s /\ quotes'[s] = n
        /\ \A t \in Symbols : t # s => quotes'[t] = quotes[t]
        /\ \A m \in Quotes : m # n => quote'[m] = quote[m]
    BY <1>1, <1>2
  <1>5. \A m \in 1..made.quotes : m \in Quotes /\ m # n /\ m <= n
    <2>1. n \in Nat /\ n <= MaxQuotes /\ n > made.quotes /\ made.quotes \in Nat
      BY <1>1, Constants DEF Quotes
    <2> QED BY <2>1, Constants DEF Quotes
  <1>6. Alone'  BY DEF Inv, Alone
  <1>7. Tables'
    <2>1. \A t \in Symbols :
             quotes'[t] # 0 => quotes'[t] <= made'.quotes /\ quote'[quotes'[t]].sym = t
      <3> TAKE t \in Symbols
      <3> HAVE quotes'[t] # 0
      <3>1. CASE t = s
        <4>1. n <= n  BY <1>1, Constants DEF Quotes
        <4> QED BY <1>3, <1>4, <3>1, <4>1
      <3>2. CASE t # s
        <4>1. quotes[t] # 0 /\ quotes'[t] = quotes[t]  BY <1>4, <3>2
        <4>2. quotes[t] \in 1..made.quotes /\ quote[quotes[t]].sym = t
          BY <1>1, <1>2, <4>1 DEF Inv, Tables
        <4> QED BY <1>3, <1>4, <1>5, <4>1, <4>2
      <3> QED BY <3>1, <3>2
    <2> QED BY <1>3, <2>1 DEF Inv, Tables
  <1>8. QuoteOrPosition'
    BY <1>4 DEF Inv, QuoteOrPosition
  <1>9. ASSUME NEW m, QuoteLive(m) PROVE QuoteLive(m)'
    <2>1. m \in Quotes /\ m # n /\ m \in 1..made.quotes /\ quotes[quote[m].sym] = m
      BY <1>5, <1>9 DEF QuoteLive
    <2>2. quote[m].sym \in Symbols /\ m # 0  BY <1>2, <2>1 DEF QuoteRec
    <2>3. quote[m].sym # s  BY <2>1, <2>2
    <2>4. m \in 1..n
      <3>1. n \in Nat /\ n > made.quotes /\ made.quotes \in Nat
        BY <1>1, Constants DEF Quotes
      <3> QED BY <2>1, <3>1
    <2> QED BY <1>3, <1>4, <2>1, <2>2, <2>3, <2>4 DEF QuoteLive
  <1>10. \A o : ObjLive(o)' <=> ObjLive(o)  BY <1>3 DEF ObjLive
  <1>11. Copies'  BY <1>9, <1>10 DEF Inv, Copies
  <1>12. Asked'  BY DEF Asked
  <1>13. Rows'  BY <1>3 DEF Inv, Rows
  <1> QED BY <1>6, <1>7, <1>8, <1>11, <1>12, <1>13 DEF Inv

\* The scoring task opens nothing and takes nothing out of the tables.
LEMMA SigStep ==
    ASSUME TypeOK, Inv,
           \/ SigRound \/ SigRoundEnds \/ SigSized
           \/ \E s \in Symbols, side \in Sides : SigSignal(s, side)
    PROVE  Inv'
  <1>1. CASE SigRound  BY <1>1, FrameStep DEF SigRound, bookVars, TypeOK
  <1>2. CASE SigRoundEnds  BY <1>2, FrameStep DEF SigRoundEnds, IdleSig, bookVars
  <1>3. CASE SigSized
    <2>1. sig'.pc # "size"  BY <1>3 DEF SigSized, IdleSig
    <2>2. sig.sym \in Symbols /\ quotes[sig.sym] = 0 /\ positions[sig.sym] = 0
      BY <1>3 DEF SigSized, Inv, Asked, TypeOK
    <2>3. UNCHANGED <<positions, obj, booked, loop>>  BY <1>3 DEF SigSized, bookVars
    <2>4. CASE Place(sig.sym, sig.side)  BY <2>1, <2>2, <2>3, <2>4, PlaceStep
    <2>5. CASE UNCHANGED <<quotes, quote, made>>  BY <2>1, <2>3, <2>5, FrameStep
    <2> QED BY <1>3, <2>4, <2>5 DEF SigSized
  <1>4. ASSUME NEW s \in Symbols, NEW side \in Sides, SigSignal(s, side) PROVE Inv'
    <2>1. /\ sig.pc = "emit" /\ quotes[s] = 0 /\ positions[s] = 0
          /\ UNCHANGED <<positions, obj, booked, loop>>
      BY <1>4 DEF SigSignal, bookVars
    <2>2. CASE Place(s, side) /\ UNCHANGED sig  BY <2>1, <2>2, PlaceStep
    <2>3. CASE /\ sig' = [pc |-> "size", sym |-> s, side |-> side]
               /\ UNCHANGED <<quotes, quote, made>>
      <3>1. Asked'  BY <2>1, <2>3 DEF Asked
      <3> QED BY <2>1, <2>3, <3>1
               DEF Inv, Alone, Tables, QuoteOrPosition, QuoteLive, ObjLive, Copies, Rows
    <2> QED BY <1>4, <2>2, <2>3 DEF SigSignal
  <1> QED BY <1>1, <1>2, <1>3, <1>4

\* The loop that moves is the one that is not off.
LEMMA AloneStep ==
    ASSUME TypeOK, Alone, NEW l \in Loops, loop[l].pc # "off",
           NEW L, loop' = [loop EXCEPT ![l] = L]
    PROVE  Alone' /\ loop'[l] = L /\ \A k \in Loops : k # l => loop'[k].pc = "off"
  <1>1. loop'[l] = L /\ \A k \in Loops : k # l => loop'[k] = loop[k]  BY DEF TypeOK
  <1>2. \A k \in Loops : k # l => loop[k].pc = "off"  BY DEF Alone
  <1> QED BY <1>1, <1>2 DEF Alone

\* The copies are right if the moving loop's is; the other loops are off.
LEMMA CopiesStep ==
    ASSUME TypeOK, Alone, NEW l \in Loops, loop[l].pc # "off",
           NEW L, loop' = [loop EXCEPT ![l] = L],
           L.pc \in {"quotes", "reject"} => \A n \in L.todo : QuoteLive(n)',
           L.pc = "reject" => QuoteLive(L.cur)' /\ L.cur \notin L.todo,
           L.pc \in {"positions", "insert"} => \A o \in L.todo : ObjLive(o)'
    PROVE  Alone' /\ Copies'
  <1>1. /\ Alone' /\ loop'[l] = L
        /\ \A k \in Loops : k # l => loop'[k].pc = "off"
    BY AloneStep
  <1>2. Copies'
    <2> SUFFICES ASSUME NEW k \in Loops
                 PROVE  (/\ loop[k].pc \in {"quotes", "reject"}
                               => \A n \in loop[k].todo : QuoteLive(n)
                         /\ loop[k].pc = "reject"
                               => QuoteLive(loop[k].cur) /\ loop[k].cur \notin loop[k].todo
                         /\ loop[k].pc \in {"positions", "insert"}
                               => \A o \in loop[k].todo : ObjLive(o))'
      BY DEF Copies
    <2>1. CASE k # l  BY <1>1, <2>1
    <2>2. CASE k = l  BY <1>1, <2>2 DEF QuoteLive, ObjLive
    <2> QED BY <2>1, <2>2
  <1> QED BY <1>1, <1>2

\* Steps of the loop that leave the tables alone.
LEMMA WalkStep ==
    ASSUME TypeOK, Inv, NEW l \in Loops, loop[l].pc # "off",
           NEW L, loop' = [loop EXCEPT ![l] = L],
           UNCHANGED <<quotes, quote, positions, obj, booked, made, sig>>,
           L.pc \in {"quotes", "reject"} => \A n \in L.todo : QuoteLive(n),
           L.pc = "reject" => QuoteLive(L.cur) /\ L.cur \notin L.todo,
           L.pc \in {"positions", "insert"} => \A o \in L.todo : ObjLive(o)
    PROVE  Inv'
  <1>1. /\ \A n : QuoteLive(n)' <=> QuoteLive(n)
        /\ \A o : ObjLive(o)' <=> ObjLive(o)
    BY DEF QuoteLive, ObjLive
  <1>2. Alone' /\ Copies'  BY <1>1, CopiesStep DEF Inv
  <1> QED BY <1>2 DEF Inv, Tables, QuoteOrPosition, Asked, Rows

\* A quote leaves the table: the others of the copy are quotes of other symbols.
LEMMA PopStep ==
    ASSUME TypeOK, Inv, NEW n, QuoteLive(n), Pop(n), UNCHANGED quote,
           made'.quotes = made.quotes
    PROVE  /\ \A m : QuoteLive(m) /\ m # n => QuoteLive(m)'
           /\ \A s \in Symbols : quotes'[s] # 0 => quotes'[s] = quotes[s]
           /\ quotes'[quote[n].sym] = 0 /\ quote[n].sym \in Symbols /\ n \in Quotes
  <1>1. n \in Quotes /\ 1..made.quotes \subseteq Quotes
    <2>1. made.quotes \in 0..MaxQuotes  BY DEF TypeOK
    <2>2. 1..made.quotes \subseteq Quotes  BY <2>1, Constants DEF Quotes
    <2> QED BY <2>2 DEF QuoteLive
  <1>2. /\ quote \in [Quotes -> QuoteRec] /\ quotes \in [Symbols -> 0..MaxQuotes]
        /\ quotes' = [quotes EXCEPT ![quote[n].sym] = 0]
    BY DEF TypeOK, Pop
  <1>3. \A m \in Quotes : quote[m].sym \in Symbols  BY <1>2 DEF QuoteRec
  <1>4. quotes[quote[n].sym] = n  BY DEF QuoteLive
  <1>5. ASSUME NEW m, QuoteLive(m), m # n PROVE QuoteLive(m)'
    <2>1. m \in Quotes /\ quotes[quote[m].sym] = m  BY <1>1, <1>5 DEF QuoteLive
    <2>2. quote[m].sym # quote[n].sym  BY <1>4, <1>5, <2>1
    <2> QED BY <1>2, <1>3, <1>5, <2>1, <2>2 DEF QuoteLive
  <1> QED BY <1>1, <1>2, <1>3, <1>5

\* Pops of the loop that open no position.
LEMMA DropStep ==
    ASSUME TypeOK, Inv, NEW l \in Loops, loop[l].pc # "off", NEW n, QuoteLive(n), Pop(n),
           NEW L, loop' = [loop EXCEPT ![l] = L],
           UNCHANGED <<quote, positions, obj, booked, made, sig>>,
           L.pc = "quotes", \A m \in L.todo : QuoteLive(m) /\ m # n
    PROVE  Inv'
  <1>1. /\ \A m : QuoteLive(m) /\ m # n => QuoteLive(m)'
        /\ \A s \in Symbols : quotes'[s] # 0 => quotes'[s] = quotes[s]
        /\ quotes'[quote[n].sym] = 0
    BY PopStep
  <1>2. Alone' /\ Copies'  BY <1>1, CopiesStep DEF Inv
  <1>3. Tables' /\ QuoteOrPosition'  BY <1>1 DEF Inv, Tables, QuoteOrPosition
  <1>4. Asked'
    <2>1. sig.sym \in Symbols  BY DEF TypeOK
    <2> QED BY <1>1, <2>1 DEF Inv, Asked
  <1>5. Rows'  BY DEF Inv, Rows
  <1> QED BY <1>2, <1>3, <1>4, <1>5 DEF Inv

\* A fill takes the quote out and puts a new position in, for the same symbol.
LEMMA FillStep ==
    ASSUME TypeOK, Inv, NEW l \in Loops, NEW n \in Quotes, LoopQuoteFilled(l, n)
    PROVE  Inv'
  <1> DEFINE s == quote[n].sym
             o == made.objs + 1
  <1>1. /\ loop[l].pc = "quotes" /\ n \in loop[l].todo /\ Pop(n)
        /\ loop' = [loop EXCEPT ![l] = QuoteDone(l, n)]
        /\ UNCHANGED <<quote, booked, sig>>
    BY DEF LoopQuoteFilled, AtQuote, At, Goes
  <1>2. PICK side, price : Open(s, side, price)
    BY DEF LoopQuoteFilled
  <1>3. QuoteLive(n) /\ \A m \in loop[l].todo : QuoteLive(m)
    BY <1>1 DEF Inv, Copies
  <1>4. /\ made \in [quotes : 0..MaxQuotes, objs : 0..MaxObjs] /\ made.objs \in Nat
        /\ o \in Objs /\ o > made.objs /\ o # 0 /\ 1..made.objs \subseteq Objs
        /\ 1..o = (1..made.objs) \cup {o} /\ o \notin 1..made.objs
    <2>1. made.objs \in 0..MaxObjs /\ made.objs < MaxObjs  BY <1>2 DEF Open, TypeOK
    <2>2. made.objs \in Nat /\ o \in 1..MaxObjs /\ o > made.objs /\ o # 0
          /\ 1..made.objs \subseteq 1..MaxObjs
          /\ 1..o = (1..made.objs) \cup {o} /\ o \notin 1..made.objs
      BY <2>1, Constants
    <2>3. made \in [quotes : 0..MaxQuotes, objs : 0..MaxObjs]  BY DEF TypeOK
    <2> QED BY <2>2, <2>3 DEF Objs
  <1>5. /\ made' = [made EXCEPT !.objs = o]
        /\ positions' = [positions EXCEPT ![s] = o]
        /\ positions \in [Symbols -> 0..MaxObjs]
        /\ \A k \in Objs : k # o => obj'[k] = obj[k]
        /\ obj'[o].sym = s
    BY <1>2, <1>4 DEF Open, TypeOK, NoObj
  <1> HIDE DEF o, s
  <1>6. /\ \A m : QuoteLive(m) /\ m # n => QuoteLive(m)'
        /\ \A t \in Symbols : quotes'[t] # 0 => quotes'[t] = quotes[t]
        /\ quotes'[s] = 0 /\ s \in Symbols /\ quotes[s] = n /\ n # 0
    <2>1. made'.quotes = made.quotes  BY <1>4, <1>5
    <2>2. n # 0 /\ quotes[s] = n  BY <1>3 DEF QuoteLive, s
    <2> QED BY <1>1, <1>3, <2>1, <2>2, PopStep DEF s
  <1>7. /\ positions[s] = 0 /\ positions'[s] = o
        /\ \A t \in Symbols : t # s => positions'[t] = positions[t]
    BY <1>4, <1>5, <1>6 DEF Inv, QuoteOrPosition
  <1>8. made'.objs = o /\ made'.quotes = made.quotes  BY <1>4, <1>5
  <1>9. Alone' /\ Copies'
    <2>1. QuoteDone(l, n).pc = "quotes" /\ QuoteDone(l, n).todo = loop[l].todo \ {n}
      BY <1>1 DEF QuoteDone, TypeOK, LoopRec
    <2>2. \A m \in QuoteDone(l, n).todo : QuoteLive(m)'
      BY <1>3, <1>6, <2>1
    <2> QED BY <1>1, <2>1, <2>2, CopiesStep DEF Inv
  <1>10. Tables'
    <2>1. \A t \in Symbols :
             quotes'[t] # 0 => quotes'[t] <= made'.quotes /\ quote'[quotes'[t]].sym = t
      BY <1>1, <1>6, <1>8 DEF Inv, Tables
    <2>2. ASSUME NEW t \in Symbols, positions'[t] # 0
          PROVE  positions'[t] <= made'.objs /\ obj'[positions'[t]].sym = t
      <3>1. CASE t = s  BY <1>4, <1>5, <1>7, <1>8, <3>1
      <3>2. CASE t # s
        <4>1. positions'[t] = positions[t] /\ positions[t] # 0 /\ positions[t] \in 0..MaxObjs
          BY <1>5, <1>7, <2>2, <3>2
        <4>2. positions[t] <= made.objs /\ obj[positions[t]].sym = t
          BY <4>1 DEF Inv, Tables
        <4>3. positions[t] \in 1..made.objs  BY <1>4, <4>1, <4>2, Constants
        <4>4. obj'[positions[t]] = obj[positions[t]]  BY <1>4, <1>5, <4>3
        <4>5. positions[t] <= o  BY <1>4, <4>3
        <4> QED BY <1>8, <4>1, <4>2, <4>4, <4>5
      <3> QED BY <3>1, <3>2
    <2> QED BY <2>1, <2>2 DEF Tables
  <1>11. QuoteOrPosition'
    <2> SUFFICES ASSUME NEW t \in Symbols PROVE quotes'[t] = 0 \/ positions'[t] = 0
      BY DEF QuoteOrPosition
    <2>1. CASE t = s  BY <1>6, <2>1
    <2>2. CASE t # s  BY <1>6, <1>7, <2>2 DEF Inv, QuoteOrPosition
    <2> QED BY <2>1, <2>2
  <1>12. Asked'
    <2>1. sig.sym \in Symbols  BY DEF TypeOK
    <2>2. sig.pc = "size" => sig.sym # s  BY <1>6 DEF Inv, Asked
    <2> QED BY <1>1, <1>6, <1>7, <2>1, <2>2 DEF Inv, Asked
  <1>13. Rows'
    <2>1. \A k \in 1..made.objs : obj'[k] = obj[k] /\ obj[k].sym \in Symbols /\ k # o
      BY <1>4, <1>5 DEF TypeOK, ObjRec
    <2>2. ASSUME NEW i \in DOMAIN booked
          PROVE  /\ booked[i].pos \in 1..made.objs
                 /\ positions'[obj'[booked[i].pos].sym] # booked[i].pos
      <3>1. booked[i].pos \in 1..made.objs
        <4>1. booked[i].pos \in Objs  BY <2>2, RowsTyped
        <4>2. booked[i].pos <= made.objs  BY DEF Inv, Rows
        <4> QED BY <1>4, <4>1, <4>2, Constants DEF Objs
      <3>2. positions[obj[booked[i].pos].sym] # booked[i].pos  BY DEF Inv, Rows
      <3> QED BY <1>7, <2>1, <3>1, <3>2
    <2>3. ASSUME NEW k \in 1..made'.objs
          PROVE  positions'[obj'[k].sym] = k \/ \E i \in DOMAIN booked : booked[i].pos = k
      <3>1. CASE k = o  BY <1>5, <1>7, <3>1
      <3>2. CASE k \in 1..made.objs
        <4>1. positions[obj[k].sym] = k \/ \E i \in DOMAIN booked : booked[i].pos = k
          BY <3>2 DEF Inv, Rows
        <4>2. CASE positions[obj[k].sym] = k
          <5>1. k # 0  BY <3>2
          <5> QED BY <1>7, <2>1, <3>2, <4>2, <5>1
        <4> QED BY <4>1, <4>2
      <3> QED BY <1>4, <1>8, <3>1, <3>2
    <2>4. \A i \in DOMAIN booked : booked[i].pos <= made'.objs
      <3>1. \A x \in 1..made.objs : x <= o  BY <1>4
      <3> QED BY <1>8, <2>2, <3>1
    <2>5. booked' = booked  BY <1>1
    <2>6. \A i, j \in DOMAIN booked : booked[i].pos = booked[j].pos => i = j  BY DEF Inv, Rows
    <2> QED BY <2>2, <2>3, <2>4, <2>5, <2>6 DEF Rows
  <1> QED BY <1>9, <1>10, <1>11, <1>12, <1>13 DEF Inv

\* What has been made is an object, and 0 is none.
LEMMA ObjsMade ==
    ASSUME TypeOK
    PROVE  1..made.objs \subseteq Objs /\ \A o \in Objs : obj[o].sym \in Symbols /\ o # 0
  <1>1. made.objs \in 0..MaxObjs  BY DEF TypeOK
  <1>2. 1..made.objs \subseteq Objs  BY <1>1, Constants DEF Objs
  <1>3. \A o \in Objs : o # 0  BY DEF Objs
  <1> QED BY <1>2, <1>3 DEF TypeOK, ObjRec

\* A pass that only looks: the position keeps its symbol.
LEMMA PassStep ==
    ASSUME TypeOK, Inv, NEW l \in Loops, NEW o \in Objs, AtPos(l, o), NEW p,
           p.sym = obj[o].sym, Passes(l, o, p)
    PROVE  Inv'
  <1>1. /\ loop[l].pc = "positions"
        /\ loop' = [loop EXCEPT ![l] = PosDone(l, o)]
        /\ UNCHANGED <<quotes, quote, positions, booked, made, sig>>
    BY DEF AtPos, At, Passes, Goes
  <1>2. \A k \in Objs : obj'[k].sym = obj[k].sym  BY DEF Passes, TypeOK
  <1>3. 1..made.objs \subseteq Objs  BY ObjsMade
  <1>4. \A k : ObjLive(k) => ObjLive(k)'  BY <1>1, <1>2, <1>3 DEF ObjLive
  <1>5. PosDone(l, o).pc = "positions" /\ PosDone(l, o).todo = loop[l].todo \ {o}
    BY <1>1 DEF PosDone, TypeOK, LoopRec
  <1>6. \A k \in PosDone(l, o).todo : ObjLive(k)'
    BY <1>1, <1>4, <1>5 DEF Inv, Copies
  <1>7. Alone' /\ Copies'  BY <1>1, <1>5, <1>6, CopiesStep DEF Inv
  <1>8. Tables'
    <2>1. ASSUME NEW s \in Symbols, positions[s] # 0
          PROVE  positions[s] <= made.objs /\ obj'[positions[s]].sym = s
      <3>1. positions[s] \in 0..MaxObjs  BY DEF TypeOK
      <3>2. positions[s] \in Objs  BY <2>1, <3>1, Constants DEF Objs
      <3> QED BY <1>2, <2>1, <3>2 DEF Inv, Tables
    <2> QED BY <1>1, <2>1 DEF Inv, Tables
  <1>9. Rows'
    <2>1. \A i \in DOMAIN booked : booked[i].pos \in Objs  BY RowsTyped
    <2> QED BY <1>1, <1>2, <1>3, <2>1 DEF Inv, Rows
  <1> QED BY <1>1, <1>7, <1>8, <1>9 DEF Inv, QuoteOrPosition, Asked

\* A close frees the symbol and books the one row of the position.
LEMMA CloseStep ==
    ASSUME TypeOK, Inv, NEW l \in Loops, NEW o \in Objs, AtPos(l, o), NEW p,
           p.sym = obj[o].sym, Close(l, o, p)
    PROVE  Inv'
  <1> DEFINE s == obj[o].sym
             row == [pos |-> o, pnl |-> Realized(p)]
  <1>1. /\ loop[l].pc = "positions" /\ o \in loop[l].todo
        /\ loop' = [loop EXCEPT ![l] = Closing(l, o)]
        /\ booked' = Append(booked, row)
        /\ positions' = [positions EXCEPT ![s] = 0]
        /\ UNCHANGED <<quotes, quote, made, sig>>
    BY DEF AtPos, At, Close, Awaits
  <1>2. \A k \in Objs : obj'[k].sym = obj[k].sym  BY DEF Close, TypeOK
  <1>3. ObjLive(o)  BY <1>1 DEF Inv, Copies
  <1>4. /\ 1..made.objs \subseteq Objs /\ o \in 1..made.objs /\ o # 0
        /\ s \in Symbols /\ positions[s] = o
        /\ \A k \in Objs : obj[k].sym \in Symbols /\ k # 0
    BY <1>3, ObjsMade DEF ObjLive
  <1> HIDE DEF s
  <1>5. positions'[s] = 0 /\ \A t \in Symbols : t # s => positions'[t] = positions[t]
    BY <1>1, <1>4 DEF TypeOK
  <1>6. ASSUME NEW k, ObjLive(k), k # o PROVE ObjLive(k)'
    <2>1. k \in Objs /\ positions[obj[k].sym] = k  BY <1>4, <1>6 DEF ObjLive
    <2>2. obj[k].sym # s  BY <1>4, <1>6, <2>1
    <2> QED BY <1>1, <1>2, <1>4, <1>5, <1>6, <2>1, <2>2 DEF ObjLive
  <1>7. Closing(l, o).pc = "insert" /\ Closing(l, o).todo = loop[l].todo \ {o}
    BY <1>1 DEF Closing, PosDone, TypeOK, LoopRec
  <1>8. \A k \in Closing(l, o).todo : ObjLive(k)'
    BY <1>1, <1>6, <1>7 DEF Inv, Copies
  <1>9. Alone' /\ Copies'  BY <1>1, <1>7, <1>8, CopiesStep DEF Inv
  <1>10. Tables'
    <2>1. ASSUME NEW t \in Symbols, positions'[t] # 0
          PROVE  positions'[t] <= made.objs /\ obj'[positions'[t]].sym = t
      <3>1. t # s /\ positions'[t] = positions[t] /\ positions[t] # 0  BY <1>5, <2>1
      <3>2. positions[t] \in 0..MaxObjs  BY DEF TypeOK
      <3>3. positions[t] \in Objs  BY <3>1, <3>2, Constants DEF Objs
      <3> QED BY <1>2, <3>1, <3>3 DEF Inv, Tables
    <2> QED BY <1>1, <2>1 DEF Inv, Tables
  <1>11. QuoteOrPosition' /\ Asked'
    <2>1. sig.sym \in Symbols  BY DEF TypeOK
    <2>2. \A t \in Symbols : positions[t] = 0 => positions'[t] = 0  BY <1>5
    <2> QED BY <1>1, <2>1, <2>2 DEF Inv, QuoteOrPosition, Asked
  <1>12. Rows'
    <2>1. \A i \in DOMAIN booked : booked[i].pos \in Objs  BY RowsTyped
    <2>2. \A i \in DOMAIN booked : booked[i].pos # o
      BY <1>4 DEF Inv, Rows, s
    <2>3. /\ DOMAIN booked' = DOMAIN booked \cup {Len(booked) + 1}
          /\ \A i \in DOMAIN booked : booked'[i] = booked[i]
          /\ booked'[Len(booked) + 1] = row
      <3>1. booked \in Seq([pos : Objs, pnl : Int])  BY RowsTyped
      <3> HIDE DEF row
      <3> QED BY <1>1, <3>1
    <2>4. row.pos = o  OBVIOUS
    <2> HIDE DEF row
    <2> DEFINE n == Len(booked) + 1
    <2>5. booked'[n].pos = o /\ \A i \in DOMAIN booked : booked'[i].pos = booked[i].pos
      BY <2>3, <2>4
    <2>6. DOMAIN booked' = DOMAIN booked \cup {n}  BY <2>3
    <2> HIDE DEF n
    <2>7. \A i \in DOMAIN booked' : booked'[i].pos <= made'.objs
      <3>1. o <= made.objs  BY <1>4
      <3> QED BY <1>1, <2>5, <2>6, <3>1 DEF Inv, Rows
    <2>8. \A i, j \in DOMAIN booked' : booked'[i].pos = booked'[j].pos => i = j
      BY <2>2, <2>5, <2>6 DEF Inv, Rows
    <2>9. ASSUME NEW i \in DOMAIN booked'
          PROVE  positions'[obj'[booked'[i].pos].sym] # booked'[i].pos
      <3>1. CASE i = n  BY <1>2, <1>4, <1>5, <2>5, <3>1 DEF s
      <3>2. CASE i \in DOMAIN booked
        <4> DEFINE k == booked[i].pos
        <4>1. k \in Objs /\ positions[obj[k].sym] # k  BY <2>1, <3>2 DEF Inv, Rows
        <4>2. obj'[k].sym = obj[k].sym /\ obj[k].sym \in Symbols /\ k # 0
          BY <1>2, <1>4, <4>1
        <4>3. positions'[obj[k].sym] \in {0, positions[obj[k].sym]}
          BY <1>5, <4>2
        <4> QED BY <2>5, <3>2, <4>1, <4>2, <4>3
      <3> QED BY <2>6, <3>1, <3>2
    <2>10. ASSUME NEW k \in 1..made'.objs
           PROVE  positions'[obj'[k].sym] = k \/ \E i \in DOMAIN booked' : booked'[i].pos = k
      <3>1. k \in 1..made.objs /\ k \in Objs  BY <1>1, <1>4
      <3>2. CASE k = o  BY <2>5, <2>6, <3>2
      <3>3. CASE k # o /\ ObjLive(k)  BY <1>6, <3>3 DEF ObjLive
      <3>4. CASE ~ObjLive(k)
        <4>1. PICK i \in DOMAIN booked : booked[i].pos = k
          BY <3>1, <3>4 DEF Inv, Rows, ObjLive
        <4> QED BY <2>5, <2>6, <4>1
      <3> QED BY <3>2, <3>3, <3>4
    <2> QED BY <2>7, <2>8, <2>9, <2>10 DEF Rows
  <1> QED BY <1>9, <1>10, <1>11, <1>12 DEF Inv

\* One position of a pass.
LEMMA PosStep ==
    ASSUME TypeOK, Inv, NEW l \in Loops, NEW o \in Objs, LoopPos(l, o)
    PROVE  Inv'
  <1>1. AtPos(l, o)
    BY DEF LoopPos, PosSkip, PosExchangeStop, PosWait, PosDue, PosRule, PosTrail, PosTime
  <1>2. CASE PosSkip(l, o)  BY <1>1, <1>2, PassStep DEF PosSkip
  <1>3. ASSUME HasBook(o) PROVE \A p \in Looks(o) : p.sym = obj[o].sym
    BY <1>3, LooksTyped DEF SameTrade
  <1>4. ASSUME HasBook(o), NEW p \in Looks(o), Passes(l, o, p) \/ Close(l, o, p) PROVE Inv'
    BY <1>1, <1>3, <1>4, PassStep, CloseStep
  <1>5. CASE PosExchangeStop(l, o)  BY <1>4, <1>5 DEF PosExchangeStop, Looks
  <1>6. CASE PosWait(l, o)  BY <1>4, <1>6 DEF PosWait, Held, Looks
  <1>7. CASE PosDue(l, o)   BY <1>4, <1>7 DEF PosDue, Held, Looks
  <1>8. CASE PosRule(l, o)  BY <1>4, <1>8 DEF PosRule, Held, Looks
  <1>9. CASE PosTrail(l, o) \/ PosTime(l, o)
    <2>1. PICK p \in {Seen(o), [Seen(o) EXCEPT !.stop = NewStop(Seen(o))]} :
             Passes(l, o, p) \/ Close(l, o, p) \/ Passes(l, o, Queued(p))
      BY <1>9 DEF PosTrail, PosTime
    <2>2. HasBook(o)  BY <1>9 DEF PosTrail, PosTime, Held
    <2>3. p \in Looks(o) /\ Queued(p) \in Looks(o)  BY DEF Looks
    <2> QED BY <1>4, <2>1, <2>2, <2>3
  <1> QED BY <1>2, <1>5, <1>6, <1>7, <1>8, <1>9 DEF LoopPos

\* One quote of a pass.
LEMMA QuoteStep ==
    ASSUME TypeOK, Inv, NEW l \in Loops, NEW n \in Quotes, LoopQuote(l, n)
    PROVE  Inv'
  <1>1. AtQuote(l, n)
    BY DEF LoopQuote, LoopQuoteWaits, LoopQuoteRefused, LoopQuoteCancelled, LoopQuoteFilled
  <1>2. loop[l].pc = "quotes" /\ n \in loop[l].todo  BY <1>1 DEF AtQuote, At
  <1>3. QuoteLive(n) /\ \A m \in loop[l].todo : QuoteLive(m)
    BY <1>2 DEF Inv, Copies
  <1>4. QuoteDone(l, n).pc = "quotes" /\ QuoteDone(l, n).todo = loop[l].todo \ {n}
    BY <1>2 DEF QuoteDone, TypeOK, LoopRec
  <1>5. CASE LoopQuoteWaits(l, n)
    BY <1>2, <1>3, <1>4, <1>5, WalkStep DEF LoopQuoteWaits, Goes, bookVars
  <1>6. CASE LoopQuoteRefused(l, n)
    <2> DEFINE L == [QuoteDone(l, n) EXCEPT !.pc = "reject", !.cur = n]
    <2>1. L.pc = "reject" /\ L.cur = n /\ L.todo = loop[l].todo \ {n}
      BY <1>2 DEF QuoteDone, TypeOK, LoopRec
    <2>2. /\ loop' = [loop EXCEPT ![l] = L]
          /\ UNCHANGED <<quotes, quote, positions, obj, booked, made, sig>>
      BY <1>6 DEF LoopQuoteRefused, Awaits, bookVars
    <2> HIDE DEF L
    <2> QED BY <1>2, <1>3, <2>1, <2>2, WalkStep
  <1>7. CASE LoopQuoteCancelled(l, n)
    <2>1. \A m \in QuoteDone(l, n).todo : QuoteLive(m) /\ m # n  BY <1>3, <1>4
    <2> QED BY <1>2, <1>3, <1>4, <1>7, <2>1, DropStep DEF LoopQuoteCancelled, Goes, bookVars
  <1>8. CASE LoopQuoteFilled(l, n)  BY <1>8, FillStep
  <1> QED BY <1>5, <1>6, <1>7, <1>8 DEF LoopQuote

\* One step of the loop.
LEMMA LoopInv ==
    ASSUME TypeOK, Inv, NEW l \in Loops, LoopStep(l)
    PROVE  Inv'
  <1>0. /\ loop[l] \in LoopRec
        /\ \A pc : [loop[l] EXCEPT !.pc = pc].pc = pc
        /\ \A pc : [loop[l] EXCEPT !.pc = pc].todo = loop[l].todo
    BY DEF TypeOK, LoopRec
  <1>1. ASSUME NEW pc, loop[l].pc # "off", pc \notin {"quotes", "reject", "positions", "insert"},
               loop' = [loop EXCEPT ![l] = [loop[l] EXCEPT !.pc = pc]],
               UNCHANGED <<quotes, quote, positions, obj, booked, made, sig>>
        PROVE  Inv'
    BY <1>0, <1>1, WalkStep
  <1>2. CASE LoopStart(l)
    <2> DEFINE L == [loop[l] EXCEPT !.pc = "top"]
    <2>1. /\ loop[l].pc # "off"
          /\ loop' = [loop EXCEPT ![l] = L]
          /\ UNCHANGED <<quotes, quote, positions, obj, booked, made, sig>>
      BY <1>2 DEF LoopStart, StartWith, At, Goes
    <2>2. L.pc = "top"  BY <1>0
    <2> HIDE DEF L
    <2> QED BY <2>1, <2>2, WalkStep
  <1>3. CASE LoopTop(l)
    <2> DEFINE L == [pc |-> "quotes", cur |-> 0, todo |-> {quotes[s] : s \in Symbols} \ {0}]
    <2>1. /\ loop[l].pc # "off"
          /\ UNCHANGED <<quotes, quote, positions, obj, booked, made, sig>>
      BY <1>3 DEF LoopTop, LoopEndsIf, At, bookVars
    <2>2. CASE loop' = [loop EXCEPT ![l] = OffLoop]
      BY <2>1, <2>2, WalkStep DEF OffLoop
    <2>3. CASE loop' = [loop EXCEPT ![l] = L]
      <3>1. ASSUME NEW s \in Symbols, quotes[s] # 0 PROVE QuoteLive(quotes[s])
        <4>1. quotes[s] <= made.quotes /\ quote[quotes[s]].sym = s
          BY <3>1 DEF Inv, Tables
        <4>2. quotes[s] \in 0..MaxQuotes /\ made.quotes \in 0..MaxQuotes  BY DEF TypeOK
        <4>3. quotes[s] \in 1..made.quotes  BY <3>1, <4>1, <4>2, Constants
        <4> QED BY <4>1, <4>3 DEF QuoteLive
      <3>2. L.pc = "quotes" /\ \A n \in L.todo : QuoteLive(n)  BY <3>1
      <3> HIDE DEF L
      <3> QED BY <2>1, <2>3, <3>2, WalkStep
    <2> QED BY <1>3, <2>2, <2>3 DEF LoopTop, LoopEndsIf, Awaits, Goes
  <1>4. CASE \E n \in Quotes : LoopQuote(l, n)  BY <1>4, QuoteStep
  <1>5. CASE LoopRejected(l)
    <2> DEFINE L == [loop[l] EXCEPT !.pc = "quotes", !.cur = 0]
               n == loop[l].cur
    <2>1. /\ loop[l].pc = "reject" /\ Pop(n) /\ loop' = [loop EXCEPT ![l] = L]
          /\ UNCHANGED <<quote, positions, obj, booked, made, sig>>
      BY <1>5 DEF LoopRejected, At, Goes, bookVars
    <2>2. L.pc = "quotes" /\ L.todo = loop[l].todo  BY <1>0 DEF LoopRec
    <2>3. QuoteLive(n) /\ \A m \in loop[l].todo : QuoteLive(m) /\ m # n
      BY <2>1 DEF Inv, Copies
    <2> HIDE DEF L, n
    <2> QED BY <2>1, <2>2, <2>3, DropStep
  <1>6. CASE LoopQuotesDone(l)
    <2> DEFINE L == [pc |-> "positions", cur |-> 0, todo |-> {positions[s] : s \in Managed}]
    <2>1. /\ loop[l].pc = "quotes" /\ loop' = [loop EXCEPT ![l] = L]
          /\ UNCHANGED <<quotes, quote, positions, obj, booked, made, sig>>
      BY <1>6 DEF LoopQuotesDone, At, Goes, bookVars
    <2>2. ASSUME NEW s \in Symbols, positions[s] # 0 PROVE ObjLive(positions[s])
      <3>1. positions[s] <= made.objs /\ obj[positions[s]].sym = s
        BY <2>2 DEF Inv, Tables
      <3>2. positions[s] \in 0..MaxObjs /\ made.objs \in 0..MaxObjs  BY DEF TypeOK
      <3>3. positions[s] \in 1..made.objs  BY <2>2, <3>1, <3>2, Constants
      <3> QED BY <3>1, <3>3 DEF ObjLive
    <2>3. L.pc = "positions" /\ \A o \in L.todo : ObjLive(o)  BY <2>2 DEF Managed
    <2> HIDE DEF L
    <2> QED BY <2>1, <2>3, WalkStep
  <1>7. CASE \E o \in Objs : LoopPos(l, o)  BY <1>7, PosStep
  <1>8. CASE LoopInserted(l)
    <2> DEFINE L == [loop[l] EXCEPT !.pc = "positions"]
    <2>1. /\ loop[l].pc = "insert" /\ loop' = [loop EXCEPT ![l] = L]
          /\ UNCHANGED <<quotes, quote, positions, obj, booked, made, sig>>
      BY <1>8 DEF LoopInserted, At, Goes, bookVars
    <2>2. L.pc = "positions" /\ L.todo = loop[l].todo  BY <1>0
    <2>3. \A o \in L.todo : ObjLive(o)  BY <2>1, <2>2 DEF Inv, Copies
    <2> HIDE DEF L
    <2> QED BY <2>1, <2>2, <2>3, WalkStep
  <1>9. CASE LoopPositionsDone(l)
    <2> DEFINE L == [loop[l] EXCEPT !.pc = "check"]
    <2>1. /\ loop[l].pc # "off"
          /\ loop' = [loop EXCEPT ![l] = L]
          /\ UNCHANGED <<quotes, quote, positions, obj, booked, made, sig>>
      BY <1>9 DEF LoopPositionsDone, At, bookVars
    <2>2. L.pc = "check"  BY <1>0
    <2> HIDE DEF L
    <2> QED BY <2>1, <2>2, WalkStep
  <1>10. CASE LoopCheck(l) \/ LoopTrips(l)
    BY <1>1, <1>10 DEF LoopCheck, LoopTrips, Sleeps, At, Awaits, bookVars
  <1> QED BY <1>2, <1>3, <1>4, <1>5, <1>6, <1>7, <1>8, <1>9, <1>10 DEF LoopStep

\* The operator's requests: run finds every loop off.
LEMMA OpStep ==
    ASSUME ~Overlap, TypeOK, Inv, OpKillAll \/ OpRunStop \/ \E l \in Loops : OpRun(l)
    PROVE  Inv'
  <1>1. CASE OpKillAll \/ OpRunStop
    BY <1>1, FrameStep DEF OpKillAll, OpRunStop, Sets
  <1>2. ASSUME NEW l \in Loops, OpRun(l) PROVE Inv'
    <2>1. /\ \A k \in Loops : loop[k].pc = "off"
          /\ loop' = [loop EXCEPT ![l].pc = "start"]
          /\ UNCHANGED <<quotes, quote, positions, obj, booked, made, sig>>
      BY <1>2 DEF OpRun, Sets
    <2>2. loop'[l].pc = "start" /\ \A k \in Loops : k # l => loop'[k].pc = "off"
      BY <2>1 DEF TypeOK, LoopRec
    <2>3. Alone'  BY <2>2 DEF Alone
    <2>4. Copies'
      <3>1. \A k \in Loops : loop'[k].pc \in {"off", "start"}  BY <2>2
      <3> QED BY <3>1 DEF Copies
    <2> QED BY <2>1, <2>3, <2>4 DEF Inv, Tables, QuoteOrPosition, Asked, Rows
  <1> QED BY <1>1, <1>2

\* At first nothing has been made.
LEMMA InvInit == Init => Inv
  <1> SUFFICES ASSUME Init PROVE Inv  OBVIOUS
  <1>1. DOMAIN booked = {}  BY DEF Init
  <1>2. 1..made.objs = {}  BY DEF Init
  <1> QED BY <1>1, <1>2 DEF Init, Inv, Alone, Tables, QuoteOrPosition, Copies, Asked, Rows,
                            OffLoop, IdleSig

\* Every step keeps the invariant.
LEMMA InvStep ==
    ASSUME ~Overlap
    PROVE  TypeOK /\ Inv /\ [Next]_vars => Inv'
  <1> SUFFICES ASSUME TypeOK, Inv, [Next]_vars PROVE Inv'  OBVIOUS
  <1>1. CASE UNCHANGED vars  BY <1>1, FrameStep DEF vars
  <1>2. ASSUME NEW s \in Symbols, NEW p \in Prices \cup {None}, BookMoves(s, p)
        PROVE  Inv'
    BY <1>2, FrameStep DEF BookMoves, bookVars
  <1> QED BY <1>1, <1>2, SigStep, LoopInv, OpStep DEF Next

\* A position has one row at most, and none while its symbol holds it.
LEMMA RowsCounted ==
    ASSUME TypeOK, Inv
    PROVE  PositionLife
  <1> SUFFICES ASSUME NEW o \in 1..made.objs
               PROVE  Cardinality(RowsOf(o)) = IF positions[obj[o].sym] = o THEN 0 ELSE 1
    BY DEF PositionLife
  <1>1. CASE positions[obj[o].sym] = o
    <2>1. RowsOf(o) = {}  BY <1>1 DEF RowsOf, Inv, Rows
    <2> QED BY <1>1, <2>1, FS_EmptySet
  <1>2. CASE positions[obj[o].sym] # o
    <2>1. PICK i \in DOMAIN booked : booked[i].pos = o  BY <1>2 DEF Inv, Rows
    <2>2. RowsOf(o) = {i}  BY <2>1 DEF RowsOf, Inv, Rows
    <2> QED BY <1>2, <2>2, FS_Singleton
  <1> QED BY <1>1, <1>2

\* No position is lost, kept after its close or booked twice, whatever the
\* operator, the market and the scoring task do while a pass is suspended, if
\* run is not called before the last loop has ended.
THEOREM PositionsAreBookedOnce ==
    ASSUME ~Overlap
    PROVE  Spec => []PositionLife
  <1>1. Init => TypeOK /\ Inv  BY TypeInit, InvInit
  <1>2. TypeOK /\ Inv /\ [Next]_vars => TypeOK' /\ Inv'  BY TypeStep, InvStep
  <1>3. TypeOK /\ Inv => PositionLife  BY RowsCounted
  <1> QED BY <1>1, <1>2, <1>3, PTL DEF Spec

\* A symbol has a quote or a position, never both, under the same condition.
THEOREM QuoteExcludesPosition ==
    ASSUME ~Overlap
    PROVE  Spec => []QuoteOrPosition
  <1>1. Init => TypeOK /\ Inv  BY TypeInit, InvInit
  <1>2. TypeOK /\ Inv /\ [Next]_vars => TypeOK' /\ Inv'  BY TypeStep, InvStep
  <1>3. TypeOK /\ Inv => QuoteOrPosition  BY DEF Inv
  <1> QED BY <1>1, <1>2, <1>3, PTL DEF Spec

(***************************************************************************)
(* The simulation implements TradeLife.                                    *)
(***************************************************************************)
\* Steps that leave the tables and the ledger alone.
LEMMA LifeStays ==
    ASSUME UNCHANGED <<quotes, positions, booked>>, acct'.balance = acct.balance,
           ctl'.kill = ctl.kill
    PROVE  UNCHANGED Life!vars
  <1>1. Stages' = Stages  BY DEF Stages, Stage
  <1> QED BY <1>1 DEF Life!vars

\* One symbol goes from one stage to another.
LEMMA LifeBecomes ==
    ASSUME NEW s \in Symbols, NEW from, NEW to, Stage(s) = from, Stage(s)' = to,
           \A t \in Symbols : t # s => Stage(t)' = Stage(t)
    PROVE  Life!Becomes(s, from, to)
  <1>1. Stages[s] = from  BY DEF Stages
  <1>2. Stages' = [Stages EXCEPT ![s] = to]  BY DEF Stages
  <1> QED BY <1>1, <1>2 DEF Life!Becomes

LEMMA LifeQuote ==
    ASSUME TypeOK, NEW s \in Symbols, NEW side, Place(s, side),
           quotes[s] = 0, positions[s] = 0, UNCHANGED <<bookVars, ctl>>
    PROVE  Life!Quote(s)
  <1> DEFINE n == made.quotes + 1
  <1>0. made.quotes \in 0..MaxQuotes /\ MaxQuotes \in Nat  BY Constants DEF TypeOK
  <1>1. made.quotes \in Nat /\ n # 0 /\ quotes' = [quotes EXCEPT ![s] = n] /\ ~ctl.kill
    <2>1. made.quotes \in Nat /\ n # 0  BY <1>0
    <2> QED BY <2>1 DEF Place, Accepts
  <1> HIDE DEF n
  <1>2. quotes'[s] = n /\ \A t \in Symbols : t # s => quotes'[t] = quotes[t]
    BY <1>1 DEF TypeOK
  <1>3. Stage(s) = "idle" /\ Stage(s)' = "quoted"  BY <1>1, <1>2 DEF Stage, bookVars
  <1>4. \A t \in Symbols : t # s => Stage(t)' = Stage(t)  BY <1>2 DEF Stage, bookVars
  <1>5. Life!Becomes(s, "idle", "quoted")  BY <1>3, <1>4, LifeBecomes
  <1> QED BY <1>1, <1>5 DEF Life!Quote, bookVars

LEMMA LifeCancel ==
    ASSUME TypeOK, Inv, NEW n, QuoteLive(n), Pop(n), UNCHANGED <<quote, bookVars, ctl, made>>
    PROVE  \E s \in Symbols : Life!Cancel(s)
  <1>1. PICK s \in Symbols : s = quote[n].sym  BY PopStep
  <1>2. quotes' = [quotes EXCEPT ![s] = 0] /\ quotes[s] = n /\ n # 0
    BY <1>1, PopStep, Constants DEF Pop, QuoteLive, Quotes
  <1>3. quotes'[s] = 0 /\ \A t \in Symbols : t # s => quotes'[t] = quotes[t]
    BY <1>2 DEF TypeOK
  <1>4. Stage(s) = "quoted" /\ Stage(s)' = "idle"
    BY <1>2, <1>3 DEF Stage, bookVars, Inv, QuoteOrPosition
  <1>5. \A t \in Symbols : t # s => Stage(t)' = Stage(t)  BY <1>3 DEF Stage, bookVars
  <1>6. Life!Becomes(s, "quoted", "idle")  BY <1>4, <1>5, LifeBecomes
  <1> QED BY <1>6 DEF Life!Cancel, bookVars

LEMMA LifeFill ==
    ASSUME TypeOK, Inv, NEW l \in Loops, NEW n \in Quotes, LoopQuoteFilled(l, n)
    PROVE  \E s \in Symbols : Life!Fill(s)
  <1> DEFINE o == made.objs + 1
  <1>1. /\ loop[l].pc = "quotes" /\ n \in loop[l].todo /\ Pop(n)
        /\ UNCHANGED <<quote, booked, acct, ctl>>
    BY DEF LoopQuoteFilled, AtQuote, At
  <1>2. QuoteLive(n)  BY <1>1 DEF Inv, Copies
  <1>3. PICK side, price : Open(quote[n].sym, side, price)  BY DEF LoopQuoteFilled
  <1>4. /\ made' = [made EXCEPT !.objs = o]
        /\ positions' = [positions EXCEPT ![quote[n].sym] = o]
    BY <1>3 DEF Open
  <1>5. made.objs \in Nat /\ o # 0 /\ made'.quotes = made.quotes
    <2>1. /\ made \in [quotes : 0..MaxQuotes, objs : 0..MaxObjs]
          /\ made.objs \in 0..MaxObjs /\ MaxObjs \in Nat
      BY Constants DEF TypeOK
    <2>2. made.objs \in Nat /\ o # 0  BY <2>1
    <2> HIDE DEF o
    <2> QED BY <1>4, <2>1, <2>2
  <1>6. PICK s \in Symbols : s = quote[n].sym  BY <1>1, <1>2, <1>5, PopStep
  <1>7. quotes' = [quotes EXCEPT ![s] = 0] /\ quotes[s] = n /\ n # 0
    BY <1>1, <1>2, <1>6, Constants DEF Pop, QuoteLive, Quotes
  <1>8. /\ positions'[s] # 0 /\ quotes'[s] = 0
        /\ \A t \in Symbols : t # s => positions'[t] = positions[t] /\ quotes'[t] = quotes[t]
    BY <1>4, <1>5, <1>6, <1>7 DEF TypeOK
  <1>9. Stage(s) = "quoted" /\ Stage(s)' = "managed"
    BY <1>7, <1>8 DEF Stage, Inv, QuoteOrPosition
  <1>10. \A t \in Symbols : t # s => Stage(t)' = Stage(t)  BY <1>8 DEF Stage
  <1>11. Life!Becomes(s, "quoted", "managed")  BY <1>9, <1>10, LifeBecomes
  <1> QED BY <1>1, <1>11 DEF Life!Fill

LEMMA LifeClose ==
    ASSUME TypeOK, Inv, NEW l \in Loops, NEW o \in Objs, AtPos(l, o), HasBook(o),
           NEW p, SameTrade(p, o), Close(l, o, p)
    PROVE  \E s \in Symbols : Life!Close(s)
  <1>1. ObjLive(o)  BY DEF AtPos, At, Inv, Copies
  <1>2. PICK s \in Symbols : s = obj[o].sym  BY DEF TypeOK, ObjRec
  <1>3. p.sym = s /\ p \in ObjRec /\ book[p.sym] # None
    BY <1>2 DEF SameTrade, HasBook
  <1>4. positions[s] = o /\ o # 0  BY <1>1, <1>2, Constants DEF ObjLive, Objs
  <1>5. /\ positions' = [positions EXCEPT ![s] = 0] /\ UNCHANGED <<quotes, ctl>>
        /\ booked' = Append(booked, [pos |-> o, pnl |-> Realized(p)])
        /\ acct' = [acct EXCEPT !.balance = @ + Realized(p), !.trades = @ + 1,
                               !.losses = LossesAfter(Realized(p))]
    BY <1>3 DEF Close
  <1>6. positions'[s] = 0 /\ \A t \in Symbols : t # s => positions'[t] = positions[t]
    BY <1>5 DEF TypeOK
  <1>7. Stage(s) = "managed" /\ Stage(s)' = "idle"
    BY <1>4, <1>5, <1>6 DEF Stage, Inv, QuoteOrPosition
  <1>8. \A t \in Symbols : t # s => Stage(t)' = Stage(t)  BY <1>5, <1>6 DEF Stage
  <1>9. Life!Becomes(s, "managed", "idle")  BY <1>7, <1>8, LifeBecomes
  <1>10. acct'.balance >= acct.balance - Margin
    <2>1. Realized(p) \in Int /\ Realized(p) >= -Margin
      <3>1. p.side \in {"LONG", "SHORT"} /\ p.entry \in Int /\ p.sym \in Symbols
        BY <1>3 DEF ObjRec
      <3>2. ExitPrice(p) \in Int  BY <1>3, <3>1, TouchInt DEF ExitPrice
      <3>3. Uncapped(p) \in Int  BY <3>1, <3>2, Constants DEF Uncapped, Dir
      <3> QED BY <3>3, Constants DEF Realized, Larger
    <2>2. acct.balance \in Int /\ acct'.balance = acct.balance + Realized(p)
      <3> HIDE DEF Realized, LossesAfter
      <3> QED BY <1>5 DEF TypeOK
    <2> QED BY <2>1, <2>2, Constants
  <1>11. Len(booked') = Len(booked) + 1
    <2>1. booked \in Seq([pos : Objs, pnl : Int])  BY DEF TypeOK
    <2> QED BY <1>5, <2>1
  <1> QED BY <1>5, <1>9, <1>10, <1>11 DEF Life!Close

\* A step of the scoring task is a quote or is not seen.
LEMMA LifeSig ==
    ASSUME TypeOK, Inv,
           \/ SigRound \/ SigRoundEnds \/ SigSized
           \/ \E s \in Symbols, side \in Sides : SigSignal(s, side)
    PROVE  [Life!Next]_(Life!vars)
  <1>1. CASE SigRound \/ SigRoundEnds
    BY <1>1, LifeStays DEF SigRound, SigRoundEnds, bookVars
  <1>2. CASE SigSized
    <2>1. sig.sym \in Symbols /\ quotes[sig.sym] = 0 /\ positions[sig.sym] = 0
      BY <1>2 DEF SigSized, Inv, Asked, TypeOK
    <2>2. PICK s \in Symbols : s = sig.sym  BY <2>1
    <2>3. PICK side : side = sig.side  OBVIOUS
    <2>4. UNCHANGED <<bookVars, ctl>>  BY <1>2 DEF SigSized
    <2>5. CASE Place(s, side)
      BY <2>1, <2>2, <2>4, <2>5, LifeQuote DEF Life!Next
    <2>6. CASE UNCHANGED quotes  BY <2>4, <2>6, LifeStays DEF bookVars
    <2> QED BY <1>2, <2>2, <2>3, <2>5, <2>6 DEF SigSized
  <1>3. ASSUME NEW s \in Symbols, NEW side \in Sides, SigSignal(s, side)
        PROVE  [Life!Next]_(Life!vars)
    <2>1. quotes[s] = 0 /\ positions[s] = 0 /\ UNCHANGED <<bookVars, ctl>>
      BY <1>3 DEF SigSignal
    <2>2. CASE Place(s, side)  BY <2>1, <2>2, LifeQuote DEF Life!Next
    <2>3. CASE UNCHANGED quotes  BY <2>1, <2>3, LifeStays DEF bookVars
    <2> QED BY <1>3, <2>2, <2>3 DEF SigSignal
  <1> QED BY <1>1, <1>2, <1>3

\* A step over a position is its close or is not seen.
LEMMA LifePos ==
    ASSUME TypeOK, Inv, NEW l \in Loops, NEW o \in Objs, LoopPos(l, o)
    PROVE  [Life!Next]_(Life!vars)
  <1>1. AtPos(l, o)
    BY DEF LoopPos, PosSkip, PosExchangeStop, PosWait, PosDue, PosRule, PosTrail, PosTime
  <1>2. ASSUME NEW p, Passes(l, o, p) PROVE [Life!Next]_(Life!vars)
    BY <1>2, LifeStays DEF Passes
  <1>3. ASSUME HasBook(o), NEW p \in Looks(o), Close(l, o, p) PROVE [Life!Next]_(Life!vars)
    <2>1. SameTrade(p, o)  BY <1>3, LooksTyped
    <2> QED BY <1>1, <1>3, <2>1, LifeClose DEF Life!Next
  <1>4. CASE PosSkip(l, o)  BY <1>2, <1>4 DEF PosSkip
  <1>5. CASE PosExchangeStop(l, o)  BY <1>3, <1>5 DEF PosExchangeStop, Looks
  <1>6. CASE PosWait(l, o)  BY <1>2, <1>6 DEF PosWait
  <1>7. CASE PosDue(l, o)   BY <1>3, <1>7 DEF PosDue, Held, Looks
  <1>8. CASE PosRule(l, o)  BY <1>2, <1>8 DEF PosRule
  <1>9. CASE PosTrail(l, o) \/ PosTime(l, o)
    <2>1. PICK p \in {Seen(o), [Seen(o) EXCEPT !.stop = NewStop(Seen(o))]} :
             Passes(l, o, p) \/ Close(l, o, p) \/ Passes(l, o, Queued(p))
      BY <1>9 DEF PosTrail, PosTime
    <2>2. HasBook(o)  BY <1>9 DEF PosTrail, PosTime, Held
    <2>3. p \in Looks(o)  BY DEF Looks
    <2> QED BY <1>2, <1>3, <2>1, <2>2, <2>3
  <1> QED BY <1>4, <1>5, <1>6, <1>7, <1>8, <1>9 DEF LoopPos

\* A step over a quote is its fill, its end, or is not seen.
LEMMA LifeOfQuote ==
    ASSUME TypeOK, Inv, NEW l \in Loops, NEW n \in Quotes, LoopQuote(l, n)
    PROVE  [Life!Next]_(Life!vars)
  <1>1. CASE LoopQuoteWaits(l, n) \/ LoopQuoteRefused(l, n)
    BY <1>1, LifeStays DEF LoopQuoteWaits, LoopQuoteRefused, bookVars
  <1>2. CASE LoopQuoteCancelled(l, n)
    <2>1. QuoteLive(n)  BY <1>2 DEF LoopQuoteCancelled, AtQuote, At, Inv, Copies
    <2>2. Pop(n) /\ UNCHANGED <<quote, bookVars, ctl, made>>  BY <1>2 DEF LoopQuoteCancelled
    <2> QED BY <2>1, <2>2, LifeCancel DEF Life!Next
  <1>3. CASE LoopQuoteFilled(l, n)  BY <1>3, LifeFill DEF Life!Next
  <1> QED BY <1>1, <1>2, <1>3 DEF LoopQuote

\* A step of the loop starts the account, sets the switch, ends a quote or a
\* position, or is not seen.
LEMMA LifeLoop ==
    ASSUME TypeOK, Inv, NEW l \in Loops, LoopStep(l)
    PROVE  [Life!Next]_(Life!vars)
  <1>1. CASE LoopStart(l)
    <2>1. acct'.balance = 0 /\ UNCHANGED <<quotes, positions, booked, ctl>>
      BY <1>1 DEF LoopStart, StartWith, TypeOK
    <2>2. Stages' = Stages  BY <2>1 DEF Stages, Stage
    <2> QED BY <2>1, <2>2 DEF Life!Next, Life!Fund
  <1>2. CASE LoopTop(l)  BY <1>2, LifeStays DEF LoopTop, LoopEndsIf, bookVars
  <1>3. CASE \E n \in Quotes : LoopQuote(l, n)  BY <1>3, LifeOfQuote
  <1>4. CASE LoopRejected(l)
    <2>1. QuoteLive(loop[l].cur)  BY <1>4 DEF LoopRejected, At, Inv, Copies
    <2>2. PICK n : n = loop[l].cur  OBVIOUS
    <2>3. Pop(n) /\ UNCHANGED <<quote, bookVars, ctl, made>>
      BY <1>4, <2>2 DEF LoopRejected, Pop
    <2> QED BY <2>1, <2>2, <2>3, LifeCancel DEF Life!Next
  <1>5. CASE LoopQuotesDone(l)  BY <1>5, LifeStays DEF LoopQuotesDone, bookVars
  <1>6. CASE \E o \in Objs : LoopPos(l, o)  BY <1>6, LifePos
  <1>7. CASE LoopInserted(l) \/ LoopPositionsDone(l)
    BY <1>7, LifeStays DEF LoopInserted, LoopPositionsDone, bookVars
  <1>8. CASE LoopCheck(l) \/ LoopTrips(l)
    <2>1. /\ UNCHANGED <<quotes, positions, booked, acct>>
          /\ ctl'.kill \in BOOLEAN
      <3>1. PICK killed \in BOOLEAN : Sleeps(l, killed)
        BY <1>8 DEF LoopCheck, LoopTrips, TooManyTrades, TooManyLosses
      <3> QED BY <3>1 DEF Sleeps, bookVars, TypeOK
    <2>2. Stages' = Stages  BY <2>1 DEF Stages, Stage
    <2> QED BY <2>1, <2>2 DEF Life!Next, Life!Switch
  <1> QED BY <1>1, <1>2, <1>3, <1>4, <1>5, <1>6, <1>7, <1>8 DEF LoopStep

\* A request sets the switch or takes it back, or is not seen.
LEMMA LifeOp ==
    ASSUME TypeOK, OpKillAll \/ OpRunStop \/ \E l \in Loops : OpRun(l)
    PROVE  [Life!Next]_(Life!vars)
  <1>1. /\ UNCHANGED <<quotes, positions, booked>>
        /\ acct'.balance = acct.balance /\ ctl'.kill \in BOOLEAN
    <2>1. CASE OpKillAll  BY <2>1 DEF OpKillAll, Sets, TypeOK
    <2>2. CASE OpRunStop  BY <2>2 DEF OpRunStop, Sets, TypeOK
    <2>3. ASSUME NEW l \in Loops, OpRun(l)
          PROVE  /\ UNCHANGED <<quotes, positions, booked>>
                 /\ acct'.balance = acct.balance /\ ctl'.kill \in BOOLEAN
      <3>1. /\ UNCHANGED <<quotes, positions, booked>>
            /\ acct' = [acct EXCEPT !.trades = 0, !.losses = 0, !.since = Len(booked)]
            /\ ctl' = [stop |-> FALSE, running |-> TRUE, kill |-> FALSE]
        BY <2>3 DEF OpRun, Sets
      <3>2. acct \in [balance : Int, trades : Nat, losses : Nat, base : Nat, since : Nat]
        BY DEF TypeOK
      <3> QED BY <3>1, <3>2
    <2> QED BY <2>1, <2>2, <2>3
  <1>2. Stages' = Stages  BY <1>1 DEF Stages, Stage
  <1> QED BY <1>1, <1>2 DEF Life!Next, Life!Switch

\* Every step of the simulation is a step of TradeLife or is not seen there.
LEMMA LifeStep ==
    ASSUME TypeOK, Inv, [Next]_vars
    PROVE  [Life!Next]_(Life!vars)
  <1>1. CASE UNCHANGED vars  BY <1>1, LifeStays DEF vars, bookVars
  <1>2. ASSUME NEW s \in Symbols, NEW p \in Prices \cup {None}, BookMoves(s, p)
        PROVE  [Life!Next]_(Life!vars)
    BY <1>2, LifeStays DEF BookMoves, bookVars
  <1> QED BY <1>1, <1>2, LifeSig, LifeLoop, LifeOp DEF Next

\* The paper executor implements TradeLife, for any symbols, prices, rules and
\* operations, if run is not called before the last loop has ended: quotes,
\* fills, closes and the account are one trade at a time per symbol, whatever
\* runs between the awaits.
THEOREM TradeLifeImplemented ==
    ASSUME ~Overlap
    PROVE  Spec => ImplementsTradeLife
  <1>1. Init => TypeOK /\ Inv  BY TypeInit, InvInit
  <1>2. TypeOK /\ Inv /\ [Next]_vars => TypeOK' /\ Inv'  BY TypeStep, InvStep
  <1>3. Init => Life!Init
    <2> SUFFICES ASSUME Init PROVE Life!Init  OBVIOUS
    <2>1. Stages = [s \in Symbols |-> "idle"]  BY DEF Init, Stages, Stage
    <2>2. Len(booked) = 0  BY DEF Init
    <2> QED BY <2>1, <2>2 DEF Init, Life!Init
  <1>4. TypeOK /\ Inv /\ [Next]_vars => [Life!Next]_(Life!vars)  BY LifeStep
  <1> QED BY <1>1, <1>2, <1>3, <1>4, PTL DEF Spec, ImplementsTradeLife, Life!Spec

-----------------------------------------------------------------------------
(***************************************************************************)
(* The stop over the life of a position, for any number of loops: no look  *)
(* of a pass moves it against the trade, so that a price which hits the    *)
(* stop there was hits the one there is, and the pass cannot miss it.      *)
(***************************************************************************)
Tightened(p, o) == Dir(obj[o].side) * p.stop >= Dir(obj[o].side) * obj[o].stop

LEMMA RulesRatchet ==
    ASSUME NEW e \in Int, NEW b \in Int, NEW prev \in Int, NEW h \in Int
    PROVE  /\ RTrailLong(e, b, Hard, h, Breakeven, Lock, Trail, prev) >= prev
           /\ RTrailShort(e, b, Hard, h, Breakeven, Lock, Trail, prev) <= prev
           /\ TrailLong(e, b, Sigma, Hard, Breakeven, Trail, prev) >= prev
           /\ TrailShort(e, b, Sigma, Hard, Breakeven, Trail, prev) <= prev
  BY NoneIsNoPrice, Constants
     DEF TrailLong, TrailShort, RTrailLong, RTrailShort, RatchetUp, RatchetDown,
         Larger, Smaller, OrElse

\* Whatever form a pass leaves the position in, its stop is no looser.
LEMMA LooksTighten ==
    ASSUME TypeOK, NEW o \in Objs, NEW p \in Looks(o), HasBook(o) \/ p = obj[o]
    PROVE  Tightened(p, o)
  <1>1. obj[o] \in ObjRec /\ obj[o].stop \in Int /\ obj[o].side \in {"LONG", "SHORT"}
    BY DEF TypeOK, ObjRec
  <1>2. Tightened(obj[o], o)  BY <1>1 DEF Tightened, Dir
  <1>3. ASSUME HasBook(o), p # obj[o] PROVE Tightened(p, o)
    <2>1. /\ Seen(o) \in ObjRec /\ Seen(o).side = obj[o].side
          /\ Seen(o).stop = obj[o].stop
      BY <1>3, SeenTyped
    <2> DEFINE moved == [Seen(o) EXCEPT !.stop = NewStop(Seen(o))]
    <2>2. /\ NewStop(Seen(o)) \in Int
          /\ obj[o].side = "LONG" => NewStop(Seen(o)) >= obj[o].stop
          /\ obj[o].side = "SHORT" => NewStop(Seen(o)) <= obj[o].stop
      <3>1. Seen(o).entry \in Int /\ Seen(o).best \in Int /\ Seen(o).stop \in Int
        BY <2>1 DEF ObjRec
      <3>2. NewStop(Seen(o)) \in Int  BY <3>1, StopsInt DEF NewStop
      <3>3. Hard \div 2 \in Int  BY Constants
      <3>4. obj[o].side = "LONG" => NewStop(Seen(o)) >= obj[o].stop
        BY <2>1, <3>1, <3>3, RulesRatchet DEF NewStop
      <3>5. obj[o].side = "SHORT" => NewStop(Seen(o)) <= obj[o].stop
        BY <2>1, <3>1, <3>3, RulesRatchet DEF NewStop
      <3> QED BY <3>2, <3>4, <3>5
    <2>3. /\ moved.stop = NewStop(Seen(o)) /\ Queued(moved).stop = NewStop(Seen(o))
          /\ Queued(Seen(o)).stop = obj[o].stop
      BY <2>1 DEF Queued, ObjRec
    <2> HIDE DEF moved
    <2>4. p \in {Seen(o), Queued(Seen(o)), moved, Queued(moved)}
      BY <1>3 DEF Looks, moved
    <2>5. p.stop = obj[o].stop \/ p.stop = NewStop(Seen(o))  BY <2>1, <2>3, <2>4
    <2> QED BY <1>1, <2>2, <2>5 DEF Tightened, Dir
  <1> QED BY <1>2, <1>3

\* A price that hits the stop there was hits a tighter one.
LEMMA TighterIsHit ==
    ASSUME TypeOK, NEW o \in Objs, HasBook(o), NEW p, SameTrade(p, o), Tightened(p, o),
           StopHit(obj[o])
    PROVE  StopHit(p)
  <1>1. obj[o] \in ObjRec /\ p \in ObjRec /\ p.sym = obj[o].sym /\ p.side = obj[o].side
    BY DEF SameTrade, TypeOK
  <1>2. ExitPrice(p) = ExitPrice(obj[o])  BY <1>1 DEF ExitPrice
  <1>3. ExitPrice(p) \in Int /\ p.stop \in Int /\ obj[o].stop \in Int
    BY <1>1, TouchInt DEF ExitPrice, HasBook, ObjRec
  <1> HIDE DEF ExitPrice
  <1>4. Dir(p.side) * ExitPrice(p) \in Int /\ Dir(p.side) * p.stop \in Int
        /\ Dir(p.side) * obj[o].stop \in Int
    BY <1>3 DEF Dir
  <1> QED BY <1>1, <1>2, <1>4 DEF StopHit, Tightened

\* A pass over a position looks at it or closes it, and does not look past a
\* stop that is hit.
LEMMA PosOutcome ==
    ASSUME TypeOK, NEW l \in Loops, NEW o \in Objs, LoopPos(l, o)
    PROVE  /\ AtPos(l, o)
           /\ \E p \in Looks(o) :
                /\ HasBook(o) \/ p = obj[o]
                /\ \/ Passes(l, o, p) /\ (HasBook(o) /\ StopHit(obj[o]) => p.pending)
                   \/ Close(l, o, p)
  <1>1. AtPos(l, o)
    BY DEF LoopPos, PosSkip, PosExchangeStop, PosWait, PosDue, PosRule, PosTrail, PosTime
  <1>2. obj[o] \in Looks(o) /\ Seen(o) \in Looks(o) /\ Queued(Seen(o)) \in Looks(o)
    BY DEF Looks
  <1>3. HasBook(o) => Seen(o).pending = obj[o].pending /\ Queued(Seen(o)).pending
    BY SeenTyped DEF Seen, Queued, ObjRec, TypeOK
  <1>4. CASE PosSkip(l, o)  BY <1>1, <1>2, <1>4 DEF PosSkip
  <1>5. CASE PosExchangeStop(l, o) \/ PosDue(l, o)
    BY <1>1, <1>2, <1>5 DEF PosExchangeStop, PosDue, Held
  <1>6. CASE PosWait(l, o)  BY <1>1, <1>2, <1>3, <1>6 DEF PosWait, Held
  <1>7. CASE PosRule(l, o)  BY <1>1, <1>2, <1>3, <1>7 DEF PosRule, Held
  <1>8. CASE PosTrail(l, o) \/ PosTime(l, o)
    <2>1. PICK p \in {Seen(o), [Seen(o) EXCEPT !.stop = NewStop(Seen(o))]} :
             \/ ~StopHit(p) /\ Passes(l, o, p)
             \/ Close(l, o, p)
             \/ Passes(l, o, Queued(p))
      BY <1>8 DEF PosTrail, PosTime
    <2>2. HasBook(o)  BY <1>8 DEF PosTrail, PosTime, Held
    <2>3. p \in Looks(o) /\ Queued(p) \in Looks(o)  BY DEF Looks
    <2>4. SameTrade(p, o) /\ Tightened(p, o)  BY <2>2, <2>3, LooksTyped, LooksTighten
    <2>5. Queued(p).pending  BY <2>4 DEF Queued, SameTrade, ObjRec
    <2>6. ~StopHit(p) => ~StopHit(obj[o])  BY <2>2, <2>4, TighterIsHit
    <2> QED BY <1>1, <2>1, <2>2, <2>3, <2>5, <2>6
  <1> QED BY <1>4, <1>5, <1>6, <1>7, <1>8 DEF LoopPos

\* A step that is no pass over a position keeps every stop.
StopsKept == \A o \in 1..made.objs : obj'[o].stop = obj[o].stop

\* What such a step leaves a pass to visit.
StillVisits == \A l \in Loops : loop[l].pc = "positions" => loop[l].todo \subseteq loop'[l].todo

LEMMA OtherSteps ==
    ASSUME TypeOK, [Next]_vars
    PROVE  \/ StopsKept /\ StillVisits
           \/ \E l \in Loops, o \in Objs : LoopPos(l, o)
  <1>1. CASE UNCHANGED vars  BY <1>1 DEF vars, bookVars, StopsKept, StillVisits
  <1>2. ASSUME NEW s \in Symbols, NEW p \in Prices \cup {None}, BookMoves(s, p)
        PROVE  StopsKept /\ StillVisits
    BY <1>2 DEF BookMoves, bookVars, StopsKept, StillVisits
  <1>3. CASE \/ SigRound \/ SigRoundEnds \/ SigSized
             \/ \E s \in Symbols, side \in Sides : SigSignal(s, side)
    BY <1>3 DEF SigRound, SigRoundEnds, SigSized, SigSignal, bookVars, StopsKept, StillVisits
  <1>4. CASE OpKillAll \/ OpRunStop
    BY <1>4 DEF OpKillAll, OpRunStop, Sets, StopsKept, StillVisits
  <1>5. ASSUME NEW l \in Loops, OpRun(l) PROVE StopsKept /\ StillVisits
    <2>1. loop[l].pc = "off" /\ loop' = [loop EXCEPT ![l].pc = "start"] /\ UNCHANGED obj
      BY <1>5 DEF OpRun, Sets
    <2> QED BY <2>1 DEF StopsKept, StillVisits, TypeOK
  <1>6. ASSUME NEW l \in Loops, LoopStep(l), ~\E o \in Objs : LoopPos(l, o)
        PROVE  StopsKept /\ StillVisits
    <2>1. ASSUME NEW L, loop' = [loop EXCEPT ![l] = L], loop[l].pc # "positions" \/ loop[l].todo = {}
          PROVE  StillVisits
      BY <2>1 DEF StillVisits, TypeOK
    <2>2. CASE LoopStart(l)
      BY <2>1, <2>2 DEF LoopStart, StartWith, At, Goes, StopsKept
    <2>3. CASE LoopTop(l)
      BY <2>1, <2>3 DEF LoopTop, LoopEndsIf, At, Goes, Awaits, bookVars, StopsKept
    <2>4. ASSUME NEW n \in Quotes, LoopQuote(l, n) PROVE StopsKept /\ StillVisits
      <3>1. StillVisits
        BY <2>1, <2>4 DEF LoopQuote, LoopQuoteWaits, LoopQuoteRefused, LoopQuoteCancelled,
                          LoopQuoteFilled, AtQuote, At, Goes, Awaits
      <3>2. CASE \/ LoopQuoteWaits(l, n) \/ LoopQuoteRefused(l, n)
                 \/ LoopQuoteCancelled(l, n)
        <4>1. obj' = obj
          BY <3>2 DEF LoopQuoteWaits, LoopQuoteRefused, LoopQuoteCancelled, bookVars
        <4> QED BY <3>1, <4>1 DEF StopsKept
      <3>3. CASE LoopQuoteFilled(l, n)
        <4>1. PICK price : Open(quote[n].sym, quote[n].side, price)
          BY <3>3 DEF LoopQuoteFilled
        <4>2. \A o \in 1..made.objs : obj'[o] = obj[o]
          <5>1. made.objs \in Nat /\ 1..made.objs \subseteq Objs  BY ObjsMade DEF TypeOK
          <5> QED BY <4>1, <5>1 DEF Open, TypeOK
        <4> QED BY <3>1, <4>2 DEF StopsKept
      <3> QED BY <2>4, <3>2, <3>3 DEF LoopQuote
    <2>5. CASE LoopRejected(l)
      BY <2>1, <2>5 DEF LoopRejected, At, Goes, bookVars, StopsKept
    <2>6. CASE LoopQuotesDone(l)
      BY <2>1, <2>6 DEF LoopQuotesDone, At, Goes, bookVars, StopsKept
    <2>7. CASE LoopInserted(l)
      BY <2>1, <2>7 DEF LoopInserted, At, Goes, bookVars, StopsKept
    <2>8. CASE LoopPositionsDone(l)
      BY <2>8 DEF LoopPositionsDone, At, bookVars, StopsKept, StillVisits, TypeOK
    <2>9. CASE LoopCheck(l) \/ LoopTrips(l)
      BY <2>1, <2>9 DEF LoopCheck, LoopTrips, Sleeps, At, Awaits, bookVars, StopsKept
    <2> QED BY <1>6, <2>2, <2>3, <2>4, <2>5, <2>6, <2>7, <2>8, <2>9 DEF LoopStep
  <1> QED BY <1>1, <1>2, <1>3, <1>4, <1>5, <1>6 DEF Next

\* A pass over a position changes that one only, and leaves the rest to visit.
LEMMA PosChanges ==
    ASSUME TypeOK, NEW l \in Loops, NEW o \in Objs, NEW p, p \in ObjRec,
           loop[l].pc = "positions", Passes(l, o, p) \/ Close(l, o, p)
    PROVE  /\ obj'[o].stop = p.stop /\ (Passes(l, o, p) => obj'[o].pending = p.pending)
           /\ \A k \in Objs : k # o => obj'[k] = obj[k]
           /\ \A m \in Loops, k \in Objs :
                 loop[m].pc = "positions" /\ k \in loop[m].todo /\ k \notin loop'[m].todo => k = o
           /\ Close(l, o, p) => booked' # booked
  <1>1. /\ obj'[o].stop = p.stop /\ (Passes(l, o, p) => obj'[o].pending = p.pending)
        /\ \A k \in Objs : k # o => obj'[k] = obj[k]
    <2>1. obj \in [Objs -> ObjRec]  BY DEF TypeOK
    <2>2. Passes(l, o, p) => obj' = [obj EXCEPT ![o] = p]  BY DEF Passes
    <2>3. Close(l, o, p) => obj' = [obj EXCEPT ![o] = [p EXCEPT !.pending = FALSE]]
      BY DEF Close
    <2>4. [p EXCEPT !.pending = FALSE].stop = p.stop  BY DEF ObjRec
    <2>5. CASE Passes(l, o, p)  BY <2>1, <2>2, <2>5
    <2>6. CASE Close(l, o, p) /\ ~Passes(l, o, p)  BY <2>1, <2>3, <2>4, <2>6
    <2> QED BY <2>5, <2>6
  <1>2. PICK pc : loop' = [loop EXCEPT ![l] = [PosDone(l, o) EXCEPT !.pc = pc]]
    <2>1. CASE Close(l, o, p)  BY <2>1 DEF Close, Closing, Awaits
    <2>2. CASE Passes(l, o, p)
      <3>1. loop' = [loop EXCEPT ![l] = PosDone(l, o)]  BY <2>2 DEF Passes, Goes
      <3>2. PosDone(l, o) = [PosDone(l, o) EXCEPT !.pc = "positions"]
        BY DEF PosDone, TypeOK, LoopRec
      <3> QED BY <3>1, <3>2
    <2> QED BY <2>1, <2>2
  <1>3. loop'[l].todo = loop[l].todo \ {o} /\ \A m \in Loops : m # l => loop'[m] = loop[m]
    BY <1>2 DEF PosDone, TypeOK, LoopRec
  <1>4. Close(l, o, p) => booked' # booked
    <2>1. booked \in Seq([pos : Objs, pnl : Int])  BY DEF TypeOK
    <2> QED BY <2>1 DEF Close
  <1> QED BY <1>1, <1>3, <1>4

\* The stop of a position only moves in favour of the trade, for any prices,
\* rules, loops and operations.
THEOREM StopNeverLoosens == Spec => StopRatchets
  <1> DEFINE A == \A o \in 1..made.objs :
                    Dir(obj[o].side) * obj'[o].stop >= Dir(obj[o].side) * obj[o].stop
  <1>1. TypeOK /\ [Next]_vars => A
    <2> SUFFICES ASSUME TypeOK, [Next]_vars, NEW k \in 1..made.objs
                 PROVE  Dir(obj[k].side) * obj'[k].stop >= Dir(obj[k].side) * obj[k].stop
      OBVIOUS
    <2>1. k \in Objs /\ Dir(obj[k].side) * obj[k].stop \in Int
      <3>1. k \in Objs  BY ObjsMade
      <3>2. obj[k].stop \in Int /\ Dir(obj[k].side) \in {1, -1}  BY <3>1 DEF TypeOK, ObjRec, Dir
      <3> QED BY <3>1, <3>2
    <2>2. CASE StopsKept  BY <2>1, <2>2 DEF StopsKept
    <2>3. ASSUME NEW l \in Loops, NEW o \in Objs, LoopPos(l, o)
          PROVE  Dir(obj[k].side) * obj'[k].stop >= Dir(obj[k].side) * obj[k].stop
      <3>1. PICK p \in Looks(o) :
               /\ HasBook(o) \/ p = obj[o]
               /\ Passes(l, o, p) \/ Close(l, o, p)
        BY <2>3, PosOutcome
      <3>2. loop[l].pc = "positions" /\ p \in ObjRec
        <4>1. AtPos(l, o)  BY <2>3, PosOutcome
        <4>2. obj[o] \in ObjRec  BY DEF TypeOK
        <4>3. HasBook(o) => p \in ObjRec  BY LooksTyped DEF SameTrade
        <4> QED BY <3>1, <4>1, <4>2, <4>3 DEF AtPos, At
      <3>3. /\ obj'[o].stop = p.stop
            /\ \A i \in Objs : i # o => obj'[i] = obj[i]
        BY <3>1, <3>2, PosChanges
      <3>4. CASE k = o  BY <3>1, <3>3, <3>4, LooksTighten DEF Tightened
      <3>5. CASE k # o  BY <2>1, <3>3, <3>5
      <3> QED BY <3>4, <3>5
    <2> QED BY <2>2, <2>3, OtherSteps
  <1> QED BY <1>1, PaperTypeCorrect, PTL DEF Spec, StopRatchets

\* No pass goes past a position whose stop is hit, although the stop is moved
\* before it is looked at.
THEOREM StopNeverMissed == Spec => StopIsNeverPassedOver
  <1> DEFINE A == \A l \in Loops, o \in Objs :
                    AtPos(l, o) /\ o \notin loop'[l].todo /\ HasBook(o) /\ StopHit(obj[o])
                        => obj'[o].pending \/ booked' # booked
  <1>1. TypeOK /\ [Next]_vars => A
    <2> SUFFICES ASSUME TypeOK, [Next]_vars, NEW m \in Loops, NEW k \in Objs, AtPos(m, k),
                        k \notin loop'[m].todo, HasBook(k), StopHit(obj[k])
                 PROVE  obj'[k].pending \/ booked' # booked
      OBVIOUS
    <2>1. loop[m].pc = "positions" /\ k \in loop[m].todo  BY DEF AtPos, At
    <2>2. PICK l \in Loops, o \in Objs : LoopPos(l, o)
      BY <2>1, OtherSteps DEF StillVisits
    <2>3. PICK p \in Looks(o) :
             /\ HasBook(o) \/ p = obj[o]
             /\ \/ Passes(l, o, p) /\ (HasBook(o) /\ StopHit(obj[o]) => p.pending)
                \/ Close(l, o, p)
      BY <2>2, PosOutcome
    <2>4. loop[l].pc = "positions" /\ p \in ObjRec
      <3>1. AtPos(l, o)  BY <2>2, PosOutcome
      <3>2. obj[o] \in ObjRec  BY DEF TypeOK
      <3>3. HasBook(o) => p \in ObjRec  BY LooksTyped DEF SameTrade
      <3> QED BY <2>3, <3>1, <3>2, <3>3 DEF AtPos, At
    <2>5. k = o  BY <2>1, <2>3, <2>4, PosChanges
    <2>6. Passes(l, o, p) => obj'[o].pending = p.pending  BY <2>4, PosChanges
    <2>7. Close(l, o, p) => booked' # booked  BY <2>4, PosChanges
    <2> QED BY <2>3, <2>5, <2>6, <2>7
  <1> QED BY <1>1, PaperTypeCorrect, PTL DEF Spec, StopIsNeverPassedOver

-----------------------------------------------------------------------------
(***************************************************************************)
(* The streak of losses: the counter that the kill check reads is behind   *)
(* no streak of the ledger, although it is set to 0 by run at any await,   *)
(* and nothing is booked while the loop sleeps after its check.            *)
(***************************************************************************)
Streaks == (\A k \in Nat : Streak(k) => acct.losses >= k) /\ KillAfterStreak

Asleep(l) == loop[l].pc = "sleep"

\* A step that books nothing, and goes to sleep only after the check.
Quiet ==
    /\ UNCHANGED booked /\ acct'.since = acct.since /\ acct'.losses = acct.losses
    /\ ctl.kill => ctl'.kill
    /\ \A l \in Loops : Asleep(l)' => Asleep(l) \/ (TooManyLosses => ctl'.kill)

\* A step that starts the session anew.
Anew == UNCHANGED booked /\ acct'.since = Len(booked)

\* What every step is to the streak.
LEMMA StreakSteps ==
    ASSUME TypeOK, [Next]_vars
    PROVE  \/ Quiet
           \/ Anew
           \/ \E l \in Loops, o \in Objs, p \in ObjRec : AtPos(l, o) /\ Close(l, o, p)
  <1>1. CASE UNCHANGED vars  BY <1>1 DEF vars, bookVars, Quiet, Asleep
  <1>2. ASSUME NEW s \in Symbols, NEW p \in Prices \cup {None}, BookMoves(s, p)
        PROVE  Quiet
    BY <1>2 DEF BookMoves, bookVars, Quiet, Asleep
  <1>3. CASE \/ SigRound \/ SigRoundEnds \/ SigSized
             \/ \E s \in Symbols, side \in Sides : SigSignal(s, side)
    BY <1>3 DEF SigRound, SigRoundEnds, SigSized, SigSignal, bookVars, Quiet, Asleep
  <1>4. CASE OpKillAll \/ OpRunStop
    BY <1>4 DEF OpKillAll, OpRunStop, Sets, Quiet, Asleep, TypeOK
  <1>5. ASSUME NEW l \in Loops, OpRun(l) PROVE Anew
    BY <1>5 DEF OpRun, Sets, Anew, TypeOK
  <1>6. ASSUME NEW l \in Loops, LoopStep(l)
        PROVE  \/ Quiet
               \/ \E o \in Objs, p \in ObjRec : AtPos(l, o) /\ Close(l, o, p)
    <2>1. ASSUME NEW L, L.pc # "sleep", loop' = [loop EXCEPT ![l] = L],
                 UNCHANGED <<booked, ctl>>,
                 acct'.since = acct.since, acct'.losses = acct.losses
          PROVE  Quiet
      BY <2>1 DEF Quiet, Asleep, TypeOK
    <2>2. /\ loop[l] \in LoopRec
          /\ \A pc : [loop[l] EXCEPT !.pc = pc].pc = pc
      BY DEF TypeOK, LoopRec
    <2>3. CASE LoopStart(l)
      <3>1. acct' = [acct EXCEPT !.balance = 0, !.base = Len(booked)]
            /\ loop' = [loop EXCEPT ![l] = [loop[l] EXCEPT !.pc = "top"]]
            /\ UNCHANGED <<booked, ctl>>
        BY <2>3 DEF LoopStart, StartWith, Goes
      <3>2. acct'.since = acct.since /\ acct'.losses = acct.losses  BY <3>1 DEF TypeOK
      <3> QED BY <2>1, <2>2, <3>1, <3>2
    <2>4. CASE LoopTop(l)
      BY <2>1, <2>4 DEF LoopTop, LoopEndsIf, Goes, Awaits, OffLoop, bookVars
    <2>5. ASSUME NEW n \in Quotes, LoopQuote(l, n) PROVE Quiet
      <3>1. AtQuote(l, n)
        BY <2>5 DEF LoopQuote, LoopQuoteWaits, LoopQuoteRefused, LoopQuoteCancelled, LoopQuoteFilled
      <3>2. QuoteDone(l, n).pc = "quotes" /\ [QuoteDone(l, n) EXCEPT !.pc = "reject", !.cur = n].pc = "reject"
        BY <2>2, <3>1 DEF QuoteDone, AtQuote, At, LoopRec
      <3>3. UNCHANGED <<booked, acct, ctl>>
        BY <2>5 DEF LoopQuote, LoopQuoteWaits, LoopQuoteRefused, LoopQuoteCancelled,
                    LoopQuoteFilled, bookVars
      <3>4. \/ loop' = [loop EXCEPT ![l] = QuoteDone(l, n)]
            \/ loop' = [loop EXCEPT ![l] = [QuoteDone(l, n) EXCEPT !.pc = "reject", !.cur = n]]
        BY <2>5 DEF LoopQuote, LoopQuoteWaits, LoopQuoteRefused, LoopQuoteCancelled,
                    LoopQuoteFilled, Goes, Awaits
      <3> QED BY <2>1, <3>2, <3>3, <3>4
    <2>6. CASE LoopRejected(l)
      <3>1. [loop[l] EXCEPT !.pc = "quotes", !.cur = 0].pc = "quotes"  BY <2>2 DEF LoopRec
      <3> QED BY <2>1, <2>6, <3>1 DEF LoopRejected, Goes, bookVars
    <2>7. CASE LoopQuotesDone(l)
      BY <2>1, <2>7 DEF LoopQuotesDone, Goes, bookVars
    <2>8. CASE LoopInserted(l)
      BY <2>1, <2>2, <2>8 DEF LoopInserted, Goes, bookVars
    <2>9. CASE LoopPositionsDone(l)
      <3>1. loop' = [loop EXCEPT ![l] = [loop[l] EXCEPT !.pc = "check"]]
            /\ UNCHANGED <<booked, acct, ctl>>
        BY <2>9 DEF LoopPositionsDone, bookVars
      <3> QED BY <2>1, <2>2, <3>1
    <2>10. CASE LoopCheck(l) \/ LoopTrips(l)
      <3>1. /\ UNCHANGED <<booked, acct>>
            /\ loop' = [loop EXCEPT ![l] = [loop[l] EXCEPT !.pc = "sleep"]]
            /\ ctl.kill \/ TooManyLosses => ctl'.kill
        BY <2>10 DEF LoopCheck, LoopTrips, Sleeps, Awaits, bookVars, TypeOK
      <3> QED BY <3>1 DEF Quiet, Asleep, TypeOK
    <2>11. ASSUME NEW o \in Objs, LoopPos(l, o)
           PROVE  \/ Quiet
                  \/ \E p \in ObjRec : AtPos(l, o) /\ Close(l, o, p)
      <3>1. PICK p \in Looks(o) :
               /\ HasBook(o) \/ p = obj[o]
               /\ Passes(l, o, p) \/ Close(l, o, p)
        BY <2>11, PosOutcome
      <3>2. AtPos(l, o)  BY <2>11, PosOutcome
      <3>3. p \in ObjRec
        <4>1. obj[o] \in ObjRec  BY DEF TypeOK
        <4>2. HasBook(o) => p \in ObjRec  BY LooksTyped DEF SameTrade
        <4> QED BY <3>1, <4>1, <4>2
      <3>4. PosDone(l, o).pc = "positions"
        BY <2>2, <3>2 DEF PosDone, AtPos, At, LoopRec
      <3>5. CASE Passes(l, o, p)
        <4>1. loop' = [loop EXCEPT ![l] = PosDone(l, o)] /\ UNCHANGED <<booked, acct, ctl>>
          BY <3>5 DEF Passes, Goes
        <4> QED BY <2>1, <3>4, <4>1
      <3> QED BY <3>1, <3>2, <3>3, <3>5
    <2> QED BY <1>6, <2>3, <2>4, <2>5, <2>6, <2>7, <2>8, <2>9, <2>10, <2>11 DEF LoopStep
  <1> QED BY <1>1, <1>2, <1>3, <1>4, <1>5, <1>6 DEF Next

\* Every step keeps the streaks counted.
LEMMA StreakKept ==
    ASSUME TypeOK, Alone, Streaks, [Next]_vars
    PROVE  Streaks'
  <1>1. /\ booked \in Seq([pos : Objs, pnl : Int]) /\ acct.losses \in Nat /\ LossKill \in Nat
        /\ acct.since \in Nat /\ Len(booked) \in Nat
    BY Constants DEF TypeOK
  <1>2. CASE Quiet
    <2>1. \A k \in Nat : Streak(k)' <=> Streak(k)  BY <1>2 DEF Quiet, Streak
    <2>2. \A k \in Nat : Streak(k)' => acct'.losses >= k  BY <1>2, <2>1 DEF Quiet, Streaks
    <2>3. ASSUME NEW l \in Loops, Asleep(l)', Streak(LossKill)' PROVE ctl'.kill
      <3>1. Streak(LossKill) /\ TooManyLosses
        BY <1>1, <2>1, <2>3 DEF Streaks, Streak, TooManyLosses
      <3> QED BY <1>2, <2>3, <3>1 DEF Quiet, Streaks, KillAfterStreak, Asleep
    <2> QED BY <2>2, <2>3 DEF Streaks, KillAfterStreak, Asleep
  <1>3. CASE Anew
    <2>1. \A k \in Nat : ~Streak(k)'  BY <1>1, <1>3 DEF Anew, Streak
    <2> QED BY <1>1, <2>1 DEF Streaks, KillAfterStreak
  <1>4. ASSUME NEW l \in Loops, NEW o \in Objs, NEW p \in ObjRec, AtPos(l, o), Close(l, o, p)
        PROVE  Streaks'
    <2> DEFINE pnl == Realized(p)
    <2>1. /\ booked' = Append(booked, [pos |-> o, pnl |-> pnl])
          /\ acct'.since = acct.since /\ acct'.losses = LossesAfter(pnl)
      BY <1>4 DEF Close, TypeOK
    <2> HIDE DEF pnl
    <2>2. /\ Len(booked') = Len(booked) + 1 /\ DOMAIN booked' = 1..Len(booked) + 1
          /\ booked'[Len(booked) + 1].pnl = pnl
          /\ \A i \in 1..Len(booked) : booked'[i] = booked[i]
      BY <1>1, <2>1
    <2>3. ASSUME NEW k \in Nat, Streak(k)' PROVE acct'.losses >= k
      <3>1. k > 0 /\ \A i \in Len(booked') - k + 1 .. Len(booked') : booked'[i].pnl < 0
        BY <2>3 DEF Streak
      <3>2. pnl < 0
        <4>1. Len(booked) + 1 \in Len(booked') - k + 1 .. Len(booked')  BY <1>1, <2>2, <3>1
        <4> QED BY <2>2, <3>1, <4>1
      <3>3. acct'.losses = acct.losses + 1  BY <2>1, <3>2 DEF LossesAfter
      <3>4. CASE k = 1  BY <1>1, <3>3, <3>4
      <3>5. CASE k # 1
        <4>1. k - 1 \in Nat /\ k - 1 > 0 /\ Len(booked) - acct.since >= k - 1
          BY <1>1, <2>1, <2>2, <2>3, <3>1, <3>5 DEF Streak
        <4>2. ASSUME NEW i \in Len(booked) - (k - 1) + 1 .. Len(booked)
              PROVE  booked[i].pnl < 0
          <5> DEFINE N == Len(booked)  S == acct.since
          <5>1. N \in Nat /\ S \in Nat  BY <1>1
          <5>2. N - S >= k - 1  BY <4>1
          <5>3. i \in N - (k - 1) + 1 .. N /\ Len(booked') = N + 1
                /\ \A j \in 1..N : booked'[j] = booked[j]
            BY <2>2
          <5> HIDE DEF N, S
          <5>4. i \in 1..N /\ i \in (N + 1) - k + 1 .. N + 1  BY <5>1, <5>2, <5>3
          <5> QED BY <3>1, <5>3, <5>4
        <4>3. Streak(k - 1)  BY <4>1, <4>2 DEF Streak
        <4>4. \A j \in Nat : Streak(j) => acct.losses >= j  BY DEF Streaks
        <4>5. acct.losses >= k - 1  BY <4>1, <4>3, <4>4
        <4> QED BY <1>1, <3>3, <4>5
      <3> QED BY <3>4, <3>5
    <2>4. \A k \in Loops : loop'[k].pc # "sleep"
      <3>1. loop[l].pc = "positions" /\ \A k \in Loops : k # l => loop[k].pc = "off"
        BY <1>4 DEF AtPos, At, Alone
      <3>2. loop' = [loop EXCEPT ![l] = Closing(l, o)]  BY <1>4 DEF Close, Awaits
      <3>3. Closing(l, o).pc = "insert"  BY DEF Closing, PosDone, TypeOK, LoopRec
      <3> QED BY <3>1, <3>2, <3>3 DEF TypeOK
    <2> QED BY <2>3, <2>4 DEF Streaks, KillAfterStreak
  <1> QED BY <1>2, <1>3, <1>4, StreakSteps

\* A streak of LossKill losing trades since run has set the kill switch when
\* the loop sleeps, for any limit, prices and operations, if run is not called
\* before the last loop has ended.
THEOREM StreaksKill ==
    ASSUME ~Overlap
    PROVE  Spec => []KillAfterStreak
  <1>1. Init => TypeOK /\ Inv  BY TypeInit, InvInit
  <1>2. TypeOK /\ Inv /\ [Next]_vars => TypeOK' /\ Inv'  BY TypeStep, InvStep
  <1>3. Init => Streaks
    BY DEF Init, Streaks, Streak, KillAfterStreak, OffLoop
  <1>4. TypeOK /\ Inv /\ Streaks /\ [Next]_vars => Streaks'  BY StreakKept DEF Inv
  <1>5. Streaks => KillAfterStreak  BY DEF Streaks
  <1> QED BY <1>1, <1>2, <1>3, <1>4, <1>5, PTL DEF Spec

-----------------------------------------------------------------------------
(***************************************************************************)
(* The account. Earned is recursive, and what is proved of it goes by the  *)
(* least number that contradicts it: every set of numbers has a least one. *)
(***************************************************************************)
LEMMA LeastNat ==
    ASSUME NEW S \in SUBSET Nat, S # {}
    PROVE  \E m \in S : \A x \in S : m <= x
  <1> DEFINE R == {ss \in Nat \X Nat : ss[1] < ss[2]}
  <1>1. IsWellFoundedOn(R, Nat)  BY NatLessThanWellFounded DEF OpToRel
  <1>2. \A x, y \in Nat : x < y => <<x, y>> \in R  OBVIOUS
  <1> HIDE DEF R
  <1>3. PICK m \in S : \A x \in S : ~(<<x, m>> \in R)  BY <1>1, WFMin
  <1>4. ASSUME NEW x \in S PROVE m <= x
    <2>1. x \in Nat /\ m \in Nat /\ ~(x < m)  BY <1>2, <1>3
    <2> QED BY <2>1
  <1> QED BY <1>4

\* f adds up the pnl of the rows from n + 1 to m.
Adds(f, n, m, rows) ==
    f = [i \in n..m |-> IF i = n THEN 0 ELSE f[i - 1] + rows[i].pnl]

\* There is such a function.
LEMMA SumExists ==
    ASSUME NEW n \in Nat, NEW rows, NEW m \in Nat, n <= m,
           \A i \in n + 1 .. m : rows[i].pnl \in Int
    PROVE  \E f \in [n..m -> Int] : Adds(f, n, m, rows)
  <1> DEFINE Has(k) == \E f \in [n..k -> Int] : Adds(f, n, k, rows)
             Bad == {k \in n..m : ~Has(k)}
  <1>1. Has(n)
    <2>1. [i \in n..n |-> 0] \in [n..n -> Int] /\ Adds([i \in n..n |-> 0], n, n, rows)
      BY DEF Adds
    <2> QED BY <2>1
  <1>2. ASSUME NEW k \in n..m, k # n, Has(k - 1) PROVE Has(k)
    <2>1. PICK f \in [n..k-1 -> Int] : Adds(f, n, k - 1, rows)  BY <1>2
    <2> DEFINE g == [i \in n..k |-> IF i = k THEN f[k - 1] + rows[k].pnl ELSE f[i]]
    <2>2. g \in [n..k -> Int]
      <3>1. f[k - 1] \in Int /\ rows[k].pnl \in Int  BY <1>2
      <3>2. \A i \in n..k : i # k => f[i] \in Int  OBVIOUS
      <3> QED BY <3>1, <3>2
    <2>3. ASSUME NEW i \in n..k
          PROVE  g[i] = IF i = n THEN 0 ELSE g[i - 1] + rows[i].pnl
      <3>1. CASE i = k  BY <3>1, <1>2
      <3>2. CASE i # k
        <4>1. i \in n..k-1 /\ (i # n => i - 1 \in n..k-1)  BY <3>2
        <4>2. f[i] = IF i = n THEN 0 ELSE f[i - 1] + rows[i].pnl  BY <4>1, <2>1 DEF Adds
        <4> QED BY <4>1, <4>2, <3>2
      <3> QED BY <3>1, <3>2
    <2>4. Adds(g, n, k, rows)  BY <2>3 DEF Adds
    <2> QED BY <2>2, <2>4
  <1>3. CASE Bad = {}  BY <1>3
  <1>4. CASE Bad # {}
    <2>1. PICK k \in Bad : \A x \in Bad : k <= x
      <3>1. Bad \in SUBSET Nat  OBVIOUS
      <3> HIDE DEF Bad
      <3> QED BY <3>1, <1>4, LeastNat
    <2>2. k \in n..m /\ k # n /\ ~Has(k)  BY <1>1
    <2> HIDE DEF Has
    <2>3. k - 1 \in n..m /\ ~(k <= k - 1)  BY <2>2
    <2>4. Has(k - 1)  BY <2>1, <2>3
    <2> QED BY <1>2, <2>2, <2>4
  <1> QED BY <1>3, <1>4

SameRows(rows, more, n, m) == \A i \in n + 1 .. m : rows[i] = more[i]

\* Two of them agree as far as their rows do.
LEMMA SumsAgree ==
    ASSUME NEW n \in Nat, NEW rows, NEW more, NEW m \in Nat, NEW k \in Nat, n <= m, m <= k,
           SameRows(rows, more, n, m),
           NEW f, NEW g, Adds(f, n, m, rows), Adds(g, n, k, more)
    PROVE  f[m] = g[m]
  <1> DEFINE Bad == {i \in n..m : f[i] # g[i]}
  <1>1. ASSUME NEW i \in n..m, i = n \/ f[i - 1] = g[i - 1] PROVE f[i] = g[i]
    <2>1. f[i] = IF i = n THEN 0 ELSE f[i - 1] + rows[i].pnl  BY DEF Adds
    <2>2. g[i] = IF i = n THEN 0 ELSE g[i - 1] + more[i].pnl  BY DEF Adds
    <2>3. i # n => rows[i] = more[i]  BY DEF SameRows
    <2> QED BY <2>1, <2>2, <2>3, <1>1
  <1>2. CASE Bad = {}  BY <1>2
  <1>3. CASE Bad # {}
    <2>1. PICK i \in Bad : \A x \in Bad : i <= x
      <3>1. Bad \in SUBSET Nat  OBVIOUS
      <3> HIDE DEF Bad
      <3> QED BY <3>1, <1>3, LeastNat
    <2>2. i \in n..m /\ f[i] # g[i]  OBVIOUS
    <2>3. i # n => i - 1 \in n..m /\ ~(i <= i - 1)  BY <2>2
    <2>4. i # n => f[i - 1] = g[i - 1]  BY <2>1, <2>3
    <2> QED BY <1>1, <2>2, <2>4
  <1> QED BY <1>2, <1>3

\* Earned is what any of them gives for the last row.
LEMMA EarnedBySum ==
    ASSUME NEW rows, NEW n \in Nat, Len(rows) \in Nat, n <= Len(rows),
           \A i \in n + 1 .. Len(rows) : rows[i].pnl \in Int,
           NEW f, Adds(f, n, Len(rows), rows)
    PROVE  Earned(n, rows) = f[Len(rows)]
  <1> DEFINE F == CHOOSE g : Adds(g, n, Len(rows), rows)
  <1>1. Earned(n, rows) = F[Len(rows)]  BY DEF Earned, Adds
  <1>2. Adds(F, n, Len(rows), rows)  OBVIOUS
  <1> HIDE DEF F
  <1>3. SameRows(rows, rows, n, Len(rows))  BY DEF SameRows
  <1>4. F[Len(rows)] = f[Len(rows)]  BY <1>2, <1>3, SumsAgree
  <1> QED BY <1>1, <1>4

\* No rows earn nothing.
LEMMA EarnedNothing ==
    ASSUME NEW rows, Len(rows) \in Nat
    PROVE  Earned(Len(rows), rows) = 0
  <1> DEFINE N == Len(rows)
  <1>1. N \in Nat  OBVIOUS
  <1> HIDE DEF N
  <1>2. PICK f \in [N..N -> Int] : Adds(f, N, N, rows)
    <2>1. N <= N /\ \A i \in N + 1 .. N : rows[i].pnl \in Int  BY <1>1
    <2> QED BY <1>1, <2>1, SumExists
  <1>3. f[N] = 0  BY <1>1, <1>2 DEF Adds
  <1>4. \A i \in N + 1 .. N : rows[i].pnl \in Int  BY <1>1
  <1> QED BY <1>1, <1>2, <1>3, <1>4, EarnedBySum DEF N

\* One more row earns its pnl.
LEMMA EarnedMore ==
    ASSUME NEW R, NEW rows \in Seq(R), NEW row \in R, NEW n \in Nat, n <= Len(rows),
           \A r \in R : r.pnl \in Int
    PROVE  Earned(n, Append(rows, row)) = Earned(n, rows) + row.pnl
  <1> DEFINE N == Len(rows)
             more == Append(rows, row)
  <1>1. /\ N \in Nat /\ n <= N /\ N + 1 \in Nat /\ N <= N + 1 /\ n <= N + 1
        /\ Len(more) = N + 1 /\ more[N + 1] = row /\ more \in Seq(R)
        /\ \A i \in 1..N : more[i] = rows[i] /\ rows[i] \in R
    OBVIOUS
  <1> HIDE DEF more
  <1>2. /\ \A i \in n + 1 .. N : rows[i] = more[i] /\ rows[i].pnl \in Int
        /\ \A i \in n + 1 .. N + 1 : more[i].pnl \in Int
    <2>1. \A i \in 1..N + 1 : more[i] \in R  BY <1>1
    <2>2. \A i \in n + 1 .. N : i \in 1..N  BY <1>1
    <2>3. \A i \in n + 1 .. N + 1 : i \in 1..N + 1  BY <1>1
    <2> QED BY <1>1, <2>1, <2>2, <2>3
  <1>3. PICK f \in [n..N -> Int] : Adds(f, n, N, rows)  BY <1>1, <1>2, SumExists
  <1>4. PICK g \in [n..N + 1 -> Int] : Adds(g, n, N + 1, more)  BY <1>1, <1>2, SumExists
  <1>5. f[N] = g[N]
    <2> HIDE DEF N
    <2>1. SameRows(rows, more, n, N)  BY <1>2 DEF SameRows
    <2>2. N \in Nat /\ N + 1 \in Nat /\ n <= N /\ N <= N + 1  BY <1>1
    <2> DEFINE M == N + 1
    <2>3. M \in Nat /\ N <= M /\ Adds(g, n, M, more)  BY <2>2, <1>4
    <2> HIDE DEF M
    <2> QED BY <1>3, <2>1, <2>2, <2>3, SumsAgree
  <1>6. g[N + 1] = g[N] + row.pnl
    <2>1. N + 1 \in n..N + 1 /\ N + 1 # n /\ (N + 1) - 1 = N  BY <1>1
    <2> QED BY <1>1, <1>4, <2>1 DEF Adds
  <1>7. Earned(n, rows) = f[N]  BY <1>1, <1>2, <1>3, EarnedBySum
  <1>8. Earned(n, more) = g[N + 1]
    <2>1. Len(more) \in Nat /\ n <= Len(more)  BY <1>1
    <2>2. \A i \in n + 1 .. Len(more) : more[i].pnl \in Int  BY <1>1, <1>2
    <2>3. Adds(g, n, Len(more), more)  BY <1>1, <1>4
    <2>4. Earned(n, more) = g[Len(more)]  BY <2>1, <2>2, <2>3, EarnedBySum
    <2> QED BY <1>1, <2>4
  <1> QED BY <1>5, <1>6, <1>7, <1>8 DEF more

\* What every step is to the account.
LEMMA AccountSteps ==
    ASSUME TypeOK, [Next]_vars
    PROVE  \/ /\ UNCHANGED booked
              /\ \/ acct'.balance = acct.balance /\ acct'.base = acct.base
                 \/ acct'.balance = 0 /\ acct'.base = Len(booked)
           \/ \E l \in Loops, o \in Objs, p \in ObjRec : AtPos(l, o) /\ Close(l, o, p)
  <1>1. CASE UNCHANGED vars  BY <1>1 DEF vars, bookVars
  <1>2. CASE \E s \in Symbols, p \in Prices \cup {None} : BookMoves(s, p)
    BY <1>2 DEF BookMoves, bookVars
  <1>3. CASE \/ SigRound \/ SigRoundEnds \/ SigSized
             \/ \E s \in Symbols, side \in Sides : SigSignal(s, side)
    BY <1>3 DEF SigRound, SigRoundEnds, SigSized, SigSignal, bookVars
  <1>4. CASE OpKillAll \/ OpRunStop
    BY <1>4 DEF OpKillAll, OpRunStop, Sets
  <1>5. CASE \E l \in Loops : OpRun(l)
    BY <1>5 DEF OpRun, Sets, TypeOK
  <1>6. ASSUME NEW l \in Loops, LoopStep(l)
        PROVE  \/ UNCHANGED <<booked, acct>>
               \/ UNCHANGED booked /\ acct'.balance = 0 /\ acct'.base = Len(booked)
               \/ \E o \in Objs, p \in ObjRec : AtPos(l, o) /\ Close(l, o, p)
    <2>1. CASE LoopStart(l)
      BY <2>1 DEF LoopStart, StartWith, TypeOK
    <2>2. CASE LoopTop(l) \/ LoopRejected(l) \/ LoopQuotesDone(l)
      BY <2>2 DEF LoopTop, LoopEndsIf, LoopRejected, LoopQuotesDone, bookVars
    <2>3. CASE \E n \in Quotes : LoopQuote(l, n)
      BY <2>3 DEF LoopQuote, LoopQuoteWaits, LoopQuoteRefused, LoopQuoteCancelled,
                  LoopQuoteFilled, bookVars
    <2>4. CASE LoopInserted(l) \/ LoopPositionsDone(l) \/ LoopCheck(l) \/ LoopTrips(l)
      BY <2>4 DEF LoopInserted, LoopPositionsDone, LoopCheck, LoopTrips, Sleeps, bookVars
    <2>5. ASSUME NEW o \in Objs, LoopPos(l, o)
          PROVE  \/ UNCHANGED <<booked, acct>>
                 \/ \E p \in ObjRec : AtPos(l, o) /\ Close(l, o, p)
      <3>1. PICK p \in Looks(o) :
               /\ HasBook(o) \/ p = obj[o]
               /\ Passes(l, o, p) \/ Close(l, o, p)
        BY <2>5, PosOutcome
      <3>2. AtPos(l, o)  BY <2>5, PosOutcome
      <3>3. p \in ObjRec
        <4>1. obj[o] \in ObjRec  BY DEF TypeOK
        <4>2. HasBook(o) => p \in ObjRec  BY LooksTyped DEF SameTrade
        <4> QED BY <3>1, <4>1, <4>2
      <3>4. CASE Passes(l, o, p)  BY <3>4 DEF Passes
      <3> QED BY <3>1, <3>2, <3>3, <3>4
    <2> QED BY <1>6, <2>1, <2>2, <2>3, <2>4, <2>5 DEF LoopStep
  <1> QED BY <1>1, <1>2, <1>3, <1>4, <1>5, <1>6 DEF Next

Account == acct.base <= Len(booked) /\ BalanceIsLedger

LEMMA AccountKept ==
    ASSUME TypeOK, TypeOK', Account, [Next]_vars
    PROVE  Account'
  <1> DEFINE Row == [pos : Objs, pnl : Int]
  <1>1. /\ booked \in Seq(Row) /\ booked' \in Seq(Row) /\ Margin \in Int
        /\ acct.base \in Nat /\ Len(booked) \in Nat
    BY Constants DEF TypeOK
  <1>2. CASE UNCHANGED booked /\ acct'.balance = acct.balance /\ acct'.base = acct.base
    BY <1>2 DEF Account, BalanceIsLedger
  <1>3. CASE UNCHANGED booked /\ acct'.balance = 0 /\ acct'.base = Len(booked)
    <2>1. Earned(acct'.base, booked') = 0
      <3>1. Earned(Len(booked), booked) = 0  BY <1>1, EarnedNothing
      <3> QED BY <1>3, <3>1
    <2>2. acct'.base <= Len(booked')  BY <1>1, <1>3
    <2> QED BY <1>3, <2>1, <2>2 DEF Account, BalanceIsLedger
  <1>4. ASSUME NEW l \in Loops, NEW o \in Objs, NEW p \in ObjRec, Close(l, o, p)
        PROVE  Account'
    <2> DEFINE row == [pos |-> o, pnl |-> Realized(p)]
    <2>1. /\ booked' = Append(booked, row)
          /\ acct'.balance = acct.balance + Realized(p) /\ acct'.base = acct.base
      BY <1>4 DEF Close, TypeOK
    <2>2. /\ Len(booked') = Len(booked) + 1 /\ booked'[Len(booked) + 1] = row
          /\ \A i \in 1..Len(booked) : booked'[i] = booked[i]
          /\ DOMAIN booked = 1..Len(booked) /\ DOMAIN booked' = 1..Len(booked) + 1
      BY <1>1, <2>1
    <2>3. row \in Row
      <3>1. booked'[Len(booked) + 1] \in Row  BY <1>1, <2>2
      <3> QED BY <2>2, <3>1
    <2>4. Realized(p) \in Int  BY <2>3
    <2>5. Realized(p) >= -Margin
      BY <1>1, <2>4 DEF Realized, Larger
    <2>6. row.pnl = Realized(p)  OBVIOUS
    <2> HIDE DEF row
    <2>7. Earned(acct.base, Append(booked, row)) = Earned(acct.base, booked) + row.pnl
      <3>1. \A r \in Row : r.pnl \in Int  OBVIOUS
      <3>2. acct.base <= Len(booked)  BY DEF Account
      <3> HIDE DEF Row
      <3> QED BY <1>1, <2>3, <3>1, <3>2, EarnedMore
    <2>8. acct'.balance = Earned(acct'.base, booked')
      BY <2>1, <2>6, <2>7 DEF Account, BalanceIsLedger
    <2>9. ASSUME NEW i \in DOMAIN booked' PROVE booked'[i].pnl >= -Margin
      <3>1. i \in 1..Len(booked) \/ i = Len(booked) + 1  BY <1>1, <2>2
      <3>2. i \in 1..Len(booked) => booked[i].pnl >= -Margin
        BY <2>2 DEF Account, BalanceIsLedger
      <3> QED BY <2>2, <2>5, <2>6, <3>1, <3>2
    <2>10. acct'.base <= Len(booked')  BY <1>1, <2>1, <2>2 DEF Account
    <2> QED BY <2>8, <2>9, <2>10 DEF Account, BalanceIsLedger
  <1> QED BY <1>2, <1>3, <1>4, AccountSteps

\* The balance of the simulated account is what the trades booked since
\* init_balance have earned, and no trade loses more than its margin, for any
\* prices, any operations and any number of loops.
THEOREM BalanceFollowsLedger == Spec => []BalanceIsLedger
  <1>1. Init => Account
    <2> SUFFICES ASSUME Init PROVE Account
      OBVIOUS
    <2>1. booked = <<>> /\ acct.base = 0 /\ acct.balance = 0  BY DEF Init
    <2>2. Len(booked) = 0 /\ DOMAIN booked = {}  BY <2>1
    <2>3. Earned(Len(booked), booked) = 0  BY <2>2, EarnedNothing
    <2> QED BY <2>1, <2>2, <2>3 DEF Account, BalanceIsLedger
  <1>2. TypeOK /\ TypeOK' /\ Account /\ [Next]_vars => Account'  BY AccountKept
  <1>3. Account => BalanceIsLedger  BY DEF Account
  <1> QED BY <1>1, <1>2, <1>3, PaperTypeCorrect, PTL DEF Spec

===============================================================================
