----------------------------- MODULE PaperExecutor -----------------------------
(***************************************************************************)
(* The paper executor of backend/paper.py under the engine's run, run_stop *)
(* and kill_all: queued quotes, simulated fills, the exits of a position,  *)
(* the bookkeeping of its close and the kill checks.                       *)
(*                                                                         *)
(* Tasks: the scoring task "sig", the executor loops (run starts one, and  *)
(* nothing waits for the one before to end), and the operator, whose       *)
(* requests do not await anything here.  cpu names the task that goes on   *)
(* without awaiting, "none" when every task is suspended: in a sleep, the  *)
(* first read of a contract's details, or a write to SQLite.               *)
(*                                                                         *)
(* A price is the mid of a book whose touch is HalfSpread on either side;  *)
(* a fill takes the touch.  The clock only decides WHEN a latency, timeout *)
(* or exit rule is due, which is a choice here.                            *)
(*                                                                         *)
(* A definition introduced by "Mutant:" is a wrong form of the one after   *)
(* it, which a property must reject; the specification does not use it.    *)
(***************************************************************************)
EXTENDS StopRules, Sequences, FiniteSets

CONSTANTS
    Symbols,        \* aggregator.symbols()
    Sides,          \* sides the signals have
    Prices,         \* mids
    HalfSpread,
    Inside,         \* how far inside the spread a maker quotes (quote_offset_ticks)
    MaxConcurrent,  \* risk.max_concurrent_positions
    TakerEntry,     \* strategy.taker_entry
    ExchangeSL,     \* strategy.paper_exchange_sl
    UseR,           \* strategy.use_r_trail
    Sigma, Hard, Breakeven, Lock, Trail,   \* the stop rules, in ticks
    Margin, Fee,    \* largest loss of a trade; fee of a trade, in ticks
    LossKill,       \* risk.consecutive_losses_kill, 0 is off
    TradesKill,     \* risk.max_trades_per_session, 0 is off
    Loops,          \* executor loops that may exist at once
    Overlap,        \* may run be called before the last loop has ended?
    Operations,     \* what the operator and the other kill checks may do
    MaxQuotes, MaxObjs, MaxOps             \* bounds: quotes, positions, operations

ASSUME PaperConstantsOK ==
    /\ IsFiniteSet(Symbols) /\ Symbols # {}
    /\ Sides \subseteq {"LONG", "SHORT"} /\ Prices \subseteq Int
    /\ Inside = 0 \/ Inside < 2 * HalfSpread
    /\ {HalfSpread, Inside, MaxConcurrent, Sigma, Hard, Breakeven, Lock, Trail, Margin, Fee,
        LossKill, TradesKill, MaxQuotes, MaxObjs, MaxOps} \subseteq Nat
    /\ {TakerEntry, ExchangeSL, UseR, Overlap} \subseteq BOOLEAN
    /\ Operations \subseteq {"kill_all", "run_stop", "run", "trip"}
    /\ {"none", "sig"} \cap Loops = {}

VARIABLES
    book,       \* aggregator: mid per symbol, None while a side is missing
    quotes,     \* _quotes: symbol -> pending quote, 0 for none
    quote,      \* the _Quote objects ever made
    positions,  \* state.positions: symbol -> position, 0 for none
    obj,        \* the ManagedPosition objects ever made
    booked,     \* the trades in the order of their booking: position and pnl
    acct,       \* balance and counters of AppState; base and since say how
                \* many trades were booked at the last init_balance and run
    ctl,        \* stop, engine_running, kill_switch
    sized,      \* symbols in _contract_size_cache
    sig,        \* the scoring task
    loop,       \* the executor loops
    cpu, made, ops

vars == <<book, quotes, quote, positions, obj, booked, acct, ctl, sized, sig,
          loop, cpu, made, ops>>

bookVars == <<positions, obj, booked, acct>>
Quotes == 1..MaxQuotes
Objs   == 1..MaxObjs
AnySymbol == CHOOSE s \in Symbols : TRUE

NoQuote == [sym |-> AnySymbol, side |-> "LONG", price |-> 0]
NoObj   == [sym |-> AnySymbol, side |-> "LONG", entry |-> 0, best |-> 0, stop |-> 0,
            pending |-> FALSE]
OffLoop == [pc |-> "off", todo |-> {}, cur |-> 0]
IdleSig == [pc |-> "idle", sym |-> AnySymbol, side |-> "LONG"]

Init ==
    /\ book = [s \in Symbols |-> None]
    /\ quotes = [s \in Symbols |-> 0]
    /\ quote = [n \in Quotes |-> NoQuote]
    /\ positions = [s \in Symbols |-> 0]
    /\ obj = [o \in Objs |-> NoObj]
    /\ booked = <<>>
    /\ acct = [balance |-> 0, trades |-> 0, losses |-> 0, base |-> 0, since |-> 0]
    /\ ctl = [stop |-> FALSE, running |-> FALSE, kill |-> FALSE]
    /\ sized = {}
    /\ sig = IdleSig
    /\ loop = [l \in Loops |-> OffLoop]
    /\ cpu = "none"
    /\ made = [quotes |-> 0, objs |-> 0]
    /\ ops = 0

(***************************************************************************)
(* The market.                                                             *)
(***************************************************************************)
BookMoves(s, p) ==
    /\ cpu = "none" /\ p # book[s]
    /\ book' = [book EXCEPT ![s] = p]
    /\ UNCHANGED <<quotes, quote, bookVars, ctl, sized, sig, loop, cpu, made, ops>>

Dir(side) == IF side = "LONG" THEN 1 ELSE -1

\* The touch that an order of the side takes, and the one it rests at.
Taken(s, side)  == book[s] + Dir(side) * HalfSpread
Rested(s, side) == book[s] - Dir(side) * HalfSpread

(***************************************************************************)
(* Entry: the scoring round and _maybe_place_quote.                        *)
(***************************************************************************)
\* The engine looks at its flags once; a round awaits the store after each
\* candidate, so that they may change under it.
SigRound ==
    /\ cpu = "none" /\ sig.pc = "idle"
    /\ ctl.running /\ ~ctl.kill
    /\ sig' = [sig EXCEPT !.pc = "emit"]
    /\ UNCHANGED <<book, quotes, quote, bookVars, ctl, sized, loop, cpu, made, ops>>

SigRoundEnds ==
    /\ cpu = "none" /\ sig.pc = "emit"
    /\ sig' = IdleSig
    /\ UNCHANGED <<book, quotes, quote, bookVars, ctl, sized, loop, cpu, made, ops>>

Managed == {s \in Symbols : positions[s] # 0}

\* Mutant: the kill switch is not looked at again.
AcceptsKilled(s) == positions[s] = 0 /\ Cardinality(Managed) < MaxConcurrent

\* CapitalAllocator.decide, the cooldown and the balance allowing.
Accepts(s) == ~ctl.kill /\ AcceptsKilled(s)

\* A maker offers at the touch or inside it; the price of a taker is a
\* placeholder that its fill overwrites unread.
QuotePrice(s, side) == IF TakerEntry THEN 0 ELSE Rested(s, side) + Dir(side) * Inside

\* What follows the wait for the contract details, in one go.
Place(s, side) ==
    LET n == made.quotes + 1 IN
    /\ Accepts(s) /\ book[s] # None /\ made.quotes < MaxQuotes
    /\ made' = [made EXCEPT !.quotes = n]
    /\ quote' = [quote EXCEPT ![n] = [sym |-> s, side |-> side, price |-> QuotePrice(s, side)]]
    /\ quotes' = [quotes EXCEPT ![s] = n]

\* The guards of _maybe_place_quote, then _contract_size, which suspends the
\* first time it is asked for a symbol.
SigSignal(s, side) ==
    /\ cpu = "none" /\ sig.pc = "emit"
    /\ ~ctl.kill /\ quotes[s] = 0 /\ positions[s] = 0 /\ book[s] # None
    /\ \/ s \in sized /\ Place(s, side) /\ UNCHANGED sig
       \/ /\ s \notin sized
          /\ sig' = [pc |-> "size", sym |-> s, side |-> side]
          /\ UNCHANGED <<quotes, quote, made>>
    /\ UNCHANGED <<book, bookVars, ctl, sized, loop, cpu, ops>>

SigSized ==
    /\ cpu = "none" /\ sig.pc = "size"
    /\ sized' = sized \cup {sig.sym}
    /\ sig' = [IdleSig EXCEPT !.pc = "emit"]
    /\ Place(sig.sym, sig.side) \/ UNCHANGED <<quotes, quote, made>>
    /\ UNCHANGED <<book, bookVars, ctl, loop, cpu, ops>>

(***************************************************************************)
(* The executor loop.                                                      *)
(***************************************************************************)
At(l, pc) == cpu \in {"none", l} /\ loop[l].pc = pc

\* The task goes on, or awaits.
Goes(l, L)   == loop' = [loop EXCEPT ![l] = L] /\ cpu' = l
Awaits(l, L) == loop' = [loop EXCEPT ![l] = L] /\ cpu' = "none"

StartWith(l, balance) ==
    /\ At(l, "start")
    /\ acct' = [acct EXCEPT !.balance = balance, !.base = Len(booked)]
    /\ Goes(l, [loop[l] EXCEPT !.pc = "top"])
    /\ UNCHANGED <<book, quotes, quote, positions, obj, booked, ctl, sized, sig, made, ops>>

LoopStartKeeps(l) == StartWith(l, acct.balance)   \* Mutant: the account is kept

\* init_balance: the simulated account starts anew, whatever is open.
LoopStart(l) == StartWith(l, 0)

LoopEndsIf(l, ends) ==
    /\ At(l, "top") \/ At(l, "sleep")
    /\ IF ends THEN Awaits(l, OffLoop)
       ELSE Goes(l, [pc |-> "quotes", cur |-> 0,
                     todo |-> {quotes[s] : s \in Symbols} \ {0}])
    /\ UNCHANGED <<book, quotes, quote, bookVars, ctl, sized, sig, made, ops>>

\* Mutant: the kill switch ends the loop.
LoopTopUnlessKilled(l) == LoopEndsIf(l, ctl.stop \/ ctl.kill)

\* The loop ends, or begins a tick with a copy of _quotes.
LoopTop(l) == LoopEndsIf(l, ctl.stop)

(***************************************************************************)
(* _process_quotes.                                                        *)
(***************************************************************************)
QuoteDone(l, n) == [loop[l] EXCEPT !.todo = @ \ {n}]
AtQuote(l, n)   == At(l, "quotes") /\ n \in loop[l].todo
PopNever(n)     == UNCHANGED quotes    \* Mutant: a quote is never popped
Pop(n)          == quotes' = [quotes EXCEPT ![quote[n].sym] = 0]

\* No book, a latency not over, or a price not reached. A queued taker order
\* counts as submitted: its signal is not looked at again.
LoopQuoteWaits(l, n) ==
    /\ AtQuote(l, n)
    /\ Goes(l, QuoteDone(l, n))
    /\ UNCHANGED <<book, quotes, quote, bookVars, ctl, sized, sig, made, ops>>

\* A taker quote whose fill is thin or unfair is recorded, then popped.
LoopQuoteRefused(l, n) ==
    /\ TakerEntry /\ AtQuote(l, n) /\ book[quote[n].sym] # None
    /\ Awaits(l, [QuoteDone(l, n) EXCEPT !.pc = "reject", !.cur = n])
    /\ UNCHANGED <<book, quotes, quote, bookVars, ctl, sized, sig, made, ops>>

LoopRejected(l) ==
    /\ At(l, "reject")
    /\ Pop(loop[l].cur)
    /\ Goes(l, [loop[l] EXCEPT !.pc = "quotes", !.cur = 0])
    /\ UNCHANGED <<book, quote, bookVars, ctl, sized, sig, made, ops>>

\* A maker quote is cancelled: z collapsed, timeout, stale signal.
LoopQuoteCancelled(l, n) ==
    /\ ~TakerEntry /\ AtQuote(l, n) /\ book[quote[n].sym] # None
    /\ Pop(n)
    /\ Goes(l, QuoteDone(l, n))
    /\ UNCHANGED <<book, quote, bookVars, ctl, sized, sig, made, ops>>

\* _open_position: the stop is the hard one.
Open(s, side, price) ==
    LET o == made.objs + 1 IN
    /\ made.objs < MaxObjs
    /\ made' = [made EXCEPT !.objs = o]
    /\ obj' = [obj EXCEPT ![o] = [NoObj EXCEPT !.sym = s, !.side = side, !.entry = price,
                                    !.best = price, !.stop = price - Dir(side) * Hard]]
    /\ positions' = [positions EXCEPT ![s] = o]

\* A taker fills at the touch of now, a maker at its price once the book is there.
LoopQuoteFilled(l, n) ==
    LET s == quote[n].sym  side == quote[n].side IN
    /\ AtQuote(l, n) /\ book[s] # None
    /\ \/ TakerEntry /\ Open(s, side, Taken(s, side))
       \/ /\ ~TakerEntry
          /\ Dir(side) * Taken(s, side) <= Dir(side) * quote[n].price
          /\ Open(s, side, quote[n].price)
    /\ Pop(n)
    /\ Goes(l, QuoteDone(l, n))
    /\ UNCHANGED <<book, quote, booked, acct, ctl, sized, sig, ops>>

LoopQuotesDone(l) ==
    /\ At(l, "quotes") /\ loop[l].todo = {}
    /\ Goes(l, [pc |-> "positions", cur |-> 0, todo |-> {positions[s] : s \in Managed}])
    /\ UNCHANGED <<book, quotes, quote, bookVars, ctl, sized, sig, made, ops>>

(***************************************************************************)
(* _process_positions.                                                     *)
(***************************************************************************)
PosDone(l, o) == [loop[l] EXCEPT !.todo = @ \ {o}]
AtPos(l, o)   == At(l, "positions") /\ o \in loop[l].todo
HasBook(o)    == book[obj[o].sym] # None

\* The position with its best excursion brought up to the mid of now.
Seen(o) ==
    LET m == book[obj[o].sym] IN
    [obj[o] EXCEPT !.best = IF obj[o].side = "LONG" THEN Larger(@, m) ELSE Smaller(@, m)]

ExitPrice(p) == Rested(p.sym, p.side)
StopHit(p)   == Dir(p.side) * ExitPrice(p) <= Dir(p.side) * p.stop

\* Mutant: the stop follows the price both ways.
NewStopFree(p) == book[p.sym] - Dir(p.side) * Trail

NewStop(p) ==
    IF UseR
    THEN IF p.side = "LONG"
         THEN RTrailLong(p.entry, p.best, Hard, Hard \div 2, Breakeven, Lock, Trail, p.stop)
         ELSE RTrailShort(p.entry, p.best, Hard, Hard \div 2, Breakeven, Lock, Trail, p.stop)
    ELSE IF p.side = "LONG"
         THEN TrailLong(p.entry, p.best, Sigma, Hard, Breakeven, Trail, p.stop)
         ELSE TrailShort(p.entry, p.best, Sigma, Hard, Breakeven, Trail, p.stop)

Queued(p) == [p EXCEPT !.pending = TRUE]

\* The pass is done with o, which has become p.
Passes(l, o, p) ==
    /\ obj' = [obj EXCEPT ![o] = p]
    /\ Goes(l, PosDone(l, o))
    /\ UNCHANGED <<book, quotes, quote, positions, booked, acct, ctl, sized, sig, made, ops>>

Uncapped(p) == Dir(p.side) * (ExitPrice(p) - p.entry) - Fee   \* Mutant: no liquidation
Realized(p) == Larger(Uncapped(p), -Margin)

LossesAfter(pnl)    == IF pnl < 0 THEN acct.losses + 1 ELSE 0

ClosingAgain(l, o) == [loop[l] EXCEPT !.pc = "insert"]   \* Mutant: no "continue" after a close
Closing(l, o)      == [PosDone(l, o) EXCEPT !.pc = "insert"]

\* _close_position up to its write to SQLite: the loss is capped at the margin,
\* and the symbol is freed, whichever position it holds.
Close(l, o, p) ==
    LET pnl == Realized(p) IN
    /\ obj' = [obj EXCEPT ![o] = [p EXCEPT !.pending = FALSE]]
    /\ booked' = Append(booked, [pos |-> o, pnl |-> pnl])
    /\ acct' = [acct EXCEPT !.balance = @ + pnl, !.trades = @ + 1,
                           !.losses = LossesAfter(pnl)]
    /\ positions' = [positions EXCEPT ![p.sym] = 0]
    /\ Awaits(l, Closing(l, o))
    /\ UNCHANGED <<book, quotes, quote, ctl, sized, sig, made, ops>>

PosSkip(l, o) == AtPos(l, o) /\ ~HasBook(o) /\ Passes(l, o, obj[o])

\* paper_exchange_sl: the stop order is at the exchange, and fires at once.
PosExchangeStop(l, o) ==
    /\ AtPos(l, o) /\ HasBook(o)
    /\ ExchangeSL /\ StopHit(Seen(o))
    /\ Close(l, o, Seen(o))

\* What the rest of the pass is about: no stop at the exchange has fired.
Held(o) == HasBook(o) /\ ~(ExchangeSL /\ StopHit(Seen(o)))

\* A queued close is not due, or is.
PosWait(l, o) ==
    /\ AtPos(l, o) /\ Held(o) /\ obj[o].pending
    /\ Passes(l, o, Seen(o))

PosDue(l, o) ==
    /\ AtPos(l, o) /\ Held(o) /\ obj[o].pending
    /\ Close(l, o, Seen(o))

\* The exits before the stop: loss cap, take profits, edge, scratch, flip.
PosRule(l, o) ==
    /\ AtPos(l, o) /\ Held(o) /\ ~obj[o].pending
    /\ Passes(l, o, Queued(Seen(o)))

\* Mutant: the stop is looked at in the passes that do not move it.
PosTrailOrLook(l, o) ==
    /\ AtPos(l, o) /\ Held(o) /\ ~obj[o].pending
    /\ \/ Passes(l, o, [Seen(o) EXCEPT !.stop = NewStop(Seen(o))])
       \/ StopHit(Seen(o)) /\ Passes(l, o, Queued(Seen(o)))

\* The stop moves, unless it moved a moment ago, and is looked at.
PosTrail(l, o) ==
    /\ AtPos(l, o) /\ Held(o) /\ ~obj[o].pending
    /\ \E p \in {Seen(o), [Seen(o) EXCEPT !.stop = NewStop(Seen(o))]} :
          \/ ~StopHit(p) /\ Passes(l, o, p)
          \/ StopHit(p) /\ ExchangeSL /\ Close(l, o, p)
          \/ StopHit(p) /\ ~ExchangeSL /\ Passes(l, o, Queued(p))

\* As PosTrail, and the longest time to hold has passed.
PosTime(l, o) ==
    /\ AtPos(l, o) /\ Held(o) /\ ~obj[o].pending
    /\ \E p \in {Seen(o), [Seen(o) EXCEPT !.stop = NewStop(Seen(o))]} :
          ~StopHit(p) /\ Passes(l, o, Queued(p))

LoopInserted(l) ==
    /\ At(l, "insert")
    /\ Goes(l, [loop[l] EXCEPT !.pc = "positions"])
    /\ UNCHANGED <<book, quotes, quote, bookVars, ctl, sized, sig, made, ops>>

\* A row of equity is written now and then.
LoopPositionsDone(l) ==
    /\ At(l, "positions") /\ loop[l].todo = {}
    /\ loop' = [loop EXCEPT ![l].pc = "check"]
    /\ cpu' \in {l, "none"}
    /\ UNCHANGED <<book, quotes, quote, bookVars, ctl, sized, sig, made, ops>>

(***************************************************************************)
(* The kill checks.                                                        *)
(***************************************************************************)
TooManyTrades == TradesKill > 0 /\ acct.trades >= TradesKill
MoreLosses    == LossKill > 0 /\ acct.losses > LossKill    \* Mutant: one loss too late
TooManyLosses == LossKill > 0 /\ acct.losses >= LossKill

Sleeps(l, killed) ==
    /\ ctl' = [ctl EXCEPT !.kill = @ \/ killed]
    /\ Awaits(l, [loop[l] EXCEPT !.pc = "sleep"])
    /\ UNCHANGED <<book, quotes, quote, bookVars, sized, sig, made>>

LoopCheck(l) == At(l, "check") /\ Sleeps(l, TooManyTrades \/ TooManyLosses) /\ UNCHANGED ops

Request(kind) == kind \in Operations /\ ops < MaxOps /\ ops' = ops + 1

\* The losses of the day or the session, and the drawdown, have a say too.
LoopTrips(l) == At(l, "check") /\ Request("trip") /\ Sleeps(l, TRUE)

(***************************************************************************)
(* The operator.                                                           *)
(***************************************************************************)
Sets(c) ==
    ctl' = c /\ UNCHANGED <<book, quotes, quote, positions, obj, booked, sized, sig, cpu, made>>

\* kill_all flattens nothing here: the executor is not the live one.
OpKillAll ==
    /\ cpu = "none" /\ Request("kill_all")
    /\ Sets([ctl EXCEPT !.kill = TRUE])
    /\ UNCHANGED <<acct, loop>>

OpRunStop ==
    /\ cpu = "none" /\ Request("run_stop")
    /\ Sets([ctl EXCEPT !.running = FALSE, !.stop = TRUE])
    /\ UNCHANGED <<acct, loop>>

OpRun(l) ==
    /\ cpu = "none" /\ Request("run")
    /\ ~ctl.running /\ loop[l].pc = "off"
    /\ Overlap \/ \A k \in Loops : loop[k].pc = "off"
    /\ Sets([stop |-> FALSE, running |-> TRUE, kill |-> FALSE])
    /\ acct' = [acct EXCEPT !.trades = 0, !.losses = 0, !.since = Len(booked)]
    /\ loop' = [loop EXCEPT ![l].pc = "start"]

(***************************************************************************)
(* The specification.                                                      *)
(***************************************************************************)
LoopQuote(l, n) ==
    \/ LoopQuoteWaits(l, n)
    \/ LoopQuoteRefused(l, n)
    \/ LoopQuoteCancelled(l, n)
    \/ LoopQuoteFilled(l, n)

LoopPos(l, o) ==
    \/ PosSkip(l, o)
    \/ PosExchangeStop(l, o)
    \/ PosWait(l, o)
    \/ PosDue(l, o)
    \/ PosRule(l, o)
    \/ PosTrail(l, o)
    \/ PosTime(l, o)

LoopStep(l) ==
    \/ LoopStart(l)
    \/ LoopTop(l)
    \/ \E n \in Quotes : LoopQuote(l, n)
    \/ LoopRejected(l)
    \/ LoopQuotesDone(l)
    \/ \E o \in Objs : LoopPos(l, o)
    \/ LoopInserted(l)
    \/ LoopPositionsDone(l)
    \/ LoopCheck(l)
    \/ LoopTrips(l)

Next ==
    \/ \E s \in Symbols, p \in Prices \cup {None} : BookMoves(s, p)
    \/ SigRound
    \/ SigRoundEnds
    \/ \E s \in Symbols, side \in Sides : SigSignal(s, side)
    \/ SigSized
    \/ \E l \in Loops : LoopStep(l)
    \/ OpKillAll
    \/ OpRunStop
    \/ \E l \in Loops : OpRun(l)

Spec == Init /\ [][Next]_vars

\* The loop runs on; the feeds stay up in the end; latencies, timeouts and the
\* longest time to hold pass while the loop ticks.
FeedsStayUp     == <>[](\A s \in Symbols : book[s] # None)
QuoteEnds(l, n) == LoopQuoteRefused(l, n) \/ LoopQuoteCancelled(l, n) \/ LoopQuoteFilled(l, n)

FairSpec ==
    /\ Spec
    /\ FeedsStayUp
    /\ \A l \in Loops :
          /\ WF_vars(LoopStep(l))
          /\ \A n \in Quotes : SF_vars(QuoteEnds(l, n))
          /\ \A o \in Objs : SF_vars(PosDue(l, o)) /\ SF_vars(PosTime(l, o))

(***************************************************************************)
(* The properties.                                                         *)
(***************************************************************************)
QuoteRec == [sym : Symbols, side : {"LONG", "SHORT"}, price : Int]
ObjRec   == [sym : Symbols, side : {"LONG", "SHORT"}, entry : Int, best : Int, stop : Int,
             pending : BOOLEAN]
LoopPcs  == {"off", "start", "top", "quotes", "reject", "positions", "insert",
             "check", "sleep"}
LoopRec  == [pc : LoopPcs, todo : SUBSET Nat, cur : 0..MaxQuotes]

\* Every variable keeps its type, and the bounds of what has been made hold.
TypeOK ==
    /\ book \in [Symbols -> Prices \cup {None}]
    /\ quotes \in [Symbols -> 0..MaxQuotes] /\ quote \in [Quotes -> QuoteRec]
    /\ positions \in [Symbols -> 0..MaxObjs] /\ obj \in [Objs -> ObjRec]
    /\ booked \in Seq([pos : Objs, pnl : Int])
    /\ acct \in [balance : Int, trades : Nat, losses : Nat, base : Nat, since : Nat]
    /\ ctl \in [stop : BOOLEAN, running : BOOLEAN, kill : BOOLEAN]
    /\ sized \subseteq Symbols
    /\ sig \in [pc : {"idle", "emit", "size"}, sym : Symbols, side : {"LONG", "SHORT"}]
    /\ loop \in [Loops -> LoopRec]
    /\ cpu \in Loops \cup {"none"}
    /\ made \in [quotes : 0..MaxQuotes, objs : 0..MaxObjs]
    /\ ops \in 0..MaxOps

\* A position the simulation opened is held by its symbol until it is booked,
\* and then booked once: none is lost, counted twice or kept after its close,
\* across the copy of the table that a pass walks and the writes it awaits.
RowsOf(o) == {i \in DOMAIN booked : booked[i].pos = o}
PositionLife ==
    \A o \in 1..made.objs :
        Cardinality(RowsOf(o)) = IF positions[obj[o].sym] = o THEN 0 ELSE 1

\* A symbol has a quote or a position, never both: the guards before the
\* contract details are awaited still hold when the quote is placed.
QuoteOrPosition == \A s \in Symbols : quotes[s] = 0 \/ positions[s] = 0

\* What the rows of the ledger after the first n have earned in all.
Earned(n, rows) ==
    LET sum[i \in n .. Len(rows)] == IF i = n THEN 0 ELSE sum[i - 1] + rows[i].pnl
    IN  sum[Len(rows)]

\* The balance is the start plus the pnl of every row booked since, none of
\* which loses more than the margin.
BalanceIsLedger ==
    /\ acct.balance = Earned(acct.base, booked)
    /\ \A i \in DOMAIN booked : booked[i].pnl >= -Margin

\* When the loop has ended a tick, a streak of LossKill losing trades since
\* run has set the kill switch.
Streak(k) ==
    /\ k > 0 /\ Len(booked) - acct.since >= k
    /\ \A i \in Len(booked) - k + 1 .. Len(booked) : booked[i].pnl < 0
KillAfterStreak == (\E l \in Loops : loop[l].pc = "sleep") /\ Streak(LossKill) => ctl.kill

\* Each symbol is idle, quoted or managed as TradeLife has it, whatever the
\* tasks do between their awaits: no quote is placed over a position or after
\* the kill switch, and the balance changes by the trades that close.
Stage(s) == IF positions[s] # 0 THEN "managed" ELSE IF quotes[s] # 0 THEN "quoted" ELSE "idle"

Stages == [s \in Symbols |-> Stage(s)]

Life == INSTANCE TradeLife WITH
            life <- Stages, balance <- acct.balance,
            trades <- Len(booked), killed <- ctl.kill

ImplementsTradeLife == Life!Spec

\* The stop of an open position only moves in favour of the trade.
StopRatchets ==
    [][\A o \in 1..made.objs :
          Dir(obj[o].side) * obj'[o].stop >= Dir(obj[o].side) * obj[o].stop]_vars

\* A pass that meets a position whose stop is hit books it or queues its close,
\* although the stop is moved before it is looked at.
StopIsNeverPassedOver ==
    [][\A l \in Loops, o \in Objs :
          AtPos(l, o) /\ o \notin loop'[l].todo /\ HasBook(o) /\ StopHit(obj[o])
              => obj'[o].pending \/ booked' # booked]_vars

\* A position is closed in the end while the loop runs, killed or not.
PositionsClose == \A s \in Symbols : positions[s] # 0 ~> positions[s] = 0 \/ ctl.stop

\* A quote is filled, cancelled or refused in the end while the loop runs.
QuotesEnd == \A s \in Symbols : quotes[s] # 0 ~> quotes[s] = 0 \/ ctl.stop

===============================================================================
