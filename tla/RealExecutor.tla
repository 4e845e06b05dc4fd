----------------------------- MODULE RealExecutor -----------------------------
(***************************************************************************)
(* The live executor of backend/real.py: from an accepted signal to an     *)
(* order, a position on the venue, a ManagedPosition in memory, the close  *)
(* of that position and the row of the trade ledger.                       *)
(*                                                                         *)
(* Three asyncio tasks share the state:                                    *)
(*   "sig"   the scoring loop, which awaits on_signal for each candidate;  *)
(*   "loop"  RealExecutor.loop: quotes, positions and kill checks per tick;*)
(*   "op"    the HTTP handler running kill_all, run_stop or run.           *)
(* A step is the code between two awaits that really suspend, which are    *)
(* the private REST calls and the sleeps: an uncontended asyncio.Lock,     *)
(* add_log and the position sidecar never yield.  An entry order reaches    *)
(* the venue at any time between its call and the reply; the other calls   *)
(* take effect there when they are sent, and their reply is a later step.  *)
(*                                                                         *)
(* Orders, quotes and ManagedPosition objects are numbered in the order    *)
(* they are made; 0 stands for None.  A venue position is identified by    *)
(* the order that opened it.  Every accepted order fills one unit.  Sides, *)
(* prices and times are left out: the clock only decides WHEN a timeout or *)
(* an exit condition holds, which is a choice here.                        *)
(*                                                                         *)
(* A definition introduced by "Mutant:" is a wrong form of the one after   *)
(* it, which a property must reject; the specification does not use it.    *)
(***************************************************************************)
EXTENDS Naturals, FiniteSets

CONSTANTS
    Symbols,         \* the line's universe (_managed_symbols)
    MaxConcurrent,   \* risk.max_concurrent_positions
    TakerEntry,      \* strategy.taker_entry: IOC/market entry, else limit maker
    Retries,         \* risk.emergency_close_retries
    FillCarriesPid,  \* does the detail of a filled order name its position?
    BadFills,        \* may a fill be below the minimum fill ratio?
    MetaCached,      \* is every contract's detail in _CONTRACT_CACHE?
    AttachStops,     \* does place_stop_by_position answer at all?
    LongCooldown,    \* is risk.cooldown_min longer than a snapshot is used?
    VenueCloses,     \* may the venue close a position itself (stop, hand)?
    FaultKinds,      \* the calls that may fail
    Operations,      \* what the operator and the kill checks may do
    MaxQuotes, MaxOrders, MaxObjs,   \* bounds: quotes, orders, objects made
    MaxFaults, MaxOps                \* bounds: failed calls, operations

ASSUME ConstantsOK ==
    /\ IsFiniteSet(Symbols) /\ Symbols # {}
    /\ MaxConcurrent \in Nat /\ Retries \in Nat \ {0}
    /\ {TakerEntry, FillCarriesPid, BadFills, MetaCached, AttachStops,
        LongCooldown, VenueCloses} \subseteq BOOLEAN
    /\ FaultKinds \subseteq {"fetch", "order", "close", "cancel"}
    /\ Operations \subseteq {"kill_all", "run_stop", "run", "trip"}
    /\ {MaxQuotes, MaxOrders, MaxObjs, MaxFaults, MaxOps} \subseteq Nat

VARIABLES
    order,      \* venue: the orders sent, [sym, st, pid]
    venue,      \* venue: open position per symbol, [pid, units]
    hist,       \* venue: ids of the positions it has closed
    quotes,     \* _quotes: symbol -> pending quote
    quote,      \* the _Quote objects ever made
    positions,  \* state.positions: symbol -> managed object
    obj,        \* the ManagedPosition objects ever made
    closedKeys, \* _closed_position_keys
    missing,    \* _raw_missing_counts
    cache,      \* _positions_cache_raw
    store,      \* managed_positions sidecar: symbol -> record
    attach,     \* running _attach_initial_stop_loss tasks
    ctl,        \* flags of the executor and of AppState
    task,       \* what each task is doing, with its locals
    made,       \* number of quotes, orders and objects made
    faults, ops \* calls failed and operations done so far

vars == <<order, venue, hist, quotes, quote, positions, obj, closedKeys,
          missing, cache, store, attach, ctl, task, made, faults, ops>>

venueVars == <<order, venue, hist>>
quoteVars == <<quotes, quote>>
bookVars  == <<positions, obj, closedKeys, missing, store>>

Tasks  == {"sig", "loop", "op"}
Orders == 1..MaxOrders
Quotes == 1..MaxQuotes
Objs   == 1..MaxObjs
AnySymbol == CHOOSE s \in Symbols : TRUE

(***************************************************************************)
(* Records and their empty values.                                         *)
(***************************************************************************)
Position   == [pid : 0..MaxOrders, units : Nat]
Flat       == [pid |-> 0, units |-> 0]
\* truth is the venue position a raw row comes from (not visible to the code
\* when the row is synthetic), pid the id the row carries.
RawRow     == [pid : 0..MaxOrders, truth : 0..MaxOrders, units : Nat]
NoRaw      == [pid |-> 0, truth |-> 0, units |-> 0]
\* A positions snapshot; upto is the number of objects made when it was read.
Snapshot   == [ok : BOOLEAN, upto : 0..MaxObjs, pos : [Symbols -> Position]]
NoSnap     == [ok |-> FALSE, upto |-> 0, pos |-> [s \in Symbols |-> Flat]]
Record     == [pid : 0..MaxOrders, closed : BOOLEAN, kept : BOOLEAN]
NoRecord   == [pid |-> 0, closed |-> FALSE, kept |-> FALSE]
CloseKeys  == [kind : {"pid", "managed"}, id : Nat]
NoKey      == [kind |-> "none", id |-> 0]
NoOrder    == [sym |-> AnySymbol, st |-> "none", pid |-> 0]
NoQuote    == [sym |-> AnySymbol, st |-> "armed", ord |-> 0, mat |-> FALSE,
               syn |-> NoRaw, stray |-> FALSE]
NoObj      == [sym |-> AnySymbol, pid |-> 0, truth |-> 0, qty |-> 0,
               pnl |-> FALSE, closed |-> FALSE, reason |-> "none",
               key |-> NoKey]
IdleTask   == [pc |-> "idle", then |-> "idle", why |-> "none", q |-> 0,
               o |-> 0, raw |-> NoRaw, snap |-> NoSnap, todo |-> {},
               syms |-> {}, left |-> 0]


ShuttingDown == ctl.stop \/ ctl.emergency \/ ~ctl.running
Managed      == {s \in Symbols : positions[s] # 0}
SymOf(n)     == quote[n].sym

Init ==
    /\ order = [m \in Orders |-> NoOrder]
    /\ venue = [s \in Symbols |-> Flat]
    /\ hist = {}
    /\ quotes = [s \in Symbols |-> 0]
    /\ quote = [n \in Quotes |-> NoQuote]
    /\ positions = [s \in Symbols |-> 0]
    /\ obj = [o \in Objs |-> NoObj]
    /\ closedKeys = {}
    /\ missing = [s \in Symbols |-> 0]
    /\ cache = NoSnap
    /\ store = [s \in Symbols |-> NoRecord]
    /\ attach = {}
    /\ ctl = [stop |-> FALSE, emergency |-> FALSE, lock |-> FALSE,
              running |-> TRUE, kill |-> FALSE, cleanup |-> FALSE]
    /\ task = [t \in Tasks |-> IF t = "loop" THEN [IdleTask EXCEPT !.pc = "start"]
                                           ELSE IdleTask]
    /\ made = [quotes |-> 0, orders |-> 0, objs |-> 0]
    /\ faults = 0
    /\ ops = 0

(***************************************************************************)
(* Helpers.  Fault(k): a call of kind k fails.  Goto and Back move a task; *)
(* Back is the return of the awaited coroutine to its caller.              *)
(***************************************************************************)
Fault(k) == k \in FaultKinds /\ faults < MaxFaults /\ faults' = faults + 1

\* Awaiting a contract's detail does not yield while the detail is cached: the
\* task runs on to its next REST call before any other does.
RunsOn(t) ==
    /\ MetaCached
    /\ \/ task[t].pc \in {"tick", "submit", "open"}
       \/ task[t].pc = "adopt" /\ task[t].q # 0
Quiet     == \A t \in Tasks : ~RunsOn(t)
At(t, pc) == task[t].pc = pc /\ \A u \in Tasks \ {t} : ~RunsOn(u)

Goto(t, pc) == task' = [task EXCEPT ![t].pc = pc]
Return(T)   == [T EXCEPT !.pc = T.then, !.q = 0, !.o = 0, !.raw = NoRaw,
                         !.left = 0]
Back(t)     == task' = [task EXCEPT ![t] = Return(@)]

FreshSnap == [ok |-> TRUE, upto |-> made.objs, pos |-> venue]
RowOf(p)  == [pid |-> p.pid, truth |-> p.pid, units |-> p.units]

(* _get_positions_raw_cached.  A young enough cache is returned as it is,  *)
(* and so is any cache while the venue rate-limits the call; otherwise the *)
(* venue is read, or the call fails and NoSnap stands for the exception.   *)
Fetched(snap)  == snap = FreshSnap /\ cache' = snap /\ UNCHANGED faults
CacheHit(snap) == cache.ok /\ snap = cache /\ UNCHANGED <<cache, faults>>
FetchFails(snap) == Fault("fetch") /\ snap = NoSnap /\ UNCHANGED cache
PositionsCached(snap) == Fetched(snap) \/ CacheHit(snap) \/ FetchFails(snap)
\* force, max_age 0, min_interval 0: only a rate limit leaves the old cache.
PositionsForced(snap) ==
    \/ Fetched(snap)
    \/ FetchFails(snap)
    \/ Fault("fetch") /\ cache.ok /\ snap = cache /\ UNCHANGED cache
Snaps == {FreshSnap, cache, NoSnap}

(***************************************************************************)
(* The venue.                                                              *)
(***************************************************************************)
VenueAccept(m) ==
    /\ Quiet /\ order[m].st = "sent"
    /\ order' = [order EXCEPT ![m].st = "live"]
    /\ UNCHANGED <<venue, hist, quoteVars, bookVars, cache, attach, ctl, task,
                   made, faults, ops>>

VenueFill(m) ==
    LET s == order[m].sym
        pid == IF venue[s].units = 0 THEN m ELSE venue[s].pid IN
    /\ Quiet /\ order[m].st = "live"
    /\ order' = [order EXCEPT ![m] = [@ EXCEPT !.st = "filled", !.pid = pid]]
    /\ venue' = [venue EXCEPT ![s] = [pid |-> pid, units |-> @.units + 1]]
    /\ UNCHANGED <<hist, quoteVars, bookVars, cache, attach, ctl, task, made,
                   faults, ops>>

\* An IOC or market order that finds no liquidity ends unfilled.
VenueExpire(m) ==
    /\ Quiet /\ TakerEntry /\ order[m].st = "live"
    /\ order' = [order EXCEPT ![m].st = "dead"]
    /\ UNCHANGED <<venue, hist, quoteVars, bookVars, cache, attach, ctl, task,
                   made, faults, ops>>

\* A close order for vol units, by position id when the caller names one.
VenueTakesClose(s, pid, vol) ==
    /\ venue[s].units > 0 /\ pid \in {0, venue[s].pid}
    /\ IF vol >= venue[s].units
       THEN /\ venue' = [venue EXCEPT ![s] = Flat]
            /\ hist' = hist \cup {venue[s].pid}
       ELSE /\ venue' = [venue EXCEPT ![s].units = @ - vol]
            /\ UNCHANGED hist
    /\ UNCHANGED order

VenueRefusesClose(s, pid) ==
    venue[s].units = 0 \/ pid \notin {0, venue[s].pid}

\* The position's stop fires, or it is closed by hand.
VenueClose(s) ==
    /\ Quiet /\ VenueCloses
    /\ VenueTakesClose(s, 0, venue[s].units)
    /\ UNCHANGED <<quoteVars, bookVars, cache, attach, ctl, task, made, faults, ops>>

(***************************************************************************)
(* Entry: on_signal, _maybe_place_quote, _submit_due_taker_quote.          *)
(***************************************************************************)
\* The last trade of the symbol is over by more than its cooldown: at any time
\* when the cooldown is short, not before the last snapshot showing the closed
\* position is out of use when it is long.
CooledDown(s) ==
    LongCooldown =>
      \A snap \in {cache} \cup {task[t].snap : t \in Tasks} :
        \A o \in Objs : obj[o].closed /\ obj[o].sym = s =>
            snap.pos[s].units = 0 \/ snap.pos[s].pid # obj[o].truth

\* The guards of on_signal and _maybe_place_quote and those of
\* CapitalAllocator.decide that are not amounts of money.  The executor then
\* awaits _tick_size.
DecideIf(s, free) ==
    /\ At("sig", "idle") /\ made.quotes < MaxQuotes
    /\ ~ShuttingDown
    /\ free
    /\ cache.ok /\ CooledDown(s)
    /\ ~ctl.kill /\ Cardinality(Managed) < MaxConcurrent
    /\ LET n == made.quotes + 1 IN
       /\ made' = [made EXCEPT !.quotes = n]
       /\ quote' = [quote EXCEPT ![n].sym = s]
       /\ task' = [task EXCEPT !["sig"] = [@ EXCEPT !.pc = "tick", !.q = n]]
    /\ UNCHANGED <<venueVars, quotes, bookVars, cache, attach, ctl, faults, ops>>

\* Mutant: a pending quote does not hold the symbol.
DecideOverQuote(s) == DecideIf(s, positions[s] = 0)

Decide(s) == DecideIf(s, quotes[s] = 0 /\ positions[s] = 0)

\* stray, for the properties only: _quotes is handled by symbol, so that a task
\* may act on a quote when the symbol's entry, k, is gone or is another quote.
Astray(n, k, fine) == quote[n].stray \/ k \notin fine

\* _submit_due_taker_quote up to its first await.  armed is _quotes with the
\* quote still in it, T the task as it stands: shutting down, a stale signal or
\* a bad price drop the quote; a missing book leaves it armed for the loop.
SubmitIf(t, n, armed, T, open) ==
    LET k == armed[SymOf(n)]
        Q(st, fine) == [quote EXCEPT ![n] = [quote[n] EXCEPT !.st = st,
                           !.stray = Astray(n, k, fine)]] IN
    /\ \/ /\ quotes' = [armed EXCEPT ![SymOf(n)] = 0]
          /\ quote' = Q("armed", {0, n})
          /\ task' = [task EXCEPT ![t] = Return(T)]
       \/ /\ open
          /\ quotes' = armed
          /\ quote' = Q("armed", {k})
          /\ task' = [task EXCEPT ![t] = Return(T)]
       \/ /\ open
          /\ quotes' = armed
          /\ quote' = Q("inflight", {n})
          /\ task' = [task EXCEPT ![t] = [T EXCEPT !.pc = "submit", !.q = n]]
    /\ UNCHANGED <<venueVars, bookVars, cache, attach, ctl, made, faults, ops>>

\* Mutant: the submission does not look at the flags again.
SubmitUnchecked(t, n, armed, T) == SubmitIf(t, n, armed, T, TRUE)

SubmitHead(t, n, armed, T) == SubmitIf(t, n, armed, T, ~ShuttingDown)

ArmTaker ==
    LET n == task["sig"].q IN
    /\ TakerEntry /\ At("sig", "tick")
    /\ SubmitHead("sig", n, [quotes EXCEPT ![SymOf(n)] = n], task["sig"])

Drop(t, n) ==
    /\ quotes' = [quotes EXCEPT ![SymOf(n)] = 0]
    /\ quote' = [quote EXCEPT ![n].st = "armed"]
    /\ Back(t)

\* After the second _tick_size: the fair-value check may refuse the price.
SubmitRefused(t) ==
    /\ At(t, "submit")
    /\ Drop(t, task[t].q)
    /\ UNCHANGED <<venueVars, bookVars, cache, attach, ctl, made, faults, ops>>

\* The order leaves for the venue: taker from "submit", maker straight from
\* the await of _tick_size, neither of them looking at the flags again.
Send(t) ==
    LET n == task[t].q  m == made.orders + 1 IN
    /\ At(t, IF TakerEntry THEN "submit" ELSE "tick")
    /\ made.orders < MaxOrders
    /\ made' = [made EXCEPT !.orders = m]
    /\ quote' = [quote EXCEPT ![n].ord = m]
    /\ order' = [order EXCEPT ![m] = [sym |-> SymOf(n), st |-> "sent", pid |-> 0]]
    /\ Goto(t, "ack")
    /\ UNCHANGED <<venue, hist, quotes, bookVars, cache, attach, ctl, faults, ops>>

\* The venue rejects the order, or the call raises whatever becomes of it.
NotAcked(t) ==
    LET n == task[t].q  m == quote[n].ord
        dead == [order EXCEPT ![m].st = "dead"] IN
    /\ At(t, "ack")
    /\ \/ order[m].st = "sent" /\ order' = dead /\ UNCHANGED faults
       \/ Fault("order") /\ UNCHANGED order
    /\ IF TakerEntry THEN Drop(t, n) ELSE Back(t) /\ UNCHANGED quoteVars
    /\ UNCHANGED <<venue, hist, bookVars, cache, attach, ctl, made, ops>>

AckMaker ==
    LET n == task["sig"].q IN
    /\ ~TakerEntry /\ At("sig", "ack") /\ order[quote[n].ord].st # "sent"
    /\ quotes' = [quotes EXCEPT ![SymOf(n)] = n]
    /\ quote' = [quote EXCEPT ![n].st = "acked"]
    /\ Back("sig")
    /\ UNCHANGED <<venueVars, bookVars, cache, attach, ctl, made, faults, ops>>

(***************************************************************************)
(* From an acknowledged quote to a managed position:                       *)
(* _materialize_filled_quote and _open_position_from_exchange.             *)
(***************************************************************************)
\* A raw row is in hand: the quote goes, and an open managed position of the
\* symbol makes the row superfluous.  Otherwise _open_position_from_exchange
\* awaits the contract's details.  q' gives the quote's new fields.
OpenFrom(t, n, row, q) ==
    LET s == SymOf(n)
        had == positions[s] # 0 /\ ~obj[positions[s]].closed IN
    /\ quotes' = [quotes EXCEPT ![s] = 0]
    /\ quote' = [quote EXCEPT ![n] = [q EXCEPT !.mat = ~had]]
    /\ task' = [task EXCEPT ![t] = IF had THEN Return(@)
                  ELSE [@ EXCEPT !.pc = "open", !.q = n, !.raw = row]]

\* The acknowledgement, with the order's detail when it shows a fill.
SyntheticRows(m) ==
    {NoRaw} \cup
    IF order[m].st # "filled" THEN {}
    ELSE {[pid |-> IF FillCarriesPid THEN order[m].pid ELSE 0,
           truth |-> order[m].pid, units |-> 1]}

AckTaker(t) ==
    LET n == task[t].q
        q(row) == [quote[n] EXCEPT !.st = "acked", !.syn = row] IN
    /\ TakerEntry /\ At(t, "ack") /\ order[quote[n].ord].st # "sent"
    /\ \E row \in SyntheticRows(quote[n].ord) :
         IF row # NoRaw
         THEN OpenFrom(t, n, row, q(row))
         ELSE /\ quote' = [quote EXCEPT ![n] = [q(row) EXCEPT !.mat = TRUE]]
              /\ Goto(t, "find")
              /\ UNCHANGED quotes
    /\ UNCHANGED <<venueVars, bookVars, cache, attach, ctl, made, faults, ops>>

\* _find_position: the private stream, then a forced snapshot no younger than
\* a floor; the last of its tries decides.
Find(t) ==
    LET n == task[t].q  s == SymOf(n) IN
    /\ At(t, "find")
    /\ \E snap \in Snaps :
         /\ PositionsCached(snap)
         /\ IF snap.pos[s].units > 0
            THEN OpenFrom(t, n, RowOf(snap.pos[s]), quote[n])
            ELSE /\ quote' = [quote EXCEPT ![n].mat = FALSE]
                 /\ Back(t)
                 /\ UNCHANGED quotes
    /\ UNCHANGED <<venueVars, bookVars, attach, ctl, made, ops>>

\* A new ManagedPosition for row is put in state.positions and persisted; pnl
\* says that a profit reported by the venue comes with it.
Adopt(s, row, pnl, closed) ==
    LET o == made.objs + 1 IN
    /\ made.objs < MaxObjs
    /\ made' = [made EXCEPT !.objs = o]
    /\ obj' = [obj EXCEPT ![o] = [NoObj EXCEPT !.sym = s, !.pid = row.pid,
                 !.truth = row.truth, !.qty = row.units, !.pnl = pnl,
                 !.closed = closed]]
    /\ positions' = [positions EXCEPT ![s] = o]
    /\ store' = [store EXCEPT ![s] = [pid |-> row.pid, closed |-> closed, kept |-> TRUE]]
    /\ missing' = [missing EXCEPT ![s] = 0]
    /\ UNCHANGED closedKeys

StartAttach(s, pid, wanted) ==
    attach' = IF wanted /\ pid # 0 /\ AttachStops THEN attach \cup {<<s, pid>>}
                                                 ELSE attach

\* The position is managed; a fill below the minimum ratio is closed at once.
OpenDone(t) ==
    LET n == task[t].q  row == task[t].raw IN
    /\ At(t, "open")
    /\ Adopt(SymOf(n), row, FALSE, FALSE)
    /\ StartAttach(SymOf(n), row.pid, TRUE)
    /\ quote' = [quote EXCEPT ![n].mat = FALSE]
    /\ \/ Back(t)
       \/ /\ BadFills
          /\ task' = [task EXCEPT ![t] = [@ EXCEPT !.pc = "close",
                        !.o = made.objs + 1, !.left = 3]]
    /\ UNCHANGED <<venueVars, quotes, cache, ctl, faults, ops>>

\* _attach_initial_stop_loss, a task of its own, stamps its position id on
\* whatever open position the symbol has when the venue answers; the venue may
\* also refuse the stop.
AttachDone(s, pid) ==
    LET o == positions[s] IN
    /\ Quiet /\ <<s, pid>> \in attach
    /\ attach' = attach \ {<<s, pid>>}
    /\ \E placed \in BOOLEAN :
       IF placed /\ o # 0 /\ ~obj[o].closed
       THEN /\ obj' = [obj EXCEPT ![o].pid = pid]
            /\ store' = [store EXCEPT ![s] = [pid |-> pid, closed |-> FALSE, kept |-> TRUE]]
       ELSE UNCHANGED <<obj, store>>
    /\ UNCHANGED <<venueVars, quoteVars, positions, closedKeys, missing, cache,
                   ctl, task, made, faults, ops>>

(***************************************************************************)
(* The executor loop: loop, _tick.                                         *)
(***************************************************************************)
\* init_balance: the first, forced, positions snapshot.
LoopStart ==
    /\ At("loop", "start")
    /\ \E snap \in Snaps : PositionsForced(snap)
    /\ Goto("loop", "idle")
    /\ UNCHANGED <<venueVars, quoteVars, bookVars, attach, ctl, made, ops>>

\* A tick begins, and refreshes the balance first.
LoopTick ==
    /\ At("loop", "idle") /\ ~ctl.stop /\ ~ctl.emergency
    /\ Goto("loop", "balance")
    /\ UNCHANGED <<venueVars, quoteVars, bookVars, cache, attach, ctl, made, faults, ops>>

(***************************************************************************)
(* _reconcile_quotes works through a copy of _quotes taken at the start.   *)
(* Other tasks may run between two items of a pass, as they do while an    *)
(* item of another symbol awaits its calls: one symbol is enough for that. *)
(***************************************************************************)
LoopQuotes ==
    /\ At("loop", "balance")
    /\ task' = [task EXCEPT !["loop"] = [@ EXCEPT !.pc = "quotes",
         !.then = "quotes", !.todo = {quotes[s] : s \in Symbols} \ {0}]]
    /\ UNCHANGED <<venueVars, quoteVars, bookVars, cache, attach, ctl, made, faults, ops>>

\* A quote not yet acknowledged is submitted from here if it is armed; one in
\* flight is another task's, and only shutting down drops it.
LoopQuoteUnsent(n) ==
    LET T == [task["loop"] EXCEPT !.todo = @ \ {n}] IN
    /\ At("loop", "quotes") /\ n \in task["loop"].todo
    /\ \/ quote[n].st = "armed" /\ SubmitHead("loop", n, quotes, T)
       \/ /\ quote[n].st = "inflight"
          /\ task' = [task EXCEPT !["loop"] = T]
          /\ quotes' = IF ShuttingDown THEN [quotes EXCEPT ![SymOf(n)] = 0]
                                       ELSE quotes
          /\ UNCHANGED <<venueVars, quote, bookVars, cache, attach, ctl, made,
                         faults, ops>>

\* _is_quote_filled asks the private stream, the positions snapshot and, not
\* more often than its intervals allow, the order itself.
LoopQuoteAsk(n) ==
    /\ At("loop", "quotes") /\ n \in task["loop"].todo
    /\ quote[n].st = "acked"
    /\ task' = [task EXCEPT !["loop"] =
                   [@ EXCEPT !.todo = task["loop"].todo \ {n}, !.pc = "check", !.q = n]]
    /\ UNCHANGED <<venueVars, quoteVars, bookVars, cache, attach, ctl, made, faults, ops>>

\* Filled: _materialize_filled_quote, unless another task is already at it.
LoopQuoteFilled ==
    LET n == task["loop"].q IN
    /\ At("loop", "check")
    /\ \E snap \in Snaps :
         /\ PositionsCached(snap)
         /\ \/ snap.pos[SymOf(n)].units > 0
            \/ order[quote[n].ord].st = "filled"
    /\ IF quote[n].mat THEN Back("loop") /\ UNCHANGED quoteVars
       ELSE IF quote[n].syn # NoRaw
       THEN OpenFrom("loop", n, quote[n].syn, quote[n])
       ELSE /\ quote' = [quote EXCEPT ![n].mat = TRUE]
            /\ Goto("loop", "find")
            /\ UNCHANGED quotes
    /\ UNCHANGED <<venueVars, bookVars, attach, ctl, made, ops>>

\* The symbol's entry goes, whichever quote it holds by now.
DropEntry(n) ==
    /\ quotes' = [quotes EXCEPT ![SymOf(n)] = 0]
    /\ quote' = [quote EXCEPT ![n].stray = Astray(n, quotes[SymOf(n)], {0, n})]

\* No fill in sight.  The order query may show the order dead, which drops the
\* quote; then the tick may go on, or cancel, on a collapsed z-score, a timeout
\* or a stale signal.  An IOC quote is cancelled only past its
\* confirmation deadline, which is longer than both an IOC order and a cached
\* snapshot live.
LoopQuoteUnfilled ==
    LET n == task["loop"].q IN
    /\ At("loop", "check")
    /\ \E snap \in Snaps :
         /\ PositionsCached(snap)
         /\ snap.pos[SymOf(n)].units = 0
         /\ \/ UNCHANGED quoteVars
            \/ /\ order[quote[n].ord].st = "dead"
               /\ DropEntry(n)
         /\ \/ Back("loop")
            \/ /\ TakerEntry => /\ order[quote[n].ord].st # "live"
                                /\ snap \in {FreshSnap, NoSnap}
               /\ Goto("loop", "cancel")
    /\ UNCHANGED <<venueVars, bookVars, attach, ctl, made, ops>>

\* cancel_all_for(symbol), whose outcome is not looked at; then the quote goes.
CancelOrders(s) ==
    \/ /\ order' = [m \in Orders |->
                      IF order[m].sym = s /\ order[m].st = "live"
                      THEN [order[m] EXCEPT !.st = "dead"] ELSE order[m]]
       /\ UNCHANGED faults
    \/ Fault("cancel") /\ UNCHANGED order

LoopCancel ==
    LET n == task["loop"].q IN
    /\ At("loop", "cancel")
    /\ CancelOrders(SymOf(n))
    /\ DropEntry(n)
    /\ Back("loop")
    /\ UNCHANGED <<venue, hist, bookVars, cache, attach, ctl, made, ops>>

(***************************************************************************)
(* _reconcile_positions: a snapshot, then _recover_untracked_positions,    *)
(* then every managed position.                                            *)
(***************************************************************************)
LoopSnapshot ==
    /\ At("loop", "quotes") /\ task["loop"].todo = {}
    /\ \E snap \in Snaps :
         /\ PositionsCached(snap)
         /\ task' = [task EXCEPT !["loop"] = [@ EXCEPT !.pc = "recover",
              !.then = "recover", !.snap = snap,
              !.syms = {s \in Symbols : snap.pos[s].units > 0}]]
    /\ UNCHANGED <<venueVars, quoteVars, bookVars, attach, ctl, made, ops>>

\* A position of the snapshot that nothing manages: the symbol's pending quote
\* is taken for it, and its metrics or contract details are awaited.
RecoverUnless(s, known) ==
    LET T == [task["loop"] EXCEPT !.syms = @ \ {s}] IN
    /\ At("loop", "recover") /\ s \in task["loop"].syms
    /\ IF known
       THEN task' = [task EXCEPT !["loop"] = T] /\ UNCHANGED quotes
       ELSE /\ quotes' = [quotes EXCEPT ![s] = 0]
            /\ task' = [task EXCEPT !["loop"] = [T EXCEPT !.pc = "adopt",
                 !.q = quotes[s], !.raw = RowOf(T.snap.pos[s])]]
    /\ UNCHANGED <<venueVars, quote, bookVars, cache, attach, ctl, made, faults, ops>>

\* Mutant: a position is recovered only when a pending quote explains it.
RecoverQuotedOnly(s) == RecoverUnless(s, positions[s] # 0 \/ quotes[s] = 0)

LoopRecover(s) == RecoverUnless(s, positions[s] # 0)

\* Without a quote a persisted record of the same position (by side, id, open
\* time and entry price) is revived, closed flag included, and its stop is
\* attached if it has none; one that does not match is overwritten.
LoopAdopt ==
    LET T == task["loop"]  row == T.raw  s == order[row.pid].sym
        revived == T.q = 0 /\ store[s].kept /\ store[s].pid \in {0, row.pid} IN
    /\ At("loop", "adopt")
    /\ Adopt(s, row, T.q = 0, revived /\ store[s].closed)
    /\ \E wanted \in IF T.q # 0 THEN {TRUE} ELSE {FALSE, revived} :
         StartAttach(s, row.pid, wanted)
    /\ Back("loop")
    /\ UNCHANGED <<venueVars, quoteVars, cache, ctl, faults, ops>>

\* position_metrics has no answer: the position stays unmanaged this tick.
LoopAdoptFails ==
    /\ At("loop", "adopt") /\ task["loop"].q = 0
    /\ Fault("fetch")
    /\ Back("loop")
    /\ UNCHANGED <<venueVars, quoteVars, bookVars, cache, attach, ctl, made, ops>>

ManageAll(symbols) ==
    /\ At("loop", "recover") /\ task["loop"].syms = {}
    /\ task' = [task EXCEPT !["loop"] = [@ EXCEPT !.pc = "manage",
         !.then = "manage", !.todo = {positions[s] : s \in symbols}]]
    /\ UNCHANGED <<venueVars, quoteVars, bookVars, cache, attach, ctl, made, faults, ops>>

\* Mutant: only the positions that the snapshot shows are gone through.
ManageSeen == ManageAll({s \in Managed : task["loop"].snap.pos[s].units > 0})

LoopRecovered == ManageAll(Managed)

(***************************************************************************)
(* One managed position, as it was when the tick began.                    *)
(***************************************************************************)
\* The row of the snapshot; a failed refresh or a first miss makes one up
\* from the object, without a position id.
Seen(o)    == task["loop"].snap.pos[obj[o].sym].units > 0
MadeUp(o)  == [pid |-> 0, truth |-> 0, units |-> obj[o].qty]
Misses(o)  == ~Seen(o) /\ task["loop"].snap.ok

\* The row updates the miss count and the reported profit; T is the task then.
ManageBelow(limit, o, T) ==
    LET s == obj[o].sym IN
    /\ At("loop", "manage") /\ o \in task["loop"].todo
    /\ Misses(o) => missing[s] + 1 < limit
    /\ missing' = [missing EXCEPT ![s] = IF Misses(o) THEN @ + 1
                                         ELSE IF Seen(o) THEN 0 ELSE @]
    /\ obj' = [obj EXCEPT ![o].pnl = @ \/ Seen(o)]
    /\ task' = [task EXCEPT !["loop"] = [T EXCEPT !.todo = T.todo \ {o}]]
    /\ UNCHANGED <<venueVars, quoteVars, positions, closedKeys, cache, attach,
                   ctl, made, faults, ops>>

\* Mutant: the third miss is the confirmation.
ManageUntilThird(o, T) == ManageBelow(3, o, T)

Manage(o, T) == ManageBelow(2, o, T)

\* _persist_managed_position writes the object as it is, managed still or not.
Persisted(o) == [store EXCEPT ![obj[o].sym] =
                    [pid |-> obj[o].pid, closed |-> obj[o].closed, kept |-> TRUE]]

\* No exit rule holds; without a book nothing is persisted either.
LoopHold(o) == /\ Manage(o, task["loop"])
               /\ store' \in {store, Persisted(o)}

\* No exit rule holds and the stop plan is to be moved on the venue.
LoopMove(o) == /\ Manage(o, [task["loop"] EXCEPT !.pc = "trail", !.o = o])
               /\ UNCHANGED store

\* An exit rule holds: time, loss cap, take profit and the others.
LoopRule(o) ==
    /\ Manage(o, [task["loop"] EXCEPT !.pc = "close", !.o = o, !.left = 3,
         !.raw = IF Seen(o) THEN RowOf(task["loop"].snap.pos[obj[o].sym])
                            ELSE MadeUp(o)])
    /\ UNCHANGED store

\* The venue has answered about the stop plan.
LoopTrail ==
    LET o == task["loop"].o IN
    /\ At("loop", "trail")
    /\ store' = Persisted(o)
    /\ Back("loop")
    /\ UNCHANGED <<venueVars, quoteVars, positions, obj, closedKeys, missing,
                   cache, attach, ctl, made, faults, ops>>

\* The second snapshot in a row without the position: look for its close.
LoopMissing(o) ==
    LET s == obj[o].sym IN
    /\ At("loop", "manage") /\ o \in task["loop"].todo
    /\ Misses(o) /\ missing[s] = 1
    /\ missing' = [missing EXCEPT ![s] = 0]
    /\ task' = [task EXCEPT !["loop"] =
         [@ EXCEPT !.pc = "history", !.todo = task["loop"].todo \ {o}, !.o = o]]
    /\ UNCHANGED <<venueVars, quoteVars, positions, obj, closedKeys, store, cache,
                   attach, ctl, made, faults, ops>>

(***************************************************************************)
(* _resolve_external_close_details and _mark_closed_externally.            *)
(***************************************************************************)
\* The rows of the venue's history that _history_match_score accepts; 0 when
\* the history is not there yet.
HistoryIds(o) ==
    {0} \cup {p \in hist : /\ order[p].sym = obj[o].sym /\ p >= obj[o].truth
                          /\ obj[o].pid \in {0, p}}

\* Mutant: the key ignores the venue's position id.
CloseKeyManaged(o, pid) == [kind |-> "managed", id |-> o]

CloseKey(o, pid) == IF pid # 0 THEN [kind |-> "pid", id |-> pid]
                               ELSE [kind |-> "managed", id |-> o]

\* The symbol's entry goes, whichever object it holds.
Release(s) ==
    /\ positions' = [positions EXCEPT ![s] = 0]
    /\ missing' = [missing EXCEPT ![s] = 0]
    /\ store' = [store EXCEPT ![s] = NoRecord]

Book(o, pid, why) ==
    /\ closedKeys' = closedKeys \cup {CloseKey(o, pid)}
    /\ obj' = [obj EXCEPT ![o] = [@ EXCEPT !.pid = pid, !.closed = TRUE,
                 !.reason = why, !.key = CloseKey(o, pid)]]

\* Mutant: nothing is a duplicate.
DuplicateNever(o, pid) == FALSE

Duplicate(o, pid) == obj[o].closed \/ CloseKey(o, pid) \in closedKeys

\* The object is booked under its key; a duplicate close only frees the symbol.
\* id is the position id that the history gave, if any.
MarkClosed(o, id, why) ==
    LET pid == IF id # 0 THEN id ELSE obj[o].pid IN
    /\ Release(obj[o].sym)
    /\ IF Duplicate(o, pid)
       THEN obj' = [obj EXCEPT ![o].pid = pid] /\ UNCHANGED closedKeys
       ELSE Book(o, pid, why)

\* In the loop a close without a history row waits until the position has been
\* missing for 8 s, longer than any snapshot is used for, unless the venue
\* had reported a profit for it.
Vanished(ids) ==
    LET o == task["loop"].o IN
    /\ At("loop", "history")
    /\ \/ \E id \in ids : MarkClosed(o, id, "exchange_close")
       \/ ~obj[o].pnl /\ UNCHANGED bookVars
    /\ Back("loop")
    /\ UNCHANGED <<venueVars, quoteVars, cache, attach, ctl, made, faults, ops>>

\* Mutant: a close without a history row is accepted at once.
VanishedAtOnce == Vanished(HistoryIds(task["loop"].o))

\* Mutant: a vanished position is forgotten, not booked.
VanishedForgotten ==
    /\ At("loop", "history")
    /\ Release(obj[task["loop"].o].sym)
    /\ Back("loop")
    /\ UNCHANGED <<venueVars, quoteVars, obj, closedKeys, cache, attach, ctl,
                   made, faults, ops>>

LoopVanished ==
    LET o == task["loop"].o
        longGone == obj[o].pnl \/ o <= task["loop"].snap.upto IN
    Vanished(IF longGone THEN HistoryIds(o) ELSE HistoryIds(o) \ {0})

(***************************************************************************)
(* _close_market: up to three reduce-only orders, then the bookkeeping.    *)
(***************************************************************************)
CloseVol(t) == IF task[t].raw.units > 0 THEN task[t].raw.units
                                       ELSE obj[task[t].o].qty
ClosePid(t) == IF task[t].raw.pid # 0 THEN task[t].raw.pid
                                     ELSE obj[task[t].o].pid

\* The order is sent; left = 0 after the third one, whose failure is final.
CloseSend(t) ==
    LET s == obj[task[t].o].sym IN
    /\ At(t, "close")
    /\ \/ /\ VenueTakesClose(s, ClosePid(t), CloseVol(t))
          /\ task' = [task EXCEPT ![t] = [@ EXCEPT !.pc = "closing",
                                                    !.left = task[t].left - 1]]
          /\ UNCHANGED faults
       \/ /\ VenueRefusesClose(s, ClosePid(t))
          /\ Back(t)
          /\ UNCHANGED <<venueVars, faults>>
       \/ /\ Fault("close")
          /\ task' = [task EXCEPT ![t] = IF @.left = 1 THEN Return(@)
                                         ELSE [@ EXCEPT !.left = task[t].left - 1]]
          /\ UNCHANGED venueVars
    /\ UNCHANGED <<quoteVars, bookVars, cache, attach, ctl, made, ops>>

\* The reply to an order the venue has carried out; if it is lost the executor
\* tries again.
CloseReply(t) ==
    /\ At(t, "closing")
    /\ \/ Goto(t, "resolve") /\ UNCHANGED faults
       \/ /\ Fault("close")
          /\ task' = [task EXCEPT ![t] = IF @.left = 0 THEN Return(@)
                                         ELSE [@ EXCEPT !.pc = "close"]]
    /\ UNCHANGED <<venueVars, quoteVars, bookVars, cache, attach, ctl, made, ops>>

CloseBook(t) ==
    /\ At(t, "resolve")
    /\ \E id \in HistoryIds(task[t].o) : MarkClosed(task[t].o, id, "exit")
    /\ Back(t)
    /\ UNCHANGED <<venueVars, quoteVars, cache, attach, ctl, made, faults, ops>>

(***************************************************************************)
(* _emergency_flatten_all, run by the operator's request or by the loop.   *)
(***************************************************************************)
\* A free lock is taken without yielding; c is ctl as the caller leaves it, T
\* its task.
Flatten(t, T, c) ==
    /\ ctl' = [c EXCEPT !.lock = TRUE, !.emergency = TRUE]
    /\ task' = [task EXCEPT ![t] = [T EXCEPT !.pc = "flatcancel",
         !.left = Retries, !.syms = {s \in Symbols : quotes[s] # 0}]]

\* Mutant: no lock.
EnterUnlocked(t, T, c) == Flatten(t, T, c)

EnterFlatten(t, T, c) ==
    IF c.lock
    THEN ctl' = c /\ task' = [task EXCEPT ![t] = [T EXCEPT !.pc = "lock"]]
    ELSE Flatten(t, T, c)

FlattenLock(t) ==
    /\ At(t, "lock") /\ ~ctl.lock
    /\ EnterFlatten(t, task[t], ctl)
    /\ UNCHANGED <<venueVars, quoteVars, bookVars, cache, attach, made, faults, ops>>

FlattenCancel(t, s) ==
    /\ At(t, "flatcancel") /\ s \in task[t].syms
    /\ CancelOrders(s)
    /\ quotes' = [quotes EXCEPT ![s] = 0]
    /\ task' = [task EXCEPT ![t].syms = @ \ {s}]
    /\ UNCHANGED <<venue, hist, quote, bookVars, cache, attach, ctl, made, ops>>

\* An attempt begins: what the venue holds, completed with what is managed
\* here; with neither there is nothing left to close.
FlattenSnapshot(t) ==
    /\ \/ At(t, "flatcancel") /\ task[t].syms = {}
       \/ At(t, "flatsnap")
    /\ \E snap \in Snaps :
         LET row(s) == IF snap.pos[s].units > 0 \/ positions[s] = 0 THEN snap.pos[s]
                       ELSE [pid |-> 0, units |-> obj[positions[s]].qty]
             left == {s \in Symbols : row(s).units > 0} IN
         /\ PositionsForced(snap)
         /\ task' = [task EXCEPT ![t] = [@ EXCEPT
              !.pc = IF left = {} THEN "flatfinal" ELSE "flatclose", !.syms = left,
              !.snap = [snap EXCEPT !.pos = [s \in Symbols |-> row(s)]]]]
    /\ UNCHANGED <<venueVars, quoteVars, bookVars, attach, ctl, made, ops>>

\* One reduce-only order per symbol; its reply is only logged.
FlattenClose(t, s) ==
    LET row == task[t].snap.pos[s]
        pid == IF row.pid = 0 /\ positions[s] # 0 THEN obj[positions[s]].pid ELSE row.pid
    IN
    /\ At(t, "flatclose") /\ s \in task[t].syms
    /\ \/ VenueTakesClose(s, pid, row.units) /\ UNCHANGED faults
       \/ VenueRefusesClose(s, pid) /\ UNCHANGED <<venueVars, faults>>
       \/ Fault("close") /\ UNCHANGED venueVars
    /\ task' = [task EXCEPT ![t].syms = @ \ {s}]
    /\ UNCHANGED <<quoteVars, bookVars, cache, attach, ctl, made, ops>>

\* After a pause, the managed positions that a second look does not show; a
\* look that fails shows nothing.
FlattenCheck(t) ==
    /\ At(t, "flatclose") /\ task[t].syms = {}
    /\ \E snap \in Snaps :
         /\ PositionsForced(snap)
         /\ task' = [task EXCEPT ![t] = [@ EXCEPT !.pc = "flatbook", !.left = task[t].left - 1,
              !.todo = {positions[s] : s \in {x \in Managed : snap.pos[x].units = 0}},
              !.snap = NoSnap]]
    /\ UNCHANGED <<venueVars, quoteVars, bookVars, attach, ctl, made, ops>>

FlattenBook(t, o) ==
    /\ At(t, "flatbook") /\ o \in task[t].todo
    /\ \E id \in HistoryIds(o) : MarkClosed(o, id, "emergency")
    /\ task' = [task EXCEPT ![t].todo = @ \ {o}]
    /\ UNCHANGED <<venueVars, quoteVars, cache, attach, ctl, made, faults, ops>>

FlattenAgain(t) ==
    /\ At(t, "flatbook") /\ task[t].todo = {}
    /\ Goto(t, IF task[t].left = 0 THEN "flatfinal" ELSE "flatsnap")
    /\ UNCHANGED <<venueVars, quoteVars, bookVars, cache, attach, ctl, made, faults, ops>>

\* The last look only words the log.  Then the caller's tail, which does not
\* yield: kill_all and the kill checks stop the loop, everything but kill_all
\* notes that the clean-up is done.
FlattenEnds(t, stops) ==
    /\ At(t, "flatfinal")
    /\ \E snap \in Snaps : PositionsForced(snap)
    /\ ctl' = [ctl EXCEPT !.lock = FALSE, !.emergency = FALSE,
                 !.stop = @ \/ task[t].why \in stops,
                 !.cleanup = @ \/ task[t].why # "kill_all"]
    /\ task' = [task EXCEPT ![t] = [IdleTask EXCEPT !.pc = task[t].then]]
    /\ UNCHANGED <<venueVars, quoteVars, bookVars, attach, made, ops>>

\* Mutant: KILL ALL leaves the executor running.
FlattenDoneKeepsLoop(t) == FlattenEnds(t, {"trip"})

FlattenDone(t) == FlattenEnds(t, {"kill_all", "trip"})

(***************************************************************************)
(* _check_kill_switch at the end of a tick, and the operator's requests.   *)
(***************************************************************************)
\* The loop ends; unless a flatten was already done it flattens on its way out.
LoopExit ==
    /\ At("loop", "idle") /\ ctl.stop
    /\ IF ctl.cleanup
       THEN Goto("loop", "off") /\ UNCHANGED ctl
       ELSE EnterFlatten("loop", [task["loop"] EXCEPT !.then = "off",
                                                      !.why = "loop_exit"], ctl)
    /\ UNCHANGED <<venueVars, quoteVars, bookVars, cache, attach, made, faults, ops>>

\* Which limit is passed is a choice; the limits are amounts of money.
LoopKillCheck ==
    /\ At("loop", "manage") /\ task["loop"].todo = {}
    /\ \/ /\ task' = [task EXCEPT !["loop"] = IdleTask]
          /\ UNCHANGED <<ctl, ops>>
       \/ /\ "trip" \in Operations /\ ops < MaxOps /\ ~ctl.kill
          /\ ops' = ops + 1
          /\ EnterFlatten("loop", [IdleTask EXCEPT !.why = "trip"],
                          [ctl EXCEPT !.kill = TRUE, !.running = FALSE])
    /\ UNCHANGED <<venueVars, quoteVars, bookVars, cache, attach, made, faults>>

Request(what) ==
    /\ what \in Operations /\ ops < MaxOps /\ At("op", "idle")
    /\ ops' = ops + 1
    /\ UNCHANGED <<venueVars, quoteVars, bookVars, cache, attach, made, faults>>

OpKillAll ==
    /\ Request("kill_all")
    /\ EnterFlatten("op", [IdleTask EXCEPT !.why = "kill_all"], [ctl EXCEPT !.kill = TRUE])

\* run_stop through graceful_stop.
OpRunStop ==
    /\ Request("run_stop")
    /\ EnterFlatten("op", [IdleTask EXCEPT !.why = "run_stop"],
                    [ctl EXCEPT !.running = FALSE, !.stop = TRUE])

\* run starts a loop; here only when none is left, and no IOC order either.
OpRun ==
    /\ Request("run")
    /\ ~ctl.running /\ task["loop"].pc = "off"
    /\ TakerEntry => \A m \in Orders : order[m].st \notin {"sent", "live"}
    /\ ctl' = [ctl EXCEPT !.running = TRUE, !.kill = FALSE, !.stop = FALSE]
    /\ task' = [task EXCEPT !["loop"] = [IdleTask EXCEPT !.pc = "start"]]

(***************************************************************************)
(* The whole.                                                              *)
(***************************************************************************)
Submitting(t) == SubmitRefused(t) \/ Send(t) \/ NotAcked(t) \/ AckTaker(t)
Opening(t)    == Find(t) \/ OpenDone(t)
Closing(t)    == CloseSend(t) \/ CloseReply(t) \/ CloseBook(t)
Flattening(t) ==
    \/ FlattenLock(t) \/ FlattenSnapshot(t) \/ FlattenCheck(t)
    \/ FlattenAgain(t) \/ FlattenDone(t)
    \/ \E s \in Symbols : FlattenCancel(t, s) \/ FlattenClose(t, s)
    \/ \E o \in Objs : FlattenBook(t, o)

SigWork ==
    ArmTaker \/ AckMaker \/ Submitting("sig") \/ Opening("sig") \/ Closing("sig")
SigStep == SigWork \/ \E s \in Symbols : Decide(s)
LoopStep ==
    \/ LoopStart \/ LoopTick \/ LoopExit \/ LoopQuotes
    \/ \E n \in Quotes : LoopQuoteUnsent(n) \/ LoopQuoteAsk(n)
    \/ LoopQuoteFilled \/ LoopQuoteUnfilled \/ LoopCancel
    \/ LoopSnapshot \/ (\E s \in Symbols : LoopRecover(s))
    \/ LoopAdopt \/ LoopAdoptFails \/ LoopRecovered
    \/ \E o \in Objs : LoopHold(o) \/ LoopMove(o) \/ LoopRule(o) \/ LoopMissing(o)
    \/ LoopTrail \/ LoopVanished \/ LoopKillCheck
    \/ (TakerEntry /\ Submitting("loop")) \/ Opening("loop") \/ Closing("loop")
    \/ Flattening("loop")
OpStep == OpKillAll \/ OpRunStop \/ OpRun \/ Flattening("op")
Environment ==
    \/ \E m \in Orders : VenueAccept(m) \/ VenueFill(m) \/ VenueExpire(m)
    \/ \E s \in Symbols : VenueClose(s)
    \/ \E s \in Symbols, pid \in Orders : AttachDone(s, pid)

Next == SigStep \/ LoopStep \/ OpStep \/ Environment

Spec == Init /\ [][Next]_vars

(***************************************************************************)
(* Properties.                                                             *)
(***************************************************************************)
Pcs == {"idle", "off", "start", "balance", "tick", "submit", "ack", "find", "open", "quotes",
        "check", "cancel", "recover", "adopt", "manage", "trail", "history", "close",
        "closing", "resolve", "lock", "flatcancel", "flatsnap", "flatclose",
        "flatbook", "flatfinal"}

Order  == [sym : Symbols, st : {"none", "sent", "live", "filled", "dead"},
           pid : 0..MaxOrders]
Quote  == [sym : Symbols, st : {"armed", "inflight", "acked"}, ord : 0..MaxOrders,
           mat : BOOLEAN, syn : RawRow, stray : BOOLEAN]
Object == [sym : Symbols, pid : 0..MaxOrders, truth : 0..MaxOrders, qty : Nat,
           pnl : BOOLEAN, closed : BOOLEAN,
           reason : {"none", "exit", "exchange_close", "emergency"},
           key : CloseKeys \cup {NoKey}]
Task   == [pc : Pcs, then : {"idle", "off", "quotes", "recover", "manage"},
           why : {"none", "loop_exit", "trip", "kill_all", "run_stop"},
           q : 0..MaxQuotes, o : 0..MaxObjs, raw : RawRow, snap : Snapshot,
           todo : SUBSET Nat, syms : SUBSET Symbols, left : Nat]
Ctl    == [stop : BOOLEAN, emergency : BOOLEAN, lock : BOOLEAN,
           running : BOOLEAN, kill : BOOLEAN, cleanup : BOOLEAN]

\* Every variable of the executor has its type.
TypeOK ==
    /\ order \in [Orders -> Order]
    /\ venue \in [Symbols -> Position]
    /\ hist \subseteq Orders
    /\ quotes \in [Symbols -> 0..MaxQuotes]
    /\ quote \in [Quotes -> Quote]
    /\ positions \in [Symbols -> 0..MaxObjs]
    /\ obj \in [Objs -> Object]
    /\ closedKeys \subseteq CloseKeys
    /\ missing \in [Symbols -> 0..1]
    /\ cache \in Snapshot
    /\ store \in [Symbols -> Record]
    /\ attach \subseteq Symbols \X Orders
    /\ ctl \in Ctl
    /\ task \in [Tasks -> Task]
    /\ made \in [quotes : 0..MaxQuotes, orders : 0..MaxOrders, objs : 0..MaxObjs]
    /\ faults \in 0..MaxFaults
    /\ ops \in 0..MaxOps

Booked(o) == obj[o].key # NoKey

\* _mark_closed_externally: within one life of the process no two trades of the
\* ledger have the same close key.
BookedOncePerKey ==
    \A o1, o2 \in Objs : Booked(o1) /\ obj[o1].key = obj[o2].key => o1 = o2

\* A trade once in the ledger is never booked again nor its reason rewritten,
\* whichever tasks still hold the object (a close in flight, a flatten, the loop).
LedgerStep ==
    \A o \in Objs : Booked(o) => /\ obj'[o].key = obj[o].key
                                 /\ obj'[o].reason = obj[o].reason

LedgerIsFinal == [][LedgerStep]_vars

\* The loop acted on a quote of s after the quote had been dropped: it sent it
\* again from its copy of _quotes, or dropped its successor with it.
Strayed(s) == \E n \in Quotes : SymOf(n) = s /\ quote[n].stray

\* The late answer of a stop has given the position the id of another one.
Misnamed(o) == obj[o].pid \notin {0, obj[o].truth}

\* Such a position of s has been released: its close counted as a duplicate of the
\* other one's and started no cooldown.
Confused(s) == \E o \in Objs : obj[o].sym = s /\ o # positions[s] /\ Misnamed(o)

\* No two trades of the ledger stand for the same position of the venue, though
\* stale snapshots make the executor adopt a closed position again; unless one of
\* them was misnamed.
BookedOncePerPosition ==
    \A o1, o2 \in Objs :
        Booked(o1) /\ Booked(o2) /\ obj[o1].truth = obj[o2].truth =>
            o1 = o2 \/ Misnamed(o1) \/ Misnamed(o2)

\* A step books no trade whose position is still open on the venue, unless a quote of
\* its symbol strayed or a misnamed position of it was released.
BooksNoPhantom ==
    \A o \in Objs : obj[o].reason = "none" /\ obj'[o].reason # "none" =>
        LET s == obj[o].sym IN
        venue[s].pid # obj[o].truth \/ Strayed(s) \/ Confused(s)

\* A trade enters the ledger only when its position is gone from the venue
\* (_reconcile_positions: "Position really disappeared from the exchange view"),
\* but for those two exceptions.
NoPhantomClose == [][BooksNoPhantom]_vars

\* A record marked closed matches no open position of the venue, though a pass over the
\* positions may write the object that a flatten has booked and deleted the record of
\* meanwhile (_reconcile_positions, its last line): _recover_untracked_positions revives
\* the flag with the record, and an open position taken for a closed one is not managed.
ClosedRecordsLapse ==
    \A s \in Symbols : store[s].kept /\ store[s].closed =>
        venue[s].units = 0 \/ store[s].pid \notin {0, venue[s].pid}

\* The executor holds two units on a symbol only if one of its quotes strayed or a
\* misnamed position of it was released: CapitalAllocator promises per-symbol
\* exclusivity, but looks only at quotes and positions.
SingleExposure ==
    \A s \in Symbols : venue[s].units <= 1 \/ Strayed(s) \/ Confused(s)

\* state.positions never shows a position that is already booked.
ManagedIsOpen == \A s \in Managed : ~obj[positions[s]].closed

\* At most one task is inside _emergency_flatten_all, and the flag that stops
\* new ticks and orders is up exactly then.
FlattenPcs == {"flatcancel", "flatsnap", "flatclose", "flatbook", "flatfinal"}
Flatteners == {t \in Tasks : task[t].pc \in FlattenPcs}
FlattenExclusive ==
    /\ Cardinality(Flatteners) <= 1
    /\ ctl.emergency <=> Flatteners # {}

\* No order leaves for the venue once the kill switch is on.
KillStopsOrders ==
    [][\A m \in Orders : order[m].st = "none" /\ order'[m].st = "sent" => ~ctl.kill]_vars

\* When KILL ALL has run its course and the loop has ended, no position of the
\* executor is open on the venue.
Halted == task["loop"].pc = "off" /\ task["sig"].pc = "idle" /\ task["op"].pc = "idle"
KilledIsFlat ==
    ctl.kill /\ Halted => \A s \in Symbols : venue[s].units = 0

(***************************************************************************)
(* Liveness.  Every task keeps running; the venue ends an IOC order; a     *)
(* missing book comes back; a snapshot outlives its maximum age only for a *)
(* while; a position past its max_hold_sec is closed at the next pass over *)
(* it, a quote past its timeout cancelled, and a close without a history   *)
(* row is accepted after 8 s.                                              *)
(***************************************************************************)
TimesOut == LoopQuoteUnfilled /\ task'["loop"].pc = "cancel"
BookIsBack == /\ \E n \in Quotes : LoopQuoteUnsent(n)
              /\ task'["loop"].pc = "submit" \/ quotes' # quotes
Scheduling == WF_vars(SigWork) /\ WF_vars(LoopStep) /\ WF_vars(Flattening("op"))
Fairness ==
    /\ Scheduling
    /\ \A m \in Orders : WF_vars(TakerEntry /\ (VenueFill(m) \/ VenueExpire(m)))
    /\ SF_vars(LoopSnapshot /\ cache' = FreshSnap)
    /\ SF_vars(BookIsBack) /\ SF_vars(TimesOut)
    /\ \A o \in Objs : SF_vars(LoopRule(o))
    /\ SF_vars(LoopVanished /\ positions' # positions)

ScheduledSpec == Spec /\ Scheduling
FairSpec      == Spec /\ Fairness

\* The time exit: a position open on the venue does not stay open.
ExposureEnds == \A s \in Symbols : venue[s].units > 0 ~> venue[s].units = 0

\* Every order that fills ends as a trade of the ledger, however its reply,
\* its quote and the snapshots that show it are lost or late.
FillsAreBooked ==
    \A m \in Orders : order[m].st = "filled" ~>
        \E o \in Objs : Booked(o) /\ obj[o].truth = order[m].pid

\* Neither a pending quote nor a managed position holds its symbol for ever.
SymbolIsFreed ==
    \A s \in Symbols : quotes[s] # 0 \/ positions[s] # 0 ~>
                         quotes[s] = 0 /\ positions[s] = 0

\* The kill switch ends the loop.
KillEndsLoop == ctl.kill ~> task["loop"].pc = "off"
===============================================================================
