--------------------------------- MODULE Feeds ---------------------------------
(***************************************************************************)
(* The market data side of the bot: the universe (backend/universe.py), its *)
(* refresh loop and the dashboard's requests that change the working set,   *)
(* the application of a new set by the engine, and the three websocket      *)
(* clients that keep their subscriptions to it over reconnects: the Binance *)
(* and MEXC public streams and the MEXC private stream.                     *)
(*                                                                          *)
(* A task that changes the set awaits in the refresh, in the reads of the   *)
(* contract details, and in every message it sends; the clients' own tasks  *)
(* go on in between.  A message sent on an open connection has its effect   *)
(* at the venue; one sent on a broken connection is lost.  A stream's own   *)
(* record of what it subscribed to equals the venue's while a connection    *)
(* lasts, and is not a variable of its own.                                 *)
(*                                                                          *)
(* A definition introduced by "Mutant:" is a wrong form of the one after    *)
(* it, which a property must reject; the specification does not use it.     *)
(***************************************************************************)
EXTENDS Naturals, FiniteSets

CONSTANTS
    Symbols,        \* MEXC symbols
    HasRef,         \* those with a Binance reference
    RequireRef,     \* universe.require_binance_ref
    Lists,          \* lists of symbols a refresh may come back with
    Selections,     \* universe.include_only a user may ask for, {} for all
    Streams,        \* the clients that run: "binance", "mexc", "private"
    Tasks,          \* "loop" is the refresh loop, the others are requests
    UrlCap,         \* symbols that fit in the URL of a Binance connection
    MaxChanges,     \* bound: refreshes, selections and configuration patches
    MaxDrops        \* bound: lost and refused connections

ASSUME FeedsConstantsOK ==
    /\ HasRef \subseteq Symbols /\ RequireRef \in BOOLEAN
    /\ Lists \cup Selections \subseteq SUBSET Symbols
    /\ Streams \subseteq {"binance", "mexc", "private"}
    /\ {UrlCap, MaxChanges, MaxDrops} \subseteq Nat

VARIABLES
    entries,    \* universe._entries: the symbols without fees
    selected,   \* cfg.universe.include_only, {} for all
    agg,        \* the aggregator's symbols, and state.universe
    desired,    \* _desired of each stream
    link,       \* where the task of each stream is
    batch,      \* what that task has yet to subscribe to on its connection
    heard,      \* the venue's subscriptions of the connection
    task,       \* the tasks that change the set
    raced,      \* streams whose last snapshot of _desired an update has raced
    crossed,    \* has the working set changed with no task to apply it alone?
    changes, drops

vars == <<entries, selected, agg, desired, link, batch, heard, task, raced, crossed,
          changes, drops>>
universeVars == <<entries, selected, agg, crossed, changes>>
streamVars   == <<desired, link, batch, heard, raced, drops>>

Idle == [pc |-> "idle", set |-> {}, prev |-> {}, stream |-> "", adds |-> {}, dels |-> {}]

(***************************************************************************)
(* The working set, and what of it a stream wants.                          *)
(***************************************************************************)
WorkingOf(es, sel) ==
    {x \in es : (sel = {} \/ x \in sel) /\ (RequireRef => x \in HasRef)}
Working == WorkingOf(entries, selected)

Want(s, set) == IF s = "binance" THEN set \cap HasRef ELSE set

Init ==
    /\ entries \in Lists /\ selected = {}
    /\ agg = Working
    /\ desired = [s \in Streams |-> Want(s, Working)]
    /\ link = [s \in Streams |-> "down"]
    /\ batch = [s \in Streams |-> {}]
    /\ heard = [s \in Streams |-> {}]
    /\ task = [u \in Tasks |-> Idle]
    /\ raced = [s \in Streams |-> FALSE]
    /\ crossed = FALSE
    /\ changes = 0 /\ drops = 0

-----------------------------------------------------------------------------
(***************************************************************************)
(* The clients' tasks: connect, subscribe, read, sleep.                     *)
(***************************************************************************)
Open(s)     == link[s] \in {"login", "subscribing", "reading"}
Attached(s) == Open(s) \/ link[s] = "broken"      \* self._ws is set
Sending(u, s) == task[u].pc = "sending" /\ task[u].stream = s

\* Reading starts when nothing is left to subscribe to.
AfterBatch(b) == IF b = {} THEN "reading" ELSE "subscribing"

\* The client reads _desired for the connection it makes.
Snapshot(s) == raced' = [raced EXCEPT ![s] = @ /\ \E u \in Tasks : Sending(u, s)]

\* The Binance URL holds a first part of the set; the rest is for later.
UrlParts(syms) ==
    IF Cardinality(syms) <= UrlCap
    THEN {syms} ELSE {url \in SUBSET syms : Cardinality(url) = UrlCap}

\* Mutant: what does not fit in the URL is forgotten.
RestForgotten(syms, url) == {}

Rest(syms, url) == syms \ url

Dial(s) ==
    /\ link[s] = "down"
    /\ link' = [link EXCEPT ![s] = "connecting"]
    /\ IF s = "binance"
       THEN \E url \in UrlParts(desired[s]) :
              /\ heard' = [heard EXCEPT ![s] = url]
              /\ batch' = [batch EXCEPT ![s] = Rest(desired[s], url)]
              /\ Snapshot(s)
       ELSE UNCHANGED <<heard, batch, raced>>
    /\ UNCHANGED <<desired, task, drops, universeVars>>

\* The MEXC clients read the whole set once they are connected.
ReadsAll(s) ==
    /\ batch' = [batch EXCEPT ![s] = desired[s]]
    /\ link' = [link EXCEPT ![s] = AfterBatch(desired[s])]
    /\ Snapshot(s)

Connected(s) ==
    /\ link[s] = "connecting"
    /\ IF s = "mexc"
       THEN ReadsAll(s)
       ELSE /\ link' = [link EXCEPT ![s] =
                          IF s = "private" THEN "login" ELSE AfterBatch(batch[s])]
            /\ UNCHANGED <<batch, raced>>
    /\ UNCHANGED <<desired, heard, task, drops, universeVars>>

LoggedIn(s) ==
    /\ link[s] = "login"
    /\ ReadsAll(s)
    /\ UNCHANGED <<desired, heard, task, drops, universeVars>>

\* One message per symbol on MEXC, one for all on Binance.
Messages(s, syms) == IF s = "binance" THEN {syms} ELSE {{x} : x \in syms}

SubscribeNext(s) ==
    /\ link[s] = "subscribing"
    /\ \E m \in Messages(s, batch[s]) :
         /\ heard' = [heard EXCEPT ![s] = @ \cup m]
         /\ batch' = [batch EXCEPT ![s] = @ \ m]
         /\ link' = [link EXCEPT ![s] = AfterBatch(batch[s] \ m)]
    /\ UNCHANGED <<desired, task, raced, drops, universeVars>>

ConnectFails(s) ==
    /\ link[s] = "connecting" /\ drops < MaxDrops
    /\ drops' = drops + 1
    /\ link' = [link EXCEPT ![s] = "down"]
    /\ heard' = [heard EXCEPT ![s] = {}]
    /\ batch' = [batch EXCEPT ![s] = {}]
    /\ UNCHANGED <<desired, task, raced, universeVars>>

\* The connection is lost; self._ws is still set until the task notices.
Drop(s) ==
    /\ Open(s) /\ drops < MaxDrops
    /\ drops' = drops + 1
    /\ link' = [link EXCEPT ![s] = "broken"]
    /\ heard' = [heard EXCEPT ![s] = {}]
    /\ UNCHANGED <<desired, batch, task, raced, universeVars>>

Notice(s) ==
    /\ link[s] = "broken"
    /\ link' = [link EXCEPT ![s] = "down"]
    /\ batch' = [batch EXCEPT ![s] = {}]
    /\ UNCHANGED <<desired, heard, task, raced, drops, universeVars>>

-----------------------------------------------------------------------------
(***************************************************************************)
(* update_symbols of the streams, one after the other.                      *)
(***************************************************************************)
Order == [s \in {"binance", "mexc", "private"} |->
            IF s = "binance" THEN 1 ELSE IF s = "mexc" THEN 2 ELSE 3]

\* Mutant: the set is stored only when there is a connection to send it on.
StoreConnected(now, set) ==
    desired' = [s \in Streams |-> IF s \in now /\ Attached(s) THEN Want(s, set) ELSE desired[s]]

Store(now, set) ==
    desired' = [s \in Streams |-> IF s \in now THEN Want(s, set) ELSE desired[s]]

\* An update that finds something new too late for the connection being
\* made, or while another update is still sending.
Races(u, s, set) ==
    /\ desired[s] # Want(s, set)
    /\ \/ \E v \in Tasks \ {u} : Sending(v, s)
       \/ s = "binance" /\ link[s] = "connecting" /\ ~ Want(s, set) \subseteq desired[s]

\* Goes on with the streams in todo, up to the first with a message to send.
Offer(u, todo, set) ==
    LET busy == {s \in todo : desired[s] # Want(s, set) /\ Attached(s)}
        next == {s \in busy : \A r \in busy : Order[s] <= Order[r]}
        now  == {s \in todo : \A r \in next : Order[s] <= Order[r]}
    IN  /\ Store(now, set)
        /\ raced' = [s \in Streams |-> raced[s] \/ (s \in now /\ Races(u, s, set))]
        /\ IF next = {}
           THEN task' = [task EXCEPT ![u] = Idle]
           ELSE \E s \in next :
                  task' = [task EXCEPT ![u] =
                     [pc |-> "sending", set |-> set, prev |-> {}, stream |-> s,
                      adds |-> Want(s, set) \ desired[s], dels |-> desired[s] \ Want(s, set)]]

\* The aggregator takes the set once the contract details are read.
Configure(u) ==
    /\ task[u].pc = "configuring"
    /\ agg' = task[u].set
    /\ Offer(u, Streams, task[u].set)
    /\ UNCHANGED <<link, batch, heard, drops, entries, selected, crossed, changes>>

\* Subscriptions are sent before the others are cancelled.
Adding(u) == task[u].adds # {}
Pending(u) == IF Adding(u) THEN task[u].adds ELSE task[u].dels

\* Mutant: updates are ignored until the stream is read.
GivesUpUnread(u, s) == link[s] # "reading"

\* Without a connection nothing is sent; the private client gives up on the
\* first subscription that fails.
GivesUp(u, s) == ~ Attached(s) \/ (s = "private" /\ link[s] = "broken" /\ Adding(u))

Delivered(u, s, m) ==
    heard' = [heard EXCEPT ![s] =
                IF ~ Open(s) THEN @ ELSE IF Adding(u) THEN @ \cup m ELSE @ \ m]

Send(u) ==
    /\ task[u].pc = "sending"
    /\ LET t == task[u]
           s == t.stream
           later == {r \in Streams : Order[r] > Order[s]}
       IN  IF GivesUp(u, s)
           THEN Offer(u, later, t.set) /\ UNCHANGED heard
           ELSE \E m \in Messages(s, Pending(u)) :
                  /\ Delivered(u, s, m)
                  /\ IF (t.adds \cup t.dels) \ m = {}
                     THEN Offer(u, later, t.set)
                     ELSE /\ task' = [task EXCEPT ![u].adds = @ \ m, ![u].dels = @ \ m]
                          /\ UNCHANGED <<desired, raced>>
    /\ UNCHANGED <<link, batch, drops, universeVars>>

-----------------------------------------------------------------------------
(***************************************************************************)
(* What changes the working set.                                            *)
(***************************************************************************)
Active(u) == task[u].pc \in {"configuring", "sending"}
Alone(u)  == \A v \in Tasks \ {u} : task[v].pc = "idle"

Starts == changes < MaxChanges /\ changes' = changes + 1

\* Task u goes on to apply the set that now is the working set.
Applies(u) == task' = [task EXCEPT ![u] = [Idle EXCEPT !.pc = "configuring", !.set = Working']]
Crosses(u) == crossed' = (~ Alone(u) /\ (crossed \/ Working' # Working))

\* The loop remembers the set it had before the refresh.
StartRefresh(u) ==
    /\ task[u].pc = "idle" /\ Starts
    /\ task' = [task EXCEPT ![u] = [Idle EXCEPT !.pc = "refreshing", !.prev = Working]]
    /\ UNCHANGED <<entries, selected, agg, crossed, streamVars>>

\* The new list of symbols: the venue's, or the cached one when it fails.
Refreshed(u) ==
    /\ task[u].pc = "refreshing"
    /\ entries' \in Lists
    /\ UNCHANGED selected
    /\ IF u = "loop" /\ Working' = task[u].prev
       THEN /\ task' = [task EXCEPT ![u] = Idle]
            /\ crossed' = (crossed \/ Working' # Working)
       ELSE Applies(u) /\ Crosses(u)
    /\ UNCHANGED <<agg, changes, streamVars>>

\* api_universe_selection saves the selection and applies it.
Select(u) ==
    /\ u # "loop" /\ task[u].pc = "idle" /\ Starts
    /\ selected' \in Selections
    /\ UNCHANGED entries
    /\ Applies(u) /\ Crosses(u)
    /\ UNCHANGED <<agg, streamVars>>

\* api_config_patch saves a selection and applies nothing.
PatchConfig ==
    /\ Starts
    /\ selected' \in Selections
    /\ UNCHANGED entries
    /\ crossed' = (crossed \/ Working' # Working)
    /\ UNCHANGED <<agg, task, streamVars>>

StreamStep(s) == Dial(s) \/ Connected(s) \/ LoggedIn(s) \/ SubscribeNext(s) \/ Notice(s)
TaskStep(u)   == Configure(u) \/ Send(u)

Next ==
    \/ \E s \in Streams : StreamStep(s) \/ ConnectFails(s) \/ Drop(s)
    \/ \E u \in Tasks : TaskStep(u) \/ StartRefresh(u) \/ Refreshed(u) \/ Select(u)
    \/ PatchConfig

Progress ==
    \/ \E s \in Streams : StreamStep(s)
    \/ \E u \in Tasks : TaskStep(u) \/ Refreshed(u)

\* Some task that can go on does: a sleep or an await ends, an attempt to
\* connect is answered, and a send returns or raises.
Fairness == WF_vars(Progress)

Spec == Init /\ [][Next]_vars /\ Fairness

-----------------------------------------------------------------------------
TaskRec ==
    [pc : {"idle", "refreshing", "configuring", "sending"}, set : SUBSET Symbols,
     prev : SUBSET Symbols, stream : Streams \cup {""}, adds : SUBSET Symbols,
     dels : SUBSET Symbols]

\* Every variable keeps its type; a task that sends has something to send on
\* a stream, and a stream is read when nothing is left to subscribe to.
TypeOK ==
    /\ {entries, selected, agg} \subseteq SUBSET Symbols
    /\ {desired, batch, heard} \subseteq [Streams -> SUBSET Symbols]
    /\ link \in [Streams -> {"down", "connecting", "login", "subscribing", "reading", "broken"}]
    /\ task \in [Tasks -> TaskRec]
    /\ \A u \in Tasks : task[u].pc = "sending" =>
         task[u].stream \in Streams /\ task[u].adds \cup task[u].dels # {}
    /\ \A s \in Streams : link[s] = "reading" => batch[s] = {}
    /\ raced \in [Streams -> BOOLEAN] /\ crossed \in BOOLEAN
    /\ changes \in Nat /\ drops \in Nat

\* A stream that is read hears every symbol it should deliver, except those
\* an update is about to subscribe to, unless an update has raced the
\* connection or another update (update_symbols and run of the clients).
BlindOnlyByRace ==
    \A s \in Streams : link[s] = "reading" /\ ~ raced[s] =>
        desired[s] \ heard[s] \subseteq UNION {task[u].adds : u \in {v \in Tasks : Sending(v, s)}}

\* What the aggregator and the streams have is the working set whenever no
\* update is under way, unless the set changed by a patch or while another
\* task was at it (universe.loop, _on_universe_change, the requests of app.py).
AppliedIsWorking ==
    ~ crossed /\ (\A u \in Tasks : ~ Active(u)) =>
        /\ agg = Working
        /\ \A s \in Streams : desired[s] = Want(s, Working)

\* A symbol of the working set is heard in the end, over any reconnects and
\* updates, unless it leaves the set or one of the races above happens.
WorkingIsHeard ==
    \A s \in Streams : \A x \in Symbols :
        x \in Want(s, Working) ~>
            (x \in heard[s] \/ x \notin Want(s, Working) \/ raced[s] \/ crossed)
===============================================================================
