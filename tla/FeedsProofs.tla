------------------------------ MODULE FeedsProofs ------------------------------
(***************************************************************************)
(* What the streams and the aggregator have of the working set, for any     *)
(* symbols, streams, tasks and bounds.                                      *)
(*                                                                          *)
(* A stream that no update has raced misses nothing: what it should hear    *)
(* and does not is in the batch its connection is still subscribing to, or  *)
(* in the messages of the one update that is sending.  That it is one, and  *)
(* that it sends no cancellation of a desired symbol, is Unraced; what a    *)
(* connection covers is Covered.  For the second theorem, every update      *)
(* under way carries the working set, and the streams it has passed have it *)
(* (Carried).                                                               *)
(***************************************************************************)
EXTENDS Feeds, TLAPS

\* A send on an unraced stream is the only one, and matches what is desired.
Unraced ==
    \A s \in Streams : ~ raced[s] =>
        \A u \in Tasks : Sending(u, s) =>
            /\ task[u].adds \subseteq desired[s]
            /\ task[u].dels \cap desired[s] = {}
            /\ \A v \in Tasks : Sending(v, s) => v = u

\* What is missing is going to be subscribed to.
Covered ==
    \A s \in Streams : ~ raced[s] =>
        /\ s = "binance" /\ link[s] = "connecting" => desired[s] \ heard[s] \subseteq batch[s]
        /\ link[s] \in {"subscribing", "reading"} =>
             \A x \in desired[s] \ heard[s] :
                x \in batch[s] \/ \E u \in Tasks : Sending(u, s) /\ x \in task[u].adds

\* Updates carry the working set through the streams.
Carried ==
    ~ crossed =>
        /\ \A u \in Tasks : Active(u) => task[u].set = Working
        /\ \A u \in Tasks : task[u].pc = "sending" =>
             /\ agg = Working
             /\ \A r \in Streams : Order[r] <= Order[task[u].stream] => desired[r] = Want(r, Working)
        /\ (\A u \in Tasks : ~ Active(u)) =>
             /\ agg = Working
             /\ \A r \in Streams : desired[r] = Want(r, Working)

IInv == TypeOK /\ Unraced /\ Covered /\ Carried

LEMMA WantType == ASSUME NEW s, NEW set \in SUBSET Symbols PROVE Want(s, set) \in SUBSET Symbols
BY DEF Want

LEMMA WorkingType == ASSUME FeedsConstantsOK, entries \in SUBSET Symbols
                     PROVE  Working \in SUBSET Symbols
BY DEF Working, WorkingOf

\* r is not after s in the order of update_symbols.
UpTo(r, s) == Order[r] <= Order[s]

LEMMA OrderType == ASSUME FeedsConstantsOK PROVE \A r \in Streams : Order[r] \in Nat
BY DEF FeedsConstantsOK, Order

\* What offering a set to the streams in todo does to each of them.
Offered(u, todo, set) ==
    /\ desired' \in [Streams -> SUBSET Symbols] /\ raced' \in [Streams -> BOOLEAN]
    /\ task' \in [Tasks -> TaskRec]
    /\ \A v \in Tasks : v # u => task'[v] = task[v]
    /\ task'[u].pc \in {"idle", "sending"}
    /\ task'[u].pc = "sending" =>
         /\ task'[u].stream \in todo /\ task'[u].set = set
         /\ task'[u].adds \cup task'[u].dels # {}
    /\ \A s \in Streams \ todo : desired'[s] = desired[s] /\ raced'[s] = raced[s]
    /\ \A s \in todo : raced[s] => raced'[s]
    /\ \A s \in todo : desired'[s] \in {desired[s], Want(s, set)}
    /\ \A s \in todo : Sending(u, s)' =>
         /\ Attached(s) /\ desired'[s] = Want(s, set)
         /\ task'[u].adds = Want(s, set) \ desired[s]
         /\ task'[u].dels = desired[s] \ Want(s, set)
         /\ desired[s] # Want(s, set)
    /\ \A s \in todo : ~ Sending(u, s)' /\ desired'[s] # desired[s] => ~ Attached(s)
    /\ \A s \in todo : desired'[s] # desired[s] =>
         desired'[s] = Want(s, set) /\ raced'[s] = (raced[s] \/ Races(u, s, set))
    /\ \A s \in todo : Sending(u, s)' => raced'[s] = (raced[s] \/ Races(u, s, set))
    /\ task'[u].pc = "idle" => \A s \in todo : desired'[s] = Want(s, set)
    /\ task'[u].pc = "sending" =>
         \A s \in todo : UpTo(s, task'[u].stream) => desired'[s] = Want(s, set)

LEMMA OfferEffect ==
    ASSUME FeedsConstantsOK, TypeOK, NEW u \in Tasks, NEW todo \in SUBSET Streams,
           NEW set \in SUBSET Symbols, Offer(u, todo, set)
    PROVE  Offered(u, todo, set)
<1> DEFINE busy == {s \in todo : desired[s] # Want(s, set) /\ Attached(s)}
           next == {s \in busy : \A r \in busy : Order[s] <= Order[r]}
           now  == {s \in todo : \A r \in next : Order[s] <= Order[r]}
<1>1. /\ desired' = [s \in Streams |-> IF s \in now THEN Want(s, set) ELSE desired[s]]
      /\ raced' = [s \in Streams |-> raced[s] \/ (s \in now /\ Races(u, s, set))]
      /\ IF next = {}
         THEN task' = [task EXCEPT ![u] = Idle]
         ELSE \E s \in next :
                task' = [task EXCEPT ![u] =
                   [pc |-> "sending", set |-> set, prev |-> {}, stream |-> s,
                    adds |-> Want(s, set) \ desired[s], dels |-> desired[s] \ Want(s, set)]]
  BY DEF Offer, Store
<1>2. \A s \in Streams : s \in {"binance", "mexc", "private"} /\ Order[s] \in 1..3
  BY DEF FeedsConstantsOK, Order
<1>3. \A r, s \in Streams : Order[r] = Order[s] => r = s
  BY DEF FeedsConstantsOK, Order
<1>4. busy # {} => next # {}
  <2> SUFFICES ASSUME busy # {} PROVE next # {}
    OBVIOUS
  <2>1. CASE \E s \in busy : Order[s] = 1
    BY <2>1, <1>2
  <2>2. CASE (~ \E s \in busy : Order[s] = 1) /\ \E s \in busy : Order[s] = 2
    <3>1. PICK s \in busy : Order[s] = 2
      BY <2>2
    <3>2. \A r \in busy : Order[r] >= 2
      BY <2>2, <1>2
    <3> QED BY <3>1, <3>2
  <2>3. CASE \A s \in busy : Order[s] = 3
    BY <2>3
  <2> QED BY <2>1, <2>2, <2>3, <1>2
<1>5. desired' \in [Streams -> SUBSET Symbols] /\ raced' \in [Streams -> BOOLEAN]
  <2>1. desired \in [Streams -> SUBSET Symbols] /\ raced \in [Streams -> BOOLEAN]
    BY DEF TypeOK
  <2>2. \A s \in Streams : Want(s, set) \in SUBSET Symbols
    BY WantType
  <2>3. \A s \in Streams : Races(u, s, set) \in BOOLEAN
    BY DEF Races
  <2> QED BY <1>1, <2>1, <2>2, <2>3
<1>6. /\ task' \in [Tasks -> TaskRec]
      /\ \A v \in Tasks : v # u => task'[v] = task[v]
      /\ task'[u].pc \in {"idle", "sending"}
      /\ task'[u].pc = "sending" =>
           /\ task'[u].stream \in next /\ task'[u].set = set
           /\ task'[u].adds = Want(task'[u].stream, set) \ desired[task'[u].stream]
           /\ task'[u].dels = desired[task'[u].stream] \ Want(task'[u].stream, set)
      /\ task'[u].pc = "idle" => next = {}
  <2>1. task \in [Tasks -> TaskRec] /\ desired \in [Streams -> SUBSET Symbols]
    BY DEF TypeOK
  <2>2. CASE next = {}
    <3>1. task' = [task EXCEPT ![u] = Idle]
      BY <1>1, <2>2
    <3> QED BY <3>1, <2>1, <2>2 DEF Idle, TaskRec
  <2>3. CASE next # {}
    <3>1. PICK s \in next :
             task' = [task EXCEPT ![u] =
                   [pc |-> "sending", set |-> set, prev |-> {}, stream |-> s,
                    adds |-> Want(s, set) \ desired[s], dels |-> desired[s] \ Want(s, set)]]
      BY <1>1, <2>3
    <3>2. s \in Streams /\ Want(s, set) \in SUBSET Symbols
      BY WantType
    <3>3. desired[s] \in SUBSET Symbols
      BY <2>1, <3>2
    <3>a. [pc |-> "sending", set |-> set, prev |-> {}, stream |-> s,
           adds |-> Want(s, set) \ desired[s], dels |-> desired[s] \ Want(s, set)] \in TaskRec
      BY <3>2, <3>3 DEF TaskRec
    <3> QED BY <3>1, <3>a, <2>1
  <2> QED BY <2>2, <2>3
<1>7. \A s \in todo : desired'[s] = IF s \in now THEN Want(s, set) ELSE desired[s]
  BY <1>1
<1>8. \A s \in todo : raced'[s] = (raced[s] \/ (s \in now /\ Races(u, s, set)))
  BY <1>1
<1>9. \A s \in todo : Sending(u, s)' <=> task'[u].pc = "sending" /\ task'[u].stream = s
  BY DEF Sending
<1>10. \A s \in next : s \in now /\ s \in busy
  BY <1>2
<1>11. \A s \in todo : ~ Sending(u, s)' /\ desired'[s] # desired[s] => ~ Attached(s)
  <2> SUFFICES ASSUME NEW s \in todo, ~ Sending(u, s)', desired'[s] # desired[s], Attached(s)
               PROVE  FALSE
    OBVIOUS
  <2>1. s \in now /\ s \in busy
    BY <1>7
  <2>2. next # {} /\ task'[u].pc = "sending"
    BY <2>1, <1>4, <1>6
  <2>3. task'[u].stream \in next /\ Order[s] <= Order[task'[u].stream]
    BY <2>1, <2>2, <1>6
  <2>4. Order[task'[u].stream] <= Order[s]
    BY <2>1, <2>3
  <2>a. s \in Streams /\ task'[u].stream \in Streams
    BY <2>3
  <2>5. Order[s] \in Nat /\ Order[task'[u].stream] \in Nat
    <3>1. \A r \in Streams : Order[r] \in Nat
      BY <1>2
    <3> QED BY <3>1, <2>a
  <2>6. Order[s] = Order[task'[u].stream]
    BY <2>3, <2>4, <2>5
  <2>7. s = task'[u].stream
    BY <2>3, <2>6, <1>3
  <2> QED BY <2>2, <2>7, <1>9
<1>12. \A s \in todo : Sending(u, s)' =>
                /\ Attached(s) /\ desired'[s] = Want(s, set) /\ s \in now
                /\ task'[u].adds = Want(s, set) \ desired[s]
                /\ task'[u].dels = desired[s] \ Want(s, set)
                /\ desired[s] # Want(s, set)
  BY <1>6, <1>7, <1>9, <1>10
<1>13. task'[u].pc = "idle" => \A s \in todo : desired'[s] = Want(s, set)
  BY <1>6, <1>7
<1>14. task'[u].pc = "sending" =>
                \A s \in todo : UpTo(s, task'[u].stream) => desired'[s] = Want(s, set)
  <2> SUFFICES ASSUME task'[u].pc = "sending", NEW s \in todo, Order[s] <= Order[task'[u].stream]
               PROVE  s \in now
    BY <1>7 DEF UpTo
  <2>1. \A r \in next : Order[task'[u].stream] <= Order[r]
    BY <1>6
  <2>2. task'[u].stream \in todo /\ \A r \in next : r \in todo
    BY <1>6
  <2>3. Order[s] \in Nat /\ Order[task'[u].stream] \in Nat /\ \A r \in next : Order[r] \in Nat
    <3>1. \A r \in Streams : Order[r] \in Nat
      BY <1>2
    <3>2. \A r \in todo : r \in Streams
      OBVIOUS
    <3> HIDE DEF next
    <3> QED BY <3>1, <3>2, <2>2
  <2>4. \A r \in next : Order[s] <= Order[r]
    <3> HIDE DEF next
    <3> QED BY <2>1, <2>3
  <2> QED BY <2>4
<1>15. task'[u].pc = "sending" => task'[u].adds \cup task'[u].dels # {}
  <2> SUFFICES ASSUME task'[u].pc = "sending" PROVE task'[u].adds \cup task'[u].dels # {}
    OBVIOUS
  <2>1. desired[task'[u].stream] # Want(task'[u].stream, set)
    BY <1>6, <1>10
  <2> QED BY <2>1, <1>6
<1>16. \A s \in Streams \ todo : desired'[s] = desired[s] /\ raced'[s] = raced[s]
  BY <1>1 DEF TypeOK
<1>17. \A s \in todo : desired'[s] # desired[s] =>
         s \in now /\ desired'[s] = Want(s, set)
  BY <1>7
<1>18. \A s \in todo : s \in now => raced'[s] = (raced[s] \/ Races(u, s, set))
  BY <1>8
<1>19. task'[u].pc = "sending" => task'[u].stream \in todo /\ task'[u].set = set
  BY <1>6
<1>20. \A s \in todo : desired'[s] \in {desired[s], Want(s, set)}
  BY <1>7
<1>21. \A s \in todo : raced[s] => raced'[s]
  BY <1>8
<1> HIDE DEF busy, next, now
<1>22. \A s \in todo : Sending(u, s)' => raced'[s] = (raced[s] \/ Races(u, s, set))
  BY <1>12, <1>18
<1>23. \A s \in todo : desired'[s] # desired[s] =>
                desired'[s] = Want(s, set) /\ raced'[s] = (raced[s] \/ Races(u, s, set))
  BY <1>17, <1>18
<1>24. \A s \in todo : Sending(u, s)' =>
                /\ Attached(s) /\ desired'[s] = Want(s, set)
                /\ task'[u].adds = Want(s, set) \ desired[s]
                /\ task'[u].dels = desired[s] \ Want(s, set)
                /\ desired[s] # Want(s, set)
  BY <1>12
<1> QED
  BY <1>5, <1>6, <1>11, <1>13, <1>14, <1>15, <1>16, <1>19, <1>20, <1>21, <1>22, <1>23, <1>24
     DEF Offered

LEMMA InitInv == ASSUME FeedsConstantsOK, Init PROVE IInv
<1>1. entries \in SUBSET Symbols /\ selected = {}
  BY DEF Init, FeedsConstantsOK
<1>2. Working \in SUBSET Symbols
  BY <1>1, WorkingType
<1>3. \A s \in Streams : Want(s, Working) \in SUBSET Symbols
  BY <1>2, WantType
<1>4. Idle \in TaskRec
  BY DEF Idle, TaskRec
<1>5. TypeOK
  <2>1. {desired, batch, heard} \subseteq [Streams -> SUBSET Symbols]
    BY <1>3 DEF Init
  <2>2. task \in [Tasks -> TaskRec] /\ \A u \in Tasks : task[u].pc = "idle"
    BY <1>4 DEF Init, Idle
  <2>3. {entries, selected, agg} \subseteq SUBSET Symbols
    BY <1>1, <1>2 DEF Init
  <2>4. /\ link \in [Streams -> {"down", "connecting", "login", "subscribing", "reading", "broken"}]
        /\ \A s \in Streams : link[s] = "down"
        /\ raced \in [Streams -> BOOLEAN] /\ crossed \in BOOLEAN
        /\ changes \in Nat /\ drops \in Nat
    BY DEF Init
  <2> QED BY <2>1, <2>2, <2>3, <2>4 DEF TypeOK
<1>6. Unraced /\ Covered /\ Carried
  BY DEF Init, Unraced, Covered, Carried, Sending, Active, Idle
<1> QED BY <1>5, <1>6 DEF IInv

\* The clients' tasks leave the sets, the updates and the universe alone.
LEMMA CarriedByStreams ==
    ASSUME Carried, UNCHANGED <<desired, task, universeVars>> PROVE Carried'
BY DEF Carried, Active, Working, WorkingOf, Want, Order, universeVars

\* A stream becomes unraced only when nobody is sending on it.
LEMMA UnracedByStreams ==
    ASSUME TypeOK, Unraced, UNCHANGED <<desired, task>>, NEW s \in Streams,
           UNCHANGED raced \/ Snapshot(s)
    PROVE  Unraced'
<1>1. CASE UNCHANGED raced
  BY <1>1 DEF Unraced, Sending
<1>2. CASE Snapshot(s)
  <2>1. \A r \in Streams : ~ raced'[r] => ~ raced[r] \/ (r = s /\ \A u \in Tasks : ~ Sending(u, s))
    BY <1>2 DEF Snapshot, TypeOK
  <2>2. \A r \in Streams, u \in Tasks : Sending(u, r)' <=> Sending(u, r)
    BY DEF Sending
  <2> QED BY <2>1, <2>2 DEF Unraced
<1> QED BY <1>1, <1>2

LEMMA StreamStepInv ==
    ASSUME FeedsConstantsOK, IInv, NEW s \in Streams,
           StreamStep(s) \/ ConnectFails(s) \/ Drop(s)
    PROVE  IInv'
<1> USE DEF IInv
<1> DEFINE Same(r) == /\ link'[r] = link[r] /\ heard'[r] = heard[r]
                      /\ batch'[r] = batch[r] /\ raced'[r] = raced[r]
           Owed(r) == ~ raced[r] =>
             /\ r = "binance" /\ link[r] = "connecting" => desired[r] \ heard[r] \subseteq batch[r]
             /\ link[r] \in {"subscribing", "reading"} =>
                  \A x \in desired[r] \ heard[r] :
                    x \in batch[r] \/ \E u \in Tasks : Sending(u, r) /\ x \in task[u].adds
<1>1. /\ UNCHANGED <<desired, task, universeVars>>
      /\ UNCHANGED raced \/ Snapshot(s)
  BY DEF StreamStep, Dial, Connected, LoggedIn, SubscribeNext, Notice, ConnectFails, Drop, ReadsAll
<1>2. Carried' /\ Unraced'
  BY <1>1, CarriedByStreams, UnracedByStreams
<1>3. \A u \in Tasks, r \in Streams : Sending(u, r)' <=> Sending(u, r)
  BY <1>1 DEF Sending
<1>4. raced' \in [Streams -> BOOLEAN] /\ \A r \in Streams \ {s} : raced'[r] = raced[r]
  BY <1>1 DEF Snapshot, TypeOK
<1>5. Covered <=> \A r \in Streams : Owed(r)
  BY DEF Covered
<1>6. Covered' <=> \A r \in Streams : Owed(r)'
  BY DEF Covered
<1>7. \A r \in Streams : Same(r) => Owed(r)'
  <2> SUFFICES ASSUME NEW r \in Streams, Same(r) PROVE Owed(r)'
    OBVIOUS
  <2>1. Owed(r) /\ desired'[r] = desired[r] /\ \A u \in Tasks : task'[u].adds = task[u].adds
    BY <1>1, <1>5
  <2> QED BY <2>1, <1>3
<1>8. ASSUME /\ link' \in [Streams -> {"down", "connecting", "login", "subscribing", "reading", "broken"}]
             /\ batch' \in [Streams -> SUBSET Symbols] /\ heard' \in [Streams -> SUBSET Symbols]
             /\ drops' \in Nat /\ (link'[s] = "reading" => batch'[s] = {})
             /\ \A r \in Streams \ {s} : Same(r)
             /\ Owed(s)'
      PROVE  IInv'
  <2>1. TypeOK'
    <3>1. \A r \in Streams : link'[r] = "reading" => batch'[r] = {}
      BY <1>8 DEF TypeOK
    <3> QED BY <3>1, <1>1, <1>4, <1>8 DEF TypeOK, universeVars
  <2>2. Covered'
    BY <1>6, <1>7, <1>8
  <2> QED BY <2>1, <2>2, <1>2
<1> USE DEF TypeOK
<1>9. CASE Dial(s)
  <2> USE DEF Dial
  <2>1. CASE s = "binance"
    <3>1. PICK url \in UrlParts(desired[s]) :
            /\ heard' = [heard EXCEPT ![s] = url]
            /\ batch' = [batch EXCEPT ![s] = Rest(desired[s], url)]
      BY <1>9, <2>1
    <3>2. url \subseteq desired[s] /\ desired[s] \in SUBSET Symbols
      BY DEF UrlParts
    <3>3. link' = [link EXCEPT ![s] = "connecting"]
      BY <1>9
    <3>4. Owed(s)'
      BY <3>1, <3>2, <3>3, <1>1 DEF Rest
    <3> QED BY <3>1, <3>2, <3>3, <3>4, <1>4, <1>8, <1>9 DEF Rest
  <2>2. CASE s # "binance"
    BY <2>2, <1>9, <1>8
  <2> QED BY <2>1, <2>2
<1>10. ASSUME ReadsAll(s), UNCHANGED <<heard, drops>> PROVE IInv'
  <2>1. /\ batch' = [batch EXCEPT ![s] = desired[s]]
        /\ link' = [link EXCEPT ![s] = AfterBatch(desired[s])]
    BY <1>10 DEF ReadsAll
  <2>2. Owed(s)'
    BY <2>1, <1>1 DEF AfterBatch
  <2> QED BY <2>1, <2>2, <1>4, <1>8, <1>10 DEF AfterBatch
<1>11. CASE LoggedIn(s)
  BY <1>10, <1>11 DEF LoggedIn
<1>12. CASE Connected(s)
  <2>1. CASE s = "mexc"
    BY <1>10, <1>12, <2>1 DEF Connected
  <2>2. CASE s # "mexc"
    <3>1. /\ link[s] = "connecting" /\ UNCHANGED <<batch, raced, heard, drops>>
          /\ link' = [link EXCEPT ![s] = IF s = "private" THEN "login" ELSE AfterBatch(batch[s])]
      BY <1>12, <2>2 DEF Connected
    <3>2. Owed(s)'
      <4>1. CASE s = "private"
        BY <4>1, <3>1
      <4>2. CASE s = "binance"
        <5>1. ~ raced[s] => desired[s] \ heard[s] \subseteq batch[s]
          BY <4>2, <3>1, <1>5
        <5> QED BY <5>1, <4>2, <3>1, <1>1
      <4> QED BY <4>1, <4>2, <2>2 DEF FeedsConstantsOK
    <3> QED BY <3>1, <3>2, <1>8 DEF AfterBatch
  <2> QED BY <2>1, <2>2
<1>13. CASE SubscribeNext(s)
  <2>1. PICK m \in Messages(s, batch[s]) :
         /\ heard' = [heard EXCEPT ![s] = @ \cup m]
         /\ batch' = [batch EXCEPT ![s] = @ \ m]
         /\ link' = [link EXCEPT ![s] = AfterBatch(batch[s] \ m)]
    BY <1>13 DEF SubscribeNext
  <2>2. m \subseteq batch[s] /\ m \subseteq Symbols
    BY DEF Messages
  <2>3. link[s] = "subscribing" /\ UNCHANGED <<raced, drops>>
    BY <1>13 DEF SubscribeNext
  <2>4. Owed(s)'
    <3>1. Owed(s) /\ desired'[s] = desired[s] /\ raced'[s] = raced[s] /\ UNCHANGED task
      BY <1>1, <1>5, <2>3
    <3>2. heard'[s] = heard[s] \cup m /\ batch'[s] = batch[s] \ m /\ link'[s] # "connecting"
      BY <2>1 DEF AfterBatch
    <3> QED BY <3>1, <3>2, <2>3, <1>3
  <2> QED BY <2>1, <2>2, <2>3, <2>4, <1>8 DEF AfterBatch
<1>14. CASE Notice(s) \/ Drop(s) \/ ConnectFails(s)
  <2>1. link'[s] \in {"down", "broken"}
    BY <1>14 DEF Notice, Drop, ConnectFails
  <2>2. Owed(s)'
    BY <2>1
  <2> QED BY <2>1, <2>2, <1>8, <1>14 DEF Notice, Drop, ConnectFails
<1> QED BY <1>9, <1>11, <1>12, <1>13, <1>14 DEF StreamStep

\* What a stream still owes, in a form that a step of a task can be held to.
LEMMA OfferInv ==
    ASSUME FeedsConstantsOK, TypeOK, NEW u \in Tasks, NEW todo \in SUBSET Streams,
           NEW set \in SUBSET Symbols, Offer(u, todo, set),
           Unraced, Covered, UNCHANGED <<link, batch>>,
           \* u sends on no stream of todo, and is done with the one it was at
           \A s \in todo : ~ Sending(u, s) /\ heard'[s] = heard[s],
           \A s \in Streams \ todo : link[s] \in {"subscribing", "reading"} /\ ~ raced[s] =>
              \A x \in desired[s] \ heard'[s] :
                 x \in batch[s] \/ \E v \in Tasks \ {u} : Sending(v, s) /\ x \in task[v].adds,
           \A s \in Streams \ todo : link[s] = "connecting" => heard'[s] = heard[s]
    PROVE  Unraced' /\ Covered'
<1>0. Offered(u, todo, set)
  BY OfferEffect
<1>1. /\ \A v \in Tasks : v # u => task'[v] = task[v]
      /\ task'[u].pc = "sending" => task'[u].stream \in todo
      /\ \A s \in Streams \ todo : desired'[s] = desired[s] /\ raced'[s] = raced[s]
      /\ \A s \in todo : raced[s] => raced'[s]
      /\ \A s \in todo : Sending(u, s)' =>
                /\ Attached(s) /\ desired'[s] = Want(s, set)
                /\ task'[u].adds = Want(s, set) \ desired[s]
                /\ task'[u].dels = desired[s] \ Want(s, set)
                /\ desired[s] # Want(s, set)
                /\ raced'[s] = (raced[s] \/ Races(u, s, set))
      /\ \A s \in todo : ~ Sending(u, s)' /\ desired'[s] # desired[s] => ~ Attached(s)
      /\ \A s \in todo : desired'[s] # desired[s] =>
                desired'[s] = Want(s, set) /\ raced'[s] = (raced[s] \/ Races(u, s, set))
  BY <1>0 DEF Offered
<1>2. \A v \in Tasks \ {u}, s \in Streams : Sending(v, s)' <=> Sending(v, s)
  BY <1>1 DEF Sending
<1>3. \A s \in Streams \ todo : ~ Sending(u, s)'
  BY <1>1 DEF Sending
<1>4. ASSUME NEW s \in Streams, ~ raced'[s], desired'[s] # desired[s] \/ Sending(u, s)'
      PROVE  /\ s \in todo /\ desired'[s] = Want(s, set)
             /\ \A v \in Tasks \ {u} : ~ Sending(v, s)
             /\ s = "binance" /\ link[s] = "connecting" => desired'[s] \subseteq desired[s]
             /\ ~ Sending(u, s)
  <2>1. s \in todo
    BY <1>1, <1>3, <1>4
  <2>2. desired'[s] = Want(s, set) /\ desired[s] # Want(s, set) /\ ~ Races(u, s, set)
    BY <1>1, <1>4, <2>1
  <2> QED BY <2>1, <2>2 DEF Races
<1>5. Unraced'
  <2> SUFFICES ASSUME NEW s \in Streams, ~ raced'[s], NEW v \in Tasks, Sending(v, s)'
               PROVE  /\ task'[v].adds \subseteq desired'[s]
                      /\ task'[v].dels \cap desired'[s] = {}
                      /\ \A w \in Tasks : Sending(w, s)' => w = v
    BY DEF Unraced
  <2>1. CASE v = u
    <3>1. \A w \in Tasks \ {u} : ~ Sending(w, s)
      BY <1>4, <2>1
    <3>2. s \in todo
      BY <1>3, <2>1
    <3> QED BY <3>1, <3>2, <1>1, <1>2, <2>1
  <2>2. CASE v # u
    <3>1. Sending(v, s) /\ task'[v] = task[v]
      BY <1>1, <1>2, <2>2
    <3>2. desired'[s] = desired[s] /\ ~ Sending(u, s)'
      BY <3>1, <1>4, <2>2
    <3>3. ~ raced[s]
      BY <1>1
    <3> QED BY <3>1, <3>2, <3>3, <1>2 DEF Unraced
  <2> QED BY <2>1, <2>2
<1>6. Covered'
  <2> SUFFICES ASSUME NEW s \in Streams, ~ raced'[s]
               PROVE  /\ s = "binance" /\ link[s] = "connecting" => desired'[s] \ heard'[s] \subseteq batch[s]
                      /\ link[s] \in {"subscribing", "reading"} =>
                           \A x \in desired'[s] \ heard'[s] :
                              x \in batch[s] \/ \E v \in Tasks : Sending(v, s)' /\ x \in task'[v].adds
    BY DEF Covered
  <2>1. ~ raced[s]
    BY <1>1
  <2>2. ASSUME s = "binance", link[s] = "connecting"
        PROVE  desired'[s] \ heard'[s] \subseteq batch[s]
    <3>1. desired'[s] \subseteq desired[s]
      BY <1>4, <2>2
    <3>2. heard'[s] = heard[s]
      BY <2>2
    <3> QED BY <3>1, <3>2, <2>1, <2>2 DEF Covered
  <2>3. ASSUME link[s] \in {"subscribing", "reading"}, NEW x \in desired'[s] \ heard'[s], x \notin batch[s]
        PROVE  \E v \in Tasks : Sending(v, s)' /\ x \in task'[v].adds
    <3>1. CASE s \notin todo
      <4>1. desired'[s] = desired[s]
        BY <3>1, <1>1
      <4>2. PICK v \in Tasks \ {u} : Sending(v, s) /\ x \in task[v].adds
        BY <4>1, <3>1, <2>1, <2>3
      <4> QED BY <4>2, <1>1, <1>2
    <3>2. CASE s \in todo /\ Sending(u, s)'
      <4>1. \A v \in Tasks : ~ Sending(v, s)
        BY <1>4, <3>2
      <4>2. x \notin desired[s]
        BY <4>1, <3>2, <2>1, <2>3 DEF Covered
      <4>3. desired'[s] = Want(s, set) /\ task'[u].adds = Want(s, set) \ desired[s]
        BY <3>2, <1>1
      <4>4. x \in task'[u].adds
        BY <4>2, <4>3, <2>3
      <4> QED BY <4>4, <3>2
    <3>3. CASE s \in todo /\ ~ Sending(u, s)'
      <4>1. desired'[s] = desired[s]
        BY <3>3, <1>1, <2>3 DEF Attached, Open
      <4>2. PICK v \in Tasks : Sending(v, s) /\ x \in task[v].adds
        BY <4>1, <3>3, <2>1, <2>3 DEF Covered
      <4>3. v # u
        BY <4>2, <3>3
      <4> QED BY <4>2, <4>3, <1>1, <1>2
    <3> QED BY <3>1, <3>2, <3>3
  <2> QED BY <2>2, <2>3
<1> QED BY <1>5, <1>6

LEMMA OfferType ==
    ASSUME FeedsConstantsOK, TypeOK, NEW u \in Tasks, NEW todo \in SUBSET Streams,
           NEW set \in SUBSET Symbols, Offer(u, todo, set),
           UNCHANGED <<link, batch, entries, selected, crossed, changes, drops>>,
           heard' \in [Streams -> SUBSET Symbols], agg' \in SUBSET Symbols
    PROVE  TypeOK'
<1>0. Offered(u, todo, set)
  BY OfferEffect
<1>1. /\ desired' \in [Streams -> SUBSET Symbols] /\ raced' \in [Streams -> BOOLEAN]
      /\ task' \in [Tasks -> TaskRec]
      /\ \A v \in Tasks : v # u => task'[v] = task[v]
      /\ task'[u].pc = "sending" => task'[u].stream \in todo /\ task'[u].adds \cup task'[u].dels # {}
  BY <1>0 DEF Offered
<1>2. \A v \in Tasks : task'[v].pc = "sending" =>
         task'[v].stream \in Streams /\ task'[v].adds \cup task'[v].dels # {}
  BY <1>1 DEF TypeOK
<1> QED BY <1>1, <1>2 DEF TypeOK

\* A task that offers the working set to what is left of the streams.
LEMMA OfferCarries ==
    ASSUME FeedsConstantsOK, TypeOK, Carried, NEW u \in Tasks, NEW todo \in SUBSET Streams,
           NEW set \in SUBSET Symbols, Offer(u, todo, set),
           UNCHANGED <<entries, selected, crossed>>,
           Active(u), set = task[u].set, agg' \in {agg, set},
           ~ crossed => agg' = Working /\ \A r \in Streams \ todo : desired[r] = Want(r, Working),
           \A r \in Streams \ todo, s \in todo : Order[r] <= Order[s]
    PROVE  Carried'
<1>0. Offered(u, todo, set)
  BY OfferEffect
<1>1. /\ \A v \in Tasks : v # u => task'[v] = task[v]
      /\ task'[u].pc \in {"idle", "sending"}
      /\ task'[u].pc = "sending" => task'[u].stream \in todo /\ task'[u].set = set
      /\ \A s \in Streams \ todo : desired'[s] = desired[s]
      /\ \A s \in todo : desired'[s] \in {desired[s], Want(s, set)}
      /\ task'[u].pc = "idle" => \A s \in todo : desired'[s] = Want(s, set)
  BY <1>0 DEF Offered
<1>8. task'[u].pc = "sending" =>
           \A s \in todo : UpTo(s, task'[u].stream) => desired'[s] = Want(s, set)
  BY <1>0 DEF Offered
<1>2. Working' = Working
  BY DEF Working
<1>3. \A r : Want(r, Working)' = Want(r, Working)
  BY <1>2 DEF Want
<1> SUFFICES ASSUME ~ crossed PROVE Carried'
  BY DEF Carried
<1>4. set = Working /\ agg' = Working /\ \A r \in Streams \ todo : desired'[r] = Want(r, Working)
  BY <1>1 DEF Carried
<1>5. ASSUME NEW v \in Tasks, Active(v)' PROVE task'[v].set = Working
  <2>1. CASE v = u
    BY <2>1, <1>1, <1>4, <1>5 DEF Active
  <2>2. CASE v # u
    BY <2>2, <1>1, <1>5 DEF Active, Carried
  <2> QED BY <2>1, <2>2
<1>6. ASSUME NEW v \in Tasks, task'[v].pc = "sending", NEW r \in Streams, Order[r] <= Order[task'[v].stream]
      PROVE  desired'[r] = Want(r, Working)
  <2>1. CASE v = u
    <3>1. CASE r \in todo
      BY <3>1, <2>1, <1>1, <1>4, <1>6, <1>8 DEF UpTo
    <3>2. CASE r \notin todo
      BY <3>2, <1>4
    <3> QED BY <3>1, <3>2
  <2>2. CASE v # u
    <3>1. desired[r] = Want(r, Working)
      BY <2>2, <1>1, <1>6 DEF Carried
    <3> QED BY <3>1, <1>1, <1>4
  <2> QED BY <2>1, <2>2
<1>7. ASSUME \A v \in Tasks : ~ Active(v)', NEW r \in Streams PROVE desired'[r] = Want(r, Working)
  <2>1. task'[u].pc = "idle"
    BY <1>1, <1>7 DEF Active
  <2> QED BY <2>1, <1>1, <1>4
<1> QED BY <1>2, <1>3, <1>4, <1>5, <1>6, <1>7 DEF Carried

LEMMA ConfigureInv ==
    ASSUME FeedsConstantsOK, IInv, NEW u \in Tasks, Configure(u) PROVE IInv'
<1> USE DEF IInv
<1>1. /\ task[u].pc = "configuring" /\ agg' = task[u].set /\ Offer(u, Streams, task[u].set)
      /\ UNCHANGED <<link, batch, heard, drops, entries, selected, crossed, changes>>
  BY DEF Configure
<1>2. task[u].set \in SUBSET Symbols /\ heard \in [Streams -> SUBSET Symbols]
  BY DEF TypeOK, TaskRec
<1>3. \A s \in Streams : ~ Sending(u, s)
  BY <1>1 DEF Sending
<1>4. TypeOK'
  BY <1>1, <1>2, OfferType
<1>5. Unraced' /\ Covered'
  BY <1>1, <1>2, <1>3, OfferInv
<1>6. Active(u) /\ (~ crossed => task[u].set = Working)
  BY <1>1 DEF Active, Carried
<1>7. Carried'
  BY <1>1, <1>2, <1>6, OfferCarries
<1> QED BY <1>4, <1>5, <1>7

LEMMA SendInv ==
    ASSUME FeedsConstantsOK, IInv, NEW u \in Tasks, Send(u) PROVE IInv'
<1> USE DEF IInv
<1> DEFINE t == task[u]
           s == t.stream
           later == {r \in Streams : Order[r] > Order[s]}
<1>1. /\ t.pc = "sending" /\ s \in Streams /\ t \in TaskRec /\ t.set \in SUBSET Symbols
      /\ UNCHANGED <<link, batch, drops, universeVars>>
  BY DEF Send, TypeOK, TaskRec
<1>2. \A r \in Streams : Sending(u, r) => r = s
  BY DEF Sending
<1>a. \A r \in Streams : Order[r] \in Nat
  BY OrderType
<1>3. later \in SUBSET Streams /\ s \notin later
  <2>1. Order[s] \in Nat
    BY <1>1, <1>a
  <2> QED BY <2>1
<1>4. \A r \in Streams \ later : Order[r] <= Order[s]
  <2> SUFFICES ASSUME NEW r \in Streams, ~ Order[r] > Order[s] PROVE Order[r] <= Order[s]
    OBVIOUS
  <2>1. Order[r] \in Nat /\ Order[s] \in Nat
    BY <1>1, <1>a
  <2> QED BY <2>1
<1>5. \A r \in Streams \ later, q \in later : Order[r] <= Order[q]
  <2> SUFFICES ASSUME NEW r \in Streams \ later, NEW q \in later PROVE Order[r] <= Order[q]
    OBVIOUS
  <2>1. Order[r] \in Nat /\ Order[s] \in Nat /\ Order[q] \in Nat
    BY <1>1, <1>a
  <2>2. Order[r] <= Order[s] /\ Order[q] > Order[s]
    BY <1>4
  <2> QED BY <2>1, <2>2
<1>6. UNCHANGED <<entries, selected, crossed, changes, agg>>
  BY <1>1 DEF universeVars
<1>7. ~ crossed => agg = Working /\ \A r \in Streams \ later : desired[r] = Want(r, Working)
  BY <1>1, <1>4 DEF Carried
<1>8. Active(u) /\ agg \in SUBSET Symbols
  BY <1>1 DEF Active, TypeOK
<1>9. \A r \in Streams : ~ raced[r] /\ r # s /\ link[r] \in {"subscribing", "reading"} =>
        \A x \in desired[r] \ heard[r] :
           x \in batch[r] \/ \E v \in Tasks \ {u} : Sending(v, r) /\ x \in task[v].adds
  <2> SUFFICES ASSUME NEW r \in Streams, ~ raced[r], r # s, link[r] \in {"subscribing", "reading"},
                      NEW x \in desired[r] \ heard[r], x \notin batch[r]
               PROVE  \E v \in Tasks \ {u} : Sending(v, r) /\ x \in task[v].adds
    OBVIOUS
  <2>1. PICK v \in Tasks : Sending(v, r) /\ x \in task[v].adds
    BY DEF Covered
  <2>2. v # u
    BY <2>1, <1>2
  <2> QED BY <2>1, <2>2
<1>10. ASSUME GivesUp(u, s), Offer(u, later, t.set), UNCHANGED heard PROVE IInv'
  <2>1. link[s] \notin {"subscribing", "reading"}
    BY <1>10 DEF GivesUp, Attached, Open
  <2>2. \A r \in Streams \ later : link[r] \in {"subscribing", "reading"} /\ ~ raced[r] =>
           \A x \in desired[r] \ heard'[r] :
              x \in batch[r] \/ \E v \in Tasks \ {u} : Sending(v, r) /\ x \in task[v].adds
    BY <1>9, <1>10, <2>1
  <2>3. heard' \in [Streams -> SUBSET Symbols]
    BY <1>10 DEF TypeOK
  <2> HIDE DEF later, s, t, IInv
  <2>4. Unraced' /\ Covered'
    BY <1>1, <1>2, <1>3, <1>10, <2>2, OfferInv DEF IInv
  <2>5. TypeOK'
    BY <1>1, <1>3, <1>6, <1>8, <1>10, <2>3, OfferType DEF IInv
  <2>6. Carried'
    <3>1. TypeOK /\ Carried
      BY DEF IInv
    <3>2. agg' \in {agg, task[u].set} /\ Active(u)
      BY <1>6, <1>8
    <3>3. ~ crossed => agg' = Working /\ \A r \in Streams \ later : desired[r] = Want(r, Working)
      BY <1>6, <1>7
    <3>4. Offer(u, later, task[u].set) /\ task[u].set \in SUBSET Symbols
      BY <1>1, <1>10 DEF t
    <3>5. later \in SUBSET Streams
      BY <1>3
    <3>6. UNCHANGED <<entries, selected, crossed>>
      BY <1>6
    <3> QED BY <3>1, <3>2, <3>3, <3>4, <3>5, <3>6, <1>5, OfferCarries
  <2> QED BY <2>4, <2>5, <2>6 DEF IInv
<1>11. ASSUME NEW m \in Messages(s, Pending(u)), Delivered(u, s, m), ~ GivesUp(u, s),
              \/ (t.adds \cup t.dels) \ m = {} /\ Offer(u, later, t.set)
              \/ /\ task' = [task EXCEPT ![u].adds = @ \ m, ![u].dels = @ \ m]
                 /\ (t.adds \cup t.dels) \ m # {}
                 /\ UNCHANGED <<desired, raced>>
       PROVE  IInv'
  <2>1. /\ Adding(u) => m \subseteq t.adds
        /\ ~ Adding(u) => m \subseteq t.dels /\ t.adds = {}
        /\ m \subseteq Symbols
    <3>1. m \subseteq Pending(u)
      BY <1>11 DEF Messages
    <3>2. t.adds \in SUBSET Symbols /\ t.dels \in SUBSET Symbols
      BY <1>1 DEF TaskRec
    <3> QED BY <3>1, <3>2 DEF Pending, Adding
  <2>2. /\ heard' = [heard EXCEPT ![s] = IF ~ Open(s) THEN @ ELSE IF Adding(u) THEN @ \cup m ELSE @ \ m]
        /\ heard' \in [Streams -> SUBSET Symbols]
        /\ \A r \in Streams : r # s => heard'[r] = heard[r]
    BY <1>11, <1>1, <2>1 DEF Delivered, TypeOK
  <2>3. link[s] = "connecting" => heard'[s] = heard[s]
    BY <2>2, <1>1 DEF Open, TypeOK
  <2>4. ASSUME link[s] \in {"subscribing", "reading"}, ~ raced[s], NEW x \in desired[s] \ heard'[s]
        PROVE  x \in batch[s] \/ x \in t.adds \ m
    <3>1. Sending(u, s) /\ t.dels \cap desired[s] = {} /\ \A v \in Tasks : Sending(v, s) => v = u
      BY <1>1, <2>4 DEF Sending, Unraced
    <3>2. heard'[s] = IF Adding(u) THEN heard[s] \cup m ELSE heard[s] \ m
      <4>1. Open(s) /\ s \in Streams
        BY <2>4, <1>1 DEF Open
      <4>2. heard \in [Streams -> SUBSET Symbols]
        BY DEF TypeOK
      <4> HIDE DEF s, t
      <4> QED BY <4>1, <4>2, <2>2
    <3>3. x \notin heard[s]
      BY <3>1, <3>2, <2>1, <2>4
    <3>4. x \in batch[s] \/ x \in t.adds
      BY <3>1, <3>3, <2>4, <1>1 DEF Covered
    <3>5. x \in m => ~ Adding(u)
      BY <3>2, <2>4
    <3> QED BY <3>4, <3>5, <2>1
  <2>5. CASE (t.adds \cup t.dels) \ m = {} /\ Offer(u, later, t.set)
    <3>1. \A r \in Streams \ later : link[r] \in {"subscribing", "reading"} /\ ~ raced[r] =>
             \A x \in desired[r] \ heard'[r] :
                x \in batch[r] \/ \E v \in Tasks \ {u} : Sending(v, r) /\ x \in task[v].adds
      <4> SUFFICES ASSUME NEW r \in Streams \ later, link[r] \in {"subscribing", "reading"}, ~ raced[r],
                          NEW x \in desired[r] \ heard'[r]
                   PROVE  x \in batch[r] \/ \E v \in Tasks \ {u} : Sending(v, r) /\ x \in task[v].adds
        OBVIOUS
      <4>1. CASE r = s
        BY <4>1, <2>4, <2>5
      <4>2. CASE r # s
        BY <4>2, <2>2, <1>9
      <4> QED BY <4>1, <4>2
    <3>2. \A r \in later : ~ Sending(u, r) /\ heard'[r] = heard[r]
      BY <1>2, <1>3, <2>2
    <3>3. \A r \in Streams \ later : link[r] = "connecting" => heard'[r] = heard[r]
      BY <2>2, <2>3
    <3> HIDE DEF later, s, t, IInv
    <3>4. Unraced' /\ Covered'
      BY <1>1, <1>3, <2>5, <3>1, <3>2, <3>3, OfferInv DEF IInv
    <3>5. TypeOK'
      BY <1>1, <1>3, <1>6, <1>8, <2>2, <2>5, OfferType DEF IInv
    <3>6. Carried'
      BY <1>1, <1>3, <1>5, <1>6, <1>7, <1>8, <2>5, OfferCarries DEF IInv, t
    <3> QED BY <3>4, <3>5, <3>6 DEF IInv
  <2>6. CASE /\ task' = [task EXCEPT ![u].adds = @ \ m, ![u].dels = @ \ m]
             /\ (t.adds \cup t.dels) \ m # {}
             /\ UNCHANGED <<desired, raced>>
    <3>1. /\ task' \in [Tasks -> TaskRec] /\ \A v \in Tasks : v # u => task'[v] = task[v]
          /\ task'[u].adds = t.adds \ m /\ task'[u].dels = t.dels \ m
      BY <2>6, <1>1 DEF TypeOK, TaskRec
    <3>2. \A v \in Tasks : task'[v].pc = task[v].pc /\ task'[v].stream = task[v].stream
                           /\ task'[v].set = task[v].set
      <4>1. task \in [Tasks -> TaskRec]
        BY DEF TypeOK
      <4> QED BY <4>1, <3>1, <2>6 DEF TaskRec
    <3>3. \A v \in Tasks, r \in Streams : Sending(v, r)' <=> Sending(v, r)
      BY <3>2 DEF Sending
    <3>4. TypeOK'
      <4>1. \A v \in Tasks : task'[v].pc = "sending" =>
               task'[v].stream \in Streams /\ task'[v].adds \cup task'[v].dels # {}
        BY <3>1, <3>2, <2>6 DEF TypeOK
      <4> QED BY <4>1, <3>1, <2>6, <2>2, <1>1, <1>6 DEF TypeOK
    <3>5. Unraced'
      <4>1. \A v \in Tasks : task'[v].adds \subseteq task[v].adds /\ task'[v].dels \subseteq task[v].dels
        BY <3>1
      <4>2. UNCHANGED <<desired, raced>>
        BY <2>6
      <4> QED BY <4>1, <4>2, <3>3 DEF Unraced
    <3>6. Covered'
      <4> SUFFICES ASSUME NEW r \in Streams, ~ raced[r]
                   PROVE  /\ r = "binance" /\ link[r] = "connecting" => desired[r] \ heard'[r] \subseteq batch[r]
                          /\ link[r] \in {"subscribing", "reading"} =>
                               \A x \in desired[r] \ heard'[r] :
                                  x \in batch[r] \/ \E v \in Tasks : Sending(v, r) /\ x \in task'[v].adds
        BY <2>6, <1>1, <3>3 DEF Covered
      <4>1. CASE r = s
        BY <4>1, <2>3, <2>4, <3>1, <1>1 DEF Covered, Sending
      <4>2. CASE r # s
        <5>1. heard'[r] = heard[r] /\ ~ Sending(u, r)
          BY <4>2, <2>2, <1>2
        <5>2. \A v \in Tasks : Sending(v, r) => task'[v] = task[v]
          BY <5>1, <3>1
        <5> QED BY <5>1, <5>2 DEF Covered
      <4> QED BY <4>1, <4>2
    <3>7. Carried'
      <4>1. \A v \in Tasks : Active(v)' <=> Active(v)
        BY <3>2 DEF Active
      <4>2. Working' = Working /\ UNCHANGED <<agg, crossed, desired>>
        BY <1>6, <2>6 DEF Working
      <4>3. \A r : Want(r, Working)' = Want(r, Working)
        BY <4>2 DEF Want
      <4> QED BY <4>1, <4>2, <4>3, <3>2 DEF Carried
    <3> QED BY <3>4, <3>5, <3>6, <3>7
  <2> QED BY <2>5, <2>6, <1>11
<1> QED
  <2>1. CASE GivesUp(u, s)
    BY <2>1, <1>10 DEF Send
  <2>2. CASE ~ GivesUp(u, s)
    BY <2>2, <1>11 DEF Send
  <2> QED BY <2>1, <2>2

\* A task that is about to apply the set, or has found nothing to apply.
LEMMA UniverseStepInv ==
    ASSUME FeedsConstantsOK, IInv, NEW u \in Tasks,
           StartRefresh(u) \/ Refreshed(u) \/ Select(u)
    PROVE  IInv'
<1> USE DEF IInv
<1>1. /\ UNCHANGED <<agg, desired, link, batch, heard, raced, drops>>
      /\ entries' \in SUBSET Symbols /\ selected' \in SUBSET Symbols /\ changes' \in Nat
  BY DEF StartRefresh, Refreshed, Select, Starts, streamVars, TypeOK, FeedsConstantsOK
<1>2. Working \in SUBSET Symbols /\ Working' \in SUBSET Symbols
  BY <1>1 DEF Working, WorkingOf, TypeOK
<1>4. ASSUME NEW t \in TaskRec, t.pc \in {"idle", "refreshing", "configuring"},
             task[u].pc \in {"idle", "refreshing"},
             task' = [task EXCEPT ![u] = t], crossed' \in BOOLEAN,
             \/ t.pc # "configuring" /\ crossed' = (crossed \/ Working' # Working)
             \/ t.pc = "configuring" /\ t.set = Working' /\ Crosses(u)
      PROVE  IInv'
  <2>1. /\ task' \in [Tasks -> TaskRec] /\ task'[u] = t
        /\ \A v \in Tasks : v # u => task'[v] = task[v]
    BY <1>4 DEF TypeOK
  <2>2. \A v \in Tasks, s \in Streams : Sending(v, s)' <=> Sending(v, s)
    BY <2>1, <1>4 DEF Sending
  <2>3. \A v \in Tasks : task'[v].pc = "sending" => task'[v] = task[v]
    BY <2>1, <1>4
  <2>4. TypeOK'
    BY <2>1, <2>3, <1>1, <1>2, <1>4 DEF TypeOK
  <2>5. \A v \in Tasks, s \in Streams : Sending(v, s) => task'[v] = task[v]
    BY <2>2, <2>3 DEF Sending
  <2>6. Unraced' /\ Covered'
    BY <2>2, <2>5, <1>1 DEF Unraced, Covered
  <2>7. Carried'
    <3> SUFFICES ASSUME ~ crossed' PROVE Carried'
      BY DEF Carried
    <3>1. CASE t.pc # "configuring" \/ ~ Alone(u)
      <4>1. Working' = Working /\ ~ crossed
        BY <3>1, <1>4 DEF Crosses
      <4>2. \A r : Want(r, Working)' = Want(r, Working)
        BY <4>1 DEF Want
      <4>3. \A v \in Tasks : Active(v)' => (Active(v) /\ task'[v] = task[v]) \/ task'[v].set = Working
        BY <4>1, <2>1, <1>4 DEF Active
      <4>4. (\A v \in Tasks : ~ Active(v)') => \A v \in Tasks : ~ Active(v)
        BY <2>1, <1>4 DEF Active
      <4> QED BY <4>1, <4>2, <4>3, <4>4, <2>3, <1>1 DEF Carried
    <3>2. CASE t.pc = "configuring" /\ Alone(u)
      <4>1. \A v \in Tasks : v # u => task'[v].pc = "idle"
        BY <3>2, <2>1 DEF Alone
      <4>2. Active(u)' /\ task'[u].set = Working' /\ task'[u].pc # "sending"
        BY <3>2, <2>1, <1>4 DEF Active
      <4> QED BY <4>1, <4>2 DEF Carried, Active
    <3> QED BY <3>1, <3>2
  <2> QED BY <2>4, <2>6, <2>7
<1>5. Idle \in TaskRec /\ Idle.pc = "idle"
  BY DEF Idle, TaskRec
<1>6. ASSUME Applies(u), Crosses(u), task[u].pc \in {"idle", "refreshing"} PROVE IInv'
  <2> DEFINE t == [Idle EXCEPT !.pc = "configuring", !.set = Working']
  <2>1. t \in TaskRec /\ t.pc = "configuring" /\ t.set = Working'
    BY <1>2 DEF Idle, TaskRec
  <2>2. task' = [task EXCEPT ![u] = t]
    BY <1>6 DEF Applies
  <2>3. crossed' \in BOOLEAN
    BY <1>6 DEF Crosses, Alone
  <2> QED BY <2>1, <2>2, <2>3, <1>4, <1>6
<1>7. CASE StartRefresh(u)
  <2> DEFINE t == [Idle EXCEPT !.pc = "refreshing", !.prev = Working]
  <2>1. t \in TaskRec /\ t.pc = "refreshing"
    BY <1>2 DEF Idle, TaskRec
  <2>2. task' = [task EXCEPT ![u] = t] /\ task[u].pc = "idle" /\ UNCHANGED <<entries, selected, crossed>>
    BY <1>7 DEF StartRefresh
  <2>3. Working' = Working /\ crossed \in BOOLEAN
    BY <2>2 DEF Working, TypeOK
  <2> QED BY <2>1, <2>2, <2>3, <1>4
<1>8. CASE Refreshed(u)
  <2>1. CASE u = "loop" /\ Working' = task[u].prev
    <3>1. /\ task' = [task EXCEPT ![u] = Idle] /\ task[u].pc = "refreshing"
          /\ crossed' = (crossed \/ Working' # Working)
      BY <1>8, <2>1 DEF Refreshed
    <3> QED BY <3>1, <1>4, <1>5
  <2>2. CASE ~ (u = "loop" /\ Working' = task[u].prev)
    BY <2>2, <1>6, <1>8 DEF Refreshed
  <2> QED BY <2>1, <2>2
<1>9. CASE Select(u)
  BY <1>6, <1>9 DEF Select
<1> QED BY <1>7, <1>8, <1>9

LEMMA PatchInv == ASSUME FeedsConstantsOK, IInv, PatchConfig PROVE IInv'
<1> USE DEF IInv
<1>1. /\ UNCHANGED <<agg, desired, link, batch, heard, raced, drops, entries, task>>
      /\ selected' \in SUBSET Symbols /\ changes' \in Nat
      /\ crossed' = (crossed \/ Working' # Working) /\ crossed' \in BOOLEAN
  BY DEF PatchConfig, Starts, streamVars, TypeOK, FeedsConstantsOK
<1>2. TypeOK'
  BY <1>1 DEF TypeOK
<1>3. Unraced' /\ Covered'
  BY <1>1 DEF Unraced, Covered, Sending
<1>4. Carried'
  <2> SUFFICES ASSUME ~ crossed' PROVE Carried'
    BY DEF Carried
  <2>1. Working' = Working /\ ~ crossed
    BY <1>1
  <2>2. \A r : Want(r, Working)' = Want(r, Working)
    BY <2>1 DEF Want
  <2> QED BY <2>1, <2>2, <1>1 DEF Carried, Active
<1> QED BY <1>2, <1>3, <1>4

LEMMA StepInv == ASSUME FeedsConstantsOK, IInv, [Next]_vars PROVE IInv'
<1>1. CASE UNCHANGED vars
  <2>1. UNCHANGED <<entries, selected, agg, desired, link, batch, heard, task, raced, crossed,
                    changes, drops>>
    BY <1>1 DEF vars
  <2>2. TypeOK' /\ Unraced' /\ Covered' /\ Carried'
    BY <2>1 DEF IInv, TypeOK, Unraced, Covered, Carried, Sending, Active, Working, Want
  <2> QED BY <2>2 DEF IInv
<1>2. ASSUME NEW s \in Streams, StreamStep(s) \/ ConnectFails(s) \/ Drop(s) PROVE IInv'
  BY <1>2, StreamStepInv
<1>3. ASSUME NEW u \in Tasks, TaskStep(u) \/ StartRefresh(u) \/ Refreshed(u) \/ Select(u) PROVE IInv'
  BY <1>3, ConfigureInv, SendInv, UniverseStepInv DEF TaskStep
<1>4. CASE PatchConfig
  BY <1>4, PatchInv
<1> QED BY <1>1, <1>2, <1>3, <1>4 DEF Next

THEOREM Invariance == FeedsConstantsOK => (Spec => []IInv)
<1> SUFFICES ASSUME FeedsConstantsOK PROVE Spec => []IInv
  OBVIOUS
<1>1. Init => IInv
  BY InitInv
<1>2. IInv /\ [Next]_vars => IInv'
  BY StepInv
<1> QED BY <1>1, <1>2, PTL DEF Spec

\* Every variable of the feeds keeps its type, whatever drops and races.
THEOREM FeedsTyped == FeedsConstantsOK => (Spec => []TypeOK)
<1>1. IInv => TypeOK
  BY DEF IInv
<1> QED BY <1>1, Invariance, PTL

\* A stream is never deaf to a symbol it should deliver, unless an update
\* raced it: what update_symbols and run of the three clients promise.
THEOREM NeverDeaf == FeedsConstantsOK => (Spec => []BlindOnlyByRace)
<1>1. IInv => BlindOnlyByRace
  <2> SUFFICES ASSUME IInv, NEW s \in Streams, link[s] = "reading", ~ raced[s],
                      NEW x \in desired[s] \ heard[s]
               PROVE  \E u \in {v \in Tasks : Sending(v, s)} : x \in task[u].adds
    BY DEF BlindOnlyByRace
  <2>1. batch[s] = {}
    BY DEF IInv, TypeOK
  <2> QED BY <2>1 DEF IInv, Covered
<1> QED BY <1>1, Invariance, PTL

\* What is subscribed is the working set, unless changes crossed: what
\* _on_universe_change leaves behind.
THEOREM AppliedWorking == FeedsConstantsOK => (Spec => []AppliedIsWorking)
<1>1. IInv => AppliedIsWorking
  BY DEF IInv, Carried, AppliedIsWorking
<1> QED BY <1>1, Invariance, PTL
=============================================================================
