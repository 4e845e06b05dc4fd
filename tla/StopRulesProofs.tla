---------------------------- MODULE StopRulesProofs ----------------------------
(***************************************************************************)
(* What the trailing stops promise, for all prices, and the stop orders of *)
(* StopOrders over crashes and restarts.                                   *)
(***************************************************************************)
EXTENDS StopOrders, TLAPS

\* "Stop only ratchets up, never loosens": neither rule moves a stop against the trade.
THEOREM StopsRatchet ==
    ASSUME NEW entry \in Int, NEW best \in Int, NEW sigma \in Int, NEW hard \in Int,
           NEW be \in Int, NEW trail \in Int, NEW R \in Int, NEW half \in Int,
           NEW lock \in Int, NEW prev \in Int
    PROVE  /\ TrailLong(entry, best, sigma, hard, be, trail, prev) >= prev
           /\ TrailShort(entry, best, sigma, hard, be, trail, prev) <= prev
           /\ RTrailLong(entry, best, R, half, be, lock, trail, prev) >= prev
           /\ RTrailShort(entry, best, R, half, be, lock, trail, prev) <= prev
BY NoneIsNoPrice DEF TrailLong, TrailShort, RTrailLong, RTrailShort, RatchetUp, RatchetDown,
   Larger, Smaller, OrElse

\* The two sides are each other's mirror image: the code of one is the code of the
\* other with every price negated.
THEOREM SidesMirror ==
    ASSUME NEW entry \in Int, NEW best \in Int, NEW sigma \in Int, NEW hard \in Int,
           NEW be \in Int, NEW trail \in Int, NEW R \in Int, NEW half \in Int,
           NEW lock \in Int, NEW prev \in Int
    PROVE  /\ TrailShort(entry, best, sigma, hard, be, trail, prev)
                = -TrailLong(-entry, -best, sigma, hard, be, trail, -prev)
           /\ RTrailShort(entry, best, R, half, be, lock, trail, prev)
                = -RTrailLong(-entry, -best, R, half, be, lock, trail, -prev)
<1>1. prev # None /\ -prev # None
  BY NoneIsNoPrice
<1>2. TrailShort(entry, best, sigma, hard, be, trail, prev)
                = -TrailLong(-entry, -best, sigma, hard, be, trail, -prev)
  BY <1>1 DEF TrailLong, TrailShort, RatchetUp, RatchetDown, Larger, Smaller, OrElse
<1>3. RTrailShort(entry, best, R, half, be, lock, trail, prev)
                = -RTrailLong(-entry, -best, R, half, be, lock, trail, -prev)
  BY <1>1 DEF RTrailLong, RTrailShort, RatchetUp, RatchetDown, Larger, Smaller, OrElse
<1> QED BY <1>2, <1>3

\* From breakeven on the stop is at the entry or better, and it never passes the
\* best price seen: an update cannot put the stop where the market has not been.
THEOREM StopsLockAndFollow ==
    ASSUME NEW entry \in Int, NEW best \in Int, NEW sigma \in Int, NEW hard \in Nat,
           NEW be \in Int, NEW trail \in Nat, NEW prev \in Int, prev <= Larger(entry, best)
    PROVE  LET sl == TrailLong(entry, best, sigma, hard, be, trail, prev)
           IN  /\ sigma > 0 /\ best - entry >= be /\ best >= entry => sl >= entry
               /\ sl <= Larger(entry, best)
BY NoneIsNoPrice DEF TrailLong, RatchetUp, Larger, OrElse

\* The same of the R rule, provided the profit is locked no earlier than it is made
\* (trail_lock_R at least 0.5), which nothing in the configuration enforces.
THEOREM RStopsLockAndFollow ==
    ASSUME NEW entry \in Int, NEW best \in Int, NEW R \in Int, NEW half \in Nat,
           NEW be \in Int, NEW lock \in Int, NEW trail \in Nat, NEW prev \in Int,
           half <= lock, prev <= Larger(entry, best)
    PROVE  LET sl == RTrailLong(entry, best, R, half, be, lock, trail, prev)
           IN  /\ R > 0 /\ best - entry >= be /\ best >= entry => sl >= entry
               /\ sl <= Larger(entry, best)
BY NoneIsNoPrice DEF RTrailLong, RatchetUp, Larger, OrElse
-----------------------------------------------------------------------------
(***************************************************************************)
(* Type correctness of StopOrders.                                         *)
(***************************************************************************)
LEMMA SnapInt == \A x \in Int : Snap(x) \in Int
  <1> SUFFICES ASSUME NEW x \in Int PROVE Snap(x) \in Int  OBVIOUS
  <1>1. Tick \in Nat \ {0}  BY StopOrdersConstantsOK
  <1>2. x \div Tick \in Int  BY <1>1
  <1> QED BY <1>1, <1>2 DEF Snap

LEMMA FirstInt == \A e \in Int : First(e) \in Int
  BY SnapInt, StopOrdersConstantsOK DEF First

LEMMA FavInt == \A side : \A p \in Int : Fav(side, p) \in Int
  <1>1. \A side : Dir(side) \in {1, -1}  BY DEF Dir
  <1> QED BY <1>1 DEF Fav

LEMMA FollowInt == \A e, b, s \in Int : Follow(e, b, s) \in Int /\ Larger(e, b) \in Int
  BY StopOrdersConstantsOK DEF Follow, TrailLong, RatchetUp, OrElse, Larger

LEMMA BoundsNat == MaxPositions \in Nat /\ Ids \subseteq Nat /\ 0 \in Ids /\ Prices \subseteq Int
  BY StopOrdersConstantsOK DEF Ids

\* An object that is put under management keeps the type.
LEMMA ManageType ==
    ASSUME NEW o \in ObjType, o.stop # None, Manage(o)
    PROVE  /\ pos' \in ObjType /\ pos'.stop # None /\ pos' # None
           /\ record' \in ObjType /\ record'.stop # None
  BY NoneIsNoObject DEF Manage

\* The object that is looked at, and the object a position is recovered into.
Object(o) == o = None \/ (o \in ObjType /\ o.stop # None)

LEMMA ObjectsTyped ==
    ASSUME TypeOK
    PROVE  Object(pos) /\ Object(held) /\ Object(record)
  BY DEF TypeOK, Object

LEMMA NewObjType ==
    ASSUME TypeOK, venue.id # 0, NEW pid \in Ids, NEW stop \in Int \cup {None}
    PROVE  NewObj(pid, stop) \in ObjType
  <1>1. venue \in [id : Ids, side : Sides, entry : Int]  BY DEF TypeOK, NoPosition
  <1> QED BY <1>1 DEF NewObj, ObjType

LEMMA SpawnType ==
    ASSUME TypeOK, NEW id \in Ids, NEW stop \in Int, Spawn(id, stop)
    PROVE  attach' \subseteq [id : Ids, stop : Int, plan : Nat]
  BY DEF Spawn, TypeOK

LEMMA RestoredType ==
    ASSUME TypeOK, venue.id # 0, record # None, NEW known \in BOOLEAN
    PROVE  Restored(known) \in ObjType /\ Restored(known).stop # None
  <1>1. venue \in [id : Ids, side : Sides, entry : Int]  BY DEF TypeOK, NoPosition
  <1>2. record \in ObjType /\ record.stop # None  BY ObjectsTyped DEF Object
  <1>3. (record.guess \/ ~known \/ record.pid = 0) \in BOOLEAN  BY <1>2 DEF ObjType
  <1> QED BY <1>1, <1>2, <1>3 DEF Restored, ObjType

LEMMA RebuildType ==
    ASSUME TypeOK, Found, NEW o \in ObjType, NEW known \in BOOLEAN, Rebuild(o, known),
           UNCHANGED <<mid, venue, plans, order, pending, want, torn, count>>
    PROVE  TypeOK'
  <1> DEFINE done == Priced(o, known)
  <1>1. venue \in [id : Ids, side : Sides, entry : Int]  BY DEF TypeOK, NoPosition, Found
  <1>2. First(venue.entry) \in Int /\ First(venue.entry) # None
    BY <1>1, FirstInt, NoneIsNoPrice
  <1>3. done \in ObjType /\ done.stop # None /\ done # None
    <2>1. (IF known THEN venue.id ELSE 0) \in Ids  BY <1>1, BoundsNat
    <2>2. done \in ObjType /\ done.stop # None  BY <1>2, <2>1 DEF Priced, ObjType
    <2> HIDE DEF done
    <2> QED BY <2>2, NoneIsNoObject
  <1>4. attach' \subseteq [id : Ids, stop : Int, plan : Nat] /\ bare' \in BOOLEAN
    <2>1. CASE known /\ o.plan = 0 /\ o.stop # None
      <3>1. o.stop \in Int  BY <2>1 DEF ObjType
      <3> QED BY <1>1, <2>1, <3>1, SpawnType DEF Rebuild, TypeOK
    <2>2. CASE ~(known /\ o.plan = 0 /\ o.stop # None)
      BY <2>2 DEF Rebuild, TypeOK, ObjType
    <2> QED BY <2>1, <2>2
  <1>5. CASE Manage(done) /\ UNCHANGED <<held, pc>>
    <2> HIDE DEF done
    <2>1. /\ pos' \in ObjType /\ pos'.stop # None /\ pos' # None
          /\ record' \in ObjType /\ record'.stop # None
      BY <1>3, <1>5, ManageType
    <2> QED BY <1>4, <1>5, <2>1 DEF TypeOK
  <1>6. CASE /\ held' = done /\ pc' = "recovering" /\ UNCHANGED pos
             /\ record' = IF o.stop = None THEN None ELSE record
    <2> HIDE DEF done
    <2> QED BY <1>3, <1>4, <1>6 DEF TypeOK
  <1> QED BY <1>5, <1>6 DEF Rebuild

\* An answer leaves the objects alone, or puts its position id on the managed one,
\* with its plan id or without.
LEMMA Answered ==
    ASSUME NEW t \in attach, AttachAnswer(t)
    PROVE  /\ UNCHANGED count \/ Faults
           /\ \/ UNCHANGED <<pos, record>>
              \/ pos # None /\ \E n \in {t.plan, pos.plan} : Manage([pos EXCEPT !.pid = t.id, !.plan = n])
  <1>1. ASSUME NEW named \in BOOLEAN, pos # None,
               Manage([pos EXCEPT !.pid = t.id, !.plan = IF named THEN t.plan ELSE @])
        PROVE  \E n \in {t.plan, pos.plan} : Manage([pos EXCEPT !.pid = t.id, !.plan = n])
    BY <1>1
  <1> QED BY <1>1 DEF AttachAnswer

\* Every variable keeps its type, step by step.
LEMMA StopOrdersTypeStep ==
    ASSUME TypeOK, [Next]_vars
    PROVE  TypeOK'
  <1> USE BoundsNat
  <1>1. CASE UNCHANGED vars  BY <1>1 DEF vars, TypeOK
  <1>2. ASSUME NEW p \in Prices, MidMoves(p) PROVE TypeOK'
    BY <1>2 DEF MidMoves, TypeOK
  <1>3. ASSUME NEW side \in Sides, Enter(side) PROVE TypeOK'
    <2>1. count' \in [positions : Ids, plans : Nat, crashes : Nat, faults : Nat]
      BY <1>3 DEF Enter, TypeOK, Ids
    <2> QED BY <1>3, <2>1 DEF Enter, TypeOK
  <1>4. CASE StopFires  BY <1>4 DEF StopFires, Gone, TypeOK
  <1>5. CASE Fill
    <2>1. order \in Sides /\ mid \in Int /\ count.positions \in Ids  BY <1>5 DEF Fill, TypeOK
    <2>2. venue' \in [id : Ids, side : Sides, entry : Int]  BY <1>5, <2>1, FavInt DEF Fill
    <2> QED BY <1>5, <2>2 DEF Fill, TypeOK
  <1>6. CASE OrderEnds \/ ReplyLost
    <2>1. CASE OrderEnds  BY <2>1 DEF OrderEnds, TypeOK
    <2>2. CASE ReplyLost
      <3>1. count' \in [positions : Ids, plans : Nat, crashes : Nat, faults : Nat]
        BY <2>2 DEF ReplyLost, Faults, TypeOK
      <3> QED BY <2>2, <3>1 DEF ReplyLost, TypeOK
    <2> QED BY <1>6, <2>1, <2>2
  <1>7. CASE Adopt
    <2>1. PICK known \in PidKnown :
             /\ Manage(NewObj(IF known THEN venue.id ELSE 0, First(venue.entry)))
             /\ IF known THEN Spawn(venue.id, First(venue.entry)) ELSE UNCHANGED attach
             /\ bare' = (bare \/ ~known)
      BY <1>7 DEF Adopt
    <2>2. venue \in [id : Ids, side : Sides, entry : Int] /\ venue.id # 0
      BY <1>7 DEF Adopt, TypeOK, NoPosition
    <2>3. First(venue.entry) \in Int /\ First(venue.entry) # None
      BY <2>2, FirstInt, NoneIsNoPrice
    <2>4. known \in BOOLEAN /\ (IF known THEN venue.id ELSE 0) \in Ids
      BY <2>2, StopOrdersConstantsOK
    <2> DEFINE o == NewObj(IF known THEN venue.id ELSE 0, First(venue.entry))
    <2>5. o \in ObjType /\ o.stop # None
      <3>1. o \in ObjType  BY <2>2, <2>3, <2>4, NewObjType
      <3> QED BY <2>3, <3>1 DEF NewObj
    <2>6. attach' \subseteq [id : Ids, stop : Int, plan : Nat]
      BY <2>1, <2>2, <2>3, SpawnType DEF TypeOK
    <2> HIDE DEF o
    <2>7. /\ pos' \in ObjType /\ pos'.stop # None /\ pos' # None
          /\ record' \in ObjType /\ record'.stop # None
      BY <2>1, <2>5, ManageType DEF o
    <2> QED BY <1>7, <2>1, <2>4, <2>6, <2>7 DEF Adopt, TypeOK
  <1>8. ASSUME NEW t \in attach, AttachCall(t) PROVE TypeOK'
    <2>1. t \in [id : Ids, stop : Int, plan : Nat]  BY DEF TypeOK
    <2>2. CASE venue.id = t.id /\ count' = [count EXCEPT !.plans = @ + 1]
               /\ plans' = plans \cup {[n |-> count'.plans, stop |-> t.stop]}
               /\ attach' = (attach \ {t}) \cup {[t EXCEPT !.plan = count'.plans]}
               /\ UNCHANGED bare
      <3>1. /\ count' \in [positions : Ids, plans : Nat, crashes : Nat, faults : Nat]
            /\ count'.plans \in Nat
        BY <2>2 DEF TypeOK
      <3>2. plans' \subseteq [n : Nat, stop : Int]  BY <2>1, <2>2, <3>1 DEF TypeOK
      <3>3. attach' \subseteq [id : Ids, stop : Int, plan : Nat]
        BY <2>1, <2>2, <3>1 DEF TypeOK
      <3> QED BY <1>8, <2>2, <3>1, <3>2, <3>3 DEF AttachCall, TypeOK
    <2>3. CASE attach' = attach \ {t} /\ UNCHANGED <<plans, bare, count>>
      BY <1>8, <2>3 DEF AttachCall, TypeOK
    <2>4. CASE Faults /\ attach' = attach \ {t} /\ bare' = TRUE /\ UNCHANGED plans
      BY <1>8, <2>4 DEF AttachCall, Faults, TypeOK
    <2> QED BY <1>8, <2>2, <2>3, <2>4 DEF AttachCall
  <1>9. ASSUME NEW t \in attach, AttachAnswer(t) PROVE TypeOK'
    <2>1. t \in [id : Ids, stop : Int, plan : Nat]  BY DEF TypeOK
    <2>2. ASSUME pos # None, UNCHANGED count \/ Faults, NEW n \in {t.plan, pos.plan},
                 Manage([pos EXCEPT !.pid = t.id, !.plan = n])
          PROVE  TypeOK'
      <3> DEFINE o == [pos EXCEPT !.pid = t.id, !.plan = n]
      <3>1. pos \in ObjType /\ pos.stop # None  BY <2>2, ObjectsTyped DEF Object
      <3>2. o \in ObjType /\ o.stop # None  BY <2>1, <3>1 DEF ObjType
      <3> HIDE DEF o
      <3>3. /\ pos' \in ObjType /\ pos'.stop # None /\ pos' # None
            /\ record' \in ObjType /\ record'.stop # None
        BY <2>2, <3>2, ManageType DEF o
      <3>4. count' \in [positions : Ids, plans : Nat, crashes : Nat, faults : Nat]
        BY <2>2 DEF Faults, TypeOK
      <3> QED BY <1>9, <2>2, <3>3, <3>4 DEF AttachAnswer, TypeOK
    <2>3. CASE UNCHANGED <<pos, record>>
      <3>1. UNCHANGED count \/ Faults  BY <1>9, Answered
      <3>2. count' \in [positions : Ids, plans : Nat, crashes : Nat, faults : Nat]
        BY <3>1 DEF Faults, TypeOK
      <3>3. /\ attach' \subseteq attach
            /\ UNCHANGED <<mid, venue, plans, order, pending, held, pc, want, torn, bare>>
        BY <1>9 DEF AttachAnswer
      <3> QED BY <2>3, <3>2, <3>3 DEF TypeOK
    <2> QED BY <1>9, <2>2, <2>3, Answered
  <1>10. CASE Recover
    <2>1. PICK known \in PidKnown, soon \in BOOLEAN :
             Rebuild(IF record # None /\ Matches(known, soon) THEN Restored(known)
                     ELSE NewObj(0, None), known)
      BY <1>10 DEF Recover
    <2>2. known \in BOOLEAN /\ Found /\ venue.id # 0
      BY <1>10, StopOrdersConstantsOK DEF Recover, Found
    <2> DEFINE o == IF record # None /\ Matches(known, soon) THEN Restored(known)
                    ELSE NewObj(0, None)
    <2>3. o \in ObjType  BY <2>2, RestoredType, NewObjType
    <2> HIDE DEF o
    <2>4. Rebuild(o, known)  BY <2>1 DEF o
    <2> QED BY <1>10, <2>2, <2>3, <2>4, RebuildType DEF Recover
  <1>11. CASE Recovered
    <2>1. held \in ObjType /\ held.stop # None
      BY <1>11, ObjectsTyped DEF Recovered, Object, TypeOK
    <2>2. /\ pos' \in ObjType /\ pos'.stop # None /\ pos' # None
          /\ record' \in ObjType /\ record'.stop # None
      BY <1>11, <2>1, ManageType DEF Recovered
    <2> QED BY <1>11, <2>2 DEF Recovered, TypeOK
  <1>12. ASSUME NEW slow \in BOOLEAN, Look(slow) PROVE TypeOK'
    <2> DEFINE best == Larger(pos.best, Fav(pos.side, mid))
               new == Follow(pos.entry, best, pos.stop)
               moved == (pos.due \/ SlowTicks \/ slow) /\ new # pos.stop
               through == [pos EXCEPT !.best = best, !.due = FALSE,
                                      !.stop = IF moved THEN Snap(new) ELSE @]
    <2>1. pos # None /\ pos \in ObjType /\ pos.stop # None
      BY <1>12, ObjectsTyped DEF Look, Here, Object
    <2>2. pos.entry \in Int /\ pos.best \in Int /\ pos.stop \in Int  BY <2>1 DEF ObjType
    <2>3. best \in Int
      <3>1. mid \in Int  BY DEF TypeOK
      <3> QED BY <2>2, <3>1, FavInt, FollowInt
    <2>4. new \in Int /\ Snap(new) \in Int  BY <2>2, <2>3, FollowInt, SnapInt
    <2>5. pc = "idle"  BY <1>12 DEF Look, Here, Idle
    <2>6. CASE moved /\ pos.plan # 0
      <3>1. /\ pos' = [pos EXCEPT !.best = best]
            /\ want' = Snap(new) /\ pc' = "changing" /\ UNCHANGED record
        BY <1>12, <2>6 DEF Look
      <3> HIDE DEF best, new, moved
      <3>2. pos' \in ObjType /\ pos'.stop # None  BY <2>1, <2>3, <3>1 DEF ObjType
      <3>3. pos' # None  BY <3>2, NoneIsNoObject
      <3> QED BY <1>12, <2>4, <2>5, <3>1, <3>2, <3>3 DEF Look, TypeOK
    <2>7. CASE ~(moved /\ pos.plan # 0)
      <3>1. Manage(through) /\ UNCHANGED <<want, pc>>  BY <1>12, <2>7 DEF Look
      <3> HIDE DEF best, new, moved
      <3>2. through \in ObjType /\ through.stop # None
        BY <2>1, <2>2, <2>3, <2>4, NoneIsNoPrice DEF ObjType
      <3> HIDE DEF through
      <3>3. /\ pos' \in ObjType /\ pos'.stop # None /\ pos' # None
            /\ record' \in ObjType /\ record'.stop # None
        BY <3>1, <3>2, ManageType
      <3> QED BY <1>12, <2>5, <3>1, <3>3 DEF Look, TypeOK
    <2> QED BY <2>6, <2>7
  <1>13. CASE ChangeCall
    <2>1. \A n : Changes(n) => plans' \subseteq [n : Nat, stop : Int]
      BY DEF Changes, TypeOK
    <2>2. plans' \subseteq [n : Nat, stop : Int]  BY <1>13, <2>1 DEF ChangeCall, TypeOK
    <2>3. pc' \in {"changed", "unchanged"} /\ pc = "changing"  BY <1>13 DEF ChangeCall
    <2>4. count' \in [positions : Ids, plans : Nat, crashes : Nat, faults : Nat]
      BY <1>13 DEF ChangeCall, Faults, TypeOK
    <2>5. UNCHANGED <<mid, venue, order, pending, pos, held, record, attach, want, torn, bare>>
      BY <1>13 DEF ChangeCall
    <2> QED BY <2>2, <2>3, <2>4, <2>5 DEF TypeOK
  <1>14. CASE PassEnds
    <2> DEFINE o == [pos EXCEPT !.due = FALSE, !.stop = IF pc = "changed" THEN want ELSE @]
    <2>1. pos # None /\ pos \in ObjType /\ pos.stop # None
      BY <1>14, ObjectsTyped DEF PassEnds, TypeOK, Object
    <2>2. o \in ObjType /\ o.stop # None
      <3>1. want \in Int  BY DEF TypeOK
      <3> QED BY <2>1, <3>1, NoneIsNoPrice DEF ObjType
    <2> HIDE DEF o
    <2>3. /\ pos' \in ObjType /\ pos'.stop # None /\ pos' # None
          /\ record' \in ObjType /\ record'.stop # None
      BY <1>14, <2>2, ManageType DEF PassEnds, o
    <2> QED BY <1>14, <2>3 DEF PassEnds, TypeOK
  <1>15. CASE Exit  BY <1>15 DEF Exit, Here, Idle, TypeOK
  <1>16. CASE CloseCall
    BY <1>16 DEF CloseCall, Gone, Faults, TypeOK
  <1>17. CASE Release  BY <1>17 DEF Release, Idle, TypeOK
  <1>18. CASE Crash
    <2>1. count' \in [positions : Ids, plans : Nat, crashes : Nat, faults : Nat]
      BY <1>18 DEF Crash, TypeOK
    <2>2. torn' \in BOOLEAN
      <3>1. CASE pc \in {"changed", "unchanged"}  BY <1>18, <3>1 DEF Crash
      <3>2. CASE pc \notin {"changed", "unchanged"}  BY <1>18, <3>2 DEF Crash, TypeOK
      <3> QED BY <3>1, <3>2
    <2>3. pos' = None /\ held' = None /\ pending' = FALSE /\ attach' = {} /\ pc' = "idle"
      BY <1>18 DEF Crash
    <2>4. UNCHANGED <<mid, venue, plans, order, record, want, bare>>  BY <1>18 DEF Crash
    <2> QED BY <2>1, <2>2, <2>3, <2>4 DEF TypeOK
  <1> QED BY <1>1, <1>2, <1>3, <1>4, <1>5, <1>6, <1>7, <1>8, <1>9, <1>10, <1>11, <1>12, <1>13,
             <1>14, <1>15, <1>16, <1>17, <1>18 DEF Next, Loop

\* Every variable keeps its type, for any prices, rule and bounds.
THEOREM StopOrdersTyped == Spec => []TypeOK
  <1>1. Init => TypeOK
    <2> SUFFICES ASSUME Init PROVE TypeOK  OBVIOUS
    <2>1. count \in [positions : Ids, plans : Nat, crashes : Nat, faults : Nat]
      BY BoundsNat DEF Init
    <2>2. {pos, held, record} \ {None} = {}  BY DEF Init
    <2>3. /\ mid \in Prices /\ venue = NoPosition /\ plans = {} /\ order = None
          /\ pending = FALSE /\ pos = None /\ held = None /\ attach = {}
          /\ pc = "idle" /\ want = 0 /\ torn = FALSE /\ bare = FALSE
      BY DEF Init
    <2>4. {torn, bare} \subseteq BOOLEAN  BY <2>3
    <2>5. \A o \in {pos, held, record} \ {None} : o \in ObjType /\ o.stop # None  BY <2>2
    <2>6. plans \subseteq [n : Nat, stop : Int] /\ attach \subseteq [id : Ids, stop : Int, plan : Nat]
      BY <2>3
    <2>7. /\ pc \in {"idle", "recovering", "changing", "changed", "unchanged", "closing", "closed"}
          /\ pc = "recovering" <=> held # None
          /\ pc \in {"changing", "changed", "unchanged", "closing", "closed"} => pos # None
      BY <2>3
    <2>8. /\ mid \in Prices /\ venue = NoPosition
          /\ order \in Sides \cup {None} /\ want \in Int
      BY <2>3
    <2>9. pending \in BOOLEAN  BY <2>3
    <2> QED BY ONLY <2>1, <2>4, <2>5, <2>6, <2>7, <2>8, <2>9, Zenon DEF TypeOK
  <1>2. TypeOK /\ [Next]_vars => TypeOK'  BY StopOrdersTypeStep
  <1> QED BY <1>1, <1>2, PTL DEF Spec

-----------------------------------------------------------------------------
(***************************************************************************)
(* A managed position has its own history.  The last position entered is    *)
(* the only one the executor can be looking at, and a plan id or a position *)
(* id that comes late names an earlier one: so a record that carries the id *)
(* of the open position, and was never restored without ids, is its own.    *)
(***************************************************************************)
Fits(o, n) ==
    o = None \/ (o.of <= n /\ (o.guess \/ (o.of = o.on /\ o.pid <= o.of)))

Ours ==
    /\ venue.id # 0 => venue.id = count.positions
    /\ \A t \in attach : t.id <= count.positions
    /\ pos # None => pos.on = count.positions
    /\ held # None => held.on = count.positions
    /\ Fits(pos, count.positions) /\ Fits(held, count.positions) /\ Fits(record, count.positions)

\* A position that is entered leaves what fits fitting.
LEMMA FitsGrows ==
    ASSUME NEW n \in Nat, NEW o, Object(o), Fits(o, n)
    PROVE  Fits(o, n + 1)
  <1>1. o # None => o.of \in Nat  BY BoundsNat DEF Object, ObjType
  <1> QED BY <1>1 DEF Fits

LEMMA SpawnOurs ==
    ASSUME TypeOK, Ours, venue.id # 0, NEW stop, Spawn(venue.id, stop), UNCHANGED count
    PROVE  \A t \in attach' : t.id <= count'.positions
  <1>1. venue.id = count.positions /\ count.positions \in Nat  BY BoundsNat DEF Ours, TypeOK
  <1>2. \A t \in attach : t.id <= count.positions  BY DEF Ours
  <1>3. \A t \in attach' : t \in attach \/ t.id = venue.id  BY DEF Spawn
  <1> QED BY <1>1, <1>2, <1>3

\* An object of the open position, whose history is its own, is put under
\* management.
LEMMA ManageOurs ==
    ASSUME Ours, UNCHANGED <<venue, held>>, count'.positions = count.positions,
           \A t \in attach' : t.id <= count'.positions,
           NEW o, o.on = count.positions, Fits(o, count.positions), Manage(o)
    PROVE  Ours'
  BY DEF Ours, Manage

\* What the restored record knows of ids, it knows of the open position.
LEMMA RestoredOurs ==
    ASSUME TypeOK, Ours, venue.id # 0, record # None, NEW known \in BOOLEAN,
           NEW soon \in BOOLEAN, Matches(known, soon)
    PROVE  LET o == Priced(Restored(known), known)
           IN  o.on = count.positions /\ Fits(o, count.positions)
  <1> DEFINE o == Priced(Restored(known), known)
  <1>1. venue.id = count.positions /\ count.positions \in Nat  BY BoundsNat DEF Ours, TypeOK
  <1>2. /\ record \in ObjType /\ record.of \in Nat /\ record.pid \in Nat
        /\ record.of <= count.positions
        /\ record.guess \/ (record.of = record.on /\ record.pid <= record.of)
    BY ObjectsTyped, BoundsNat DEF Object, ObjType, Ours, Fits
  <1>3. /\ o.on = venue.id /\ o.of = record.of
        /\ o.guess = (record.guess \/ ~known \/ record.pid = 0)
        /\ o.pid = IF known THEN venue.id ELSE 0
    BY <1>2 DEF Priced, Restored, ObjType
  <1>4. o.guess \/ (o.of = o.on /\ o.pid <= o.of)
    <2>1. CASE record.guess \/ ~known \/ record.pid = 0  BY <1>3, <2>1
    <2>2. CASE ~(record.guess \/ ~known \/ record.pid = 0)
      <3>1. record.pid = venue.id  BY <2>2 DEF Matches
      <3>2. record.of = venue.id  BY <1>1, <1>2, <2>2, <3>1
      <3> QED BY <1>1, <1>3, <2>2, <3>2
    <2> QED BY <2>1, <2>2
  <1> HIDE DEF o
  <1>5. o.on = count.positions /\ Fits(o, count.positions)  BY <1>1, <1>2, <1>3, <1>4 DEF Fits
  <1> QED BY <1>5 DEF o

LEMMA NewOurs ==
    ASSUME TypeOK, Ours, venue.id # 0, NEW known \in BOOLEAN
    PROVE  LET o == Priced(NewObj(0, None), known)
           IN  o.on = count.positions /\ Fits(o, count.positions)
  <1>1. venue.id = count.positions /\ count.positions \in Nat  BY BoundsNat DEF Ours, TypeOK
  <1> QED BY <1>1 DEF Priced, NewObj, Fits

LEMMA RebuildOurs ==
    ASSUME TypeOK, Ours, Found, NEW o, NEW known \in BOOLEAN, Rebuild(o, known),
           UNCHANGED <<venue, count>>,
           Priced(o, known).on = count.positions /\ Fits(Priced(o, known), count.positions)
    PROVE  Ours'
  <1> DEFINE d == Priced(o, known)
  <1>1. \A t \in attach' : t.id <= count'.positions
    <2>1. CASE known /\ o.plan = 0 /\ o.stop # None
      BY <2>1, SpawnOurs DEF Rebuild, Found
    <2>2. CASE ~(known /\ o.plan = 0 /\ o.stop # None)  BY <2>2 DEF Rebuild, Ours
    <2> QED BY <2>1, <2>2
  <1>2. d.on = count.positions /\ Fits(d, count.positions)  OBVIOUS
  <1>3. CASE Manage(d) /\ UNCHANGED <<held, pc>>
    <2> HIDE DEF d
    <2> QED BY <1>1, <1>2, <1>3, ManageOurs
  <1>4. CASE /\ held' = d /\ pc' = "recovering" /\ UNCHANGED pos
             /\ record' = IF o.stop = None THEN None ELSE record
    <2> HIDE DEF d
    <2>1. Fits(record', count'.positions)  BY <1>4 DEF Ours, Fits
    <2> QED BY <1>1, <1>2, <1>4, <2>1 DEF Ours
  <1> QED BY <1>3, <1>4 DEF Rebuild

\* A change that leaves the ids of the managed position alone.
LEMMA KeepOurs ==
    ASSUME TypeOK, Ours, pos # None, UNCHANGED <<venue, held, attach, count>>,
           NEW o, o.on = pos.on, o.of = pos.of, o.guess = pos.guess, o.pid = pos.pid,
           pos' = o, record' = o \/ UNCHANGED record
    PROVE  Ours'
  <1>1. o.on = count.positions /\ Fits(o, count.positions)  BY DEF Ours, Fits
  <1> QED BY <1>1 DEF Ours

LEMMA OursStep ==
    ASSUME TypeOK, Ours, [Next]_vars
    PROVE  Ours'
  <1>1. CASE UNCHANGED vars  BY <1>1 DEF vars, Ours
  <1>2. ASSUME NEW p \in Prices, MidMoves(p) PROVE Ours'  BY <1>2 DEF MidMoves, Ours
  <1>3. ASSUME NEW side \in Sides, Enter(side) PROVE Ours'
    <2>1. count.positions \in Nat /\ count'.positions = count.positions + 1
      BY <1>3, BoundsNat DEF Enter, TypeOK
    <2>2. Fits(record, count'.positions)
      BY <2>1, ObjectsTyped, FitsGrows DEF Ours
    <2>3. \A t \in attach : t.id <= count'.positions
      <3>1. \A t \in attach : t.id \in Nat  BY BoundsNat DEF TypeOK
      <3> QED BY <2>1, <3>1 DEF Ours
    <2>4. venue.id = 0 /\ pos = None /\ held = None /\ UNCHANGED <<venue, pos, held, record, attach>>
      BY <1>3 DEF Enter
    <2> QED BY <2>2, <2>3, <2>4 DEF Ours, Fits
  <1>4. CASE StopFires  BY <1>4 DEF StopFires, Gone, NoPosition, Ours
  <1>5. CASE Fill  BY <1>5 DEF Fill, Ours
  <1>6. CASE OrderEnds  BY <1>6 DEF OrderEnds, Ours
  <1>7. CASE ReplyLost
    <2>1. count'.positions = count.positions  BY <1>7 DEF ReplyLost, Faults, TypeOK
    <2> QED BY <1>7, <2>1 DEF ReplyLost, Ours
  <1>8. CASE Adopt
    <2>1. PICK known \in PidKnown :
             /\ Manage(NewObj(IF known THEN venue.id ELSE 0, First(venue.entry)))
             /\ IF known THEN Spawn(venue.id, First(venue.entry)) ELSE UNCHANGED attach
      BY <1>8 DEF Adopt
    <2> DEFINE o == NewObj(IF known THEN venue.id ELSE 0, First(venue.entry))
    <2>2. venue.id # 0 /\ UNCHANGED <<venue, held, count>>  BY <1>8 DEF Adopt
    <2>3. venue.id = count.positions /\ count.positions \in Nat
      BY <2>2, BoundsNat DEF Ours, TypeOK
    <2>4. o.on = count.positions /\ Fits(o, count.positions)  BY <2>3 DEF NewObj, Fits
    <2>5. \A t \in attach' : t.id <= count'.positions
      BY <2>1, <2>2, SpawnOurs DEF Ours
    <2> HIDE DEF o
    <2> QED BY <2>1, <2>2, <2>4, <2>5, ManageOurs DEF o
  <1>9. ASSUME NEW t \in attach, AttachCall(t) PROVE Ours'
    <2>1. count'.positions = count.positions  BY <1>9 DEF AttachCall, Faults, TypeOK
    <2>2. \A u \in attach' : u.id <= count'.positions
      <3>1. t.id <= count.positions /\ t \in [id : Ids, stop : Int, plan : Nat]  BY DEF Ours, TypeOK
      <3>2. \A u \in attach' : u \in attach \/ u.id = t.id  BY <1>9, <3>1 DEF AttachCall
      <3> QED BY <2>1, <3>1, <3>2 DEF Ours
    <2>3. UNCHANGED <<venue, pos, held, record>>  BY <1>9 DEF AttachCall
    <2> QED BY <2>1, <2>2, <2>3 DEF Ours
  <1>10. ASSUME NEW t \in attach, AttachAnswer(t) PROVE Ours'
    <2>1. count'.positions = count.positions  BY <1>10 DEF AttachAnswer, Faults, TypeOK
    <2>2. \A u \in attach' : u.id <= count'.positions
      BY <1>10, <2>1 DEF AttachAnswer, Ours
    <2>3. UNCHANGED <<venue, held>>  BY <1>10 DEF AttachAnswer
    <2>4. CASE UNCHANGED <<pos, record>>  BY <2>1, <2>2, <2>3, <2>4 DEF Ours
    <2>5. ASSUME pos # None, NEW n \in {t.plan, pos.plan},
                 Manage([pos EXCEPT !.pid = t.id, !.plan = n])
          PROVE  Ours'
      <3> DEFINE o == [pos EXCEPT !.pid = t.id, !.plan = n]
      <3>1. pos \in ObjType /\ pos.of \in Nat /\ pos.on = count.positions /\ t.id <= count.positions
        BY <2>5, ObjectsTyped, BoundsNat DEF Object, ObjType, Ours
      <3>2. o.on = pos.on /\ o.of = pos.of /\ o.guess = pos.guess /\ o.pid = t.id
        BY <3>1 DEF ObjType
      <3>3. Fits(o, count.positions)  BY <2>5, <3>1, <3>2 DEF Ours, Fits
      <3> HIDE DEF o
      <3> QED BY <2>1, <2>2, <2>3, <2>5, <3>1, <3>2, <3>3, ManageOurs DEF o
    <2> QED BY <1>10, <2>4, <2>5, Answered
  <1>11. CASE Recover
    <2>1. PICK known \in PidKnown, soon \in BOOLEAN :
             Rebuild(IF record # None /\ Matches(known, soon) THEN Restored(known)
                     ELSE NewObj(0, None), known)
      BY <1>11 DEF Recover
    <2>2. known \in BOOLEAN /\ Found /\ venue.id # 0 /\ UNCHANGED <<venue, count>>
      BY <1>11, StopOrdersConstantsOK DEF Recover, Found
    <2>3. CASE record # None /\ Matches(known, soon)
      <3> DEFINE o == Restored(known)
      <3>1. Rebuild(o, known)  BY <2>1, <2>3
      <3>2. Priced(o, known).on = count.positions /\ Fits(Priced(o, known), count.positions)
        BY <2>2, <2>3, RestoredOurs
      <3> HIDE DEF o
      <3> QED BY <2>2, <3>1, <3>2, RebuildOurs
    <2>4. CASE ~(record # None /\ Matches(known, soon))
      <3> DEFINE o == NewObj(0, None)
      <3>1. Rebuild(o, known)  BY <2>1, <2>4
      <3>2. Priced(o, known).on = count.positions /\ Fits(Priced(o, known), count.positions)
        BY <2>2, NewOurs
      <3> HIDE DEF o
      <3> QED BY <2>2, <3>1, <3>2, RebuildOurs
    <2> QED BY <2>3, <2>4
  <1>12. CASE Recovered
    <2>1. held # None /\ pos' = held /\ record' = held /\ held' = None
          /\ UNCHANGED <<venue, attach, count>>
      BY <1>12 DEF Recovered, Manage, TypeOK
    <2> QED BY <2>1 DEF Ours, Fits
  <1>13. ASSUME NEW slow \in BOOLEAN, Look(slow) PROVE Ours'
    <2>1. pos # None /\ pos \in ObjType  BY <1>13, ObjectsTyped DEF Look, Here, Object
    <2>2. UNCHANGED <<venue, held, attach, count>>  BY <1>13 DEF Look
    <2>3. /\ pos'.on = pos.on /\ pos'.of = pos.of /\ pos'.guess = pos.guess /\ pos'.pid = pos.pid
          /\ record' = pos' \/ UNCHANGED record
      BY <1>13, <2>1 DEF Look, Manage, ObjType
    <2> QED BY <2>1, <2>2, <2>3, KeepOurs
  <1>14. CASE ChangeCall
    <2>1. count'.positions = count.positions  BY <1>14 DEF ChangeCall, Faults, TypeOK
    <2> QED BY <1>14, <2>1 DEF ChangeCall, Ours
  <1>15. CASE PassEnds
    <2>1. pos # None /\ pos \in ObjType  BY <1>15, ObjectsTyped DEF PassEnds, Object, TypeOK
    <2>2. UNCHANGED <<venue, held, attach, count>>  BY <1>15 DEF PassEnds
    <2>3. /\ pos'.on = pos.on /\ pos'.of = pos.of /\ pos'.guess = pos.guess /\ pos'.pid = pos.pid
          /\ record' = pos'
      BY <1>15, <2>1 DEF PassEnds, Manage, ObjType
    <2> QED BY <2>1, <2>2, <2>3, KeepOurs
  <1>16. CASE Exit  BY <1>16 DEF Exit, Ours
  <1>17. CASE CloseCall
    <2>1. count'.positions = count.positions  BY <1>17 DEF CloseCall, Faults, TypeOK
    <2> QED BY <1>17, <2>1 DEF CloseCall, Gone, NoPosition, Ours
  <1>18. CASE Release  BY <1>18 DEF Release, Ours, Fits
  <1>19. CASE Crash
    <2>1. count'.positions = count.positions  BY <1>19 DEF Crash, TypeOK
    <2> QED BY <1>19, <2>1 DEF Crash, Ours, Fits
  <1> QED BY <1>1, <1>2, <1>3, <1>4, <1>5, <1>6, <1>7, <1>8, <1>9, <1>10, <1>11, <1>12, <1>13,
             <1>14, <1>15, <1>16, <1>17, <1>18, <1>19 DEF Next, Loop

\* A managed position never has the history of another one, over any crashes,
\* lost replies and late answers, unless no ids were compared when it was
\* restored.
THEOREM RevivedIsOwnAlways == Spec => []RevivedIsOwn
  <1>1. Init => Ours
    BY BoundsNat DEF Init, Ours, NoPosition, Fits
  <1>2. TypeOK /\ Ours /\ [Next]_vars => Ours'  BY OursStep
  <1>3. Ours => RevivedIsOwn  BY DEF Ours, Fits, RevivedIsOwn
  <1> QED BY <1>1, <1>2, <1>3, StopOrdersTyped, PTL DEF Spec

-----------------------------------------------------------------------------
(***************************************************************************)
(* A stop at the venue does not move back.                                 *)
(*                                                                         *)
(* The largest stop the rule has given a position so far depends on its    *)
(* entry and its best price alone, not on when the loop looked: no stop    *)
(* order is beyond it, and a change asks for exactly that price.           *)
(***************************************************************************)
CapOf(entry, best) == Snap(Follow(entry, best, First(entry)))
Cap(o) == CapOf(o.entry, o.best)

\* Rounding to ticks lowers a price, keeps the order of prices, and rounds once.
LEMMA SnapRounds ==
    ASSUME NEW x \in Int, NEW y \in Int, x <= y
    PROVE  Snap(x) <= x /\ Snap(x) <= Snap(y) /\ Snap(Snap(x)) = Snap(x)
  <1> DEFINE T == Tick
             q == x \div T
             r == y \div T
  <1>1. T \in Nat \ {0}  BY StopOrdersConstantsOK
  <1>2. /\ q \in Int /\ r \in Int /\ x % T \in 0..(T - 1) /\ y % T \in 0..(T - 1)
        /\ x = T * q + (x % T) /\ y = T * r + (y % T)
    <2> HIDE DEF T
    <2> QED BY <1>1
  <1>3. Snap(x) = q * T /\ Snap(y) = r * T  BY DEF Snap
  <1>4. q * T \in Int /\ r * T \in Int /\ T * q = q * T /\ T * r = r * T
    <2> HIDE DEF T, q, r
    <2> QED BY <1>1, <1>2
  <1>5. q * T <= x
    <2> HIDE DEF T, q, r
    <2> QED BY <1>1, <1>2, <1>4
  <1>6. q <= r
    <2> SUFFICES ASSUME r + 1 <= q PROVE FALSE  BY <1>2
    <2> HIDE DEF T, q, r
    <2>1. (r + 1) * T <= q * T  BY <1>1, <1>2
    <2>2. (r + 1) * T = r * T + T  BY <1>1, <1>2
    <2> QED BY <1>1, <1>2, <1>4, <2>1, <2>2
  <1>7. q * T <= r * T
    <2> HIDE DEF T, q, r
    <2> QED BY <1>1, <1>2, <1>6
  <1>8. (q * T) \div T = q
    <2> HIDE DEF T, q, r
    <2> QED BY <1>1, <1>2
  <1> QED BY <1>3, <1>5, <1>7, <1>8 DEF Snap

\* The rule with a stop already set: past breakeven the trailing price, unless
\* the stop is better.
LEMMA FollowForm ==
    ASSUME NEW e \in Int, NEW b \in Int, NEW s \in Int
    PROVE  Follow(e, b, s) = IF Sigma <= 0 \/ Larger(0, b - e) < Breakeven THEN s
                             ELSE Larger(Larger(e, b - Trail), s)
  BY StopOrdersConstantsOK, NoneIsNoPrice DEF Follow, TrailLong, RatchetUp, OrElse, Larger

\* The largest stop so far is at least the first one and never falls, and a stop
\* between the two, updated for a better best price, is moved exactly there.
LEMMA CapGrows ==
    ASSUME NEW e \in Int, NEW b \in Int, NEW c \in Int, b <= c
    PROVE  /\ CapOf(e, b) \in Int /\ First(e) <= CapOf(e, b) /\ CapOf(e, b) <= CapOf(e, c)
           /\ \A s \in Int : First(e) <= s /\ s <= CapOf(e, b)
                               => Snap(Follow(e, c, s)) = CapOf(e, c)
  <1> DEFINE f == First(e)
             X == Larger(e, b - Trail)
             Y == Larger(e, c - Trail)
             far(z) == Sigma <= 0 \/ Larger(0, z - e) < Breakeven
  <1>1. f \in Int /\ X \in Int /\ Y \in Int /\ X <= Y /\ Sigma \in Nat /\ Trail \in Nat
    BY FirstInt, StopOrdersConstantsOK DEF Larger
  <1>2. /\ CapOf(e, b) = Snap(IF far(b) THEN f ELSE Larger(X, f))
        /\ CapOf(e, c) = Snap(IF far(c) THEN f ELSE Larger(Y, f))
        /\ \A s \in Int : Follow(e, c, s) = IF far(c) THEN s ELSE Larger(Y, s)
    BY <1>1, FollowForm DEF CapOf
  <1>3. far(c) => far(b)  BY StopOrdersConstantsOK DEF Larger
  <1>4. Snap(f) = f
    <2>1. e - Initial \in Int  BY StopOrdersConstantsOK
    <2> QED BY <2>1, SnapRounds DEF First
  <1> HIDE DEF f, X, Y, far
  <1>5. \A s \in Int : Larger(Y, s) \in Int /\ Larger(X, s) \in Int
                       /\ Larger(X, s) <= Larger(Y, s) /\ s <= Larger(X, s) /\ s <= Larger(Y, s)
    BY <1>1 DEF Larger
  <1>6. /\ Snap(Larger(X, f)) \in Int /\ Snap(Larger(Y, f)) \in Int
        /\ f <= Snap(Larger(X, f)) /\ f <= Snap(Larger(Y, f))
        /\ Snap(Larger(X, f)) <= Snap(Larger(Y, f))
        /\ Snap(Larger(Y, f)) <= Larger(Y, f)
    <2>1. Larger(Y, f) \in Int /\ Larger(X, f) \in Int /\ Larger(X, f) <= Larger(Y, f)
          /\ f <= Larger(X, f) /\ f <= Larger(Y, f)
      BY <1>1, <1>5
    <2> QED BY <1>1, <1>4, <2>1, SnapInt, SnapRounds
  <1>7. CapOf(e, b) \in Int /\ f <= CapOf(e, b) /\ CapOf(e, b) <= CapOf(e, c)
    BY <1>1, <1>2, <1>3, <1>4, <1>6
  <1>8. ASSUME NEW s \in Int, f <= s, s <= CapOf(e, b)
        PROVE  Snap(Follow(e, c, s)) = CapOf(e, c)
    <2>1. CASE far(c)
      <3>1. s = f  BY <1>1, <1>2, <1>3, <1>4, <1>8, <2>1
      <3> QED BY <1>2, <2>1, <3>1
    <2>2. CASE ~far(c)
      <3>1. s <= Larger(Y, f)  BY <1>1, <1>2, <1>5, <1>6, <1>7, <1>8, <2>2
      <3>2. Larger(Y, s) = Larger(Y, f)  BY <1>1, <1>8, <3>1 DEF Larger
      <3> QED BY <1>2, <2>2, <3>2
    <2> QED BY <2>1, <2>2
  <1> QED BY <1>7, <1>8 DEF f

\* The steps that put an object under management, by what they leave in it.
LEMMA AdoptForm ==
    ASSUME TypeOK, Adopt
    PROVE  /\ pos' \in ObjType /\ pos' # None /\ record' = pos'
           /\ pos'.of = venue.id /\ pos'.on = venue.id /\ pos'.plan = 0
           /\ pos'.entry = venue.entry /\ pos'.best = venue.entry
           /\ pos'.stop = First(venue.entry) /\ venue.entry \in Int
           /\ pos = None /\ pending /\ venue.id # 0
           /\ UNCHANGED attach \/ Spawn(venue.id, First(venue.entry))
           /\ UNCHANGED <<venue, plans, order, held, pc, want, torn, count>>
  <1>1. PICK known \in PidKnown :
             /\ Manage(NewObj(IF known THEN venue.id ELSE 0, First(venue.entry)))
             /\ IF known THEN Spawn(venue.id, First(venue.entry)) ELSE UNCHANGED attach
    BY DEF Adopt
  <1>2. /\ pos = None /\ pending /\ venue.id # 0
        /\ UNCHANGED <<venue, plans, order, held, pc, want, torn, count>>
    BY DEF Adopt
  <1>3. venue \in [id : Ids, side : Sides, entry : Int]  BY <1>2 DEF TypeOK, NoPosition
  <1>4. First(venue.entry) \in Int  BY <1>3, FirstInt
  <1>5. (IF known THEN venue.id ELSE 0) \in Ids  BY <1>3, BoundsNat
  <1> DEFINE o == NewObj(IF known THEN venue.id ELSE 0, First(venue.entry))
  <1>6. o \in ObjType  BY <1>2, <1>4, <1>5, NewObjType
  <1>7. /\ o.of = venue.id /\ o.on = venue.id /\ o.plan = 0 /\ o.entry = venue.entry
        /\ o.best = venue.entry /\ o.stop = First(venue.entry)
    BY DEF NewObj
  <1> HIDE DEF o
  <1>8. pos' = o /\ record' = o  BY <1>1 DEF Manage, o
  <1>9. o # None  BY <1>6, NoneIsNoObject
  <1> QED BY <1>1, <1>2, <1>3, <1>6, <1>7, <1>8, <1>9

LEMMA AnswerForm ==
    ASSUME TypeOK, NEW t \in attach, AttachAnswer(t)
    PROVE  /\ t.plan # 0 /\ attach' = attach \ {t} /\ count'.positions = count.positions
           /\ count'.plans = count.plans
           /\ UNCHANGED <<mid, venue, plans, order, pending, held, pc, want, torn>>
           /\ \/ UNCHANGED <<pos, record>>
              \/ /\ pos # None /\ pos' \in ObjType /\ pos' # None /\ record' = pos'
                 /\ pos'.of = pos.of /\ pos'.on = pos.on /\ pos'.entry = pos.entry
                 /\ pos'.best = pos.best /\ pos'.stop = pos.stop
                 /\ pos'.plan \in {t.plan, pos.plan}
  <1>1. /\ t.plan # 0 /\ attach' = attach \ {t} /\ count'.positions = count.positions
        /\ count'.plans = count.plans
        /\ UNCHANGED <<mid, venue, plans, order, pending, held, pc, want, torn>>
    BY DEF AttachAnswer, Faults, TypeOK
  <1>2. ASSUME pos # None, NEW n \in {t.plan, pos.plan},
               Manage([pos EXCEPT !.pid = t.id, !.plan = n])
        PROVE  /\ pos' \in ObjType /\ pos' # None /\ record' = pos'
               /\ pos'.of = pos.of /\ pos'.on = pos.on /\ pos'.entry = pos.entry
               /\ pos'.best = pos.best /\ pos'.stop = pos.stop
               /\ pos'.plan \in {t.plan, pos.plan}
    <2> DEFINE o == [pos EXCEPT !.pid = t.id, !.plan = n]
    <2>1. pos \in ObjType /\ t \in [id : Ids, stop : Int, plan : Nat]
      BY <1>2, ObjectsTyped DEF Object, TypeOK
    <2>2. /\ o \in ObjType /\ o.of = pos.of /\ o.on = pos.on /\ o.entry = pos.entry
          /\ o.best = pos.best /\ o.stop = pos.stop /\ o.plan = n
      BY <1>2, <2>1 DEF ObjType
    <2>3. pos' = o /\ record' = o  BY <1>2 DEF Manage
    <2> HIDE DEF o
    <2>4. o # None  BY <2>2, NoneIsNoObject
    <2> QED BY <1>1, <1>2, <2>2, <2>3, <2>4
  <1> QED BY <1>1, <1>2, Answered

\* What a recovery builds: the record under the new entry, or a new object; the
\* stop that is attached is the one of the record.
LEMMA RecoverForm ==
    ASSUME TypeOK, Recover
    PROVE  \E d \in ObjType :
              /\ d # None /\ d.on = venue.id /\ d.entry = venue.entry
              /\ d.stop = First(venue.entry)
              /\ \/ /\ record # None /\ d.of = record.of /\ d.best = record.best
                    /\ d.plan = record.plan
                    /\ UNCHANGED attach \/ Spawn(venue.id, record.stop)
                 \/ d.of = venue.id /\ d.best = venue.entry /\ d.plan = 0 /\ UNCHANGED attach
              /\ \/ pos' = d /\ record' = d /\ UNCHANGED <<held, pc>>
                 \/ held' = d /\ pc' = "recovering" /\ UNCHANGED pos /\ record' \in {None, record}
              /\ pos = None /\ held = None /\ pc = "idle" /\ ~pending /\ venue.id # 0
              /\ venue.entry \in Int
              /\ UNCHANGED <<mid, venue, plans, order, pending, want, torn, count>>
  <1>1. PICK known \in PidKnown, soon \in BOOLEAN :
             Rebuild(IF record # None /\ Matches(known, soon) THEN Restored(known)
                     ELSE NewObj(0, None), known)
    BY DEF Recover
  <1>2. /\ pos = None /\ held = None /\ pc = "idle" /\ ~pending /\ venue.id # 0
        /\ UNCHANGED <<mid, venue, plans, order, pending, want, torn, count>>
    BY DEF Recover, Found, Idle, TypeOK
  <1>3. venue \in [id : Ids, side : Sides, entry : Int]  BY <1>2 DEF TypeOK, NoPosition
  <1>4. known \in BOOLEAN /\ First(venue.entry) \in Int
    BY <1>3, FirstInt, StopOrdersConstantsOK
  <1>5. ASSUME NEW o \in ObjType, Rebuild(o, known)
        PROVE  LET d == Priced(o, known) IN
               /\ d \in ObjType /\ d # None /\ d.on = o.on /\ d.entry = o.entry
               /\ d.stop = First(venue.entry) /\ d.of = o.of /\ d.best = o.best
               /\ d.plan = o.plan
               /\ UNCHANGED attach \/ (o.stop # None /\ Spawn(venue.id, o.stop))
               /\ \/ pos' = d /\ record' = d /\ UNCHANGED <<held, pc>>
                  \/ held' = d /\ pc' = "recovering" /\ UNCHANGED pos /\ record' \in {None, record}
    <2> DEFINE d == Priced(o, known)
    <2>1. (IF known THEN venue.id ELSE 0) \in Ids  BY <1>3, BoundsNat
    <2>2. /\ d \in ObjType /\ d.on = o.on /\ d.entry = o.entry
          /\ d.stop = First(venue.entry) /\ d.of = o.of /\ d.best = o.best /\ d.plan = o.plan
      BY <1>4, <2>1 DEF Priced, ObjType
    <2>3. UNCHANGED attach \/ (o.stop # None /\ Spawn(venue.id, o.stop))
      BY <1>5 DEF Rebuild
    <2>4. \/ pos' = d /\ record' = d /\ UNCHANGED <<held, pc>>
          \/ held' = d /\ pc' = "recovering" /\ UNCHANGED pos /\ record' \in {None, record}
      BY <1>5 DEF Rebuild, Manage
    <2> HIDE DEF d
    <2>5. d # None  BY <2>2, NoneIsNoObject
    <2>6. QED BY <2>2, <2>3, <2>4, <2>5 DEF d
  <1>6. CASE record # None /\ Matches(known, soon)
    <2> DEFINE o == Restored(known)
               d == Priced(o, known)
    <2>1. o \in ObjType  BY <1>2, <1>4, <1>6, RestoredType
    <2>2. record \in ObjType  BY <1>6, ObjectsTyped DEF Object
    <2>3. /\ o.on = venue.id /\ o.entry = venue.entry /\ o.of = record.of
          /\ o.best = record.best /\ o.plan = record.plan /\ o.stop = record.stop
      BY <2>2 DEF Restored, ObjType
    <2>4. Rebuild(o, known)  BY <1>1, <1>6
    <2> HIDE DEF o
    <2>5. /\ d \in ObjType /\ d # None /\ d.on = o.on /\ d.entry = o.entry
          /\ d.stop = First(venue.entry) /\ d.of = o.of /\ d.best = o.best
          /\ d.plan = o.plan
          /\ UNCHANGED attach \/ (o.stop # None /\ Spawn(venue.id, o.stop))
          /\ \/ pos' = d /\ record' = d /\ UNCHANGED <<held, pc>>
             \/ held' = d /\ pc' = "recovering" /\ UNCHANGED pos /\ record' \in {None, record}
      BY <1>5, <2>1, <2>4
    <2> HIDE DEF d
    <2> QED BY <1>2, <1>3, <1>6, <2>3, <2>5
  <1>7. CASE ~(record # None /\ Matches(known, soon))
    <2> DEFINE o == NewObj(0, None)
               d == Priced(o, known)
    <2>1. o \in ObjType  BY <1>2, BoundsNat, NewObjType
    <2>3. /\ o.on = venue.id /\ o.entry = venue.entry /\ o.of = venue.id
          /\ o.best = venue.entry /\ o.plan = 0 /\ o.stop = None
      BY DEF NewObj
    <2>4. Rebuild(o, known)  BY <1>1, <1>7
    <2> HIDE DEF o
    <2>5. /\ d \in ObjType /\ d # None /\ d.on = o.on /\ d.entry = o.entry
          /\ d.stop = First(venue.entry) /\ d.of = o.of /\ d.best = o.best
          /\ d.plan = o.plan
          /\ UNCHANGED attach \/ (o.stop # None /\ Spawn(venue.id, o.stop))
          /\ \/ pos' = d /\ record' = d /\ UNCHANGED <<held, pc>>
             \/ held' = d /\ pc' = "recovering" /\ UNCHANGED pos /\ record' \in {None, record}
      BY <1>5, <2>1, <2>4
    <2> HIDE DEF d
    <2> QED BY <1>2, <1>3, <2>3, <2>5
  <1> QED BY <1>6, <1>7
LEMMA LookForm ==
    ASSUME TypeOK, NEW slow \in BOOLEAN, Look(slow)
    PROVE  /\ pos # None /\ pc = "idle" /\ venue.id = pos.on
           /\ pos' \in ObjType /\ pos' # None
           /\ pos'.of = pos.of /\ pos'.on = pos.on /\ pos'.entry = pos.entry
           /\ pos'.plan = pos.plan /\ pos.best <= pos'.best
           /\ \/ /\ pc' = "changing" /\ UNCHANGED record /\ pos'.stop = pos.stop
                 /\ want' = Snap(Follow(pos.entry, pos'.best, pos.stop))
              \/ /\ record' = pos' /\ UNCHANGED <<want, pc>>
                 /\ pos'.stop \in {pos.stop, Snap(Follow(pos.entry, pos'.best, pos.stop))}
           /\ UNCHANGED <<venue, plans, order, pending, held, attach, torn, count>>
  <1> DEFINE best == Larger(pos.best, Fav(pos.side, mid))
             new == Follow(pos.entry, best, pos.stop)
             moved == (pos.due \/ SlowTicks \/ slow) /\ new # pos.stop
             through == [pos EXCEPT !.best = best, !.due = FALSE,
                                    !.stop = IF moved THEN Snap(new) ELSE @]
  <1>1. /\ pos # None /\ pc = "idle" /\ venue.id = pos.on
        /\ UNCHANGED <<venue, plans, order, pending, held, attach, torn, count>>
    BY DEF Look, Here, Idle
  <1>2. pos \in ObjType /\ pos.stop # None  BY <1>1, ObjectsTyped DEF Object
  <1>3. pos.entry \in Int /\ pos.best \in Int /\ pos.stop \in Int  BY <1>2 DEF ObjType
  <1>4. best \in Int /\ pos.best <= best
    <2>1. mid \in Int  BY BoundsNat DEF TypeOK
    <2>2. Fav(pos.side, mid) \in Int  BY <2>1, FavInt
    <2> QED BY <1>3, <2>2 DEF Larger
  <1>5. new \in Int /\ Snap(new) \in Int  BY <1>3, <1>4, FollowInt, SnapInt
  <1>7. CASE moved /\ pos.plan # 0
    <2>1. /\ pos' = [pos EXCEPT !.best = best]
          /\ want' = Snap(new) /\ pc' = "changing" /\ UNCHANGED record
      BY <1>7 DEF Look
    <2> HIDE DEF best, new, moved
    <2>2. /\ pos' \in ObjType /\ pos'.best = best
          /\ pos'.of = pos.of /\ pos'.on = pos.on /\ pos'.entry = pos.entry
          /\ pos'.plan = pos.plan /\ pos'.stop = pos.stop
      BY <1>2, <1>4, <2>1 DEF ObjType
    <2>3. pos' # None  BY <2>2, NoneIsNoObject
    <2> QED BY <1>1, <1>4, <2>1, <2>2, <2>3 DEF new
  <1>8. CASE ~(moved /\ pos.plan # 0)
    <2>1. Manage(through) /\ UNCHANGED <<want, pc>>  BY <1>8 DEF Look
    <2> HIDE DEF best, new, moved
    <2>2. /\ through \in ObjType /\ through.best = best
          /\ through.of = pos.of /\ through.on = pos.on /\ through.entry = pos.entry
          /\ through.plan = pos.plan /\ through.stop \in {pos.stop, Snap(new)}
      BY <1>2, <1>3, <1>4, <1>5 DEF ObjType
    <2> HIDE DEF through
    <2>3. pos' = through /\ record' = through  BY <2>1 DEF Manage
    <2>4. through # None  BY <2>2, NoneIsNoObject
    <2> QED BY <1>1, <1>4, <2>1, <2>2, <2>3, <2>4 DEF new
  <1> QED BY <1>7, <1>8

LEMMA PassForm ==
    ASSUME TypeOK, PassEnds
    PROVE  /\ pos # None /\ pc \in {"changed", "unchanged"} /\ pc' = "idle" /\ held = None
           /\ pos' \in ObjType /\ pos' # None /\ record' = pos'
           /\ pos'.of = pos.of /\ pos'.on = pos.on /\ pos'.entry = pos.entry
           /\ pos'.plan = pos.plan /\ pos'.best = pos.best /\ pos'.stop \in {pos.stop, want}
           /\ UNCHANGED <<venue, plans, order, pending, held, attach, want, torn, count>>
  <1> DEFINE o == [pos EXCEPT !.due = FALSE, !.stop = IF pc = "changed" THEN want ELSE @]
  <1>1. /\ pos # None /\ pc \in {"changed", "unchanged"} /\ pc' = "idle" /\ held = None
        /\ UNCHANGED <<venue, plans, order, pending, held, attach, want, torn, count>>
    BY DEF PassEnds, TypeOK
  <1>2. pos \in ObjType /\ want \in Int  BY <1>1, ObjectsTyped DEF Object, TypeOK
  <1>3. /\ o \in ObjType /\ o.of = pos.of /\ o.on = pos.on /\ o.entry = pos.entry
        /\ o.plan = pos.plan /\ o.best = pos.best /\ o.stop \in {pos.stop, want}
    BY <1>2 DEF ObjType
  <1>4. pos' = o /\ record' = o  BY DEF PassEnds, Manage
  <1> HIDE DEF o
  <1>5. o # None  BY <1>3, NoneIsNoObject
  <1> QED BY <1>1, <1>3, <1>4, <1>5

\* A call that changes a stop order leaves its number.
LEMMA ChangeForm ==
    ASSUME TypeOK, ChangeCall
    PROVE  /\ pos # None /\ held = None /\ pc = "changing" /\ pc' \in {"changed", "unchanged"}
           /\ \/ UNCHANGED plans
              \/ plans' = {IF p.n = pos.plan THEN [p EXCEPT !.stop = want] ELSE p : p \in plans}
           /\ \A q \in plans' : \/ q \in plans
                                \/ q.n = pos.plan /\ q.stop = want
                                   /\ \E p \in plans : p.n = q.n
           /\ count'.positions = count.positions /\ count'.plans = count.plans
           /\ UNCHANGED <<venue, order, pending, pos, held, record, attach, want, torn>>
  <1>1. /\ pos # None /\ held = None /\ pc = "changing" /\ pc' \in {"changed", "unchanged"}
        /\ UNCHANGED plans \/ Changes(pos.plan)
        /\ UNCHANGED <<venue, order, pending, pos, held, record, attach, want, torn>>
    BY DEF ChangeCall, TypeOK
  <1>2. count'.positions = count.positions /\ count'.plans = count.plans
    BY DEF ChangeCall, Faults, TypeOK
  <1>3. \A p \in plans : [p EXCEPT !.stop = want].n = p.n /\ [p EXCEPT !.stop = want].stop = want
    BY DEF TypeOK
  <1> QED BY <1>1, <1>2, <1>3 DEF Changes

\* A call that places a stop order numbers it, and its task knows the number.
LEMMA AttachForm ==
    ASSUME TypeOK, NEW t \in attach, AttachCall(t)
    PROVE  /\ UNCHANGED <<venue, order, pending, pos, held, record, pc, want, torn>>
           /\ count'.positions = count.positions
           /\ \/ /\ venue.id = t.id /\ count'.plans = count.plans + 1
                 /\ \E p, u : /\ plans' = plans \cup {p} /\ attach' = (attach \ {t}) \cup {u}
                              /\ p.n = count.plans + 1 /\ p.stop = t.stop
                              /\ u.id = t.id /\ u.stop = t.stop /\ u.plan = count.plans + 1
              \/ UNCHANGED plans /\ attach' = attach \ {t} /\ count'.plans = count.plans
  <1>1. UNCHANGED <<venue, order, pending, pos, held, record, pc, want, torn>>
        /\ count'.positions = count.positions
    BY DEF AttachCall, Faults, TypeOK
  <1>2. CASE /\ venue.id = t.id
             /\ count' = [count EXCEPT !.plans = @ + 1]
             /\ plans' = plans \cup {[n |-> count'.plans, stop |-> t.stop]}
             /\ attach' = (attach \ {t}) \cup {[t EXCEPT !.plan = count'.plans]}
    <2>1. count'.plans = count.plans + 1  BY <1>2 DEF TypeOK
    <2> DEFINE p == [n |-> count'.plans, stop |-> t.stop]
               u == [t EXCEPT !.plan = count'.plans]
    <2>2. p.n = count.plans + 1 /\ p.stop = t.stop  BY <2>1
    <2>3. u.id = t.id /\ u.stop = t.stop /\ u.plan = count.plans + 1  BY <2>1 DEF TypeOK
    <2>4. plans' = plans \cup {p} /\ attach' = (attach \ {t}) \cup {u}  BY <1>2
    <2> HIDE DEF p, u
    <2> QED BY <1>1, <1>2, <2>1, <2>2, <2>3, <2>4
  <1>3. CASE UNCHANGED <<plans, count>> /\ attach' = attach \ {t}  BY <1>1, <1>3
  <1>4. CASE Faults /\ attach' = attach \ {t} /\ UNCHANGED plans
    <2>1. count'.plans = count.plans  BY <1>4 DEF Faults, TypeOK
    <2> QED BY <1>1, <1>4, <2>1
  <1> QED BY <1>2, <1>3, <1>4 DEF AttachCall
-----------------------------------------------------------------------------
\* One position at a time: while an order is out nothing of an earlier position
\* is left that could be taken for the new one, and a task for the open position
\* runs only while an object of it exists.
Flow ==
    /\ order # None => /\ venue.id = 0 /\ pos = None /\ held = None
                       /\ \A t \in attach : t.id < count.positions
                       /\ record # None => record.of < count.positions
    /\ held # None => pos = None /\ ~pending
    /\ venue.id = 0 => plans = {}
    /\ pc = "closed" => venue.id = 0
    /\ \A t \in attach : t.id # 0 /\ (t.id = venue.id => pos # None \/ held # None)

LEMMA FlowStep ==
    ASSUME TypeOK, Ours, Flow, [Next]_vars
    PROVE  Flow'
  <1>1. CASE UNCHANGED vars  BY <1>1 DEF vars, Flow
  <1>2. ASSUME NEW p \in Prices, MidMoves(p) PROVE Flow'  BY <1>2 DEF MidMoves, Flow
  <1>3. ASSUME NEW side \in Sides, Enter(side) PROVE Flow'
    <2>1. count.positions \in Nat /\ count'.positions = count.positions + 1
      BY <1>3, BoundsNat DEF Enter, TypeOK
    <2>2. \A t \in attach : t.id < count'.positions
      <3>1. \A t \in attach : t.id \in Nat  BY BoundsNat DEF TypeOK
      <3> QED BY <2>1, <3>1 DEF Ours
    <2>3. record # None => record.of < count'.positions
      <3>1. record # None => record.of \in Nat  BY ObjectsTyped, BoundsNat DEF Object, ObjType
      <3> QED BY <2>1, <3>1 DEF Ours, Fits
    <2>4. /\ venue.id = 0 /\ pos = None /\ held = None
          /\ UNCHANGED <<venue, plans, pos, held, record, attach, pc>>
      BY <1>3 DEF Enter
    <2> QED BY <2>2, <2>3, <2>4 DEF Flow
  <1>4. CASE StopFires  BY <1>4 DEF StopFires, Gone, NoPosition, Flow
  <1>5. CASE Fill
    <2>1. /\ pos = None /\ held = None /\ plans = {} /\ pc # "closed"
          /\ \A t \in attach : t.id < count.positions
      BY <1>5 DEF Fill, Flow, TypeOK
    <2>2. \A t \in attach : t.id # count.positions
      <3>1. \A t \in attach : t.id \in Nat  BY BoundsNat DEF TypeOK
      <3>2. count.positions \in Nat  BY BoundsNat DEF TypeOK
      <3> QED BY <2>1, <3>1, <3>2
    <2>3. /\ venue'.id = count.positions /\ order' = None
          /\ UNCHANGED <<plans, pos, held, record, attach, pc, count>>
      BY <1>5 DEF Fill
    <2> QED BY <2>1, <2>2, <2>3 DEF Flow
  <1>6. CASE OrderEnds  BY <1>6 DEF OrderEnds, Flow
  <1>7. CASE ReplyLost
    <2>1. count'.positions = count.positions  BY <1>7 DEF ReplyLost, Faults, TypeOK
    <2> QED BY <1>7, <2>1 DEF ReplyLost, Flow
  <1>8. CASE Adopt
    <2>1. /\ pos' # None /\ held = None /\ order = None /\ venue.id # 0
          /\ UNCHANGED attach \/ Spawn(venue.id, First(venue.entry))
          /\ UNCHANGED <<venue, plans, order, held, pc>>
      BY <1>8, AdoptForm DEF Flow
    <2>2. \A t \in attach' : t.id # 0  BY <2>1 DEF Flow, Spawn
    <2> QED BY <2>1, <2>2 DEF Flow
  <1>9. ASSUME NEW t \in attach, AttachCall(t) PROVE Flow'
    <2>1. /\ UNCHANGED <<venue, order, pending, pos, held, record, pc>>
          /\ count'.positions = count.positions
          /\ \A u \in attach' : u \in attach \/ u.id = t.id
          /\ UNCHANGED plans \/ venue.id = t.id
      BY <1>9, AttachForm
    <2> QED BY <2>1 DEF Flow
  <1>10. ASSUME NEW t \in attach, AttachAnswer(t) PROVE Flow'
    <2>1. /\ UNCHANGED <<venue, plans, order, pending, held, pc>>
          /\ count'.positions = count.positions /\ attach' \subseteq attach
          /\ UNCHANGED <<pos, record>> \/ (pos # None /\ pos' # None)
      BY <1>10, AnswerForm
    <2> QED BY <2>1 DEF Flow
  <1>11. CASE Recover
    <2>1. PICK d \in ObjType :
             /\ d # None
             /\ UNCHANGED attach \/ \E stop : Spawn(venue.id, stop)
             /\ \/ pos' = d /\ UNCHANGED <<held, pc>>
                \/ held' = d /\ pc' = "recovering" /\ UNCHANGED pos
             /\ pos = None /\ held = None /\ pc = "idle" /\ ~pending /\ venue.id # 0
             /\ UNCHANGED <<venue, plans, order, pending>>
      BY <1>11, RecoverForm
    <2>2. \A t \in attach' : t.id # 0  BY <2>1 DEF Flow, Spawn
    <2> QED BY <2>1, <2>2 DEF Flow
  <1>12. CASE Recovered
    <2>1. /\ held # None /\ pos' = held /\ held' = None /\ pc' = "idle"
          /\ UNCHANGED <<venue, plans, order, pending, attach, count>>
      BY <1>12 DEF Recovered, Manage, TypeOK
    <2> QED BY <2>1 DEF Flow
  <1>13. ASSUME NEW slow \in BOOLEAN, Look(slow) PROVE Flow'
    <2>1. /\ pos # None /\ pos' # None /\ pc = "idle" /\ pc' # "closed"
          /\ UNCHANGED <<venue, plans, order, pending, held, attach, count>>
      BY <1>13, LookForm
    <2> QED BY <2>1 DEF Flow
  <1>14. CASE ChangeCall
    <2>1. /\ pos # None /\ pc' # "closed" /\ count'.positions = count.positions
          /\ plans = {} => plans' = {}
          /\ UNCHANGED <<venue, order, pending, pos, held, record, attach>>
      BY <1>14, ChangeForm
    <2> QED BY <2>1 DEF Flow
  <1>15. CASE PassEnds
    <2>1. /\ pos # None /\ pos' # None /\ pc' = "idle"
          /\ UNCHANGED <<venue, plans, order, pending, held, attach, count>>
      BY <1>15, PassForm
    <2> QED BY <2>1 DEF Flow
  <1>16. CASE Exit  BY <1>16 DEF Exit, Flow
  <1>17. CASE CloseCall
    <2>1. count'.positions = count.positions  BY <1>17 DEF CloseCall, Faults, TypeOK
    <2>2. CASE Gone /\ pc' = "closed"
      BY <1>17, <2>1, <2>2 DEF CloseCall, Gone, NoPosition, Flow
    <2>3. CASE pc' = "idle" /\ UNCHANGED <<venue, plans>>
      BY <1>17, <2>1, <2>3 DEF CloseCall, Flow
    <2> QED BY <1>17, <2>2, <2>3 DEF CloseCall
  <1>18. CASE Release
    <2>1. venue.id = 0
      BY <1>18 DEF Release, Flow, Ours
    <2> QED BY <1>18, <2>1 DEF Release, Flow
  <1>19. CASE Crash
    <2>1. count'.positions = count.positions  BY <1>19 DEF Crash, TypeOK
    <2> QED BY <1>19, <2>1 DEF Crash, Flow
  <1> QED BY <1>1, <1>2, <1>3, <1>4, <1>5, <1>6, <1>7, <1>8, <1>9, <1>10, <1>11, <1>12, <1>13,
             <1>14, <1>15, <1>16, <1>17, <1>18, <1>19 DEF Next, Loop

\* A stop order has a number of its own, and what knows the number of a stop order
\* that is open knows it of the open position.
Numbered ==
    /\ \A p \in plans : 1 <= p.n /\ p.n <= count.plans
    /\ \A p, q \in plans : p.n = q.n => p = q
    /\ \A t \in attach : t.plan <= count.plans
    /\ pos # None => pos.plan <= count.plans
    /\ held # None => held.plan <= count.plans
    /\ record # None => record.plan <= count.plans
    /\ \A t \in attach, p \in plans : t.plan = p.n => t.id = venue.id

LEMMA SpawnNumbered ==
    ASSUME TypeOK, Numbered, NEW stop, Spawn(venue.id, stop)
    PROVE  /\ \A t \in attach' : t.plan <= count.plans
           /\ \A t \in attach', p \in plans : t.plan = p.n => t.id = venue.id
  <1>1. \A t \in attach' : t \in attach \/ t.plan = 0  BY DEF Spawn
  <1>2. count.plans \in Nat /\ \A p \in plans : p.n \in Nat  BY DEF TypeOK
  <1> QED BY <1>1, <1>2 DEF Numbered

LEMMA NumberedStep ==
    ASSUME TypeOK, Ours, Flow, Numbered, [Next]_vars
    PROVE  Numbered'
  <1>0. count.plans \in Nat  BY DEF TypeOK
  <1>1. CASE UNCHANGED vars  BY <1>1 DEF vars, Numbered
  <1>2. ASSUME NEW p \in Prices, MidMoves(p) PROVE Numbered'  BY <1>2 DEF MidMoves, Numbered
  <1>3. ASSUME NEW side \in Sides, Enter(side) PROVE Numbered'
    <2>1. count'.plans = count.plans  BY <1>3 DEF Enter, TypeOK
    <2> QED BY <1>3, <2>1 DEF Enter, Numbered
  <1>4. CASE StopFires  BY <1>4 DEF StopFires, Gone, Numbered
  <1>5. CASE Fill  BY <1>5 DEF Fill, Flow, Numbered
  <1>6. CASE OrderEnds  BY <1>6 DEF OrderEnds, Numbered
  <1>7. CASE ReplyLost
    <2>1. count'.plans = count.plans  BY <1>7 DEF ReplyLost, Faults, TypeOK
    <2> QED BY <1>7, <2>1 DEF ReplyLost, Numbered
  <1>8. CASE Adopt
    <2>1. /\ pos' # None /\ record' = pos' /\ pos'.plan = 0
          /\ UNCHANGED attach \/ Spawn(venue.id, First(venue.entry))
          /\ UNCHANGED <<venue, plans, held, count>>
      BY <1>8, AdoptForm
    <2>2. /\ \A t \in attach' : t.plan <= count.plans
          /\ \A t \in attach', p \in plans : t.plan = p.n => t.id = venue.id
      BY <2>1, SpawnNumbered DEF Numbered
    <2> QED BY <1>0, <2>1, <2>2 DEF Numbered
  <1>9. ASSUME NEW t \in attach, AttachCall(t) PROVE Numbered'
    <2>1. UNCHANGED <<venue, pos, held, record>>  BY <1>9, AttachForm
    <2>2. CASE UNCHANGED plans /\ attach' = attach \ {t} /\ count'.plans = count.plans
      BY <2>1, <2>2 DEF Numbered
    <2>3. CASE ~(UNCHANGED plans /\ attach' = attach \ {t} /\ count'.plans = count.plans)
      <3>1. venue.id = t.id /\ count'.plans = count.plans + 1  BY <1>9, <2>3, AttachForm
      <3>2. PICK p, u : /\ plans' = plans \cup {p} /\ attach' = (attach \ {t}) \cup {u}
                        /\ p.n = count.plans + 1 /\ p.stop = t.stop
                        /\ u.id = t.id /\ u.stop = t.stop /\ u.plan = count.plans + 1
        BY <1>9, <2>3, AttachForm
      <3>3. /\ \A q \in plans : q.n \in Nat /\ 1 <= q.n /\ q.n <= count.plans
            /\ \A v \in attach : v.plan \in Nat /\ v.plan <= count.plans
        BY DEF TypeOK, Numbered
      <3>4. \A q \in plans' : 1 <= q.n /\ q.n <= count'.plans  BY <1>0, <3>1, <3>2, <3>3
      <3>5. \A q, r \in plans' : q.n = r.n => q = r
        <4>1. \A q, r \in plans : q.n = r.n => q = r  BY DEF Numbered
        <4> QED BY <1>0, <3>2, <3>3, <4>1
      <3>6. \A v \in attach' : v.plan <= count'.plans  BY <1>0, <3>1, <3>2, <3>3
      <3>7. \A v \in attach', q \in plans' : v.plan = q.n => v.id = venue.id
        <4>1. \A v \in attach, q \in plans : v.plan = q.n => v.id = venue.id  BY DEF Numbered
        <4> QED BY <1>0, <3>1, <3>2, <3>3, <4>1
      <3>8. /\ pos # None => pos.plan <= count'.plans
            /\ held # None => held.plan <= count'.plans
            /\ record # None => record.plan <= count'.plans
        <4>1. /\ pos # None => pos.plan \in Nat
              /\ held # None => held.plan \in Nat
              /\ record # None => record.plan \in Nat
          BY ObjectsTyped DEF Object, ObjType
        <4> QED BY <1>0, <3>1, <4>1 DEF Numbered
      <3> QED BY <2>1, <3>4, <3>5, <3>6, <3>7, <3>8 DEF Numbered
    <2> QED BY <2>2, <2>3
  <1>10. ASSUME NEW t \in attach, AttachAnswer(t) PROVE Numbered'
    <2>1. /\ attach' = attach \ {t} /\ count'.plans = count.plans
          /\ UNCHANGED <<venue, plans, held>>
          /\ \/ UNCHANGED <<pos, record>>
             \/ pos # None /\ record' = pos' /\ pos'.plan \in {t.plan, pos.plan}
      BY <1>10, AnswerForm
    <2>2. t.plan <= count.plans  BY DEF Numbered
    <2>3. /\ \A u \in attach' : u.plan <= count.plans
          /\ \A u \in attach', p \in plans : u.plan = p.n => u.id = venue.id
      BY <2>1 DEF Numbered
    <2> QED BY <2>1, <2>2, <2>3 DEF Numbered
  <1>11. CASE Recover
    <2>1. PICK d \in ObjType :
             /\ (record # None /\ d.plan = record.plan) \/ d.plan = 0
             /\ UNCHANGED attach \/ \E stop : Spawn(venue.id, stop)
             /\ \/ pos' = d /\ record' = d /\ UNCHANGED held
                \/ held' = d /\ UNCHANGED pos /\ record' \in {None, record}
             /\ UNCHANGED <<venue, plans, count>>
      BY <1>11, RecoverForm
    <2>2. d.plan <= count.plans  BY <1>0, <2>1 DEF Numbered
    <2>3. /\ \A t \in attach' : t.plan <= count.plans
          /\ \A t \in attach', p \in plans : t.plan = p.n => t.id = venue.id
      BY <2>1, SpawnNumbered DEF Numbered
    <2> QED BY <2>1, <2>2, <2>3 DEF Numbered
  <1>12. CASE Recovered
    <2>1. /\ held # None /\ pos' = held /\ record' = held /\ held' = None
          /\ UNCHANGED <<venue, plans, attach, count>>
      BY <1>12 DEF Recovered, Manage, TypeOK
    <2> QED BY <2>1 DEF Numbered
  <1>13. ASSUME NEW slow \in BOOLEAN, Look(slow) PROVE Numbered'
    <2>1. /\ pos # None /\ pos'.plan = pos.plan /\ (record' = pos' \/ UNCHANGED record)
          /\ UNCHANGED <<venue, plans, held, attach, count>>
      BY <1>13, LookForm
    <2> QED BY <2>1 DEF Numbered
  <1>14. CASE ChangeCall
    <2>1. /\ count'.plans = count.plans
          /\ UNCHANGED <<venue, pos, held, record, attach>>
      BY <1>14, ChangeForm
    <2>2. \A q \in plans' : \E p \in plans : p.n = q.n  BY <1>14, ChangeForm
    <2>3. \A q, r \in plans' : q.n = r.n => q = r
      <3>1. \A q, r \in plans : q.n = r.n => q = r  BY DEF Numbered
      <3>2. CASE UNCHANGED plans  BY <3>1, <3>2
      <3>3. CASE plans' = {IF p.n = pos.plan THEN [p EXCEPT !.stop = want] ELSE p : p \in plans}
        <4> DEFINE f(p) == IF p.n = pos.plan THEN [p EXCEPT !.stop = want] ELSE p
        <4>1. \A p \in plans : f(p).n = p.n  BY DEF TypeOK
        <4>2. \A q \in plans' : \E p \in plans : q = f(p)  BY <3>3
        <4> HIDE DEF f
        <4> QED BY <3>1, <4>1, <4>2
      <3> QED BY <1>14, <3>2, <3>3, ChangeForm
    <2>4. \A q \in plans' : 1 <= q.n /\ q.n <= count'.plans  BY <2>1, <2>2 DEF Numbered
    <2>5. \A t \in attach', q \in plans' : t.plan = q.n => t.id = venue'.id
      BY <2>1, <2>2 DEF Numbered
    <2> QED BY <2>1, <2>3, <2>4, <2>5 DEF Numbered
  <1>15. CASE PassEnds
    <2>1. /\ pos # None /\ pos'.plan = pos.plan /\ record' = pos'
          /\ UNCHANGED <<venue, plans, held, attach, count>>
      BY <1>15, PassForm
    <2> QED BY <2>1 DEF Numbered
  <1>16. CASE Exit  BY <1>16 DEF Exit, Numbered
  <1>17. CASE CloseCall
    <2>1. count'.plans = count.plans  BY <1>17 DEF CloseCall, Faults, TypeOK
    <2>2. CASE plans' = {}  BY <1>17, <2>1, <2>2 DEF CloseCall, Numbered
    <2>3. CASE UNCHANGED <<venue, plans>>  BY <1>17, <2>1, <2>3 DEF CloseCall, Numbered
    <2> QED BY <1>17, <2>2, <2>3 DEF CloseCall, Gone
  <1>18. CASE Release  BY <1>18 DEF Release, Numbered
  <1>19. CASE Crash
    <2>1. count'.plans = count.plans  BY <1>19 DEF Crash, TypeOK
    <2> QED BY <1>19, <2>1 DEF Crash, Numbered
  <1> QED BY <1>1, <1>2, <1>3, <1>4, <1>5, <1>6, <1>7, <1>8, <1>9, <1>10, <1>11, <1>12, <1>13,
             <1>14, <1>15, <1>16, <1>17, <1>18, <1>19 DEF Next, Loop
-----------------------------------------------------------------------------
\* An object with the history of the position that is open at the venue.
OfOpen(o, v) == o # None /\ v.id # 0 /\ o.of = v.id

Behind(ps, n, x) == \A p \in ps : p.n = n => p.stop <= x

\* Such an object, and a task for it, never has or knows a stop beyond the largest
\* one the rule has given so far.
Within(o, v, ps) ==
    OfOpen(o, v) => /\ o.entry = v.entry /\ First(o.entry) <= o.stop /\ o.stop <= Cap(o)
                    /\ Behind(ps, o.plan, Cap(o))

TaskWithin(t, o, v, ps) ==
    OfOpen(o, v) /\ t.id = v.id => t.stop <= Cap(o) /\ Behind(ps, t.plan, Cap(o))

\* The record lags only between a change and the end of its pass, where a crash
\* leaves it torn.
Bounded ==
    ~torn => /\ Within(pos, venue, plans) /\ Within(held, venue, plans)
             /\ pc \notin {"changed", "unchanged"} => Within(record, venue, plans)
             /\ \A t \in attach : /\ TaskWithin(t, pos, venue, plans)
                                  /\ TaskWithin(t, held, venue, plans)
             /\ pc \in {"changing", "changed", "unchanged"} /\ OfOpen(pos, venue)
                  => want = Cap(pos)

\* The stops of an object are prices.
LEMMA CapInt ==
    ASSUME NEW o \in ObjType, o.stop # None
    PROVE  o.entry \in Int /\ o.best \in Int /\ o.stop \in Int /\ Cap(o) \in Int
           /\ First(o.entry) \in Int /\ First(o.entry) <= Cap(o)
  <1>1. o.entry \in Int /\ o.best \in Int /\ o.stop \in Int  BY DEF ObjType
  <1> DEFINE e == o.entry
             b == o.best
  <1>2. e \in Int /\ b \in Int  BY <1>1
  <1> HIDE DEF e, b
  <1>3. b <= b  BY <1>2
  <1>4. CapOf(e, b) \in Int /\ First(e) <= CapOf(e, b)  BY <1>2, <1>3, CapGrows
  <1>5. First(e) \in Int  BY <1>2, FirstInt
  <1> QED BY <1>1, <1>4, <1>5 DEF Cap, e, b

\* With nothing of the open position at hand there is nothing to bound.
LEMMA NothingOpen ==
    ASSUME ~OfOpen(pos', venue'), ~OfOpen(held', venue'), ~OfOpen(record', venue')
    PROVE  Bounded'
  BY DEF Bounded, Within, TaskWithin

\* The bounds depend on these variables alone.
LEMMA NothingMoves ==
    ASSUME Bounded, UNCHANGED <<venue, plans, pos, held, record, attach, pc, want, torn>>
    PROVE  Bounded'
  BY DEF Bounded

\* An object that is new, or whose best price is better than it was, is within the
\* bounds of its stop orders.
LEMMA WithinGrows ==
    ASSUME NEW o, NEW d \in ObjType, NEW v, NEW ps \in SUBSET [n : Nat, stop : Int],
           o \in ObjType, o.stop # None, d.stop # None, Within(o, v, ps),
           d.of = o.of, d.entry = o.entry, d.plan = o.plan, o.best <= d.best,
           OfOpen(d, v) => First(d.entry) <= d.stop /\ d.stop <= Cap(d)
    PROVE  Within(d, v, ps)
  <1> SUFFICES ASSUME OfOpen(d, v) PROVE Within(d, v, ps)  BY DEF Within
  <1>1. OfOpen(o, v)  BY NoneIsNoObject DEF OfOpen
  <1>2. o.entry = v.entry /\ Behind(ps, o.plan, Cap(o))  BY <1>1 DEF Within
  <1>3. Cap(o) \in Int /\ Cap(d) \in Int /\ o.best \in Int /\ d.best \in Int /\ o.entry \in Int
    BY CapInt
  <1>4. Cap(o) <= Cap(d)  BY <1>3, CapGrows DEF Cap
  <1>5. \A p \in ps : p.stop \in Int  OBVIOUS
  <1>6. Behind(ps, d.plan, Cap(d))  BY <1>2, <1>3, <1>4, <1>5 DEF Behind
  <1> QED BY <1>2, <1>6 DEF Within

LEMMA TaskGrows ==
    ASSUME NEW o \in ObjType, NEW d \in ObjType, NEW v, NEW ps \in SUBSET [n : Nat, stop : Int],
           o.stop # None, d.stop # None, d.of = o.of, d.entry = o.entry, o.best <= d.best,
           NEW t \in [id : Ids, stop : Int, plan : Nat], TaskWithin(t, o, v, ps)
    PROVE  TaskWithin(t, d, v, ps)
  <1> SUFFICES ASSUME OfOpen(d, v), t.id = v.id PROVE TaskWithin(t, d, v, ps)
    BY DEF TaskWithin
  <1>1. OfOpen(o, v)  BY NoneIsNoObject DEF OfOpen
  <1>2. t.stop <= Cap(o) /\ Behind(ps, t.plan, Cap(o))  BY <1>1 DEF TaskWithin
  <1>3. Cap(o) \in Int /\ Cap(d) \in Int /\ o.best \in Int /\ d.best \in Int /\ o.entry \in Int
    BY CapInt
  <1>4. Cap(o) <= Cap(d)  BY <1>3, CapGrows DEF Cap
  <1>5. \A p \in ps : p.stop \in Int  OBVIOUS
  <1>6. t.stop \in Int  OBVIOUS
  <1> QED BY <1>2, <1>3, <1>4, <1>5, <1>6 DEF TaskWithin, Behind

\* A recovery gives the open position back its own record, or a new object.
LEMMA RecoverBounded ==
    ASSUME TypeOK, Flow, Numbered, Bounded, Recover
    PROVE  Bounded'
  <1> SUFFICES ASSUME ~torn PROVE Bounded'
    <2>1. torn' = torn  BY RecoverForm
    <2> QED BY <2>1 DEF Bounded
  <1>1. PICK d \in ObjType :
             /\ d # None /\ d.entry = venue.entry /\ d.stop = First(venue.entry)
             /\ \/ /\ record # None /\ d.of = record.of /\ d.best = record.best
                   /\ d.plan = record.plan
                   /\ UNCHANGED attach \/ Spawn(venue.id, record.stop)
                \/ d.of = venue.id /\ d.best = venue.entry /\ d.plan = 0 /\ UNCHANGED attach
             /\ \/ pos' = d /\ record' = d /\ UNCHANGED <<held, pc>>
                \/ held' = d /\ pc' = "recovering" /\ UNCHANGED pos /\ record' \in {None, record}
             /\ pos = None /\ held = None /\ pc = "idle" /\ venue.id # 0 /\ venue.entry \in Int
             /\ UNCHANGED <<venue, plans, want, torn, count>>
    BY RecoverForm
  <1>2. d.stop # None /\ First(venue.entry) \in Int  BY <1>1, FirstInt, NoneIsNoPrice
  <1>3. plans \in SUBSET [n : Nat, stop : Int] /\ \A p \in plans : p.n # 0
    BY DEF TypeOK, Numbered
  <1>4. Within(record, venue, plans)  BY <1>1 DEF Bounded
  <1>5. First(d.entry) <= d.stop /\ d.stop <= Cap(d)  BY <1>1, <1>2, CapInt
  <1>6. Within(d, venue, plans)
    <2>1. CASE record # None /\ d.of = record.of /\ d.best = record.best /\ d.plan = record.plan
      <3>1. record \in ObjType /\ record.stop # None  BY <2>1, ObjectsTyped DEF Object
      <3>2. OfOpen(record, venue) => d.entry = record.entry  BY <1>1, <1>4 DEF Within
      <3>3. CASE d.entry = record.entry
        <4>1. record.best <= d.best  BY <2>1, <3>1, CapInt
        <4> QED BY <1>2, <1>3, <1>4, <1>5, <2>1, <3>1, <3>3, <4>1, WithinGrows
      <3>4. CASE ~OfOpen(record, venue)  BY <2>1, <3>4 DEF Within, OfOpen
      <3> QED BY <3>2, <3>3, <3>4
    <2>2. CASE d.of = venue.id /\ d.plan = 0
      <3>1. Behind(plans, d.plan, Cap(d))  BY <1>3, <2>2 DEF Behind
      <3> QED BY <1>1, <1>5, <3>1 DEF Within
    <2> QED BY <1>1, <2>1, <2>2
  <1>7. \A t \in attach' : TaskWithin(t, d, venue, plans)
    <2> SUFFICES ASSUME NEW t \in attach', OfOpen(d, venue), t.id = venue.id
                 PROVE  t.stop <= Cap(d) /\ Behind(plans, t.plan, Cap(d))
      BY DEF TaskWithin
    <2>1. t \notin attach  BY <1>1 DEF Flow
    <2>2. record # None /\ d.of = record.of /\ d.best = record.best
          /\ t = [id |-> venue.id, stop |-> record.stop, plan |-> 0]
      BY <1>1, <2>1 DEF Spawn
    <2>3. OfOpen(record, venue)  BY <2>2 DEF OfOpen
    <2>4. record.stop <= Cap(record) /\ record.entry = venue.entry  BY <1>4, <2>3 DEF Within
    <2>5. Cap(record) = Cap(d)  BY <1>1, <2>2, <2>4 DEF Cap
    <2>6. Behind(plans, t.plan, Cap(d))  BY <1>3, <2>2 DEF Behind
    <2> QED BY <2>2, <2>4, <2>5, <2>6
  <1>8. CASE pos' = d /\ record' = d /\ UNCHANGED <<held, pc>>
    BY <1>1, <1>6, <1>7, <1>8 DEF Bounded, Within, TaskWithin, OfOpen
  <1>9. CASE /\ held' = d /\ pc' = "recovering" /\ UNCHANGED pos /\ record' \in {None, record}
    BY <1>1, <1>4, <1>6, <1>7, <1>9 DEF Bounded, Within, TaskWithin, OfOpen
  <1> QED BY <1>1, <1>8, <1>9

\* The loop looks at its own position: the change it asks for is the bound itself.
LEMMA LookBounded ==
    ASSUME TypeOK, Ours, Bounded, NEW slow \in BOOLEAN, Look(slow)
    PROVE  Bounded'
  <1>1. /\ pos # None /\ pc = "idle" /\ pos' \in ObjType /\ pos' # None
        /\ pos'.of = pos.of /\ pos'.entry = pos.entry
        /\ pos'.plan = pos.plan /\ pos.best <= pos'.best
        /\ \/ /\ pc' = "changing" /\ UNCHANGED record /\ pos'.stop = pos.stop
              /\ want' = Snap(Follow(pos.entry, pos'.best, pos.stop))
           \/ /\ record' = pos' /\ UNCHANGED <<want, pc>>
              /\ pos'.stop \in {pos.stop, Snap(Follow(pos.entry, pos'.best, pos.stop))}
        /\ UNCHANGED <<venue, plans, held, attach, torn>>
    BY LookForm
  <1> SUFFICES ASSUME ~torn PROVE Bounded'  BY <1>1 DEF Bounded
  <1>2. held = None  BY <1>1 DEF TypeOK
  <1>3. pos \in ObjType /\ pos.stop # None /\ pos'.stop # None
    <2>1. pos \in ObjType /\ pos.stop # None  BY <1>1, ObjectsTyped DEF Object
    <2>2. pos'.best \in Int /\ pos.stop \in Int /\ pos.entry \in Int  BY <1>1, <2>1 DEF ObjType
    <2>3. Snap(Follow(pos.entry, pos'.best, pos.stop)) # None
      BY <2>2, FollowInt, SnapInt, NoneIsNoPrice
    <2> QED BY <1>1, <2>1, <2>3
  <1>4. plans \in SUBSET [n : Nat, stop : Int] /\ attach \subseteq [id : Ids, stop : Int, plan : Nat]
    BY DEF TypeOK
  <1>5. ASSUME OfOpen(pos, venue)
        PROVE  /\ Snap(Follow(pos.entry, pos'.best, pos.stop)) = Cap(pos')
               /\ First(pos'.entry) <= pos'.stop /\ pos'.stop <= Cap(pos')
    <2>1. First(pos.entry) <= pos.stop /\ pos.stop <= Cap(pos)  BY <1>5 DEF Bounded, Within
    <2> DEFINE e == pos.entry
               b == pos.best
               c == pos'.best
               x == pos.stop
    <2>2. e \in Int /\ b \in Int /\ c \in Int /\ x \in Int /\ b <= c
      BY <1>1, <1>3, CapInt
    <2>3. First(e) <= x /\ x <= CapOf(e, b)  BY <2>1 DEF Cap
    <2>4. Cap(pos') = CapOf(e, c)  BY <1>1 DEF Cap
    <2>5. pos'.stop \in {x, Snap(Follow(e, c, x))} /\ pos'.entry = e  BY <1>1
    <2> HIDE DEF e, b, c, x
    <2>6. /\ Snap(Follow(e, c, x)) = CapOf(e, c) /\ CapOf(e, b) <= CapOf(e, c)
          /\ CapOf(e, b) \in Int
      BY <2>2, <2>3, CapGrows
    <2>7. c <= c /\ First(e) \in Int  BY <2>2, FirstInt
    <2>8. CapOf(e, c) \in Int /\ First(e) <= CapOf(e, c)  BY <2>2, <2>7, CapGrows
    <2>9. First(e) <= pos'.stop /\ pos'.stop <= CapOf(e, c)
      BY <2>2, <2>3, <2>5, <2>6, <2>7, <2>8
    <2> QED BY <2>4, <2>5, <2>6, <2>9 DEF e, c, x
  <1>6. Within(pos', venue, plans)
    <2>1. Within(pos, venue, plans)  BY DEF Bounded
    <2>2. OfOpen(pos', venue) => First(pos'.entry) <= pos'.stop /\ pos'.stop <= Cap(pos')
      BY <1>1, <1>5 DEF OfOpen
    <2> DEFINE o == pos
               d == pos'
    <2>3. /\ o \in ObjType /\ d \in ObjType /\ o.stop # None /\ d.stop # None
          /\ d.of = o.of /\ d.entry = o.entry /\ d.plan = o.plan /\ o.best <= d.best
      BY <1>1, <1>3
    <2>4. Within(o, venue, plans)
          /\ (OfOpen(d, venue) => First(d.entry) <= d.stop /\ d.stop <= Cap(d))
      BY <2>1, <2>2
    <2> HIDE DEF o, d
    <2>5. Within(d, venue, plans)  BY <1>4, <2>3, <2>4, WithinGrows
    <2> QED BY <2>5 DEF d
  <1>7. \A t \in attach : TaskWithin(t, pos', venue, plans)
    <2> SUFFICES ASSUME NEW t \in attach PROVE TaskWithin(t, pos', venue, plans)  OBVIOUS
    <2> DEFINE o == pos
               d == pos'
    <2>1. TaskWithin(t, o, venue, plans)  BY DEF Bounded
    <2>2. /\ o \in ObjType /\ d \in ObjType /\ o.stop # None /\ d.stop # None
          /\ d.of = o.of /\ d.entry = o.entry /\ o.best <= d.best
      BY <1>1, <1>3
    <2>3. t \in [id : Ids, stop : Int, plan : Nat]  BY <1>4
    <2> HIDE DEF o, d
    <2>4. TaskWithin(t, d, venue, plans)  BY <1>4, <2>1, <2>2, <2>3, TaskGrows
    <2> QED BY <2>4 DEF d
  <1>8. Within(record', venue, plans)
    <2>1. Within(record, venue, plans)  BY <1>1 DEF Bounded
    <2> QED BY <1>1, <1>6, <2>1
  <1>9. Within(held', venue, plans) /\ \A t \in attach : TaskWithin(t, held', venue, plans)
    BY <1>1, <1>2 DEF Within, TaskWithin, OfOpen
  <1>10. pc' \in {"changing", "changed", "unchanged"} /\ OfOpen(pos', venue) => want' = Cap(pos')
    <2> SUFFICES ASSUME pc' \in {"changing", "changed", "unchanged"}, OfOpen(pos', venue)
                 PROVE  want' = Cap(pos')
      OBVIOUS
    <2>1. OfOpen(pos, venue)  BY <1>1 DEF OfOpen
    <2> QED BY <1>1, <1>5, <2>1
  <1> QED BY <1>1, <1>6, <1>7, <1>8, <1>9, <1>10 DEF Bounded

LEMMA AttachBounded ==
    ASSUME TypeOK, Numbered, Bounded, NEW t \in attach, AttachCall(t)
    PROVE  Bounded'
  <1>1. UNCHANGED <<venue, pos, held, record, pc, want, torn>>  BY AttachForm
  <1> SUFFICES ASSUME ~torn PROVE Bounded'  BY <1>1 DEF Bounded
  <1>2. CASE UNCHANGED plans /\ attach' = attach \ {t}
    BY <1>1, <1>2 DEF Bounded
  <1>3. CASE ~(UNCHANGED plans /\ attach' = attach \ {t})
    <2>1. venue.id = t.id  BY <1>3, AttachForm
    <2>2. PICK p, u : /\ plans' = plans \cup {p} /\ attach' = (attach \ {t}) \cup {u}
                      /\ p.n = count.plans + 1 /\ p.stop = t.stop
                      /\ u.id = t.id /\ u.stop = t.stop /\ u.plan = count.plans + 1
      BY <1>3, AttachForm
    <2>3. count.plans \in Nat /\ \A q \in plans : q.n \in Nat /\ q.n <= count.plans
      BY DEF TypeOK, Numbered
    <2>4. \A v \in attach : v.plan \in Nat /\ v.plan <= count.plans  BY DEF TypeOK, Numbered
    <2>5. \A n \in Nat : \A x : n <= count.plans /\ Behind(plans, n, x) => Behind(plans', n, x)
      BY <2>2, <2>3 DEF Behind
    <2>6. \A x : t.stop <= x => Behind(plans', u.plan, x)  BY <2>2, <2>3 DEF Behind
    <2>7. ASSUME NEW o, Object(o), o # None => o.plan <= count.plans, Within(o, venue, plans)
          PROVE  Within(o, venue, plans')
      <3>1. o # None => o.plan \in Nat  BY <2>7 DEF Object, ObjType
      <3> QED BY <2>5, <2>7, <3>1 DEF Within, OfOpen
    <2>8. ASSUME NEW o, \A v \in attach : TaskWithin(v, o, venue, plans), NEW v \in attach'
          PROVE  TaskWithin(v, o, venue, plans')
      <3> SUFFICES ASSUME OfOpen(o, venue), v.id = venue.id
                   PROVE  v.stop <= Cap(o) /\ Behind(plans', v.plan, Cap(o))
        BY DEF TaskWithin
      <3>1. CASE v = u
        <4>1. t.stop <= Cap(o)  BY <2>1, <2>8 DEF TaskWithin
        <4> QED BY <2>2, <2>6, <3>1, <4>1
      <3>2. CASE v \in attach
        <4>1. v.stop <= Cap(o) /\ Behind(plans, v.plan, Cap(o))
          BY <2>8, <3>2 DEF TaskWithin
        <4> QED BY <2>4, <2>5, <3>2, <4>1
      <3> QED BY <2>2, <3>1, <3>2
    <2>9. Within(pos, venue, plans') /\ Within(held, venue, plans')
      BY <2>7, ObjectsTyped DEF Bounded, Numbered
    <2>10. pc \notin {"changed", "unchanged"} => Within(record, venue, plans')
      BY <2>7, ObjectsTyped DEF Bounded, Numbered
    <2>11. \A v \in attach' : TaskWithin(v, pos, venue, plans') /\ TaskWithin(v, held, venue, plans')
      BY <2>8 DEF Bounded
    <2> QED BY <1>1, <2>9, <2>10, <2>11 DEF Bounded
  <1> QED BY <1>2, <1>3

LEMMA BoundedStep ==
    ASSUME TypeOK, Ours, Flow, Numbered, Bounded, [Next]_vars
    PROVE  Bounded'
  <1>1. CASE UNCHANGED vars  BY <1>1, NothingMoves DEF vars
  <1>2. ASSUME NEW p \in Prices, MidMoves(p) PROVE Bounded'  BY <1>2, NothingMoves DEF MidMoves
  <1>3. ASSUME NEW side \in Sides, Enter(side) PROVE Bounded'
    BY <1>3, NothingOpen DEF Enter, OfOpen
  <1>4. CASE StopFires  BY <1>4, NothingOpen DEF StopFires, Gone, NoPosition, OfOpen
  <1>5. CASE Fill
    <2>1. /\ pos' = None /\ held' = None /\ venue'.id = count.positions
          /\ record' # None => record'.of < count.positions
      BY <1>5 DEF Fill, Flow
    <2>2. count.positions \in Nat  BY BoundsNat DEF TypeOK
    <2> QED BY <2>1, <2>2, NothingOpen DEF OfOpen
  <1>6. CASE OrderEnds \/ ReplyLost  BY <1>6, NothingMoves DEF OrderEnds, ReplyLost
  <1>7. CASE Adopt
    <2>1. /\ pos' \in ObjType /\ pos' # None /\ record' = pos'
          /\ pos'.of = venue.id /\ pos'.plan = 0
          /\ pos'.entry = venue.entry /\ pos'.best = venue.entry
          /\ pos'.stop = First(venue.entry) /\ venue.entry \in Int
          /\ pos = None /\ held = None /\ venue.id # 0
          /\ UNCHANGED attach \/ Spawn(venue.id, First(venue.entry))
          /\ UNCHANGED <<venue, plans, held, pc, want, torn>>
      BY <1>7, AdoptForm DEF Flow
    <2>2. First(venue.entry) \in Int /\ pos'.stop # None  BY <2>1, FirstInt, NoneIsNoPrice
    <2>3. First(venue.entry) <= Cap(pos')
      <3> DEFINE d == pos'
      <3>1. d \in ObjType /\ d.stop # None /\ d.entry = venue.entry  BY <2>1, <2>2
      <3> HIDE DEF d
      <3>2. First(d.entry) <= Cap(d)  BY <3>1, CapInt
      <3> QED BY <3>1, <3>2 DEF d
    <2>4. \A p \in plans : p.n # 0  BY DEF Numbered, TypeOK
    <2>5. \A t \in attach' : t.id = venue.id => t.stop = First(venue.entry) /\ t.plan = 0
      BY <2>1 DEF Flow, Spawn
    <2>6. Within(pos', venue, plans)  BY <2>1, <2>2, <2>3, <2>4 DEF Within, Behind
    <2>7. \A t \in attach' : TaskWithin(t, pos', venue, plans)
      BY <2>3, <2>4, <2>5 DEF TaskWithin, Behind
    <2>8. pc \notin {"changing", "changed", "unchanged"}  BY <2>1 DEF TypeOK
    <2> QED BY <2>1, <2>6, <2>7, <2>8 DEF Bounded, Within, TaskWithin, OfOpen
  <1>8. ASSUME NEW t \in attach, AttachCall(t) PROVE Bounded'  BY <1>8, AttachBounded
  <1>9. ASSUME NEW t \in attach, AttachAnswer(t) PROVE Bounded'
    <2>1. /\ t.plan # 0 /\ attach' = attach \ {t}
          /\ UNCHANGED <<venue, plans, held, pc, want, torn>>
          /\ \/ UNCHANGED <<pos, record>>
             \/ /\ pos # None /\ pos' # None /\ record' = pos'
                /\ pos'.of = pos.of /\ pos'.entry = pos.entry
                /\ pos'.best = pos.best /\ pos'.stop = pos.stop
                /\ pos'.plan \in {t.plan, pos.plan}
      BY <1>9, AnswerForm
    <2>2. CASE UNCHANGED <<pos, record>>  BY <2>1, <2>2 DEF Bounded
    <2>3. CASE ~UNCHANGED <<pos, record>> /\ ~torn
      <3>1. Cap(pos') = Cap(pos) /\ (OfOpen(pos', venue) <=> OfOpen(pos, venue))
        BY <2>1, <2>3 DEF Cap, OfOpen
      <3>2. OfOpen(pos, venue) => Behind(plans, t.plan, Cap(pos))
        <4> SUFFICES ASSUME OfOpen(pos, venue), NEW p \in plans, p.n = t.plan
                     PROVE  p.stop <= Cap(pos)
          BY DEF Behind
        <4>1. t.id = venue.id  BY DEF Numbered
        <4> QED BY <2>3, <4>1 DEF Bounded, TaskWithin, Behind
      <3>3. Within(pos', venue, plans)
        BY <2>1, <2>3, <3>1, <3>2 DEF Bounded, Within
      <3>4. \A u \in attach : TaskWithin(u, pos', venue, plans)
        BY <2>3, <3>1 DEF Bounded, TaskWithin
      <3> QED BY <2>1, <2>3, <3>1, <3>3, <3>4 DEF Bounded
    <2> QED BY <2>1, <2>2, <2>3 DEF Bounded
  <1>10. CASE Recover  BY <1>10, RecoverBounded
  <1>11. CASE Recovered
    <2>1. /\ held # None /\ pos' = held /\ record' = held /\ held' = None /\ pc' = "idle"
          /\ UNCHANGED <<venue, plans, attach, want, torn>>
      BY <1>11 DEF Recovered, Manage, TypeOK
    <2> QED BY <2>1 DEF Bounded, Within, TaskWithin, OfOpen
  <1>12. ASSUME NEW slow \in BOOLEAN, Look(slow) PROVE Bounded'  BY <1>12, LookBounded
  <1>13. CASE ChangeCall
    <2>1. /\ pos # None /\ held = None /\ pc = "changing" /\ pc' \in {"changed", "unchanged"}
          /\ \A q \in plans' : q \in plans \/ (q.n = pos.plan /\ q.stop = want)
          /\ UNCHANGED <<venue, pos, held, record, attach, want, torn>>
      BY <1>13, ChangeForm
    <2> SUFFICES ASSUME ~torn PROVE Bounded'  BY <2>1 DEF Bounded
    <2>2. CASE OfOpen(pos, venue)
      <3>1. want = Cap(pos) /\ Cap(pos) \in Int
        <4>1. pos \in ObjType /\ pos.stop # None  BY <2>1, ObjectsTyped DEF Object
        <4> QED BY <2>1, <2>2, <4>1, CapInt DEF Bounded
      <3>2. \A n : Behind(plans, n, Cap(pos)) => Behind(plans', n, Cap(pos))
        BY <2>1, <3>1 DEF Behind
      <3> QED BY <2>1, <3>1, <3>2 DEF Bounded, Within, TaskWithin, OfOpen
    <2>3. CASE ~OfOpen(pos, venue)
      BY <2>1, <2>3 DEF Bounded, Within, TaskWithin, OfOpen
    <2> QED BY <2>2, <2>3
  <1>14. CASE PassEnds
    <2>1. /\ pos # None /\ pc \in {"changed", "unchanged"} /\ pc' = "idle" /\ held = None
          /\ pos' \in ObjType /\ pos' # None /\ record' = pos'
          /\ pos'.of = pos.of /\ pos'.entry = pos.entry
          /\ pos'.plan = pos.plan /\ pos'.best = pos.best /\ pos'.stop \in {pos.stop, want}
          /\ UNCHANGED <<venue, plans, held, attach, torn>>
      BY <1>14, PassForm
    <2> SUFFICES ASSUME ~torn PROVE Bounded'  BY <2>1 DEF Bounded
    <2>2. pos \in ObjType /\ pos.stop # None  BY <2>1, ObjectsTyped DEF Object
    <2>3. Cap(pos') = Cap(pos) /\ (OfOpen(pos', venue) <=> OfOpen(pos, venue))
      BY <2>1 DEF Cap, OfOpen
    <2>4. OfOpen(pos, venue) => First(pos'.entry) <= pos'.stop /\ pos'.stop <= Cap(pos')
      <3> SUFFICES ASSUME OfOpen(pos, venue)
                   PROVE  First(pos.entry) <= pos'.stop /\ pos'.stop <= Cap(pos)
        BY <2>1, <2>3
      <3>1. want = Cap(pos)  BY <2>1 DEF Bounded
      <3>2. First(pos.entry) <= pos.stop /\ pos.stop <= Cap(pos)  BY DEF Bounded, Within
      <3>3. First(pos.entry) <= Cap(pos) /\ Cap(pos) \in Int  BY <2>2, CapInt
      <3> QED BY <2>1, <3>1, <3>2, <3>3
    <2>5. Within(pos', venue, plans)
      BY <2>1, <2>3, <2>4 DEF Bounded, Within
    <2>6. \A t \in attach : TaskWithin(t, pos', venue, plans)
      BY <2>3 DEF Bounded, TaskWithin
    <2> QED BY <2>1, <2>5, <2>6 DEF Bounded, Within, TaskWithin, OfOpen
  <1>15. CASE Exit  BY <1>15 DEF Exit, Here, Idle, Bounded
  <1>16. CASE CloseCall
    <2>1. CASE Gone  BY <2>1, NothingOpen DEF Gone, NoPosition, OfOpen
    <2>2. CASE pc' = "idle" /\ UNCHANGED <<venue, plans>>
      BY <1>16, <2>2 DEF CloseCall, Bounded
    <2> QED BY <1>16, <2>1, <2>2 DEF CloseCall
  <1>17. CASE Release
    <2>1. venue.id = 0  BY <1>17 DEF Release, Flow, Ours
    <2> QED BY <1>17, <2>1, NothingOpen DEF Release, OfOpen
  <1>18. CASE Crash
    <2>1. /\ pos' = None /\ held' = None /\ attach' = {} /\ pc' = "idle"
          /\ torn' = (torn \/ pc \in {"changed", "unchanged"})
          /\ UNCHANGED <<venue, plans, record>>
      BY <1>18 DEF Crash
    <2> QED BY <2>1 DEF Bounded, Within, TaskWithin, OfOpen
  <1> QED BY <1>1, <1>2, <1>3, <1>4, <1>5, <1>6, <1>7, <1>8, <1>9, <1>10, <1>11, <1>12, <1>13,
             <1>14, <1>15, <1>16, <1>17, <1>18 DEF Next, Loop

StopStep ==
    \A p \in plans, q \in plans' : p.n = q.n =>
        q.stop >= p.stop \/ torn \/ (pos # None /\ pos.of # pos.on)

\* Only a change gives a stop order that is open another price, and the price it
\* asks for is the largest one the rule has given the position.
LEMMA StopStepTaken ==
    ASSUME TypeOK, Ours, Flow, Numbered, Bounded, [Next]_vars
    PROVE  StopStep
  <1>1. \A p, q \in plans : p.n = q.n => q.stop >= p.stop
    BY DEF Numbered, TypeOK
  <1>2. CASE UNCHANGED plans \/ plans' = {}  BY <1>1, <1>2 DEF StopStep
  <1>3. ASSUME NEW t \in attach, AttachCall(t) PROVE StopStep
    <2>1. \A q \in plans' : q \in plans \/ q.n = count.plans + 1  BY <1>3, AttachForm
    <2>2. count.plans \in Nat /\ \A p \in plans : p.n \in Nat /\ p.n <= count.plans
      BY DEF TypeOK, Numbered
    <2> QED BY <1>1, <2>1, <2>2 DEF StopStep
  <1>4. CASE ChangeCall
    <2>1. /\ pos # None /\ pc = "changing"
          /\ \A q \in plans' : q \in plans \/ (q.n = pos.plan /\ q.stop = want)
      BY <1>4, ChangeForm
    <2> SUFFICES ASSUME ~torn, pos.of = pos.on,
                        NEW p \in plans, NEW q \in plans', p.n = q.n, q \notin plans
                 PROVE  q.stop >= p.stop
      BY <1>1, <2>1 DEF StopStep
    <2>2. OfOpen(pos, venue)  BY <2>1 DEF OfOpen, Ours, Flow
    <2>3. want = Cap(pos) /\ p.stop <= Cap(pos)
      BY <2>1, <2>2 DEF Bounded, Within, Behind
    <2>4. Cap(pos) \in Int /\ p.stop \in Int
      <3>1. pos \in ObjType /\ pos.stop # None  BY <2>1, ObjectsTyped DEF Object
      <3> QED BY <3>1, CapInt DEF TypeOK
    <2> QED BY <2>1, <2>3, <2>4
  <1>5. CASE \E t \in attach : AttachAnswer(t)  BY <1>2, <1>5 DEF AttachAnswer
  <1>6. CASE Loop /\ ~ChangeCall
    BY <1>2, <1>6 DEF Loop, Recover, Recovered, Look, PassEnds, CloseCall, Gone, Release
  <1>7. CASE ~(Loop \/ \E t \in attach : AttachCall(t) \/ AttachAnswer(t))
    BY <1>2, <1>7 DEF Next, MidMoves, Enter, StopFires, Gone, Fill, OrderEnds, ReplyLost, Adopt,
                      Exit, Crash, vars
  <1> QED BY <1>3, <1>4, <1>5, <1>6, <1>7

\* A stop at the venue never moves back, over any crashes, restarts and failing
\* calls, for any prices, entry tolerance and parameters of the rule, with the two
\* exceptions the property names.
THEOREM StopsNeverMoveBack == Spec => StopNeverBack
  <1>1. Init => Ours /\ Flow /\ Numbered /\ Bounded
    <2> SUFFICES ASSUME Init PROVE Ours /\ Flow /\ Numbered /\ Bounded  OBVIOUS
    <2>1. Ours  BY BoundsNat DEF Init, Ours, NoPosition, Fits
    <2>2. Flow /\ Numbered  BY DEF Init, Flow, Numbered
    <2>3. Bounded  BY DEF Init, Bounded, Within, TaskWithin, OfOpen
    <2> QED BY <2>1, <2>2, <2>3
  <1>2. TypeOK /\ (Ours /\ Flow /\ Numbered /\ Bounded) /\ [Next]_vars
          => (Ours /\ Flow /\ Numbered /\ Bounded)'
    BY OursStep, FlowStep, NumberedStep, BoundedStep
  <1>3. TypeOK /\ (Ours /\ Flow /\ Numbered /\ Bounded) /\ [Next]_vars => [StopStep]_vars
    BY StopStepTaken
  <1> QED BY <1>1, <1>2, <1>3, StopOrdersTyped, PTL DEF Spec, StopNeverBack, StopStep
===============================================================================
