------------------------------ MODULE EngineProofs ------------------------------
(***************************************************************************)
(* The life cycle of the bot, for any number of requests, loops, executors *)
(* and operations: a running engine has a loop behind its executor, two    *)
(* executors never drive the shared positions at once, and a stop leaves   *)
(* nothing open on the venue.                                              *)
(*                                                                         *)
(* The first part says what each step does to the executors and the tasks; *)
(* the invariants then speak of flags and program counters only.           *)
(***************************************************************************)
EXTENDS Engine, FiniteSetTheorems, TLAPS

ExecRec == [kind : {"paper", "real"}, stop : BOOLEAN, clean : BOOLEAN, lock : BOOLEAN]
TaskRec == [pc : {"idle", "tick", "sleep", "lock", "flat", "tail"},
            what : {"none", "stop", "mode", "down", "kill", "trip", "exit"},
            exec : 0..made, mode : Modes \cup {"none"}]
Pool == [Execs -> ExecRec]

\* What a task is doing when it is in a flatten, or waits for one.
Owned == {"lock", "flat", "tail"}

\* Requests are idle or in a flatten, loops also tick and sleep; each for an executor
\* that has been made, and a flatten for a live one.
Shapes ==
    /\ \A t \in Tasks : task[t].pc \in Owned =>
          task[t].exec \in 1..made /\ exec[task[t].exec].kind = "real" /\ task[t].what # "none"
    /\ \A r \in Requests : /\ task[r].pc \in {"idle"} \cup Owned
                           /\ task[r].pc = "idle" => task[r] = Idle
                           /\ task[r].what \in {"none", "stop", "mode", "down", "kill"}
                           /\ task[r].what = "mode" => task[r].mode \in Modes
    /\ \A l \in Loops : /\ task[l].what \in {"none", "trip", "exit"}
                        /\ task[l].pc = "idle" => task[l] = Idle
                        /\ task[l].pc \in {"tick", "sleep"} => task[l].what = "none"
                        /\ task[l].pc # "idle" => task[l].exec \in 1..made

\* A set_mode that awaits its flatten has an executor left to make.
Pending == {q \in Requests : task[q].what = "mode"}
Room == made + Cardinality(Pending) <= MaxExecs

TInv == TypeOK /\ Shapes /\ Room

(***************************************************************************)
(* What the steps are made of.                                             *)
(***************************************************************************)

\* What the proofs use of the assumption on the constants.
LEMMA Constants ==
    /\ Modes \subseteq {"paper", "real", "logger"} /\ EmergencyClose \in BOOLEAN
    /\ MaxExecs \in Nat /\ MaxOps \in Nat /\ MaxEntries \in Nat /\ MaxExecs > 0
    /\ Requests \cap Loops = {} /\ IsFiniteSet(Requests)
  BY EngineConstantsOK

\* An idle task is one.
LEMMA IdleTyped ==
    ASSUME TypeOK
    PROVE  /\ Idle \in TaskRec /\ Idle.pc = "idle" /\ Idle.what = "none" /\ Idle.exec = 0
           /\ made \in Nat /\ made \in Execs /\ 1..made \subseteq Execs
  BY Constants DEF TypeOK, Idle, TaskRec, Execs

\* The types of the tables, by name.
LEMMA TablesTyped ==
    ASSUME TypeOK
    PROVE  exec \in Pool /\ task \in [Tasks -> TaskRec]
  BY DEF TypeOK, Pool, ExecRec, TaskRec

\* Telling the executor of the day to stop sets one flag.
LEMMA StoppedTyped ==
    ASSUME TypeOK, NEW execs \in Pool
    PROVE  /\ Stopped(execs) \in Pool
           /\ \A e \in Execs : /\ Stopped(execs)[e].kind = execs[e].kind
                               /\ Stopped(execs)[e].lock = execs[e].lock
                               /\ Stopped(execs)[e].stop = (execs[e].stop \/ e = executor)
  BY DEF Stopped, Pool, ExecRec

\* Going for the lock of an executor leaves it locked, whoever holds it.
LEMMA Entering ==
    ASSUME TypeOK, NEW t \in Tasks, NEW T \in TaskRec, T.exec \in Execs,
           NEW execs \in Pool, EnterFlatten(t, T, execs)
    PROVE  /\ exec' \in Pool /\ task' \in [Tasks -> TaskRec]
           /\ \A u \in Tasks : u # t => task'[u] = task[u]
           /\ task'[t].pc \in {"lock", "flat"}
           /\ task'[t].what = T.what /\ task'[t].exec = T.exec /\ task'[t].mode = T.mode
           /\ task'[t].pc = "flat" => ~execs[T.exec].lock
           /\ \A e \in Execs : /\ exec'[e].kind = execs[e].kind /\ exec'[e].stop = execs[e].stop
                               /\ exec'[e].lock = (execs[e].lock \/ e = T.exec)
  <1>1. task \in [Tasks -> TaskRec]  BY TablesTyped
  <1>2. CASE execs[T.exec].lock
    <2>1. exec' = execs /\ task' = [task EXCEPT ![t] = [T EXCEPT !.pc = "lock"]]
      BY <1>2 DEF EnterFlatten
    <2>2. [T EXCEPT !.pc = "lock"] \in TaskRec
      BY DEF TaskRec
    <2> QED BY <1>1, <1>2, <2>1, <2>2 DEF Pool, ExecRec, TaskRec
  <1>3. CASE ~execs[T.exec].lock
    <2>1. /\ exec' = [execs EXCEPT ![T.exec].lock = TRUE]
          /\ task' = [task EXCEPT ![t] = [T EXCEPT !.pc = "flat"]]
      BY <1>3 DEF EnterFlatten
    <2>2. [T EXCEPT !.pc = "flat"] \in TaskRec
      BY DEF TaskRec
    <2>3. exec' \in Pool  BY <2>1 DEF Pool, ExecRec
    <2>4. \A e \in Execs : /\ exec'[e].kind = execs[e].kind /\ exec'[e].stop = execs[e].stop
                           /\ exec'[e].lock = (execs[e].lock \/ e = T.exec)
      BY <2>1 DEF Pool, ExecRec
    <2> QED BY <1>1, <1>3, <2>1, <2>2, <2>3, <2>4 DEF TaskRec
  <1> QED BY <1>2, <1>3

\* A new executor comes after all others, which are stopped.
LEMMA Configuring ==
    ASSUME TypeOK, NEW execs \in Pool, NEW mode \in Modes, made < MaxExecs,
           Configure(mode, execs)
    PROVE  /\ made' \in Execs /\ made' \in made..(made + 1) /\ executor' \in {0, made'}
           /\ exec' \in Pool
           /\ \A e \in 1..made : exec'[e] = Stopped(execs)[e]
           /\ executor' # 0 => executor' = made + 1 /\ made' = made + 1
           /\ \A e \in 1..made' : e # executor' => e \in 1..made
  <1>1. Stopped(execs) \in Pool  BY StoppedTyped
  <1>2. made \in Nat /\ made \in Execs  BY IdleTyped
  <1>3. CASE mode = "logger"
    BY <1>1, <1>2, <1>3 DEF Configure
  <1>4. CASE mode # "logger"
    <2>1. /\ made' = made + 1 /\ executor' = made'
          /\ exec' = [Stopped(execs) EXCEPT ![made'] = New(mode)]
      BY <1>4 DEF Configure
    <2>2. New(mode) \in ExecRec  BY <1>4, Constants DEF New, ExecRec
    <2>3. made' \in Execs  BY <1>2, <2>1, Constants DEF Execs
    <2> QED BY <1>1, <1>2, <2>1, <2>2, <2>3 DEF Pool, Execs
  <1> QED BY <1>3, <1>4

\* What follows a flatten stops executors and never starts one that has been made.
LEMMA Afterwards ==
    ASSUME TypeOK, NEW execs \in Pool, NEW T, After(T, execs),
           T.what = "mode" => T.mode \in Modes /\ made < MaxExecs
    PROVE  /\ made' \in Execs /\ made' \in made..(made + 1) /\ executor' \in {0, made'}
           /\ exec' \in Pool
           /\ T.what # "mode" => made' = made /\ executor' = executor
           /\ executor' # executor => \A e \in 1..made : exec'[e] = Stopped(execs)[e]
           /\ T.what \in {"mode", "kill"} => \A e \in 1..made : exec'[e] = Stopped(execs)[e]
           /\ T.what \notin {"mode", "kill"} => exec' = execs
           /\ \A e \in 1..made' : e # executor' => e \in 1..made
  <1>1. made \in Nat /\ made \in Execs /\ executor \in {0, made}  BY IdleTyped DEF TypeOK
  <1>2. Stopped(execs) \in Pool  BY StoppedTyped
  <1>3. CASE T.what = "mode"
    <2>1. Configure(T.mode, execs)  BY <1>3 DEF After
    <2> QED BY <1>1, <1>3, <2>1, Configuring
  <1>4. CASE T.what = "kill"
    BY <1>1, <1>2, <1>4 DEF After
  <1>5. CASE T.what \notin {"mode", "kill"}
    BY <1>1, <1>5 DEF After
  <1> QED BY <1>3, <1>4, <1>5

(***************************************************************************)
(* What each step does.                                                    *)
(***************************************************************************)
Others(t) == \A u \in Tasks : u # t => task'[u] = task[u]

\* t waits for the flatten of e or carries it out, with e's flags but the lock as they are
\* in execs.
Joins(t, what, e, execs) ==
    /\ Others(t) /\ task'[t].pc \in {"lock", "flat"} /\ task'[t].what = what
    /\ task'[t].exec = e
    /\ task'[t].pc = "flat" => ~execs[e].lock
    /\ \A x \in Execs : /\ exec'[x].kind = execs[x].kind /\ exec'[x].stop = execs[x].stop
                        /\ exec'[x].lock = (execs[x].lock \/ x = e)

\* A request goes on after its flatten, from execs, and is done.
Ends(what, execs) ==
    /\ made' \in made..(made + 1) /\ executor' \in {0, made'}
    /\ what # "mode" => made' = made /\ executor' = executor
    /\ \A e \in 1..made : /\ exec'[e].kind = execs[e].kind /\ exec'[e].lock = execs[e].lock
                          /\ execs[e].stop => exec'[e].stop
    /\ executor' # executor \/ what \in {"mode", "kill"} =>
          \A e \in 1..made : exec'[e].stop = (execs[e].stop \/ e = executor)
    /\ \A e \in 1..made' : e # executor' => e \in 1..made
    /\ what # "down" => UNCHANGED <<down, trade>>
    /\ what = "down" => /\ \A t \in Tasks : task'[t] = Idle
                        /\ entry' = 0 /\ (venue' => venue \/ late') /\ (late => late')
                        /\ UNCHANGED <<pos, entries>>

LEMMA Ending ==
    ASSUME TypeOK, NEW T, NEW execs \in Pool, After(T, execs), Cancel(T),
           T.what = "mode" => T.mode \in Modes /\ made < MaxExecs
    PROVE  Ends(T.what, execs) /\ made' \in Execs /\ exec' \in Pool
  <1>1. \A e \in 1..made : e \in Execs  BY IdleTyped
  <1>2. Stopped(execs) \in Pool
        /\ \A e \in Execs : /\ Stopped(execs)[e].kind = execs[e].kind
                            /\ Stopped(execs)[e].lock = execs[e].lock
                            /\ Stopped(execs)[e].stop = (execs[e].stop \/ e = executor)
    BY StoppedTyped
  <1>3. /\ made' \in Execs /\ made' \in made..(made + 1) /\ executor' \in {0, made'}
        /\ exec' \in Pool
        /\ T.what # "mode" => made' = made /\ executor' = executor
        /\ executor' # executor \/ T.what \in {"mode", "kill"} =>
              \A e \in 1..made : exec'[e] = Stopped(execs)[e]
        /\ T.what \notin {"mode", "kill"} => exec' = execs
        /\ \A e \in 1..made' : e # executor' => e \in 1..made
    BY Afterwards
  <1>4. \A e \in 1..made : /\ exec'[e].kind = execs[e].kind /\ exec'[e].lock = execs[e].lock
                           /\ execs[e].stop => exec'[e].stop
    <2>1. CASE T.what \in {"mode", "kill"}  BY <1>1, <1>2, <1>3, <2>1
    <2>2. CASE T.what \notin {"mode", "kill"}  BY <1>3, <2>2
    <2> QED BY <2>1, <2>2
  <1>5. executor' # executor \/ T.what \in {"mode", "kill"} =>
           \A e \in 1..made : exec'[e].stop = (execs[e].stop \/ e = executor)
    BY <1>1, <1>2, <1>3
  <1>6. T.what # "down" => UNCHANGED <<down, trade>>
    BY DEF Cancel
  <1>7. T.what = "down" =>
          /\ \A t \in Tasks : task'[t] = Idle
          /\ entry' = 0 /\ (venue' => venue \/ late') /\ (late => late')
          /\ UNCHANGED <<pos, entries>>
    BY DEF Cancel, TypeOK
  <1> QED BY <1>3, <1>4, <1>5, <1>6, <1>7 DEF Ends

\* The executor of the day, when it is live, can be entered.
LEMMA LiveTyped ==
    ASSUME TypeOK, Live(executor)
    PROVE  executor = made /\ executor \in 1..made /\ exec[executor].kind = "real"
  BY IdleTyped DEF TypeOK, Live

\* A request that stops the engine waits for the flatten of its executor or is done at once.
LEMMA Stops ==
    ASSUME TInv, NEW r \in Requests, NEW what \in {"stop", "mode", "down"},
           NEW mode \in Modes \cup {"none"}, Stop(r, what, mode),
           what = "mode" => mode \in Modes /\ made < MaxExecs
    PROVE  /\ running' = FALSE /\ task[r] = Idle /\ ~down /\ UNCHANGED <<kill, raced>>
           /\ ops' \in 0..MaxOps /\ exec' \in Pool
           /\ \/ /\ Live(executor) /\ EmergencyClose
                 /\ Joins(r, what, executor, Stopped(exec))
                 /\ task' \in [Tasks -> TaskRec] /\ task'[r].mode = mode
                 /\ UNCHANGED <<down, executor, made, trade>>
              \/ /\ ~(Live(executor) /\ EmergencyClose)
                 /\ Ends(what, Stopped(exec)) /\ made' \in Execs
                 /\ what # "down" => UNCHANGED task
                 /\ down' \in BOOLEAN /\ venue' \in BOOLEAN /\ late' \in BOOLEAN
                 /\ what = "down" => task' = [t \in Tasks |-> Idle]
  <1> DEFINE T == [Idle EXCEPT !.what = what, !.mode = mode, !.exec = executor]
  <1>1. TypeOK /\ exec \in Pool /\ Stopped(exec) \in Pool
    BY TablesTyped, StoppedTyped DEF TInv
  <1>2. /\ running' = FALSE /\ task[r] = Idle /\ ~down /\ UNCHANGED <<kill, raced>>
        /\ ops' \in 0..MaxOps
    BY <1>1, Constants DEF Stop, Ask, TypeOK
  <1>3. T.what = what /\ T.mode = mode /\ T.exec = executor  BY DEF Idle
  <1>4. CASE Live(executor) /\ EmergencyClose
    <2>1. EnterFlatten(r, T, Stopped(exec)) /\ UNCHANGED <<down, executor, made, trade>>
      BY <1>4 DEF Stop
    <2>2. T \in TaskRec /\ T.exec \in Execs /\ r \in Tasks
      <3>1. executor \in 0..made /\ executor \in Execs
        BY <1>1, <1>4, LiveTyped, IdleTyped
      <3>2. \A R \in TaskRec : [R EXCEPT !.what = what] \in TaskRec
        BY DEF TaskRec
      <3>3. \A R \in TaskRec : [R EXCEPT !.mode = mode] \in TaskRec
        BY DEF TaskRec
      <3>4. \A R \in TaskRec : [R EXCEPT !.exec = executor] \in TaskRec
        BY <3>1 DEF TaskRec
      <3>5. T \in TaskRec
        BY <1>1, IdleTyped, <3>2, <3>3, <3>4, Zenon
      <3> HIDE DEF T
      <3> QED BY <3>1, <3>5, <1>3 DEF Tasks
    <2>3. /\ exec' \in Pool /\ task' \in [Tasks -> TaskRec] /\ task'[r].mode = mode
          /\ Joins(r, what, executor, Stopped(exec))
      <3> HIDE DEF T
      <3> QED BY <1>1, <1>3, <2>1, <2>2, Entering DEF Joins, Others
    <2> QED BY <1>2, <1>4, <2>1, <2>3
  <1>5. CASE ~(Live(executor) /\ EmergencyClose)
    <2>1. After(T, Stopped(exec)) /\ Cancel(T) /\ (what # "down" => UNCHANGED task)
      BY <1>5 DEF Stop
    <2>2. Ends(what, Stopped(exec)) /\ made' \in Execs /\ exec' \in Pool
      <3> HIDE DEF T
      <3> QED BY <1>1, <1>3, <2>1, Ending
    <2>3. /\ down' \in BOOLEAN /\ venue' \in BOOLEAN /\ late' \in BOOLEAN
          /\ what = "down" => task' = [t \in Tasks |-> Idle]
      <3> HIDE DEF T
      <3> QED BY <1>1, <1>3, <2>1 DEF Cancel, TypeOK, trade
    <2> QED BY <1>2, <1>5, <2>1, <2>2, <2>3
  <1> QED BY <1>4, <1>5

\* run starts one loop, for the executor of the day, whose flag alone it clears.
LEMMA Runs ==
    ASSUME TInv, Run
    PROVE  /\ ~running /\ ~down /\ running' = TRUE /\ kill' = FALSE /\ raced' = raced \cup Racing
           /\ ops' \in 0..MaxOps /\ UNCHANGED <<down, executor, made, trade>>
           /\ exec' \in Pool /\ task' \in [Tasks -> TaskRec]
           /\ \A e \in Execs : /\ exec'[e].kind = exec[e].kind /\ exec'[e].lock = exec[e].lock
                               /\ exec'[e].stop = (exec[e].stop /\ e # executor)
           /\ executor = 0 => UNCHANGED task
           /\ executor # 0 => \E l \in Loops :
                /\ task[l] = Idle /\ Others(l) /\ task'[l].pc = "tick"
                /\ task'[l].what = "none" /\ task'[l].exec = executor
  <1> DEFINE execs == [e \in Execs |-> IF e = executor THEN [exec[e] EXCEPT !.stop = FALSE]
                                                       ELSE exec[e]]
  <1>1. TypeOK /\ exec \in Pool /\ task \in [Tasks -> TaskRec]  BY TablesTyped DEF TInv
  <1>2. /\ ~running /\ ~down /\ running' = TRUE /\ kill' = FALSE /\ raced' = raced \cup Racing
        /\ ops' \in 0..MaxOps /\ UNCHANGED <<down, executor, made, trade>>
    BY <1>1, Constants DEF Run, Ask, TypeOK
  <1>3. /\ execs \in Pool
        /\ \A e \in Execs : /\ execs[e].kind = exec[e].kind /\ execs[e].lock = exec[e].lock
                            /\ execs[e].stop = (exec[e].stop /\ e # executor)
    BY <1>1 DEF Pool, ExecRec
  <1>4. Start(execs)  BY DEF Run
  <1> HIDE DEF execs
  <1>5. CASE executor = 0
    BY <1>1, <1>2, <1>3, <1>4, <1>5 DEF Start
  <1>6. CASE executor # 0
    <2>1. PICK l \in Loops :
            /\ task[l] = Idle
            /\ task' = [task EXCEPT ![l] = [Idle EXCEPT !.pc = "tick", !.exec = executor]]
            /\ exec' = execs
      BY <1>4, <1>6 DEF Start
    <2> DEFINE T == [Idle EXCEPT !.pc = "tick", !.exec = executor]
    <2>2. T.pc = "tick" /\ T.what = "none" /\ T.exec = executor  BY DEF Idle
    <2>3. T \in TaskRec
      <3>1. executor \in 0..made  BY <1>1, IdleTyped DEF TypeOK
      <3>2. \A R \in TaskRec : [R EXCEPT !.pc = "tick"] \in TaskRec
        BY DEF TaskRec
      <3>3. \A R \in TaskRec : [R EXCEPT !.exec = executor] \in TaskRec
        BY <3>1 DEF TaskRec
      <3> QED BY <1>1, IdleTyped, <3>2, <3>3, Zenon
    <2> HIDE DEF T
    <2>4. task' = [task EXCEPT ![l] = T] /\ l \in Tasks  BY <2>1 DEF T, Tasks
    <2>5. task' \in [Tasks -> TaskRec] /\ Others(l) /\ task'[l] = T
      BY <1>1, <2>3, <2>4 DEF Others
    <2> QED BY <1>2, <1>3, <1>6, <2>1, <2>2, <2>5
  <1> QED BY <1>5, <1>6

\* KILL ALL sets the flag, and a live executor is flattened.
LEMMA Kills ==
    ASSUME TInv, NEW r \in Requests, KillAll(r)
    PROVE  /\ task[r] = Idle /\ ~down /\ kill' = TRUE /\ ops' \in 0..MaxOps
           /\ UNCHANGED <<running, down, executor, made, raced, trade>>
           /\ exec' \in Pool /\ task' \in [Tasks -> TaskRec]
           /\ \/ Live(executor) /\ Joins(r, "kill", executor, exec) /\ task'[r].mode = "none"
              \/ ~Live(executor) /\ UNCHANGED <<exec, task>>
  <1> DEFINE T == [Idle EXCEPT !.what = "kill", !.exec = executor]
  <1>1. TypeOK /\ exec \in Pool /\ task \in [Tasks -> TaskRec]  BY TablesTyped DEF TInv
  <1>2. /\ task[r] = Idle /\ ~down /\ kill' = TRUE /\ ops' \in 0..MaxOps
        /\ UNCHANGED <<running, down, executor, made, raced, trade>>
    BY <1>1, Constants DEF KillAll, Ask, TypeOK
  <1>3. CASE Live(executor)
    <2>1. EnterFlatten(r, T, exec)  BY <1>3 DEF KillAll
    <2>2. executor \in 0..made /\ executor \in Execs
      BY <1>1, <1>3, LiveTyped, IdleTyped
    <2>3. \A R \in TaskRec : [R EXCEPT !.what = "kill"] \in TaskRec
      BY DEF TaskRec
    <2>4. \A R \in TaskRec : [R EXCEPT !.exec = executor] \in TaskRec
      BY <2>2 DEF TaskRec
    <2>5. T \in TaskRec  BY <1>1, IdleTyped, <2>3, <2>4, Zenon
    <2>6. T.what = "kill" /\ T.exec = executor /\ T.mode = "none" /\ r \in Tasks
      BY DEF Idle, Tasks
    <2> HIDE DEF T
    <2> QED BY <1>1, <1>2, <1>3, <2>1, <2>2, <2>5, <2>6, Entering DEF Joins, Others
  <1>4. CASE ~Live(executor)
    BY <1>1, <1>2, <1>4 DEF KillAll
  <1> QED BY <1>3, <1>4

\* The executor of a task in a flatten is a live one.
LEMMA OwnedTyped ==
    ASSUME TInv, NEW t \in Tasks, task[t].pc \in Owned
    PROVE  /\ task[t].exec \in 1..made /\ task[t].exec \in Execs /\ Live(task[t].exec)
           /\ task[t].what # "none" /\ task[t] \in TaskRec
  BY IdleTyped, TablesTyped DEF TInv, Shapes, Live

\* A task that has waited takes the lock.
LEMMA Locking ==
    ASSUME TInv, NEW t \in Tasks, FlattenLock(t)
    PROVE  /\ task[t].pc = "lock" /\ UNCHANGED <<flags, trade>>
           /\ exec' \in Pool /\ task' \in [Tasks -> TaskRec]
           /\ Joins(t, task[t].what, task[t].exec, exec) /\ task'[t].mode = task[t].mode
  <1>1. TypeOK /\ exec \in Pool  BY TablesTyped DEF TInv
  <1>2. task[t].pc = "lock" /\ EnterFlatten(t, task[t], exec) /\ UNCHANGED <<flags, trade>>
    BY DEF FlattenLock
  <1>3. task[t] \in TaskRec /\ task[t].exec \in Execs  BY <1>2, OwnedTyped DEF Owned
  <1> QED BY <1>1, <1>2, <1>3, Entering DEF Joins, Others

\* The flatten closes what is open and keeps the lock.
LEMMA Closing ==
    ASSUME TInv, NEW t \in Tasks, FlattenCloses(t)
    PROVE  /\ task[t].pc = "flat" /\ venue' = FALSE /\ pos' = "none"
           /\ UNCHANGED <<flags, exec, entry, late, entries>>
           /\ task' \in [Tasks -> TaskRec] /\ Others(t)
           /\ task'[t].pc = "tail" /\ task'[t].what = task[t].what
           /\ task'[t].exec = task[t].exec /\ task'[t].mode = task[t].mode
  BY TablesTyped DEF TInv, FlattenCloses, Others, TaskRec

\* The end of a flatten frees the lock; a tripped loop stops its executor.
LEMMA Freeing ==
    ASSUME TInv, NEW t \in Tasks, task[t].pc \in Owned
    PROVE  /\ Flattened(t) \in Pool
           /\ \A e \in Execs :
                /\ Flattened(t)[e].kind = exec[e].kind
                /\ Flattened(t)[e].lock = (exec[e].lock /\ e # task[t].exec)
                /\ Flattened(t)[e].stop =
                      (exec[e].stop \/ (e = task[t].exec /\ task[t].what = "trip"))
  <1> DEFINE e == task[t].exec
             R == [exec[e] EXCEPT !.lock = FALSE, !.clean = @ \/ task[t].what # "kill",
                                  !.stop = @ \/ task[t].what = "trip"]
  <1>1. exec \in Pool /\ e \in Execs /\ exec[e] \in ExecRec
    BY TablesTyped, OwnedTyped DEF TInv, Pool
  <1>2. /\ R \in ExecRec /\ R.kind = exec[e].kind /\ R.lock = FALSE
        /\ R.stop = (exec[e].stop \/ task[t].what = "trip")
    BY <1>1 DEF ExecRec
  <1>3. Flattened(t) = [exec EXCEPT ![e] = R]
    BY DEF Flattened
  <1> HIDE DEF R
  <1> QED BY <1>1, <1>2, <1>3 DEF Pool, ExecRec

\* A request ends its flatten.
LEMMA RequestDone ==
    ASSUME TInv, NEW r \in Requests, RequestEnds(r)
    PROVE  /\ task[r].pc = "tail" /\ UNCHANGED <<running, kill, raced, ops>>
           /\ exec' \in Pool /\ made' \in Execs
           /\ down' \in BOOLEAN /\ venue' \in BOOLEAN /\ late' \in BOOLEAN
           /\ Ends(task[r].what, Flattened(r))
           /\ task[r].what # "down" => task' = [task EXCEPT ![r] = Idle]
           /\ task[r].what = "down" => task' = [t \in Tasks |-> Idle]
  <1>1. TypeOK /\ r \in Tasks  BY DEF TInv, Tasks
  <1>2. /\ task[r].pc = "tail" /\ UNCHANGED <<running, kill, raced, ops>>
        /\ After(task[r], Flattened(r)) /\ Cancel(task[r])
        /\ task[r].what # "down" => task' = [task EXCEPT ![r] = Idle]
    BY DEF RequestEnds
  <1>3. Flattened(r) \in Pool  BY <1>1, <1>2, Freeing DEF Owned
  <1>4. task[r].what = "mode" => task[r].mode \in Modes /\ made < MaxExecs
    <2> SUFFICES ASSUME task[r].what = "mode" PROVE task[r].mode \in Modes /\ made < MaxExecs
      OBVIOUS
    <2>1. r \in Pending /\ IsFiniteSet(Pending)
      BY Constants, FS_Subset DEF Pending
    <2>2. Cardinality(Pending) \in Nat /\ Cardinality(Pending) # 0
      BY <2>1, FS_CardinalityType, FS_EmptySet
    <2>3. made \in Nat /\ MaxExecs \in Nat  BY <1>1, IdleTyped, Constants
    <2>4. made + Cardinality(Pending) <= MaxExecs  BY DEF TInv, Room
    <2>5. made < MaxExecs  BY <2>2, <2>3, <2>4
    <2> QED BY <2>5 DEF TInv, Shapes
  <1>5. Ends(task[r].what, Flattened(r)) /\ made' \in Execs /\ exec' \in Pool
    BY <1>1, <1>2, <1>3, <1>4, Ending
  <1>6. /\ down' \in BOOLEAN /\ venue' \in BOOLEAN /\ late' \in BOOLEAN
        /\ task[r].what = "down" => task' = [t \in Tasks |-> Idle]
    BY <1>1, <1>2 DEF Cancel, TypeOK, trade
  <1> QED BY <1>2, <1>5, <1>6

\* A loop leaves its flatten: it ends, or it sleeps on a stopped executor.
LEMMA LoopDone ==
    ASSUME TInv, NEW l \in Loops, LoopFlattened(l)
    PROVE  /\ task[l].pc = "tail" /\ task[l].what \in {"trip", "exit"}
           /\ UNCHANGED <<flags, trade>> /\ exec' = Flattened(l) /\ exec' \in Pool
           /\ task' \in [Tasks -> TaskRec] /\ Others(l)
           /\ \/ task'[l] = Idle /\ task[l].what = "exit"
              \/ /\ task'[l].pc = "sleep" /\ task'[l].what = "none" /\ task[l].what = "trip"
                 /\ task'[l].exec = task[l].exec
  <1>1. /\ TypeOK /\ task \in [Tasks -> TaskRec] /\ l \in Tasks /\ task[l] \in TaskRec
        /\ Idle \in TaskRec
    BY TablesTyped, IdleTyped DEF TInv, Tasks
  <1>2. /\ task[l].pc = "tail" /\ UNCHANGED <<flags, trade>> /\ exec' = Flattened(l)
        /\ task' = [task EXCEPT ![l] = IF @.what = "exit" THEN Idle
                                       ELSE [@ EXCEPT !.pc = "sleep", !.what = "none"]]
    BY DEF LoopFlattened
  <1>3. task[l].what \in {"trip", "exit"} /\ exec' \in Pool
    BY <1>1, <1>2, OwnedTyped, Freeing DEF TInv, Shapes, Owned
  <1>4. CASE task[l].what = "exit"
    BY <1>1, <1>2, <1>3, <1>4 DEF Others
  <1>5. CASE task[l].what # "exit"
    <2> DEFINE T == [task[l] EXCEPT !.pc = "sleep", !.what = "none"]
    <2>1. T \in TaskRec /\ T.pc = "sleep" /\ T.what = "none" /\ T.exec = task[l].exec
      BY <1>1 DEF TaskRec
    <2>2. task' = [task EXCEPT ![l] = T]  BY <1>2, <1>5
    <2> HIDE DEF T
    <2> QED BY <1>1, <1>2, <1>3, <1>5, <2>1, <2>2 DEF Others
  <1> QED BY <1>4, <1>5

\* A loop that sleeps has an executor.
LEMMA LoopTyped ==
    ASSUME TInv, NEW l \in Loops, task[l].pc # "idle"
    PROVE  /\ task[l].exec \in 1..made /\ task[l].exec \in Execs /\ l \in Tasks
           /\ task[l] \in TaskRec
  BY IdleTyped, TablesTyped DEF TInv, Shapes, Tasks

\* A loop that wakes goes on, ends, or flattens for its stopped live executor.
LEMMA Wakes ==
    ASSUME TInv, NEW l \in Loops, LoopWakes(l)
    PROVE  /\ task[l].pc = "sleep" /\ task[l].what = "none" /\ UNCHANGED <<flags, trade>>
           /\ exec' \in Pool /\ task' \in [Tasks -> TaskRec]
           /\ \/ /\ ~exec[task[l].exec].stop /\ UNCHANGED exec /\ Others(l)
                 /\ task'[l].pc = "tick" /\ task'[l].what = "none"
                 /\ task'[l].exec = task[l].exec
              \/ /\ exec[task[l].exec].stop /\ Live(task[l].exec)
                 /\ Joins(l, "exit", task[l].exec, exec)
              \/ /\ exec[task[l].exec].stop /\ UNCHANGED exec /\ Others(l) /\ task'[l] = Idle
  <1> DEFINE e == task[l].exec
  <1>1. /\ TypeOK /\ exec \in Pool /\ task \in [Tasks -> TaskRec] /\ Idle \in TaskRec
    BY TablesTyped, IdleTyped DEF TInv
  <1>2. task[l].pc = "sleep" /\ task[l].what = "none" /\ UNCHANGED <<flags, trade>>
    BY DEF LoopWakes, TInv, Shapes
  <1>3. e \in Execs /\ l \in Tasks /\ task[l] \in TaskRec  BY <1>2, LoopTyped
  <1>4. CASE ~exec[e].stop
    <2>1. task' = [task EXCEPT ![l].pc = "tick"] /\ UNCHANGED exec
      BY <1>4 DEF LoopWakes
    <2>2. task' \in [Tasks -> TaskRec] /\ task'[l].pc = "tick" /\ task'[l].what = "none"
          /\ task'[l].exec = e /\ Others(l)
      BY <1>1, <1>2, <1>3, <2>1 DEF Others, TaskRec
    <2> QED BY <1>1, <1>2, <1>4, <2>1, <2>2
  <1>5. CASE exec[e].stop /\ Live(e) /\ EmergencyClose /\ ~exec[e].clean
    <2> DEFINE T == [task[l] EXCEPT !.what = "exit"]
    <2>1. T \in TaskRec /\ T.what = "exit" /\ T.exec = e  BY <1>3 DEF TaskRec
    <2>2. EnterFlatten(l, T, exec)  BY <1>5 DEF LoopWakes
    <2> HIDE DEF T
    <2>3. exec' \in Pool /\ task' \in [Tasks -> TaskRec] /\ Joins(l, "exit", e, exec)
      BY <1>1, <1>3, <2>1, <2>2, Entering DEF Joins, Others
    <2> QED BY <1>2, <1>5, <2>3
  <1>6. CASE exec[e].stop /\ ~(Live(e) /\ EmergencyClose /\ ~exec[e].clean)
    <2>1. task' = [task EXCEPT ![l] = Idle] /\ UNCHANGED exec
      BY <1>6 DEF LoopWakes
    <2> QED BY <1>1, <1>2, <1>3, <1>6, <2>1 DEF Others
  <1> QED BY <1>4, <1>5, <1>6

\* A tick ends in sleep.
LEMMA Ticks ==
    ASSUME TInv, NEW l \in Loops, PaperTick(l) \/ LiveTick(l)
    PROVE  /\ task[l].pc = "tick" /\ task[l].what = "none"
           /\ UNCHANGED <<flags, exec, entry, late>>
           /\ task' \in [Tasks -> TaskRec] /\ Others(l)
           /\ task'[l].pc = "sleep" /\ task'[l].what = "none"
           /\ task'[l].exec = task[l].exec /\ task'[l].mode = task[l].mode
           /\ pos' \in {"none", "sim", "live"} /\ entries' \in 0..MaxEntries
           /\ venue' = venue \/ venue' = FALSE
           /\ Live(task[l].exec) /\ pos' = "none" /\ pos # "none" => venue' = FALSE
  <1>1. /\ TypeOK /\ task \in [Tasks -> TaskRec]  BY TablesTyped DEF TInv
  <1>2. /\ task[l].pc = "tick" /\ UNCHANGED <<flags, exec, entry, late>>
        /\ task' = [task EXCEPT ![l].pc = "sleep"]
    BY DEF PaperTick, LiveTick, InTick
  <1>3. task[l].what = "none" /\ task[l] \in TaskRec /\ l \in Tasks
    BY <1>2, LoopTyped DEF TInv, Shapes
  <1>4. /\ task' \in [Tasks -> TaskRec] /\ Others(l)
        /\ task'[l].pc = "sleep" /\ task'[l].what = "none"
        /\ task'[l].exec = task[l].exec /\ task'[l].mode = task[l].mode
    BY <1>1, <1>2, <1>3 DEF Others, TaskRec
  <1>5. /\ pos' \in {"none", "sim", "live"} /\ entries' \in 0..MaxEntries
        /\ venue' = venue \/ venue' = FALSE
        /\ Live(task[l].exec) /\ pos' = "none" /\ pos # "none" => venue' = FALSE
    <2>1. CASE PaperTick(l)
      BY <1>1, <2>1, Constants DEF PaperTick, TypeOK
    <2>2. CASE LiveTick(l)
      BY <1>1, <2>2 DEF LiveTick, TypeOK
    <2> QED BY <2>1, <2>2
  <1> QED BY <1>2, <1>3, <1>4, <1>5

\* A tripped kill check flattens for a live executor and stops the engine.
LEMMA Trips ==
    ASSUME TInv, NEW l \in Loops, Trip(l)
    PROVE  /\ task[l].pc = "tick" /\ task[l].what = "none" /\ ~kill /\ kill' = TRUE
           /\ ops' \in 0..MaxOps /\ UNCHANGED <<down, executor, made, raced, trade>>
           /\ exec' \in Pool /\ task' \in [Tasks -> TaskRec]
           /\ \/ /\ Live(task[l].exec) /\ running' = FALSE
                 /\ Joins(l, "trip", task[l].exec, exec)
              \/ /\ UNCHANGED <<running, exec>> /\ Others(l)
                 /\ task'[l].pc = "sleep" /\ task'[l].what = "none"
                 /\ task'[l].exec = task[l].exec
  <1> DEFINE e == task[l].exec
  <1>1. TypeOK /\ exec \in Pool /\ task \in [Tasks -> TaskRec]
    BY TablesTyped DEF TInv
  <1>2. /\ task[l].pc = "tick" /\ ~kill /\ kill' = TRUE
        /\ ops' \in 0..MaxOps /\ UNCHANGED <<down, executor, made, raced, trade>>
    BY <1>1, Constants DEF Trip, TypeOK
  <1>3. task[l].what = "none" /\ e \in Execs /\ l \in Tasks /\ task[l] \in TaskRec
    BY <1>2, LoopTyped DEF TInv, Shapes
  <1>4. CASE Live(e)
    <2> DEFINE T == [task[l] EXCEPT !.what = "trip"]
    <2>1. T \in TaskRec /\ T.what = "trip" /\ T.exec = e  BY <1>3 DEF TaskRec
    <2>2. EnterFlatten(l, T, exec) /\ running' = FALSE  BY <1>4 DEF Trip
    <2> HIDE DEF T
    <2>3. exec' \in Pool /\ task' \in [Tasks -> TaskRec] /\ Joins(l, "trip", e, exec)
      BY <1>1, <1>3, <2>1, <2>2, Entering DEF Joins, Others
    <2> QED BY <1>2, <1>3, <1>4, <2>2, <2>3
  <1>5. CASE ~Live(e)
    <2>1. task' = [task EXCEPT ![l].pc = "sleep"] /\ UNCHANGED <<running, exec>>
      BY <1>5 DEF Trip
    <2>2. task' \in [Tasks -> TaskRec] /\ task'[l].pc = "sleep" /\ task'[l].what = "none"
          /\ task'[l].exec = e /\ Others(l)
      BY <1>1, <1>3, <2>1 DEF Others, TaskRec
    <2> QED BY <1>1, <1>2, <1>3, <2>1, <2>2
  <1> QED BY <1>4, <1>5

\* A signal sends an order through the live executor of the day.
LEMMA Signals ==
    ASSUME TInv, Signal
    PROVE  /\ running /\ ~kill /\ ~Shutting /\ entry = 0 /\ entry' = executor
           /\ Live(executor) /\ ~exec[executor].stop /\ ~exec[executor].lock
           /\ executor \in 1..made /\ entries' \in 0..MaxEntries
           /\ UNCHANGED <<flags, exec, task, pos, venue, late>>
  BY LiveTyped, Constants DEF TInv, Signal, TypeOK

\* An order that fills on an executor told to stop is noted.
LEMMA Answers ==
    ASSUME TInv, Answer
    PROVE  /\ entry \in 1..made /\ entry \in Execs /\ entry' = 0
           /\ UNCHANGED <<flags, exec, task, entries>>
           /\ pos' \in {"none", "sim", "live"} /\ venue' \in BOOLEAN /\ late' \in BOOLEAN
           /\ pos' = "none" => pos = "none"
           /\ \/ UNCHANGED <<venue, late>>
              \/ late' = (late \/ exec[entry].stop \/ exec[entry].lock)
  <1>1. /\ TypeOK /\ entry \in 0..made /\ 1..made \subseteq Execs /\ made \in Nat
        /\ exec \in Pool /\ late \in BOOLEAN /\ venue \in BOOLEAN
    BY IdleTyped, TablesTyped DEF TInv, TypeOK
  <1>2. /\ entry # 0 /\ entry' = 0 /\ UNCHANGED <<flags, exec, task, entries>>
    BY DEF Answer
  <1>3. entry \in 1..made /\ entry \in Execs  BY <1>1, <1>2
  <1>4. exec[entry].stop \in BOOLEAN /\ exec[entry].lock \in BOOLEAN
    BY <1>1, <1>3 DEF Pool, ExecRec
  <1>5. CASE UNCHANGED <<pos, venue, late>>
    BY <1>1, <1>2, <1>3, <1>5 DEF TypeOK
  <1>6. CASE /\ venue' = TRUE /\ pos' \in {pos, IF pos = "none" THEN "live" ELSE pos}
             /\ late' = (late \/ exec[entry].stop \/ exec[entry].lock)
    <2>1. pos' \in {"none", "sim", "live"} /\ (pos' = "none" => pos = "none")
      BY <1>1, <1>6 DEF TypeOK
    <2> QED BY <1>1, <1>2, <1>3, <1>4, <1>6, <2>1
  <1> QED BY <1>5, <1>6 DEF Answer

(***************************************************************************)
(* Types.                                                                  *)
(***************************************************************************)

\* More executors, more tasks.
LEMMA Wider ==
    ASSUME TypeOK, made' \in Execs, made' >= made, NEW f \in [Tasks -> TaskRec]
    PROVE  f \in [Tasks -> TaskRec']
  <1>1. 0..made \subseteq 0..made'  BY IdleTyped DEF Execs
  <1> QED BY <1>1 DEF TaskRec

\* Room is kept when no set_mode comes to wait, or one does and has its executor.
LEMMA RoomKept ==
    ASSUME TInv, made' \in Nat,
           \/ Pending' \subseteq Pending /\ made' = made
           \/ /\ \E q \in Requests : Pending' \subseteq Pending \cup {q}
              /\ made' = made /\ made + Cardinality(Pending) < MaxExecs
           \/ /\ Pending' \subseteq Pending /\ made' <= made + 1
              /\ made + Cardinality(Pending) < MaxExecs
           \/ /\ \E q \in Pending : Pending' \subseteq Pending \ {q}
              /\ made' <= made + 1
    PROVE  Room'
  <1>1. IsFiniteSet(Pending) /\ Cardinality(Pending) \in Nat
    BY Constants, FS_Subset, FS_CardinalityType DEF Pending
  <1>2. made \in Nat /\ MaxExecs \in Nat /\ made + Cardinality(Pending) <= MaxExecs
    BY IdleTyped, Constants DEF TInv, Room
  <1>3. \A S : S \subseteq Pending =>
            Cardinality(S) \in Nat /\ Cardinality(S) <= Cardinality(Pending)
    BY <1>1, FS_Subset, FS_CardinalityType
  <1>4. CASE Pending' \subseteq Pending /\ made' = made
    BY <1>2, <1>3, <1>4 DEF Room
  <1>5. CASE /\ Pending' \subseteq Pending /\ made' <= made + 1
             /\ made + Cardinality(Pending) < MaxExecs
    <2>1. Cardinality(Pending') \in Nat /\ Cardinality(Pending') <= Cardinality(Pending)
      BY <1>3, <1>5
    <2> QED BY <1>1, <1>2, <1>5, <2>1 DEF Room
  <1>6. ASSUME NEW q \in Requests, Pending' \subseteq Pending \cup {q}, made' = made,
               made + Cardinality(Pending) < MaxExecs
        PROVE  Room'
    <2>1. /\ IsFiniteSet(Pending \cup {q})
          /\ Cardinality(Pending \cup {q}) <= Cardinality(Pending) + 1
      BY <1>1, FS_AddElement
    <2>2. Cardinality(Pending') \in Nat /\ Cardinality(Pending \cup {q}) \in Nat
          /\ Cardinality(Pending') <= Cardinality(Pending \cup {q})
      BY <1>6, <2>1, FS_Subset, FS_CardinalityType
    <2> QED BY <1>1, <1>2, <1>6, <2>1, <2>2 DEF Room
  <1>7. ASSUME NEW q \in Pending, Pending' \subseteq Pending \ {q}, made' <= made + 1
        PROVE  Room'
    <2>1. /\ IsFiniteSet(Pending \ {q})
          /\ Cardinality(Pending \ {q}) = Cardinality(Pending) - 1
      BY <1>1, FS_RemoveElement
    <2>2. Cardinality(Pending') \in Nat /\ Cardinality(Pending \ {q}) \in Nat
          /\ Cardinality(Pending') <= Cardinality(Pending \ {q})
      BY <1>7, <2>1, FS_Subset, FS_CardinalityType
    <2> QED BY <1>1, <1>2, <1>7, <2>1, <2>2 DEF Room
  <1> QED BY <1>4, <1>5, <1>6, <1>7

\* A task that joins a flatten, and the others as they were, keep their shapes.
LEMMA JoinShapes ==
    ASSUME TInv, NEW t \in Tasks, NEW what, NEW e \in 1..made, NEW execs \in Pool,
           Joins(t, what, e, execs), exec[e].kind = "real", made' = made,
           \A x \in Execs : execs[x].kind = exec[x].kind,
           IF t \in Requests THEN what \in {"stop", "mode", "down", "kill"}
                             ELSE what \in {"trip", "exit"},
           what = "mode" => task'[t].mode \in Modes
    PROVE  Shapes'
  <1>1. Shapes /\ 1..made \subseteq Execs  BY IdleTyped DEF TInv
  <1>2. \A x \in 1..made : exec'[x].kind = exec[x].kind  BY <1>1 DEF Joins
  <1>3. /\ task'[t].pc \in {"lock", "flat"} /\ task'[t].what = what /\ task'[t].exec = e
        /\ \A u \in Tasks : u # t => task'[u] = task[u]
    BY DEF Joins, Others
  <1>4. \A u \in Tasks : task'[u].pc \in Owned =>
          task'[u].exec \in 1..made /\ exec'[task'[u].exec].kind = "real" /\ task'[u].what # "none"
    BY <1>1, <1>2, <1>3 DEF Shapes, Owned, Tasks
  <1>5. \A r \in Requests : /\ task'[r].pc \in {"idle"} \cup Owned
                            /\ task'[r].pc = "idle" => task'[r] = Idle
                            /\ task'[r].what \in {"none", "stop", "mode", "down", "kill"}
                            /\ task'[r].what = "mode" => task'[r].mode \in Modes
    BY <1>1, <1>3 DEF Shapes, Owned, Tasks
  <1>6. \A l \in Loops : /\ task'[l].what \in {"none", "trip", "exit"}
                         /\ task'[l].pc = "idle" => task'[l] = Idle
                         /\ task'[l].pc \in {"tick", "sleep"} => task'[l].what = "none"
                         /\ task'[l].pc # "idle" => task'[l].exec \in 1..made
    BY <1>1, <1>3, Constants DEF Shapes, Owned, Tasks
  <1> QED BY <1>4, <1>5, <1>6 DEF Shapes

\* So do a loop that goes on or ends, or a request that is done.
LEMMA StepShapes ==
    ASSUME TInv, NEW t \in Tasks, Others(t), made' >= made, made' \in Execs,
           \A x \in 1..made : exec'[x].kind = exec[x].kind,
           \/ task'[t] = Idle
           \/ /\ t \in Loops /\ task'[t].pc \in {"tick", "sleep"} /\ task'[t].what = "none"
              /\ task'[t].exec \in 1..made
           \/ /\ task[t].pc \in Owned /\ task'[t].pc \in Owned /\ task'[t].what = task[t].what
              /\ task'[t].exec = task[t].exec /\ task'[t].mode = task[t].mode
    PROVE  Shapes'
  <1>1. /\ Shapes /\ Idle.pc = "idle" /\ Idle.what = "none" /\ 1..made \subseteq 1..made'
    BY IdleTyped DEF TInv, Execs
  <1>2. \A u \in Tasks : u # t => task'[u] = task[u]
    BY DEF Others
  <1>4. \A u \in Tasks : task'[u].pc \in Owned =>
          task'[u].exec \in 1..made /\ exec'[task'[u].exec].kind = "real" /\ task'[u].what # "none"
    BY <1>1, <1>2 DEF Shapes, Owned, Tasks
  <1>5. \A r \in Requests : /\ task'[r].pc \in {"idle"} \cup Owned
                            /\ task'[r].pc = "idle" => task'[r] = Idle
                            /\ task'[r].what \in {"none", "stop", "mode", "down", "kill"}
                            /\ task'[r].what = "mode" => task'[r].mode \in Modes
    BY <1>1, <1>2, Constants DEF Shapes, Owned, Tasks
  <1>6. \A l \in Loops : /\ task'[l].what \in {"none", "trip", "exit"}
                         /\ task'[l].pc = "idle" => task'[l] = Idle
                         /\ task'[l].pc \in {"tick", "sleep"} => task'[l].what = "none"
                         /\ task'[l].pc # "idle" => task'[l].exec \in 1..made
    BY <1>1, <1>2, Constants DEF Shapes, Owned, Tasks
  <1> QED BY <1>1, <1>4, <1>5, <1>6 DEF Shapes

\* And everything is idle after a shutdown.
LEMMA IdleShapes ==
    ASSUME TInv, made' \in Execs, \A t \in Tasks : task'[t] = Idle
    PROVE  Shapes' /\ Pending' = {}
  BY IdleTyped DEF TInv, Shapes, Pending, Owned, Tasks

\* What may stop an engine: run_stop, set_mode while it has room, shutdown once.
Stopper(r, what, mode) ==
    /\ Stop(r, what, mode)
    /\ what = "mode" => mode \in Modes /\ made + Cardinality(Pending) < MaxExecs

\* The steps, with the three requests that stop the engine as one.
LEMMA Cases ==
    ASSUME TInv, [Next]_vars
    PROVE  \/ Run \/ Signal \/ Answer \/ UNCHANGED vars
           \/ \E r \in Requests : KillAll(r) \/ RequestEnds(r)
           \/ \E r \in Requests : \E what \in {"stop", "mode", "down"} :
                \E mode \in Modes \cup {"none"} : Stopper(r, what, mode)
           \/ \E t \in Tasks : FlattenLock(t) \/ FlattenCloses(t)
           \/ \E l \in Loops : LoopFlattened(l) \/ LoopWakes(l) \/ PaperTick(l) \/ LiveTick(l)
                               \/ Trip(l)
  <1>1. ASSUME NEW r \in Requests, RunStop(r)
        PROVE  \E what \in {"stop", "mode", "down"} : \E mode \in Modes \cup {"none"} :
                  Stopper(r, what, mode)
    <2>1. Stopper(r, "stop", "none")  BY <1>1 DEF RunStop, Stopper
    <2> QED BY <2>1
  <1>2. ASSUME NEW r \in Requests, SetMode(r)
        PROVE  \E what \in {"stop", "mode", "down"} : \E mode \in Modes \cup {"none"} :
                  Stopper(r, what, mode)
    <2>1. PICK mode \in Modes : Stop(r, "mode", mode)  BY <1>2 DEF SetMode
    <2>2. Stopper(r, "mode", mode)  BY <1>2, <2>1 DEF SetMode, Stopper, Pending
    <2> QED BY <2>2
  <1>3. ASSUME NEW r \in Requests, Shutdown(r)
        PROVE  \E what \in {"stop", "mode", "down"} : \E mode \in Modes \cup {"none"} :
                  Stopper(r, what, mode)
    <2>1. Stopper(r, "down", "none")  BY <1>3 DEF Shutdown, Stopper
    <2> QED BY <2>1
  <1> QED
    BY <1>1, <1>2, <1>3 DEF Next, Requested, Flattening, Ticking, RequestEnds, LoopFlattened

\* A request that stops the engine has the room Stops asks for.
LEMMA Stoppers ==
    ASSUME TInv, NEW r, NEW what, NEW mode, Stopper(r, what, mode)
    PROVE  /\ Stop(r, what, mode)
           /\ what = "mode" =>
                mode \in Modes /\ made < MaxExecs /\ made + Cardinality(Pending) < MaxExecs
  <1>1. Cardinality(Pending) \in Nat /\ made \in Nat /\ MaxExecs \in Nat
    BY Constants, IdleTyped, FS_Subset, FS_CardinalityType DEF Pending, TInv
  <1> QED BY <1>1 DEF Stopper

\* The requests that wait for a flatten are the same.
LEMMA SamePending ==
    ASSUME \A r \in Requests : task'[r].what = "mode" => task[r].what = "mode"
    PROVE  Pending' \subseteq Pending
  BY DEF Pending

LEMMA StopTypes ==
    ASSUME TInv, NEW r \in Requests, NEW what \in {"stop", "mode", "down"},
           NEW mode \in Modes \cup {"none"}, Stopper(r, what, mode)
    PROVE  TInv'
  <1>1. /\ Stop(r, what, mode) /\ TypeOK /\ Shapes /\ Room
        /\ what = "mode" =>
             mode \in Modes /\ made < MaxExecs /\ made + Cardinality(Pending) < MaxExecs
    BY Stoppers DEF TInv
  <1>2. /\ made \in Nat /\ made \in Execs /\ 1..made \subseteq Execs /\ executor \in {0, made}
        /\ Idle \in TaskRec /\ Idle.what = "none" /\ exec \in Pool /\ r \in Tasks
        /\ task \in [Tasks -> TaskRec]
    BY <1>1, IdleTyped, TablesTyped DEF TypeOK, Tasks
  <1>3. /\ Stopped(exec) \in Pool
        /\ \A e \in Execs : Stopped(exec)[e].kind = exec[e].kind
    BY <1>1, <1>2, StoppedTyped
  <1>4. /\ running' = FALSE /\ task[r] = Idle /\ ~down /\ UNCHANGED <<kill, raced>>
        /\ ops' \in 0..MaxOps /\ exec' \in Pool
    BY <1>1, Stops
  <1>5. CASE /\ Live(executor) /\ Joins(r, what, executor, Stopped(exec))
             /\ task' \in [Tasks -> TaskRec] /\ task'[r].mode = mode
             /\ UNCHANGED <<down, executor, made, trade>>
    <2>1. TypeOK'
      BY <1>1, <1>4, <1>5 DEF TypeOK, Pool, ExecRec, TaskRec, trade
    <2>2. executor \in 1..made /\ exec[executor].kind = "real"
      BY <1>1, <1>5, LiveTyped
    <2>3. Shapes'
      BY <1>1, <1>2, <1>3, <1>5, <2>2, JoinShapes
    <2>4. Pending' \subseteq Pending \cup {r} /\ (what # "mode" => Pending' \subseteq Pending)
      BY <1>5 DEF Pending, Joins, Others, Tasks
    <2>5. Room'
      BY <1>1, <1>2, <1>5, <2>4, RoomKept
    <2> QED BY <2>1, <2>3, <2>5 DEF TInv
  <1>6. CASE /\ Ends(what, Stopped(exec)) /\ made' \in Execs
             /\ what # "down" => UNCHANGED task
             /\ down' \in BOOLEAN /\ venue' \in BOOLEAN /\ late' \in BOOLEAN
             /\ what = "down" => task' = [t \in Tasks |-> Idle]
    <2>1. /\ made' \in made..(made + 1) /\ executor' \in {0, made'}
          /\ what # "mode" => made' = made
          /\ \A e \in 1..made : exec'[e].kind = exec[e].kind
      BY <1>2, <1>3, <1>6 DEF Ends
    <2>2. task' \in [Tasks -> TaskRec]  BY <1>2, <1>6
    <2>3. task' \in [Tasks -> TaskRec']  BY <1>1, <1>2, <1>6, <2>1, <2>2, Wider
    <2>4. entry' \in 0..made' /\ pos' = pos /\ entries' = entries
      BY <1>1, <1>2, <1>6, <2>1 DEF Ends, TypeOK, trade
    <2>5. TypeOK'
      BY <1>1, <1>4, <1>6, <2>1, <2>3, <2>4 DEF TypeOK, Pool, ExecRec, TaskRec
    <2>6. CASE what = "down"
      <3>1. \A t \in Tasks : task'[t] = Idle  BY <1>6, <2>6
      <3>2. Shapes' /\ Pending' = {}  BY <1>6, <3>1, IdleShapes
      <3>3. Room'
        BY <1>2, <2>1, <2>6, <3>2, RoomKept
      <3> QED BY <2>5, <3>2, <3>3 DEF TInv
    <2>7. CASE what # "down"
      <3>1. task' = task  BY <1>6, <2>7
      <3>2. Shapes'
        BY <1>2, <1>4, <1>6, <2>1, <3>1, StepShapes DEF Others
      <3>3. Room'
        BY <1>1, <1>2, <2>1, <3>1, RoomKept DEF Pending
      <3> QED BY <2>5, <3>2, <3>3 DEF TInv
    <2> QED BY <2>6, <2>7
  <1> QED BY <1>1, <1>5, <1>6, Stops

LEMMA EndTypes ==
    ASSUME TInv, NEW r \in Requests, RequestEnds(r)
    PROVE  TInv'
  <1>1. /\ TypeOK /\ Shapes /\ Room /\ made \in Nat /\ made \in Execs /\ 1..made \subseteq Execs
        /\ Idle \in TaskRec /\ Idle.what = "none" /\ exec \in Pool /\ r \in Tasks
        /\ task \in [Tasks -> TaskRec]
    BY IdleTyped, TablesTyped DEF TInv, Tasks
  <1>2. /\ task[r].pc = "tail" /\ UNCHANGED <<running, kill, raced, ops>>
        /\ exec' \in Pool /\ made' \in Execs
        /\ down' \in BOOLEAN /\ venue' \in BOOLEAN /\ late' \in BOOLEAN
        /\ Ends(task[r].what, Flattened(r))
        /\ task[r].what # "down" => task' = [task EXCEPT ![r] = Idle]
        /\ task[r].what = "down" => task' = [t \in Tasks |-> Idle]
    BY RequestDone
  <1>3. \A e \in Execs : Flattened(r)[e].kind = exec[e].kind
    BY <1>1, <1>2, Freeing DEF Owned
  <1>4. /\ made' \in made..(made + 1) /\ executor' \in {0, made'}
        /\ task[r].what # "mode" => made' = made
        /\ \A e \in 1..made : exec'[e].kind = exec[e].kind
    BY <1>1, <1>2, <1>3 DEF Ends
  <1>5. task' \in [Tasks -> TaskRec']
    <2>1. task' \in [Tasks -> TaskRec]  BY <1>1, <1>2
    <2> QED BY <1>1, <1>2, <1>4, <2>1, Wider
  <1>6. entry' \in 0..made' /\ pos' = pos /\ entries' = entries
    BY <1>1, <1>2, <1>4 DEF Ends, TypeOK, trade
  <1>7. TypeOK'
    BY <1>1, <1>2, <1>4, <1>5, <1>6 DEF TypeOK, Pool, ExecRec, TaskRec
  <1>8. CASE task[r].what = "down"
    <2>1. \A t \in Tasks : task'[t] = Idle  BY <1>2, <1>8
    <2>2. Shapes' /\ Pending' = {}  BY <1>2, <2>1, IdleShapes
    <2>3. Room'  BY <1>1, <1>4, <1>8, <2>2, RoomKept
    <2> QED BY <1>7, <2>2, <2>3 DEF TInv
  <1>9. CASE task[r].what # "down"
    <2>1. task' = [task EXCEPT ![r] = Idle] /\ Others(r) /\ task'[r] = Idle
      BY <1>1, <1>2, <1>9 DEF Others
    <2>2. Shapes'  BY <1>1, <1>2, <1>4, <2>1, StepShapes
    <2>3. Pending' \subseteq Pending \ {r}
      BY <1>1, <2>1 DEF Pending, Others, Tasks
    <2>4. r \in Pending \/ task[r].what # "mode"  BY DEF Pending
    <2>5. Room'  BY <1>1, <1>4, <2>3, <2>4, RoomKept
    <2> QED BY <1>7, <2>2, <2>5 DEF TInv
  <1> QED BY <1>8, <1>9

\* run and KILL ALL.
LEMMA RunTypes ==
    ASSUME TInv, Run \/ \E r \in Requests : KillAll(r)
    PROVE  TInv'
  <1>1. /\ TypeOK /\ Shapes /\ Room /\ made \in Nat /\ made \in Execs /\ 1..made \subseteq Execs
        /\ Idle \in TaskRec /\ Idle.what = "none" /\ exec \in Pool
        /\ task \in [Tasks -> TaskRec] /\ executor \in {0, made}
    BY IdleTyped, TablesTyped DEF TInv, TypeOK
  <1>2. CASE Run
    <2>1. /\ running' = TRUE /\ kill' = FALSE /\ raced' = raced \cup Racing
          /\ ops' \in 0..MaxOps /\ UNCHANGED <<down, executor, made, trade>>
          /\ exec' \in Pool /\ task' \in [Tasks -> TaskRec]
          /\ \A e \in Execs : exec'[e].kind = exec[e].kind
          /\ executor = 0 => UNCHANGED task
          /\ executor # 0 => \E l \in Loops :
               /\ task[l] = Idle /\ Others(l) /\ task'[l].pc = "tick"
               /\ task'[l].what = "none" /\ task'[l].exec = executor
      BY <1>2, Runs
    <2>2. raced' \subseteq {"stop", "loop"}  BY <1>1, <2>1 DEF TypeOK, Racing
    <2>3. TypeOK'  BY <1>1, <2>1, <2>2 DEF TypeOK, Pool, ExecRec, TaskRec, trade
    <2>4. CASE executor = 0
      <3>1. Shapes'  BY <1>1, <2>1, <2>4 DEF Shapes
      <3>2. Pending' = Pending  BY <2>1, <2>4 DEF Pending
      <3>3. Room'  BY <1>1, <2>1, <3>2 DEF Room
      <3> QED BY <2>3, <3>1, <3>3 DEF TInv
    <2>5. CASE executor # 0
      <3>1. PICK l \in Loops : /\ task[l] = Idle /\ Others(l) /\ task'[l].pc = "tick"
                               /\ task'[l].what = "none" /\ task'[l].exec = executor
        BY <2>1, <2>5
      <3>2. l \in Tasks /\ executor \in 1..made  BY <1>1, <2>5 DEF Tasks
      <3>3. Shapes'  BY <1>1, <2>1, <3>1, <3>2, StepShapes
      <3>4. Pending' \subseteq Pending
        BY <3>1, SamePending DEF Others, Tasks
      <3>5. Room'  BY <1>1, <2>1, <3>4, RoomKept
      <3> QED BY <2>3, <3>3, <3>5 DEF TInv
    <2> QED BY <2>4, <2>5
  <1>3. ASSUME NEW r \in Requests, KillAll(r) PROVE TInv'
    <2>1. /\ kill' = TRUE /\ ops' \in 0..MaxOps
          /\ UNCHANGED <<running, down, executor, made, raced, trade>>
          /\ exec' \in Pool /\ task' \in [Tasks -> TaskRec]
          /\ \/ Live(executor) /\ Joins(r, "kill", executor, exec) /\ task'[r].mode = "none"
             \/ ~Live(executor) /\ UNCHANGED <<exec, task>>
      BY <1>3, Kills
    <2>2. TypeOK'  BY <1>1, <2>1 DEF TypeOK, Pool, ExecRec, TaskRec, trade
    <2>3. CASE UNCHANGED <<exec, task>>
      <3>1. Shapes'  BY <1>1, <2>1, <2>3 DEF Shapes
      <3>2. Pending' = Pending  BY <2>3 DEF Pending
      <3>3. Room'  BY <1>1, <2>1, <3>2 DEF Room
      <3> QED BY <2>2, <3>1, <3>3 DEF TInv
    <2>4. CASE Live(executor) /\ Joins(r, "kill", executor, exec)
      <3>1. r \in Tasks /\ executor \in 1..made /\ exec[executor].kind = "real"
        BY <1>1, <2>4, LiveTyped DEF Tasks
      <3>2. Shapes'  BY <1>1, <2>1, <2>4, <3>1, JoinShapes
      <3>3. Pending' \subseteq Pending
        BY <2>4, <3>1, SamePending DEF Joins, Others, Tasks
      <3>4. Room'  BY <1>1, <2>1, <3>3, RoomKept
      <3> QED BY <2>2, <3>2, <3>4 DEF TInv
    <2> QED BY <2>1, <2>3, <2>4
  <1> QED BY <1>2, <1>3

\* The flattens of requests and loops.
LEMMA FlattenTypes ==
    ASSUME TInv,
           \/ \E t \in Tasks : FlattenLock(t) \/ FlattenCloses(t)
           \/ \E l \in Loops : LoopFlattened(l)
    PROVE  TInv'
  <1>1. /\ TypeOK /\ Shapes /\ Room /\ made \in Nat /\ made \in Execs /\ 1..made \subseteq Execs
        /\ Idle \in TaskRec /\ Idle.what = "none" /\ exec \in Pool
        /\ task \in [Tasks -> TaskRec] /\ executor \in {0, made}
    BY IdleTyped, TablesTyped DEF TInv, TypeOK
  <1>2. ASSUME NEW t \in Tasks, FlattenLock(t) PROVE TInv'
    <2>1. /\ task[t].pc = "lock" /\ UNCHANGED <<flags, trade>>
          /\ exec' \in Pool /\ task' \in [Tasks -> TaskRec]
          /\ Joins(t, task[t].what, task[t].exec, exec) /\ task'[t].mode = task[t].mode
      BY <1>2, Locking
    <2>2. TypeOK'  BY <1>1, <2>1 DEF TypeOK, Pool, ExecRec, TaskRec, flags, trade
    <2>3. /\ task[t].exec \in 1..made /\ exec[task[t].exec].kind = "real"
          /\ IF t \in Requests THEN task[t].what \in {"stop", "mode", "down", "kill"}
                               ELSE task[t].what \in {"trip", "exit"}
          /\ task[t].what = "mode" => task[t].mode \in Modes
      BY <1>1, <2>1 DEF Shapes, Owned, Tasks
    <2>4. Shapes'  BY <1>1, <2>1, <2>3, JoinShapes DEF flags
    <2>5. Pending' \subseteq Pending
      BY <2>1, SamePending DEF Joins, Others, Tasks
    <2>6. Room'  BY <1>1, <2>1, <2>5, RoomKept DEF flags
    <2> QED BY <2>2, <2>4, <2>6 DEF TInv
  <1>3. ASSUME NEW t \in Tasks, FlattenCloses(t) PROVE TInv'
    <2>1. /\ task[t].pc = "flat" /\ venue' = FALSE /\ pos' = "none"
          /\ UNCHANGED <<flags, exec, entry, late, entries>>
          /\ task' \in [Tasks -> TaskRec] /\ Others(t)
          /\ task'[t].pc = "tail" /\ task'[t].what = task[t].what
          /\ task'[t].exec = task[t].exec /\ task'[t].mode = task[t].mode
      BY <1>3, Closing
    <2>2. TypeOK'  BY <1>1, <2>1 DEF TypeOK, Pool, ExecRec, TaskRec, flags
    <2>3. Shapes'  BY <1>1, <2>1, StepShapes DEF flags, Owned
    <2>4. Pending' \subseteq Pending
      BY <2>1, SamePending DEF Others, Tasks
    <2>5. Room'  BY <1>1, <2>1, <2>4, RoomKept DEF flags
    <2> QED BY <2>2, <2>3, <2>5 DEF TInv
  <1>4. ASSUME NEW l \in Loops, LoopFlattened(l) PROVE TInv'
    <2>1. /\ task[l].pc = "tail" /\ UNCHANGED <<flags, trade>>
          /\ exec' = Flattened(l) /\ exec' \in Pool
          /\ task' \in [Tasks -> TaskRec] /\ Others(l) /\ l \in Tasks
          /\ \/ task'[l] = Idle
             \/ /\ task'[l].pc = "sleep" /\ task'[l].what = "none"
                /\ task'[l].exec = task[l].exec
      BY <1>4, LoopDone DEF Tasks
    <2>2. TypeOK'  BY <1>1, <2>1 DEF TypeOK, Pool, ExecRec, TaskRec, flags, trade
    <2>3. \A e \in Execs : exec'[e].kind = exec[e].kind
      BY <2>1, Freeing DEF Owned
    <2>4. Shapes'
      BY <1>1, <2>1, <2>3, LoopTyped, StepShapes DEF flags
    <2>5. Pending' \subseteq Pending
      BY <1>1, <2>1, SamePending DEF Others, Tasks
    <2>6. Room'  BY <1>1, <2>1, <2>5, RoomKept DEF flags
    <2> QED BY <2>2, <2>4, <2>6 DEF TInv
  <1> QED BY <1>2, <1>3, <1>4

\* The loops and the scoring task.
LEMMA LoopTypes ==
    ASSUME TInv,
           \/ Signal \/ Answer \/ UNCHANGED vars
           \/ \E l \in Loops : LoopWakes(l) \/ PaperTick(l) \/ LiveTick(l) \/ Trip(l)
    PROVE  TInv'
  <1>1. /\ TypeOK /\ Shapes /\ Room /\ made \in Nat /\ made \in Execs /\ 1..made \subseteq Execs
        /\ Idle \in TaskRec /\ Idle.what = "none" /\ exec \in Pool
        /\ task \in [Tasks -> TaskRec] /\ executor \in {0, made}
    BY IdleTyped, TablesTyped DEF TInv, TypeOK
  <1>2. CASE UNCHANGED <<exec, task, made>> /\ (Signal \/ Answer \/ UNCHANGED vars)
    <2>1. TypeOK'
      <3>1. CASE Signal
        <4>1. /\ entry' = executor /\ executor \in 1..made /\ entries' \in 0..MaxEntries
              /\ UNCHANGED <<flags, exec, task, pos, venue, late>>
          BY <3>1, Signals
        <4> QED BY <1>1, <4>1 DEF TypeOK, flags
      <3>2. CASE Answer
        <4>1. /\ entry' = 0 /\ UNCHANGED <<flags, exec, task, entries>>
              /\ pos' \in {"none", "sim", "live"} /\ venue' \in BOOLEAN /\ late' \in BOOLEAN
          BY <3>2, Answers
        <4> QED BY <1>1, <4>1 DEF TypeOK, flags
      <3>3. CASE UNCHANGED vars
        BY <1>1, <3>3 DEF TypeOK, vars
      <3> QED BY <1>2, <3>1, <3>2, <3>3
    <2>2. Shapes' /\ Pending' = Pending  BY <1>1, <1>2 DEF Shapes, Pending
    <2>3. Room'  BY <1>1, <1>2, <2>2 DEF Room
    <2> QED BY <2>1, <2>2, <2>3 DEF TInv
  <1>3. ASSUME NEW l \in Loops, LoopWakes(l) PROVE TInv'
    <2>1. /\ task[l].pc = "sleep" /\ UNCHANGED <<flags, trade>>
          /\ exec' \in Pool /\ task' \in [Tasks -> TaskRec]
          /\ \/ /\ UNCHANGED exec /\ Others(l)
                /\ task'[l].pc = "tick" /\ task'[l].what = "none"
                /\ task'[l].exec = task[l].exec
             \/ Live(task[l].exec) /\ Joins(l, "exit", task[l].exec, exec)
             \/ UNCHANGED exec /\ Others(l) /\ task'[l] = Idle
      BY <1>3, Wakes
    <2>2. TypeOK'  BY <1>1, <2>1 DEF TypeOK, Pool, ExecRec, TaskRec, flags, trade
    <2>3. task[l].exec \in 1..made /\ l \in Tasks /\ l \notin Requests
      BY <2>1, LoopTyped, Constants
    <2>4. Shapes'
      BY <1>1, <2>1, <2>3, JoinShapes, StepShapes DEF flags, Live
    <2>5. Pending' \subseteq Pending
      BY <2>1, <2>3, SamePending DEF Others, Joins, Tasks
    <2>6. Room'  BY <1>1, <2>1, <2>5, RoomKept DEF flags
    <2> QED BY <2>2, <2>4, <2>6 DEF TInv
  <1>4. ASSUME NEW l \in Loops, PaperTick(l) \/ LiveTick(l) PROVE TInv'
    <2>1. /\ task[l].pc = "tick" /\ UNCHANGED <<flags, exec, entry, late>>
          /\ task' \in [Tasks -> TaskRec] /\ Others(l)
          /\ task'[l].pc = "sleep" /\ task'[l].what = "none" /\ task'[l].exec = task[l].exec
          /\ pos' \in {"none", "sim", "live"} /\ entries' \in 0..MaxEntries
          /\ venue' = venue \/ venue' = FALSE
      BY <1>4, Ticks
    <2>2. TypeOK'  BY <1>1, <2>1 DEF TypeOK, Pool, ExecRec, TaskRec, flags
    <2>3. task[l].exec \in 1..made /\ l \in Tasks  BY <2>1, LoopTyped
    <2>4. Shapes'  BY <1>1, <2>1, <2>3, StepShapes DEF flags
    <2>5. Pending' \subseteq Pending
      BY <2>1, <2>3, SamePending DEF Others, Tasks
    <2>6. Room'  BY <1>1, <2>1, <2>5, RoomKept DEF flags
    <2> QED BY <2>2, <2>4, <2>6 DEF TInv
  <1>5. ASSUME NEW l \in Loops, Trip(l) PROVE TInv'
    <2>1. /\ task[l].pc = "tick" /\ kill' = TRUE
          /\ ops' \in 0..MaxOps /\ UNCHANGED <<down, executor, made, raced, trade>>
          /\ exec' \in Pool /\ task' \in [Tasks -> TaskRec]
          /\ \/ /\ Live(task[l].exec) /\ running' = FALSE
                /\ Joins(l, "trip", task[l].exec, exec)
             \/ /\ UNCHANGED <<running, exec>> /\ Others(l)
                /\ task'[l].pc = "sleep" /\ task'[l].what = "none"
                /\ task'[l].exec = task[l].exec
      BY <1>5, Trips
    <2>2. TypeOK'  BY <1>1, <2>1 DEF TypeOK, Pool, ExecRec, TaskRec, trade
    <2>3. task[l].exec \in 1..made /\ l \in Tasks /\ l \notin Requests
      BY <2>1, LoopTyped, Constants
    <2>4. Shapes'
      BY <1>1, <2>1, <2>3, JoinShapes, StepShapes DEF Live
    <2>5. Pending' \subseteq Pending
      BY <2>1, <2>3, SamePending DEF Others, Joins, Tasks
    <2>6. Room'  BY <1>1, <2>1, <2>5, RoomKept
    <2> QED BY <2>2, <2>4, <2>6 DEF TInv
  <1> QED BY <1>2, <1>3, <1>4, <1>5, Signals, Answers DEF flags, vars

\* In the beginning one executor has been made and every task is idle.
LEMMA TInvInit == ASSUME Init PROVE TInv
  <1>1. made = 1 /\ 1 \in Execs /\ executor = 1 /\ entry = 0  BY Constants DEF Init, Execs
  <1>2. Idle \in TaskRec /\ Idle.pc = "idle" /\ Idle.what = "none"
    BY <1>1 DEF Idle, TaskRec
  <1>3. task \in [Tasks -> TaskRec] /\ \A t \in Tasks : task[t] = Idle
    BY <1>2 DEF Init
  <1>4. exec \in Pool
    <2>1. PICK k \in Modes \ {"logger"} : exec = [e \in Execs |-> New(k)]  BY DEF Init
    <2>2. New(k) \in ExecRec  BY Constants DEF New, ExecRec
    <2> QED BY <2>1, <2>2 DEF Pool
  <1>5. TypeOK
    <2>1. /\ {running, kill, down, venue, late} \subseteq BOOLEAN /\ raced = {}
          /\ pos = "none" /\ ops = 0 /\ entries = 0
      BY DEF Init
    <2>2. 0 \in 0..MaxOps /\ 0 \in 0..MaxEntries /\ 0 \in 0..1  BY Constants
    <2> QED BY <1>1, <1>3, <1>4, <2>1, <2>2 DEF TypeOK, Pool, ExecRec, TaskRec
  <1>6. Shapes /\ Pending = {}
    BY <1>2, <1>3 DEF Shapes, Pending, Owned, Tasks
  <1>7. Room
    BY <1>1, <1>6, FS_EmptySet, Constants DEF Room
  <1> QED BY <1>5, <1>6, <1>7 DEF TInv

LEMMA TInvStep == ASSUME TInv, [Next]_vars PROVE TInv'
  BY Cases, StopTypes, EndTypes, RunTypes, FlattenTypes, LoopTypes

\* The types of Engine, for any requests, loops, modes and bounds: no set_mode that waits
\* for its flatten ever lacks the executor it is to make.
THEOREM EngineTypeCorrect == Spec => []TypeOK
  <1>1. TInv => TypeOK  BY DEF TInv
  <1> QED BY TInvInit, TInvStep, <1>1, PTL DEF Spec

(***************************************************************************)
(* The inductive invariant.                                                *)
(***************************************************************************)

\* Every executor but the one of the day has been told to stop.
Replaced == \A e \in 1..made : e # executor => exec[e].stop

\* One flatten of an executor at a time, behind its lock.
Holds(t) == task[t].pc \in {"flat", "tail"}
Locks ==
    /\ \A t \in Tasks : Holds(t) => exec[task[t].exec].lock
    /\ \A t, u \in Tasks : Holds(t) /\ Holds(u) /\ task[t].exec = task[u].exec => t = u

Entry == entry # 0 => exec[entry].kind = "real"

\* A running engine, which run was not called for inside a stop: nothing that stops it is
\* under way, and unless it is killed its executor goes on and has a loop.
Orderly ==
    running /\ "stop" \notin raced =>
        /\ \A t \in Tasks : task[t].what \in {"none", "kill", "exit"}
        /\ ~kill => \A t \in Tasks : task[t].what # "kill"
        /\ ~kill /\ executor # 0 =>
             /\ ~exec[executor].stop
             /\ \E l \in Loops : task[l].pc \in {"tick", "sleep"} /\ task[l].exec = executor

\* While run waits for loops and stops, there is one loop, of the executor of the day if
\* the engine runs.
OneLoop == raced = {} => \A l, k \in Loops : task[l] # Idle /\ task[k] # Idle => l = k
OwnLoop == raced = {} /\ running => \A l \in Loops : task[l] # Idle => task[l].exec = executor

\* An order that is out while the engine is stopped is one of an executor that knows, or
\* of one whose loop has tripped and will flatten.
Doomed ==
    raced = {} /\ ~running /\ entry # 0 /\ ~exec[entry].stop =>
        \E l \in Loops : task[l].what = "trip" /\ task[l].exec = entry
Leaving ==
    raced = {} /\ entry # 0 =>
        \A t \in Tasks : task[t].what \in {"stop", "mode", "down"} => exec[entry].stop

\* What is open on the venue, and did not fill after a stop, is the live executor's of the
\* day, no request is past its flatten, and some flatten is to come if the engine is stopped.
Clean == EmergencyClose /\ raced = {} /\ ~late
Open ==
    Clean /\ venue =>
        /\ Live(executor)
        /\ \A l \in Loops : task[l] # Idle => Live(task[l].exec)
        /\ \A t \in Tasks : task[t].pc = "tail" => task[t].what \notin {"stop", "mode", "down"}
        /\ ~running => \E t \in Tasks : task[t].pc \in {"lock", "flat"}

IInv ==
    /\ TInv /\ Replaced /\ Locks /\ Entry /\ Orderly
    /\ OneLoop /\ OwnLoop /\ Doomed /\ Leaving /\ Open

\* A task that joins a flatten leaves every lock with its holder.
LEMMA JoinLocks ==
    ASSUME TInv, Locks, NEW t \in Tasks, NEW what, NEW e \in 1..made, NEW execs \in Pool,
           Joins(t, what, e, execs), \A x \in Execs : execs[x].lock = exec[x].lock
    PROVE  Locks'
  <1>1. /\ 1..made \subseteq Execs /\ e \in Execs
        /\ \A u \in Tasks : Holds(u) => task[u].exec \in Execs
    BY IdleTyped, OwnedTyped DEF TInv, Holds, Owned
  <1>2. /\ \A u \in Tasks : u # t => task'[u] = task[u]
        /\ task'[t].exec = e
        /\ task'[t].pc \in {"lock", "flat"}
        /\ task'[t].pc = "flat" => ~exec[e].lock
        /\ \A x \in Execs : exec'[x].lock = (exec[x].lock \/ x = e)
    BY <1>1 DEF Joins, Others
  <1>3. \A u \in Tasks : Holds(u)' => exec'[task'[u].exec].lock
    BY <1>1, <1>2 DEF Locks, Holds
  <1>4. \A u, v \in Tasks : Holds(u)' /\ Holds(v)' /\ task'[u].exec = task'[v].exec => u = v
    BY <1>1, <1>2 DEF Locks, Holds
  <1> QED BY <1>3, <1>4 DEF Locks, Holds

\* So does one that is no holder.
LEMMA SameLocks ==
    ASSUME TInv, Locks, NEW t \in Tasks, Others(t), ~Holds(t)',
           \A x \in 1..made : exec'[x].lock = exec[x].lock
    PROVE  Locks'
  <1>1. \A u \in Tasks : Holds(u) => task[u].exec \in 1..made
    BY OwnedTyped DEF Holds, Owned
  <1>2. \A u \in Tasks : u # t => task'[u] = task[u]
    BY DEF Others
  <1> QED BY <1>1, <1>2 DEF Locks, Holds

\* And one that has been one and frees its lock.
LEMMA FreeLocks ==
    ASSUME TInv, Locks, NEW t \in Tasks, Holds(t), Others(t), ~Holds(t)',
           \A x \in 1..made : exec'[x].lock = Flattened(t)[x].lock
    PROVE  Locks'
  <1>1. \A u \in Tasks : Holds(u) => task[u].exec \in 1..made
    BY OwnedTyped DEF Holds, Owned
  <1>2. \A u \in Tasks : u # t => task'[u] = task[u]
    BY DEF Others
  <1>3. \A x \in 1..made : exec'[x].lock = (exec[x].lock /\ x # task[t].exec)
    BY IdleTyped, Freeing DEF Holds, Owned, TInv
  <1>4. \A u \in Tasks : Holds(u)' => exec'[task'[u].exec].lock
    BY <1>1, <1>2, <1>3 DEF Locks, Holds
  <1>5. \A u, v \in Tasks : Holds(u)' /\ Holds(v)' /\ task'[u].exec = task'[v].exec => u = v
    BY <1>1, <1>2 DEF Locks, Holds
  <1> QED BY <1>4, <1>5 DEF Locks, Holds

\* A request that stops the engine and waits for its flatten.
LEMMA StopWaits ==
    ASSUME IInv, TInv', NEW r \in Requests, NEW what \in {"stop", "mode", "down"},
           Live(executor), EmergencyClose, Joins(r, what, executor, Stopped(exec)),
           running' = FALSE, UNCHANGED <<kill, raced, down, executor, made, trade>>
    PROVE  IInv'
  <1>1. /\ TypeOK /\ exec \in Pool /\ r \in Tasks /\ r \notin Loops /\ 1..made \subseteq Execs
        /\ executor \in 1..made /\ executor # 0
    BY LiveTyped, IdleTyped, TablesTyped, Constants DEF IInv, TInv, Tasks
  <1>2. Stopped(exec) \in Pool
        /\ \A e \in Execs : /\ Stopped(exec)[e].kind = exec[e].kind
                            /\ Stopped(exec)[e].lock = exec[e].lock
                            /\ Stopped(exec)[e].stop = (exec[e].stop \/ e = executor)
    BY <1>1, StoppedTyped
  <1>3. /\ \A u \in Tasks : u # r => task'[u] = task[u]
        /\ task'[r].pc \in {"lock", "flat"} /\ task'[r].what = what
        /\ \A e \in 1..made : exec'[e].kind = exec[e].kind
        /\ \A e \in 1..made : exec'[e].stop = (exec[e].stop \/ e = executor)
    BY <1>1, <1>2 DEF Joins, Others
  <1>4. \A e \in 1..made : exec'[e].stop  BY <1>3 DEF IInv, Replaced
  <1>5. entry' = entry /\ (entry # 0 => entry \in 1..made)
    BY <1>1 DEF trade, TypeOK
  <1>6. Replaced'  BY <1>4 DEF Replaced
  <1>7. Locks'  BY <1>1, <1>2, JoinLocks DEF IInv
  <1>8. Entry'  BY <1>3, <1>5 DEF IInv, Entry
  <1>9. Orderly' /\ OwnLoop'  BY DEF Orderly, OwnLoop
  <1>10. OneLoop'  BY <1>1, <1>3 DEF IInv, OneLoop, Tasks
  <1>11. Doomed' /\ Leaving'  BY <1>4, <1>5 DEF Doomed, Leaving
  <1>12. Open'
    <2> SUFFICES ASSUME Clean', venue' PROVE Open'  BY DEF Open
    <2>1. Clean /\ venue  BY DEF Clean, trade
    <2>2. Live(executor)'  BY <1>1, <1>3 DEF Live
    <2>3. \A l \in Loops : task'[l] # Idle => Live(task[l].exec) /\ task'[l] = task[l]
                                              /\ task[l].exec \in 1..made
      BY <1>1, <1>3, <2>1 DEF IInv, Open, TInv, Shapes, Tasks
    <2>4. \A l \in Loops : task'[l] # Idle => Live(task[l].exec)'
      BY <1>3, <2>3 DEF Live
    <2>5. \A t \in Tasks : task'[t].pc = "tail" => task'[t].what \notin {"stop", "mode", "down"}
      BY <1>3, <2>1 DEF IInv, Open
    <2> QED BY <1>1, <1>3, <2>2, <2>3, <2>4, <2>5 DEF Open, Live
  <1> QED BY <1>6, <1>7, <1>8, <1>9, <1>10, <1>11, <1>12 DEF IInv

\* A request that stops the engine at once: nothing can be open.
LEMMA StopGoes ==
    ASSUME IInv, TInv', NEW r \in Requests, NEW what \in {"stop", "mode", "down"},
           ~(Live(executor) /\ EmergencyClose), Ends(what, Stopped(exec)),
           what # "down" => UNCHANGED task,
           running' = FALSE, UNCHANGED <<kill, raced>>
    PROVE  IInv'
  <1>1. /\ TypeOK /\ exec \in Pool /\ 1..made \subseteq Execs /\ Idle.pc = "idle"
        /\ Idle.what = "none"
    BY IdleTyped, TablesTyped DEF IInv, TInv
  <1>2. Stopped(exec) \in Pool
        /\ \A e \in Execs : /\ Stopped(exec)[e].kind = exec[e].kind
                            /\ Stopped(exec)[e].lock = exec[e].lock
                            /\ Stopped(exec)[e].stop = (exec[e].stop \/ e = executor)
    BY <1>1, StoppedTyped
  <1>3. \A e \in 1..made : /\ exec'[e].kind = exec[e].kind /\ exec'[e].lock = exec[e].lock
                           /\ exec'[e].stop
    BY <1>1, <1>2 DEF Ends, IInv, Replaced
  <1>4. /\ entry' \in {0, entry} /\ (entry # 0 => entry \in 1..made)
        /\ \A t \in Tasks : task'[t] \in {task[t], Idle}
    BY <1>1 DEF Ends, trade, TypeOK
  <1>5. Replaced'  BY <1>3 DEF Replaced, Ends
  <1>6. Locks'
    <2>1. \A u \in Tasks : Holds(u)' => Holds(u) /\ task'[u] = task[u] /\ task[u].exec \in 1..made
      BY <1>1, <1>4, OwnedTyped DEF Holds, Owned, IInv
    <2> QED BY <1>3, <2>1 DEF IInv, Locks, Holds
  <1>7. Entry'  BY <1>3, <1>4 DEF IInv, Entry
  <1>8. Orderly' /\ OwnLoop'  BY DEF Orderly, OwnLoop
  <1>9. OneLoop'  BY <1>1, <1>4 DEF IInv, OneLoop, Tasks
  <1>10. Doomed' /\ Leaving'  BY <1>3, <1>4 DEF Doomed, Leaving
  <1>11. Open'
    <2> SUFFICES ASSUME Clean', venue' PROVE FALSE  BY DEF Open
    <2>1. late' = FALSE /\ late \in BOOLEAN /\ venue \in BOOLEAN
      BY <1>1 DEF Clean, TInv, TypeOK
    <2>2. ~late /\ venue
      <3>1. CASE what = "down"  BY <2>1, <3>1 DEF Ends
      <3>2. CASE what # "down"  BY <2>1, <3>2 DEF Ends, trade
      <3> QED BY <3>1, <3>2
    <2>3. Clean /\ venue  BY <2>2 DEF Clean
    <2> QED BY <2>3 DEF IInv, Open, Clean
  <1> QED BY <1>5, <1>6, <1>7, <1>8, <1>9, <1>10, <1>11 DEF IInv

LEMMA StopKeeps ==
    ASSUME IInv, NEW r \in Requests, NEW what \in {"stop", "mode", "down"},
           NEW mode \in Modes \cup {"none"}, Stopper(r, what, mode)
    PROVE  IInv'
  <1>1. TInv /\ TInv'  BY StopTypes DEF IInv
  <1>2. Stop(r, what, mode) /\ (what = "mode" => mode \in Modes /\ made < MaxExecs)
    BY <1>1, Stoppers
  <1> QED BY <1>1, <1>2, Stops, StopWaits, StopGoes

\* KILL ALL.
LEMMA KillKeeps ==
    ASSUME IInv, NEW r \in Requests, KillAll(r)
    PROVE  IInv'
  <1>1. /\ TInv /\ TInv' /\ TypeOK /\ exec \in Pool /\ r \in Tasks /\ r \notin Loops
        /\ 1..made \subseteq Execs
    BY RunTypes, IdleTyped, TablesTyped, Constants DEF IInv, TInv, Tasks
  <1>2. /\ task[r] = Idle /\ kill' = TRUE
        /\ UNCHANGED <<running, down, executor, made, raced, trade>>
        /\ \/ Live(executor) /\ Joins(r, "kill", executor, exec)
           \/ ~Live(executor) /\ UNCHANGED <<exec, task>>
    BY <1>1, Kills
  <1>3. /\ \A e \in 1..made : exec'[e].kind = exec[e].kind /\ exec'[e].stop = exec[e].stop
        /\ \A u \in Tasks : u # r => task'[u] = task[u]
        /\ \/ task'[r] = task[r]
           \/ task'[r].pc \in {"lock", "flat"} /\ task'[r].what = "kill"
    BY <1>1, <1>2 DEF Joins, Others
  <1>4. entry' = entry /\ (entry # 0 => entry \in 1..made) /\ executor \in {0} \cup 1..made
    BY <1>1, <1>2, IdleTyped DEF trade, TypeOK
  <1>5. Replaced'  BY <1>2, <1>3 DEF IInv, Replaced
  <1>6. Locks'
    <2>1. CASE Live(executor) /\ Joins(r, "kill", executor, exec)
      BY <1>1, <2>1, LiveTyped, JoinLocks DEF IInv
    <2>2. CASE UNCHANGED <<exec, task>>
      BY <2>2 DEF IInv, Locks, Holds
    <2> QED BY <1>2, <2>1, <2>2
  <1>7. Entry'  BY <1>3, <1>4 DEF IInv, Entry
  <1>8. Orderly'  BY <1>2, <1>3 DEF IInv, Orderly
  <1>9. OneLoop' /\ OwnLoop'  BY <1>1, <1>2, <1>3 DEF IInv, OneLoop, OwnLoop, Tasks
  <1>10. Doomed'  BY <1>1, <1>2, <1>3, <1>4 DEF IInv, Doomed, Tasks
  <1>11. Leaving'  BY <1>2, <1>3, <1>4 DEF IInv, Leaving
  <1>12. Open'
    <2> SUFFICES ASSUME Clean', venue' PROVE Open'  BY DEF Open
    <2>1. Clean /\ venue /\ venue' = venue  BY <1>2 DEF Clean, trade
    <2>2. Live(executor)'  BY <1>2, <1>3, <1>4, <2>1 DEF IInv, Open, Live
    <2>3. \A l \in Loops : task'[l] # Idle => Live(task[l].exec)'
      BY <1>1, <1>3, <2>1 DEF IInv, Open, TInv, Shapes, Tasks, Live
    <2>5. \A t \in Tasks : task'[t].pc = "tail" => task'[t].what \notin {"stop", "mode", "down"}
      BY <1>3, <2>1 DEF IInv, Open
    <2>6. ~running' => \E t \in Tasks : task'[t].pc \in {"lock", "flat"}
      BY <1>2, <1>3, <2>1, IdleTyped DEF IInv, Open
    <2> QED BY <2>2, <2>3, <2>5, <2>6 DEF Open
  <1> QED BY <1>1, <1>5, <1>6, <1>7, <1>8, <1>9, <1>10, <1>11, <1>12 DEF IInv

\* A request that is done: what it closed stays closed.
LEMMA EndKeeps ==
    ASSUME IInv, NEW r \in Requests, RequestEnds(r)
    PROVE  IInv'
  <1>1. /\ TInv /\ TInv' /\ TypeOK /\ exec \in Pool /\ r \in Tasks /\ r \notin Loops
        /\ 1..made \subseteq Execs /\ Idle.pc = "idle" /\ Idle.what = "none"
        /\ task \in [Tasks -> TaskRec]
    BY EndTypes, IdleTyped, TablesTyped, Constants DEF IInv, TInv, Tasks
  <1>2. /\ task[r].pc = "tail" /\ UNCHANGED <<running, kill, raced>>
        /\ Ends(task[r].what, Flattened(r))
        /\ task[r].what # "down" => task' = [task EXCEPT ![r] = Idle]
        /\ task[r].what = "down" => task' = [t \in Tasks |-> Idle]
    BY <1>1, RequestDone
  <1>3. task[r].what \in {"stop", "mode", "down", "kill"}
    BY <1>1, <1>2 DEF TInv, Shapes, Owned
  <1>4. \A e \in Execs : /\ Flattened(r)[e].kind = exec[e].kind
                         /\ Flattened(r)[e].lock = (exec[e].lock /\ e # task[r].exec)
                         /\ Flattened(r)[e].stop = exec[e].stop
    BY <1>1, <1>2, <1>3, Freeing DEF Owned, Pool, ExecRec
  <1>5. /\ \A e \in 1..made : /\ exec'[e].kind = exec[e].kind
                              /\ exec'[e].lock = Flattened(r)[e].lock
                              /\ exec[e].stop => exec'[e].stop
        /\ executor' # executor \/ task[r].what \in {"mode", "kill"} =>
              \A e \in 1..made : exec'[e].stop = (exec[e].stop \/ e = executor)
    BY <1>1, <1>2, <1>4 DEF Ends
  <1>6. \A u \in Tasks : u # r => task'[u] \in {task[u], Idle}
    BY <1>1, <1>2
  <1>7. task'[r] = Idle  BY <1>1, <1>2
  <1>8. /\ entry' \in {0, entry} /\ (entry # 0 => entry \in 1..made)
        /\ executor \in {0} \cup 1..made
    BY <1>1, <1>2, IdleTyped DEF trade, TypeOK, Ends
  <1>9. Replaced'
    <2>1. CASE executor' = executor  BY <1>2, <1>5, <2>1 DEF IInv, Replaced, Ends
    <2>2. CASE executor' # executor  BY <1>2, <1>5, <2>2 DEF IInv, Replaced, Ends
    <2> QED BY <2>1, <2>2
  <1>10. Locks'
    <2>1. CASE task[r].what # "down"
      <3>1. Others(r)  BY <1>1, <1>2, <2>1 DEF Others
      <3> QED BY <1>1, <1>2, <1>5, <1>7, <3>1, FreeLocks DEF IInv, Holds
    <2>2. CASE task[r].what = "down"
      <3>1. \A t \in Tasks : ~Holds(t)'  BY <1>1, <1>2, <2>2 DEF Holds
      <3> QED BY <3>1 DEF Locks, Holds
    <2> QED BY <2>1, <2>2
  <1>11. Entry'  BY <1>5, <1>8 DEF IInv, Entry
  <1>12. Orderly'
    <2> SUFFICES ASSUME running', "stop" \notin raced' PROVE Orderly'  BY DEF Orderly
    <2>1. task[r].what = "kill" /\ kill' /\ running /\ "stop" \notin raced
      BY <1>1, <1>2, <1>3 DEF IInv, Orderly
    <2>2. \A t \in Tasks : task'[t].what \in {"none", "kill", "exit"}
      BY <1>1, <1>6, <1>7, <2>1 DEF IInv, Orderly
    <2> QED BY <2>1, <2>2 DEF Orderly
  <1>13. OneLoop'  BY <1>1, <1>2, <1>6 DEF IInv, OneLoop, Tasks
  <1>14. OwnLoop'
    <2> SUFFICES ASSUME running', raced' = {} PROVE OwnLoop'  BY DEF OwnLoop
    <2>1. task[r].what = "kill" /\ running /\ raced = {}
      BY <1>1, <1>2, <1>3 DEF IInv, Orderly
    <2>2. executor' = executor  BY <1>2, <2>1 DEF Ends
    <2> QED BY <1>1, <1>6, <2>1, <2>2 DEF IInv, OwnLoop, Tasks
  <1>15. Doomed'
    <2> SUFFICES ASSUME raced' = {}, ~running', entry' # 0, ~exec'[entry'].stop
        PROVE  \E l \in Loops : task'[l].what = "trip" /\ task'[l].exec = entry'
      BY DEF Doomed
    <2>1. raced = {} /\ ~running /\ entry' = entry /\ entry # 0 /\ ~exec[entry].stop
          /\ task[r].what # "down"
      BY <1>2, <1>5, <1>8 DEF Ends
    <2>2. PICK l \in Loops : task[l].what = "trip" /\ task[l].exec = entry
      BY <2>1 DEF IInv, Doomed
    <2>3. task'[l] = task[l]  BY <1>1, <1>2, <2>1 DEF Tasks
    <2> QED BY <2>1, <2>2, <2>3
  <1>16. Leaving'
    BY <1>1, <1>2, <1>5, <1>6, <1>7, <1>8 DEF IInv, Leaving
  <1>17. Open'
    <2> SUFFICES ASSUME Clean', venue' PROVE Open'  BY DEF Open
    <2>0. late' = FALSE /\ late \in BOOLEAN /\ venue \in BOOLEAN
      BY <1>1 DEF Clean, TInv, TypeOK
    <2>1. Clean /\ venue
      <3>1. CASE task[r].what = "down"  BY <1>2, <2>0, <3>1 DEF Ends, Clean
      <3>2. CASE task[r].what # "down"  BY <1>2, <2>0, <3>2 DEF Ends, Clean, trade
      <3> QED BY <3>1, <3>2
    <2>2. task[r].what = "kill"  BY <1>1, <1>2, <1>3, <2>1 DEF IInv, Open
    <2>3. /\ executor' = executor /\ executor \in 1..made
          /\ \A u \in Tasks : u # r => task'[u] = task[u]
      BY <1>1, <1>2, <1>8, <2>1, <2>2 DEF IInv, Open, Live, Ends
    <2>4. Live(executor)'  BY <1>5, <2>1, <2>3 DEF IInv, Open, Live
    <2>5. \A l \in Loops : task'[l] # Idle => Live(task[l].exec)'
      BY <1>1, <1>5, <2>1, <2>3 DEF IInv, Open, TInv, Shapes, Tasks, Live
    <2>6. \A t \in Tasks : task'[t].pc = "tail" => task'[t].what \notin {"stop", "mode", "down"}
      BY <1>1, <1>7, <2>1, <2>3 DEF IInv, Open
    <2>7. ~running' => \E t \in Tasks : task'[t].pc \in {"lock", "flat"}
      BY <1>1, <1>2, <2>1, <2>3 DEF IInv, Open
    <2> QED BY <2>4, <2>5, <2>6, <2>7 DEF Open
  <1> QED
    BY <1>1, <1>9, <1>10, <1>11, <1>12, <1>13, <1>14, <1>15, <1>16, <1>17 DEF IInv

\* A flatten moves on: it takes its lock, or closes what is open.
LEMMA FlattenKeeps ==
    ASSUME IInv, NEW t \in Tasks, FlattenLock(t) \/ FlattenCloses(t)
    PROVE  IInv'
  <1>1. /\ TInv /\ TInv' /\ TypeOK /\ exec \in Pool /\ 1..made \subseteq Execs
        /\ Idle.pc = "idle"
    BY FlattenTypes, IdleTyped, TablesTyped DEF IInv, TInv
  <1>2. /\ task[t].pc \in {"lock", "flat"}
        /\ UNCHANGED <<running, kill, executor, made, raced, late, entry>>
        /\ venue' \in {venue, FALSE} /\ (venue' => task'[t].pc \in {"lock", "flat"})
        /\ Others(t) /\ task'[t].what = task[t].what /\ task'[t].exec = task[t].exec
        /\ task'[t].pc \in Owned /\ (task'[t].pc = "tail" => venue' = FALSE)
        /\ \A e \in Execs : exec'[e].kind = exec[e].kind /\ exec'[e].stop = exec[e].stop
    <2>1. CASE FlattenLock(t)
      BY <1>1, <2>1, Locking DEF Joins, Owned, flags, trade
    <2>2. CASE FlattenCloses(t)
      BY <1>1, <2>2, Closing DEF Owned, flags
    <2> QED BY <2>1, <2>2
  <1>3. /\ \A e \in 1..made : exec'[e].kind = exec[e].kind /\ exec'[e].stop = exec[e].stop
        /\ \A u \in Tasks : task'[u].what = task[u].what /\ task'[u].exec = task[u].exec
        /\ \A u \in Tasks : task'[u].pc \in {"tick", "sleep"} <=> task[u].pc \in {"tick", "sleep"}
        /\ \A u \in Tasks : task'[u] # Idle => task[u] # Idle
        /\ task[t].exec \in 1..made
    BY <1>1, <1>2, OwnedTyped DEF Others, Owned
  <1>4. /\ (entry # 0 => entry \in 1..made) /\ executor \in {0} \cup 1..made
    BY <1>1, IdleTyped DEF TypeOK
  <1>5. Replaced'  BY <1>2, <1>3 DEF IInv, Replaced
  <1>6. Locks'
    <2>1. CASE FlattenLock(t)
      BY <1>1, <1>3, <2>1, Locking, JoinLocks DEF IInv
    <2>2. CASE FlattenCloses(t)
      <3>1. /\ task[t].pc = "flat" /\ exec' = exec /\ \A u \in Tasks : u # t => task'[u] = task[u]
        BY <1>1, <1>2, <2>2, Closing DEF Others
      <3> QED BY <1>2, <3>1 DEF IInv, Locks, Holds
    <2> QED BY <2>1, <2>2
  <1>7. Entry'  BY <1>2, <1>3, <1>4 DEF IInv, Entry
  <1>8. Orderly'
    <2> SUFFICES ASSUME running', "stop" \notin raced' PROVE Orderly'  BY DEF Orderly
    <2>1. running /\ "stop" \notin raced  BY <1>2
    <2>2. ~kill' /\ executor' # 0 =>
             /\ ~exec'[executor'].stop
             /\ \E l \in Loops : task'[l].pc \in {"tick", "sleep"} /\ task'[l].exec = executor'
      BY <1>2, <1>3, <1>4, <2>1 DEF IInv, Orderly, Tasks
    <2> QED BY <1>2, <1>3, <2>1, <2>2 DEF IInv, Orderly
  <1>9. OneLoop' /\ OwnLoop'  BY <1>2, <1>3 DEF IInv, OneLoop, OwnLoop, Tasks
  <1>10. Doomed' /\ Leaving'
    BY <1>2, <1>3, <1>4 DEF IInv, Doomed, Leaving, Tasks
  <1>11. Open'
    <2> SUFFICES ASSUME Clean', venue' PROVE Open'  BY DEF Open
    <2>1. Clean /\ venue  BY <1>2 DEF Clean
    <2>2. Live(executor)'  BY <1>2, <1>3, <1>4, <2>1 DEF IInv, Open, Live
    <2>3. \A l \in Loops : task'[l] # Idle => Live(task[l].exec)'
      BY <1>1, <1>3, <2>1 DEF IInv, Open, TInv, Shapes, Tasks, Live
    <2>4. \A u \in Tasks : task'[u].pc = "tail" => task'[u].what \notin {"stop", "mode", "down"}
      BY <1>2, <2>1 DEF IInv, Open, Others
    <2> QED BY <1>2, <2>2, <2>3, <2>4 DEF Open
  <1> QED BY <1>1, <1>5, <1>6, <1>7, <1>8, <1>9, <1>10, <1>11 DEF IInv

\* A loop leaves its flatten.
LEMMA LoopDoneKeeps ==
    ASSUME IInv, NEW l \in Loops, LoopFlattened(l)
    PROVE  IInv'
  <1>1. /\ TInv /\ TInv' /\ TypeOK /\ exec \in Pool /\ 1..made \subseteq Execs
        /\ Idle.pc = "idle" /\ Idle.what = "none" /\ l \in Tasks
    BY FlattenTypes, IdleTyped, TablesTyped DEF IInv, TInv, Tasks
  <1>2. /\ task[l].pc = "tail" /\ UNCHANGED <<flags, trade>> /\ exec' = Flattened(l)
        /\ Others(l) /\ task[l].what \in {"trip", "exit"}
        /\ \/ task'[l] = Idle /\ task[l].what = "exit"
           \/ /\ task'[l].pc = "sleep" /\ task'[l].what = "none" /\ task[l].what = "trip"
              /\ task'[l].exec = task[l].exec
    BY <1>1, LoopDone
  <1>3. /\ \A e \in 1..made :
             /\ exec'[e].kind = exec[e].kind
             /\ exec'[e].stop = (exec[e].stop \/ (e = task[l].exec /\ task[l].what = "trip"))
        /\ task[l].exec \in 1..made /\ task[l] # Idle
    BY <1>1, <1>2, Freeing, OwnedTyped DEF Owned
  <1>4. /\ UNCHANGED <<running, kill, executor, made, raced, venue, late, entry>>
        /\ (entry # 0 => entry \in 1..made) /\ executor \in {0} \cup 1..made
    BY <1>1, <1>2, IdleTyped DEF TypeOK, flags, trade
  <1>5. /\ \A u \in Tasks : u # l => task'[u] = task[u]
        /\ task'[l].what = "none" /\ task'[l].pc \notin Owned
        /\ task'[l] # Idle => task'[l].exec = task[l].exec
    BY <1>1, <1>2 DEF Others, Owned
  <1>6. Replaced'  BY <1>3, <1>4 DEF IInv, Replaced
  <1>7. Locks'
    BY <1>1, <1>2, <1>5, FreeLocks DEF IInv, Holds, Owned
  <1>8. Entry'  BY <1>3, <1>4 DEF IInv, Entry
  <1>9. Orderly'
    <2> SUFFICES ASSUME running', "stop" \notin raced' PROVE Orderly'  BY DEF Orderly
    <2>1. running /\ "stop" \notin raced /\ task[l].what = "exit"
      BY <1>1, <1>2, <1>4 DEF IInv, Orderly
    <2>2. \A e \in 1..made : exec'[e].stop = exec[e].stop
      BY <1>1, <1>3, <2>1, TablesTyped DEF Pool, ExecRec
    <2>3. /\ \A u \in Tasks : task'[u].what \in {"none", "kill", "exit"}
          /\ ~kill' => \A u \in Tasks : task'[u].what # "kill"
      BY <1>4, <1>5, <2>1 DEF IInv, Orderly
    <2>4. ASSUME ~kill', executor' # 0
          PROVE  /\ ~exec'[executor'].stop
                 /\ \E k \in Loops : task'[k].pc \in {"tick", "sleep"}
                                     /\ task'[k].exec = executor'
      <3>1. PICK k \in Loops : task[k].pc \in {"tick", "sleep"} /\ task[k].exec = executor
        BY <1>4, <2>1, <2>4 DEF IInv, Orderly
      <3>2. task'[k] = task[k]  BY <1>2, <1>5, <3>1 DEF Tasks
      <3> QED BY <1>4, <2>1, <2>2, <2>4, <3>1, <3>2 DEF IInv, Orderly
    <2> QED BY <2>3, <2>4 DEF Orderly
  <1>10. OneLoop' /\ OwnLoop'
    BY <1>3, <1>4, <1>5 DEF IInv, OneLoop, OwnLoop, Tasks
  <1>11. Doomed'
    <2> SUFFICES ASSUME raced' = {}, ~running', entry' # 0, ~exec'[entry'].stop
        PROVE  \E k \in Loops : task'[k].what = "trip" /\ task'[k].exec = entry'
      BY DEF Doomed
    <2>1. PICK k \in Loops : task[k].what = "trip" /\ task[k].exec = entry
      BY <1>3, <1>4 DEF IInv, Doomed
    <2>2. k # l  BY <1>3, <1>4, <2>1
    <2> QED BY <1>4, <1>5, <2>1, <2>2 DEF Tasks
  <1>12. Leaving'  BY <1>3, <1>4, <1>5 DEF IInv, Leaving
  <1>13. Open'
    <2> SUFFICES ASSUME Clean', venue' PROVE Open'  BY DEF Open
    <2>1. Clean /\ venue  BY <1>4 DEF Clean
    <2>2. Live(executor)'  BY <1>3, <1>4, <2>1 DEF IInv, Open, Live
    <2>3. \A k \in Loops : task'[k] # Idle => Live(task[k].exec)'
      BY <1>1, <1>3, <1>5, <2>1 DEF IInv, Open, TInv, Shapes, Tasks, Live
    <2>4. \A u \in Tasks : task'[u].pc = "tail" => task'[u].what \notin {"stop", "mode", "down"}
      BY <1>5, <2>1 DEF IInv, Open, Owned
    <2>5. ~running' => \E u \in Tasks : task'[u].pc \in {"lock", "flat"}
      BY <1>2, <1>4, <1>5, <2>1 DEF IInv, Open
    <2> QED BY <2>2, <2>3, <2>4, <2>5 DEF Open
  <1> QED BY <1>1, <1>6, <1>7, <1>8, <1>9, <1>10, <1>11, <1>12, <1>13 DEF IInv

\* A loop goes on, or ends because its executor is stopped.
LEMMA LoopMoves ==
    ASSUME IInv, TInv', NEW l \in Loops, task[l].pc \in {"tick", "sleep"}, Others(l),
           UNCHANGED <<running, executor, made, raced, late, entry, exec>>,
           kill' = kill \/ kill' = TRUE, venue' = venue \/ venue' = FALSE,
           \/ /\ task'[l].pc \in {"tick", "sleep"} /\ task'[l].what = "none"
              /\ task'[l].exec = task[l].exec
           \/ task'[l] = Idle /\ exec[task[l].exec].stop
    PROVE  IInv'
  <1>1. /\ TInv /\ TypeOK /\ Idle.pc = "idle" /\ Idle.what = "none" /\ l \in Tasks
        /\ task[l].what = "none" /\ task[l] # Idle /\ task[l].exec \in 1..made
    BY IdleTyped DEF IInv, TInv, Tasks, Shapes
  <1>2. /\ \A u \in Tasks : u # l => task'[u] = task[u]
        /\ task'[l].pc \in {"tick", "sleep", "idle"} /\ task'[l].what = "none"
        /\ task'[l] # Idle => task'[l].exec = task[l].exec
    BY <1>1 DEF Others
  <1>3. (entry # 0 => entry \in 1..made) /\ executor \in {0} \cup 1..made
    BY <1>1, IdleTyped DEF TypeOK
  <1>4. Replaced' /\ Entry'  BY DEF IInv, Replaced, Entry
  <1>5. Locks'  BY <1>1, <1>2, SameLocks DEF IInv, Holds
  <1>6. Orderly'
    <2> SUFFICES ASSUME running', "stop" \notin raced' PROVE Orderly'  BY DEF Orderly
    <2>1. /\ \A u \in Tasks : task'[u].what \in {"none", "kill", "exit"}
          /\ ~kill' => ~kill /\ \A u \in Tasks : task'[u].what # "kill"
      BY <1>2 DEF IInv, Orderly
    <2>2. ASSUME ~kill', executor' # 0
          PROVE  /\ ~exec'[executor'].stop
                 /\ \E k \in Loops : task'[k].pc \in {"tick", "sleep"}
                                     /\ task'[k].exec = executor'
      <3>1. PICK k \in Loops : task[k].pc \in {"tick", "sleep"} /\ task[k].exec = executor
        BY <2>1, <2>2 DEF IInv, Orderly
      <3>2. ~exec[executor].stop  BY <2>1, <2>2 DEF IInv, Orderly
      <3>3. task'[k].pc \in {"tick", "sleep"} /\ task'[k].exec = executor
        BY <1>2, <3>1, <3>2 DEF Tasks
      <3> QED BY <3>2, <3>3
    <2> QED BY <2>1, <2>2 DEF Orderly
  <1>7. OneLoop' /\ OwnLoop'
    BY <1>1, <1>2 DEF IInv, OneLoop, OwnLoop, Tasks
  <1>8. Doomed'
    BY <1>1, <1>2 DEF IInv, Doomed, Tasks
  <1>9. Leaving'  BY <1>2 DEF IInv, Leaving
  <1>10. Open'
    <2> SUFFICES ASSUME Clean', venue' PROVE Open'  BY DEF Open
    <2>1. Clean /\ venue  BY DEF Clean
    <2>2. Live(executor)'  BY <2>1 DEF IInv, Open, Live
    <2>3. \A k \in Loops : task'[k] # Idle => Live(task[k].exec)'
      BY <1>1, <1>2, <2>1 DEF IInv, Open, Tasks, Live
    <2>4. \A u \in Tasks : task'[u].pc = "tail" => task'[u].what \notin {"stop", "mode", "down"}
      BY <1>2, <2>1 DEF IInv, Open
    <2>5. ~running' => \E u \in Tasks : task'[u].pc \in {"lock", "flat"}
      BY <1>2, <2>1 DEF IInv, Open
    <2> QED BY <2>2, <2>3, <2>4, <2>5 DEF Open
  <1> QED BY <1>4, <1>5, <1>6, <1>7, <1>8, <1>9, <1>10 DEF IInv

\* A loop goes for the flatten of its live executor.
LEMMA LoopJoins ==
    ASSUME IInv, TInv', NEW l \in Loops, task[l].pc \in {"tick", "sleep"},
           NEW what \in {"trip", "exit"}, Joins(l, what, task[l].exec, exec),
           UNCHANGED <<executor, made, raced, late, entry, venue>>,
           \/ what = "trip" /\ running' = FALSE
           \/ what = "exit" /\ exec[task[l].exec].stop /\ UNCHANGED <<running, kill>>
    PROVE  IInv'
  <1>1. /\ TInv /\ TypeOK /\ exec \in Pool /\ l \in Tasks /\ 1..made \subseteq Execs
        /\ task[l].what = "none" /\ task[l] # Idle /\ task[l].exec \in 1..made
    BY IdleTyped, TablesTyped DEF IInv, TInv, Tasks, Shapes
  <1>2. /\ \A u \in Tasks : u # l => task'[u] = task[u]
        /\ task'[l].pc \in {"lock", "flat"} /\ task'[l].what = what
        /\ task'[l].exec = task[l].exec
        /\ \A e \in 1..made : exec'[e].kind = exec[e].kind /\ exec'[e].stop = exec[e].stop
    BY <1>1 DEF Joins, Others
  <1>3. (entry # 0 => entry \in 1..made) /\ executor \in {0} \cup 1..made
    BY <1>1, IdleTyped DEF TypeOK
  <1>4. Replaced' /\ Entry'  BY <1>2, <1>3 DEF IInv, Replaced, Entry
  <1>5. Locks'  BY <1>1, JoinLocks DEF IInv
  <1>6. Orderly'
    <2> SUFFICES ASSUME running', "stop" \notin raced' PROVE Orderly'  BY DEF Orderly
    <2>1. running /\ "stop" \notin raced /\ what = "exit" /\ kill' = kill
          /\ exec[task[l].exec].stop
      OBVIOUS
    <2>2. /\ \A u \in Tasks : task'[u].what \in {"none", "kill", "exit"}
          /\ ~kill' => \A u \in Tasks : task'[u].what # "kill"
      BY <1>2, <2>1 DEF IInv, Orderly
    <2>3. ASSUME ~kill', executor' # 0
          PROVE  /\ ~exec'[executor'].stop
                 /\ \E k \in Loops : task'[k].pc \in {"tick", "sleep"}
                                     /\ task'[k].exec = executor'
      <3>1. PICK k \in Loops : task[k].pc \in {"tick", "sleep"} /\ task[k].exec = executor
        BY <2>1, <2>3 DEF IInv, Orderly
      <3>2. ~exec[executor].stop  BY <2>1, <2>3 DEF IInv, Orderly
      <3>3. k # l  BY <2>1, <3>1, <3>2
      <3> QED BY <1>2, <1>3, <2>3, <3>1, <3>2, <3>3 DEF Tasks
    <2> QED BY <2>2, <2>3 DEF Orderly
  <1>7. OneLoop' /\ OwnLoop'
    BY <1>1, <1>2 DEF IInv, OneLoop, OwnLoop, Tasks
  <1>8. Doomed'
    <2> SUFFICES ASSUME raced' = {}, ~running', entry' # 0, ~exec'[entry'].stop
        PROVE  \E k \in Loops : task'[k].what = "trip" /\ task'[k].exec = entry'
      BY DEF Doomed
    <2>1. raced = {} /\ entry # 0 /\ ~exec[entry].stop  BY <1>2, <1>3
    <2>2. CASE running
      <3>1. what = "trip" /\ task[l].exec = executor  BY <1>1, <2>1, <2>2 DEF IInv, OwnLoop
      <3>2. entry = executor  BY <1>3, <2>1 DEF IInv, Replaced
      <3> QED BY <1>2, <3>1, <3>2
    <2>3. CASE ~running
      <3>1. PICK k \in Loops : task[k].what = "trip" /\ task[k].exec = entry
        BY <2>1, <2>3 DEF IInv, Doomed
      <3>2. k # l  BY <1>1, <3>1
      <3> QED BY <1>2, <3>1, <3>2 DEF Tasks
    <2> QED BY <2>2, <2>3
  <1>9. Leaving'  BY <1>2, <1>3 DEF IInv, Leaving
  <1>10. Open'
    <2> SUFFICES ASSUME Clean', venue' PROVE Open'  BY DEF Open
    <2>1. Clean /\ venue  BY DEF Clean
    <2>2. Live(executor)'  BY <1>2, <1>3, <2>1 DEF IInv, Open, Live
    <2>3. \A k \in Loops : task'[k] # Idle => Live(task[k].exec)'
      BY <1>1, <1>2, <2>1 DEF IInv, Open, TInv, Shapes, Tasks, Live
    <2>4. \A u \in Tasks : task'[u].pc = "tail" => task'[u].what \notin {"stop", "mode", "down"}
      BY <1>2, <2>1 DEF IInv, Open
    <2> QED BY <1>1, <1>2, <2>2, <2>3, <2>4 DEF Open
  <1> QED BY <1>4, <1>5, <1>6, <1>7, <1>8, <1>9, <1>10 DEF IInv

LEMMA LoopKeeps ==
    ASSUME IInv, NEW l \in Loops, LoopWakes(l) \/ PaperTick(l) \/ LiveTick(l) \/ Trip(l)
    PROVE  IInv'
  <1>1. TInv /\ TInv'  BY LoopTypes DEF IInv
  <1>2. CASE LoopWakes(l)
    <2>1. /\ task[l].pc = "sleep" /\ UNCHANGED <<flags, trade>>
          /\ \/ /\ UNCHANGED exec /\ Others(l)
                /\ task'[l].pc = "tick" /\ task'[l].what = "none"
                /\ task'[l].exec = task[l].exec
             \/ exec[task[l].exec].stop /\ Joins(l, "exit", task[l].exec, exec)
             \/ exec[task[l].exec].stop /\ UNCHANGED exec /\ Others(l) /\ task'[l] = Idle
      BY <1>1, <1>2, Wakes
    <2> QED BY <1>1, <2>1, LoopMoves, LoopJoins DEF flags, trade
  <1>3. CASE PaperTick(l) \/ LiveTick(l)
    <2>1. /\ task[l].pc = "tick" /\ UNCHANGED <<flags, exec, entry, late>> /\ Others(l)
          /\ task'[l].pc = "sleep" /\ task'[l].what = "none"
          /\ task'[l].exec = task[l].exec
          /\ venue' = venue \/ venue' = FALSE
      BY <1>1, <1>3, Ticks
    <2> QED BY <1>1, <2>1, LoopMoves DEF flags
  <1>4. CASE Trip(l)
    <2>1. /\ task[l].pc = "tick" /\ kill' = TRUE
          /\ UNCHANGED <<down, executor, made, raced, trade>>
          /\ \/ running' = FALSE /\ Joins(l, "trip", task[l].exec, exec)
             \/ /\ UNCHANGED <<running, exec>> /\ Others(l)
                /\ task'[l].pc = "sleep" /\ task'[l].what = "none"
                /\ task'[l].exec = task[l].exec
      BY <1>1, <1>4, Trips
    <2> QED BY <1>1, <2>1, LoopMoves, LoopJoins DEF trade
  <1> QED BY <1>2, <1>3, <1>4

\* run, which finds nothing open when it waits for loops and stops.
LEMMA RunKeeps ==
    ASSUME IInv, Run
    PROVE  IInv'
  <1>1. /\ TInv /\ TInv' /\ TypeOK /\ exec \in Pool /\ 1..made \subseteq Execs
        /\ Idle.pc = "idle" /\ Idle.what = "none"
    BY RunTypes, IdleTyped, TablesTyped DEF IInv, TInv
  <1>2. /\ ~running /\ running' = TRUE /\ kill' = FALSE /\ raced' = raced \cup Racing
        /\ UNCHANGED <<down, executor, made, trade>>
        /\ \A e \in Execs : /\ exec'[e].kind = exec[e].kind /\ exec'[e].lock = exec[e].lock
                            /\ exec'[e].stop = (exec[e].stop /\ e # executor)
        /\ executor = 0 => UNCHANGED task
        /\ executor # 0 => \E l \in Loops :
             /\ task[l] = Idle /\ Others(l) /\ task'[l].pc = "tick"
             /\ task'[l].what = "none" /\ task'[l].exec = executor
    BY <1>1, Runs
  <1>3. /\ \A e \in 1..made : /\ exec'[e].kind = exec[e].kind /\ exec'[e].lock = exec[e].lock
                              /\ exec'[e].stop = (exec[e].stop /\ e # executor)
        /\ (entry # 0 => entry \in 1..made) /\ executor \in {0} \cup 1..made
    BY <1>1, <1>2, IdleTyped DEF TypeOK
  <1>4. /\ "stop" \notin raced' => \A t \in Tasks : task[t].pc \notin Owned
        /\ raced' = {} => raced = {} /\ \A l \in Loops : task[l] = Idle
    BY <1>2 DEF Racing, Stopping, Owned
  <1>5. "stop" \notin raced' => \A t \in Tasks : task[t].what = "none"
    <2> SUFFICES ASSUME "stop" \notin raced', NEW t \in Tasks PROVE task[t].what = "none"
      OBVIOUS
    <2>1. task[t].pc \notin Owned /\ task[t] \in TaskRec
      BY <1>1, <1>4, TablesTyped
    <2>2. CASE t \in Requests  BY <1>1, <2>1, <2>2 DEF TInv, Shapes
    <2>3. CASE t \in Loops
      BY <1>1, <2>1, <2>3 DEF TInv, Shapes, Owned, TaskRec
    <2> QED BY <2>2, <2>3 DEF Tasks
  <1>6. Replaced' /\ Entry'  BY <1>2, <1>3 DEF IInv, Replaced, Entry, trade
  <1>7. CASE executor = 0
    <2>1. task' = task  BY <1>2, <1>7
    <2>2. Locks'
      <3>1. \A u \in Tasks : Holds(u) => task[u].exec \in 1..made
        BY <1>1, OwnedTyped DEF Holds, Owned
      <3> QED BY <1>3, <2>1, <3>1 DEF IInv, Locks, Holds
    <2>3. Orderly'  BY <1>2, <1>5, <1>7, <2>1 DEF Orderly
    <2>4. OneLoop' /\ OwnLoop' /\ Doomed'
      BY <1>2, <1>4, <2>1 DEF OneLoop, OwnLoop, Doomed
    <2>5. Leaving'
      <3>1. raced' = {} => \A t \in Tasks : task'[t].what = "none"  BY <1>5, <2>1
      <3> QED BY <3>1 DEF Leaving
    <2>6. Open'
      <3>1. Clean' => Clean  BY <1>2, <1>4 DEF Clean, trade
      <3>2. Clean /\ venue => Live(executor)  BY DEF IInv, Open
      <3> QED BY <1>2, <1>7, <3>1, <3>2 DEF Open, Live, trade
    <2> QED BY <1>1, <1>6, <2>2, <2>3, <2>4, <2>5, <2>6 DEF IInv
  <1>8. CASE executor # 0
    <2>1. PICK l \in Loops : /\ task[l] = Idle /\ Others(l) /\ task'[l].pc = "tick"
                             /\ task'[l].what = "none" /\ task'[l].exec = executor
      BY <1>2, <1>8
    <2>2. l \in Tasks /\ \A u \in Tasks : u # l => task'[u] = task[u]
      BY <2>1 DEF Others, Tasks
    <2>3. Locks'  BY <1>1, <1>3, <2>1, <2>2, SameLocks DEF IInv, Holds
    <2>4. "stop" \notin raced' => \A t \in Tasks : task'[t].what = "none"
      BY <1>5, <2>1, <2>2
    <2>5. ~exec'[executor].stop  BY <1>3, <1>8
    <2>6. Orderly'  BY <1>2, <2>1, <2>4, <2>5 DEF Orderly
    <2>7. OneLoop' /\ OwnLoop' /\ Doomed'
      BY <1>2, <1>4, <2>1, <2>2 DEF OneLoop, OwnLoop, Doomed, Tasks
    <2>8. Leaving'
      <3>1. raced' = {} => \A t \in Tasks : task'[t].what = "none"  BY <2>4
      <3> QED BY <3>1 DEF Leaving
    <2>9. Open'
      <3>1. Clean' => Clean /\ \A t \in Tasks : task[t].pc \notin Owned
        BY <1>2, <1>4 DEF Clean, trade
      <3>2. Clean' => ~venue  BY <1>2, <3>1 DEF IInv, Open, Owned
      <3> QED BY <1>2, <3>2 DEF Open, trade
    <2> QED BY <1>1, <1>6, <2>3, <2>6, <2>7, <2>8, <2>9 DEF IInv
  <1> QED BY <1>7, <1>8

\* An order goes out while nothing stops the engine.
LEMMA SignalKeeps ==
    ASSUME IInv, Signal
    PROVE  IInv'
  <1>1. TInv /\ TInv'  BY LoopTypes DEF IInv
  <1>2. /\ running /\ entry' = executor /\ Live(executor) /\ ~exec[executor].stop
        /\ UNCHANGED <<running, kill, executor, made, raced, exec, task, venue, late>>
    BY <1>1, Signals DEF flags
  <1>3. Replaced' /\ Locks' /\ Orderly' /\ OneLoop' /\ OwnLoop'
    BY <1>2 DEF IInv, Replaced, Locks, Holds, Orderly, OneLoop, OwnLoop
  <1>4. Entry'  BY <1>2 DEF Entry, Live
  <1>5. Doomed'  BY <1>2 DEF Doomed
  <1>6. Leaving'
    BY <1>2 DEF IInv, Orderly, Leaving
  <1>7. Open'  BY <1>2 DEF IInv, Open, Clean, Live
  <1> QED BY <1>1, <1>3, <1>4, <1>5, <1>6, <1>7 DEF IInv

\* An order that fills is noted as late, or is the executor's of the day, which goes on or
\* has a flatten to come.
LEMMA AnswerKeeps ==
    ASSUME IInv, Answer
    PROVE  IInv'
  <1>1. TInv /\ TInv' /\ TypeOK  BY LoopTypes DEF IInv, TInv
  <1>2. /\ entry \in 1..made /\ entry \in Execs /\ entry' = 0 /\ entry # 0
        /\ UNCHANGED <<running, kill, executor, made, raced, exec, task>>
        /\ \/ UNCHANGED <<venue, late>>
           \/ late' = (late \/ exec[entry].stop \/ exec[entry].lock)
    BY <1>1, Answers DEF flags, Answer
  <1>3. Replaced' /\ Locks' /\ Orderly' /\ OneLoop' /\ OwnLoop'
    BY <1>2 DEF IInv, Replaced, Locks, Holds, Orderly, OneLoop, OwnLoop
  <1>4. Entry' /\ Doomed' /\ Leaving'  BY <1>2 DEF Entry, Doomed, Leaving
  <1>5. Open'
    <2>1. CASE UNCHANGED <<venue, late>>
      BY <1>2, <2>1 DEF IInv, Open, Clean, Live
    <2>2. CASE late' = (late \/ exec[entry].stop \/ exec[entry].lock)
      <3> SUFFICES ASSUME Clean' PROVE Open'  BY DEF Open
      <3>1. ~late /\ ~exec[entry].stop /\ ~exec[entry].lock /\ raced = {}
        BY <1>2, <2>2 DEF Clean
      <3>2. entry = executor /\ Live(executor)
        BY <1>2, <3>1 DEF IInv, Replaced, Entry, Live
      <3>3. \A t \in Tasks : task[t].what \notin {"stop", "mode", "down"}
        BY <1>2, <3>1 DEF IInv, Leaving
      <3>4. CASE running
        <4>1. \A l \in Loops : task[l] # Idle => Live(task[l].exec)
          BY <3>1, <3>2, <3>4 DEF IInv, OwnLoop
        <4> QED BY <1>2, <3>2, <3>3, <3>4, <4>1 DEF Open, Live
      <3>5. CASE ~running
        <4>1. PICK l \in Loops : task[l].what = "trip" /\ task[l].exec = entry
          BY <1>2, <3>1, <3>5 DEF IInv, Doomed
        <4>2. l \in Tasks /\ task[l] \in TaskRec /\ task[l] # Idle
          BY <1>1, <4>1, TablesTyped, IdleTyped DEF Tasks
        <4>3. task[l].pc \in Owned
          BY <1>1, <4>1, <4>2, IdleTyped DEF TInv, Shapes, Owned, TaskRec
        <4>4. task[l].pc = "lock"
          BY <3>1, <4>1, <4>2, <4>3 DEF IInv, Locks, Holds, Owned
        <4>5. \A k \in Loops : task[k] # Idle => Live(task[k].exec)
          BY <3>1, <3>2, <4>1, <4>2 DEF IInv, OneLoop
        <4> QED BY <1>2, <3>2, <3>3, <4>2, <4>4, <4>5 DEF Open, Live
      <3> QED BY <3>4, <3>5
    <2> QED BY <1>2, <2>1, <2>2
  <1> QED BY <1>1, <1>3, <1>4, <1>5 DEF IInv

LEMMA IInvInit == ASSUME Init PROVE IInv
  <1>1. TInv /\ made = 1 /\ executor = 1 /\ entry = 0 /\ ~running /\ ~venue
    BY TInvInit DEF Init
  <1>2. \A t \in Tasks : task[t] = Idle /\ task[t].pc = "idle"
    BY DEF Init, Idle
  <1>3. Replaced  BY <1>1 DEF Replaced
  <1>4. Locks  BY <1>2 DEF Locks, Holds
  <1>5. Entry /\ Orderly /\ OwnLoop /\ Doomed /\ Leaving /\ Open
    BY <1>1 DEF Entry, Orderly, OwnLoop, Doomed, Leaving, Open
  <1>6. OneLoop  BY <1>2 DEF OneLoop, Tasks
  <1> QED BY <1>1, <1>3, <1>4, <1>5, <1>6 DEF IInv

LEMMA IInvStep == ASSUME IInv, [Next]_vars PROVE IInv'
  <1>1. TInv  BY DEF IInv
  <1>2. CASE UNCHANGED vars
    <2>1. TInv'  BY <1>1, <1>2, LoopTypes
    <2>2. /\ Replaced' /\ Locks' /\ Entry' /\ Orderly' /\ OneLoop' /\ OwnLoop'
          /\ Doomed' /\ Leaving' /\ Open'
      BY <1>2 DEF IInv, vars, Replaced, Locks, Holds, Entry, Orderly, OneLoop, OwnLoop,
                  Doomed, Leaving, Open, Clean, Live
    <2> QED BY <2>1, <2>2 DEF IInv
  <1> QED
    BY <1>1, <1>2, Cases, RunKeeps, SignalKeeps, AnswerKeeps, KillKeeps, EndKeeps, StopKeeps,
       FlattenKeeps, LoopDoneKeeps, LoopKeeps

LEMMA IInvHolds == Spec => []IInv
  BY IInvInit, IInvStep, PTL DEF Spec

(***************************************************************************)
(* The theorems.                                                           *)
(***************************************************************************)

\* An engine that shows as running and is not killed has a loop behind its executor, for
\* any requests, loops and executors, unless run was called inside a stop or KILL ALL.
THEOREM RunningEngineIsDriven == Spec => []RunningIsDriven
  <1>1. IInv => RunningIsDriven
    BY DEF IInv, Orderly, RunningIsDriven, Drives
  <1> QED BY <1>1, IInvHolds, PTL

\* However run, stop and set_mode interleave, the loops that go on are all of the executor
\* of the day: every other has been told to stop.
THEOREM OneExecutorDrives == Spec => []OneExecutor
  <1>1. ASSUME IInv, NEW l \in Loops, Drives(l) PROVE task[l].exec = executor
    <2>1. task[l].exec \in 1..made
      BY <1>1 DEF IInv, TInv, Shapes, Drives
    <2> QED BY <1>1, <2>1 DEF IInv, Replaced, Drives
  <1>2. IInv => OneExecutor  BY <1>1 DEF OneExecutor
  <1> QED BY <1>2, IInvHolds, PTL

\* A stopped engine has left nothing open on the venue but what filled after its stop,
\* when run waits for earlier stops and loops: whatever opens before the stop is the live
\* executor's, and its flatten is over only once it is closed.
THEOREM StopLeavesNothingOpen == Spec => []StoppedIsFlat
  <1>1. IInv => StoppedIsFlat
    BY DEF IInv, Open, Clean, StoppedIsFlat, Stopping
  <1> QED BY <1>1, IInvHolds, PTL

\* No simulated close ever takes a live position off state.positions, under the same
\* condition: while it is open every loop is a live executor's.
THEOREM LivePositionsStayLive == Spec => LiveIsNotSimulated
  <1>1. ASSUME IInv, [Next]_vars, EmergencyClose, venue, pos = "live", pos' = "none"
        PROVE  ~venue' \/ late \/ raced # {}
    <2> SUFFICES ASSUME Clean, venue' PROVE FALSE  BY <1>1 DEF Clean
    <2>1. TInv /\ Clean /\ venue  BY <1>1 DEF IInv
    <2>2. CASE \E l \in Loops : PaperTick(l) \/ LiveTick(l)
      <3>1. PICK l \in Loops : PaperTick(l) \/ LiveTick(l)  BY <2>2
      <3>2. task[l].pc = "tick"  BY <2>1, <3>1, Ticks
      <3>3. Live(task[l].exec)
        BY <1>1, <2>1, <3>2, IdleTyped DEF IInv, TInv, Open
      <3> QED BY <1>1, <2>1, <3>1, <3>3, Ticks
    <2>3. CASE \E t \in Tasks : FlattenLock(t) \/ FlattenCloses(t)
      BY <1>1, <2>1, <2>3, Locking, Closing DEF trade
    <2>4. CASE Run \/ Signal \/ Answer \/ UNCHANGED vars
      BY <1>1, <2>1, <2>4, Runs, Signals, Answers DEF trade, vars
    <2>5. CASE \E r \in Requests : KillAll(r) \/ RequestEnds(r)
      BY <1>1, <2>1, <2>5, Kills, RequestDone DEF trade, Ends
    <2>6. ASSUME NEW r \in Requests, NEW what \in {"stop", "mode", "down"},
                 NEW mode \in Modes \cup {"none"}, Stopper(r, what, mode)
          PROVE  FALSE
      <3>1. Stop(r, what, mode) /\ (what = "mode" => mode \in Modes /\ made < MaxExecs)
        BY <2>1, <2>6, Stoppers
      <3>2. pos' = pos  BY <2>1, <3>1, Stops DEF trade, Ends
      <3> QED BY <1>1, <3>2
    <2>7. CASE \E l \in Loops : LoopFlattened(l) \/ LoopWakes(l) \/ Trip(l)
      BY <1>1, <2>1, <2>7, LoopDone, Wakes, Trips DEF trade
    <2> QED BY <1>1, <2>1, <2>2, <2>3, <2>4, <2>5, <2>6, <2>7, Cases
  <1>2. IInv /\ [Next]_vars =>
          [EmergencyClose /\ venue /\ pos = "live" /\ pos' = "none" =>
             ~venue' \/ late \/ raced # {}]_vars
    BY <1>1
  <1> QED BY <1>2, IInvHolds, PTL DEF Spec, LiveIsNotSimulated

=================================================================================
