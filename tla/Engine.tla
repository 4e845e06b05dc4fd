--------------------------------- MODULE Engine ---------------------------------
(***************************************************************************)
(* The life cycle of the bot, backend/engine.py: run, run_stop, kill_all,   *)
(* set_mode and shutdown, each called by a request of the dashboard, over   *)
(* the executors they create and stop.  An executor keeps its stop flag,    *)
(* its note that a stop has been cleaned up after and its _shutdown_lock;   *)
(* all executors share state.positions.  Replacing the executor starts no   *)
(* loop and ends none: a loop looks at the flag of its own executor when it *)
(* wakes.  A live executor's stop awaits a flatten, during which every      *)
(* other request, loop and entry goes on.                                   *)
(*                                                                          *)
(* One symbol.  What executors do in a tick is reduced to its effect on     *)
(* state.positions and on the venue; RealExecutor and PaperExecutor have    *)
(* the rest, with calls that fail.                                          *)
(*                                                                          *)
(* A definition introduced by "Mutant:" is a wrong form of the one after    *)
(* it, which a property must reject; the specification does not use it.     *)
(***************************************************************************)
EXTENDS Naturals, FiniteSets

CONSTANTS
    Requests,       \* handlers of the dashboard
    Loops,          \* tasks that executors' loops run in
    Modes,          \* the modes set_mode is asked for: "paper", "real", "logger"
    EmergencyClose, \* risk.emergency_close_on_stop
    MaxExecs,       \* bound: executors created
    MaxOps,         \* bound: requests
    MaxEntries      \* bound: entries, simulated and live

ASSUME EngineConstantsOK ==
    /\ Modes \subseteq {"paper", "real", "logger"} /\ EmergencyClose \in BOOLEAN
    /\ {MaxExecs, MaxOps, MaxEntries} \subseteq Nat /\ MaxExecs > 0
    /\ Requests \cap Loops = {} /\ IsFiniteSet(Requests)

VARIABLES
    running,    \* state.engine_running
    kill,       \* state.kill_switch
    down,       \* has shutdown cancelled the tasks?
    executor,   \* Engine.executor: the last one made, or 0 for none (logger)
    made,       \* executors made so far
    exec,       \* the executors' kinds and flags
    task,       \* requests and loops
    entry,      \* the executor the scoring task awaits an entry order of, or 0
    pos,        \* state.positions: none, a simulated or a live one
    venue,      \* is a position open on the venue?
    raced,      \* what run has been called in the middle of: "stop", "loop"
    late,       \* has an entry filled on an executor that stops or flattens?
    ops, entries

vars == <<running, kill, down, executor, made, exec, task, entry, pos, venue, raced, late,
          ops, entries>>
flags == <<running, kill, down, executor, made, raced, ops>>
trade == <<entry, pos, venue, late, entries>>

Execs  == 1..MaxExecs
Tasks  == Requests \cup Loops
Idle   == [pc |-> "idle", what |-> "none", exec |-> 0, mode |-> "none"]
New(k) == [kind |-> k, stop |-> FALSE, clean |-> FALSE, lock |-> FALSE]
Live(e) == e # 0 /\ exec[e].kind = "real"

\* A flatten, and with it the stop that asked for it, is under way.
Stopping == \E t \in Tasks : task[t].pc \in {"lock", "flat", "tail"}
\* What run does not wait for: that stop, and loops of before in their last tick.
Racing   == {x \in {"stop", "loop"} : IF x = "stop" THEN Stopping
                                      ELSE \E l \in Loops : task[l] # Idle}
Shutting == down \/ \E t \in Tasks : task[t].what = "down"

Init ==
    /\ running = FALSE /\ kill = FALSE /\ down = FALSE /\ raced = {} /\ late = FALSE
    /\ made = 1 /\ executor = 1
    /\ exec \in {[e \in Execs |-> New(k)] : k \in Modes \ {"logger"}}
    /\ task = [t \in Tasks |-> Idle]
    /\ entry = 0 /\ pos = "none" /\ venue = FALSE
    /\ ops = 0 /\ entries = 0

(***************************************************************************)
(* Requests.                                                                *)
(***************************************************************************)
Ask == ~down /\ ops < MaxOps /\ ops' = ops + 1

Start(execs) ==
    IF executor = 0 THEN UNCHANGED task /\ exec' = execs
    ELSE \E l \in Loops :
           /\ task[l] = Idle
           /\ task' = [task EXCEPT ![l] = [Idle EXCEPT !.pc = "tick", !.exec = executor]]
           /\ exec' = execs

\* Mutant: run does not clear the stop flag.
RunKeepsStop ==
    /\ Ask /\ ~running
    /\ running' = TRUE /\ kill' = FALSE /\ raced' = raced \cup Racing
    /\ Start(exec)
    /\ UNCHANGED <<down, executor, made, trade>>

\* run does nothing on an engine that runs, killed or not.
Run ==
    /\ Ask /\ ~running
    /\ running' = TRUE /\ kill' = FALSE /\ raced' = raced \cup Racing
    /\ Start([e \in Execs |-> IF e = executor THEN [exec[e] EXCEPT !.stop = FALSE]
                                              ELSE exec[e]])
    /\ UNCHANGED <<down, executor, made, trade>>

\* A free _shutdown_lock is taken without yielding.  execs is exec as the
\* caller leaves it, T its task.
EnterFlatten(t, T, execs) ==
    IF execs[T.exec].lock
    THEN exec' = execs /\ task' = [task EXCEPT ![t] = [T EXCEPT !.pc = "lock"]]
    ELSE /\ exec' = [execs EXCEPT ![T.exec].lock = TRUE]
         /\ task' = [task EXCEPT ![t] = [T EXCEPT !.pc = "flat"]]

\* _configure_executor: the executor of the day is told to stop and replaced.
Stopped(execs) == [e \in Execs |-> IF e = executor THEN [execs[e] EXCEPT !.stop = TRUE]
                                                   ELSE execs[e]]
\* Mutant: the old executor is not told.
ConfigureQuietly(mode, execs) ==
    IF mode = "logger" THEN executor' = 0 /\ exec' = execs /\ UNCHANGED made
    ELSE /\ made' = made + 1 /\ executor' = made'
         /\ exec' = [execs EXCEPT ![made'] = New(mode)]

\* Mutant: the new executor is made and not kept.
ConfigureLost(mode, execs) ==
    IF mode = "logger" THEN executor' = 0 /\ exec' = Stopped(execs) /\ UNCHANGED made
    ELSE /\ made' = made + 1 /\ UNCHANGED executor
         /\ exec' = [Stopped(execs) EXCEPT ![made'] = New(mode)]

Configure(mode, execs) ==
    IF mode = "logger" THEN executor' = 0 /\ exec' = Stopped(execs) /\ UNCHANGED made
    ELSE /\ made' = made + 1 /\ executor' = made'
         /\ exec' = [Stopped(execs) EXCEPT ![made'] = New(mode)]

\* What a request does once the executor it found has flattened: set_mode
\* configures another, kill_all stops whichever is there now.
After(T, execs) ==
    /\ CASE T.what = "mode" -> Configure(T.mode, execs)
         [] T.what = "kill" -> exec' = Stopped(execs) /\ UNCHANGED <<executor, made>>
         [] OTHER           -> exec' = execs /\ UNCHANGED <<executor, made>>

\* shutdown cancels every task; an entry order that is out may still fill.
Cancel(T) ==
    IF T.what = "down"
    THEN /\ down' = TRUE /\ task' = [t \in Tasks |-> Idle] /\ entry' = 0
         /\ \E filled \in {FALSE, entry # 0} :
              venue' = (venue \/ filled) /\ late' = (late \/ filled)
         /\ UNCHANGED <<pos, entries>>
    ELSE UNCHANGED <<down, trade>>

\* Mutant: the stop is noted as cleaned up after and flattens nothing.
StopQuietly(r, what, mode) ==
    LET T == [Idle EXCEPT !.what = what, !.mode = mode, !.exec = executor]
        E == [e \in Execs |-> [Stopped(exec)[e] EXCEPT !.clean = @ \/ e = executor]] IN
    /\ Ask /\ task[r] = Idle
    /\ running' = FALSE
    /\ After(T, E) /\ Cancel(T)
    /\ what # "down" => UNCHANGED task
    /\ UNCHANGED <<kill, raced>>

\* run_stop, alone or as the first half of set_mode and shutdown.
Stop(r, what, mode) ==
    LET T == [Idle EXCEPT !.what = what, !.mode = mode, !.exec = executor] IN
    /\ Ask /\ task[r] = Idle
    /\ running' = FALSE
    /\ IF Live(executor) /\ EmergencyClose
       THEN EnterFlatten(r, T, Stopped(exec)) /\ UNCHANGED <<down, executor, made, trade>>
       ELSE /\ After(T, Stopped(exec)) /\ Cancel(T)
            /\ what # "down" => UNCHANGED task
    /\ UNCHANGED <<kill, raced>>

RunStop(r) == Stop(r, "stop", "none")
SetMode(r) ==
    /\ made + Cardinality({q \in Requests : task[q].what = "mode"}) < MaxExecs
    /\ \E mode \in Modes : Stop(r, "mode", mode)
Shutdown(r) == ~Shutting /\ Stop(r, "down", "none")

\* kill_all leaves running as it is, and in paper mode everything but the flag.
KillAll(r) ==
    /\ Ask /\ task[r] = Idle
    /\ kill' = TRUE
    /\ IF Live(executor)
       THEN EnterFlatten(r, [Idle EXCEPT !.what = "kill", !.exec = executor], exec)
       ELSE UNCHANGED <<exec, task>>
    /\ UNCHANGED <<running, down, executor, made, raced, trade>>

(***************************************************************************)
(* _emergency_flatten_all, for a request or a loop.                         *)
(***************************************************************************)
FlattenLock(t) ==
    /\ task[t].pc = "lock" /\ ~exec[task[t].exec].lock
    /\ EnterFlatten(t, task[t], exec)
    /\ UNCHANGED <<flags, trade>>

FlattenCloses(t) ==
    /\ task[t].pc = "flat"
    /\ venue' = FALSE /\ pos' = "none"
    /\ task' = [task EXCEPT ![t].pc = "tail"]
    /\ UNCHANGED <<flags, exec, entry, late, entries>>

\* The lock is freed and the caller goes on without yielding.
Flattened(t) ==
    LET e == task[t].exec IN
    [exec EXCEPT ![e] = [exec[e] EXCEPT !.lock = FALSE, !.clean = @ \/ task[t].what # "kill",
                                        !.stop = @ \/ task[t].what = "trip"]]

RequestEnds(r) ==
    /\ r \in Requests /\ task[r].pc = "tail"
    /\ After(task[r], Flattened(r)) /\ Cancel(task[r])
    /\ task[r].what # "down" => task' = [task EXCEPT ![r] = Idle]
    /\ UNCHANGED <<running, kill, raced, ops>>

\* A tripped kill check returns to the loop, which sleeps; loop_exit ends it.
LoopFlattened(l) ==
    /\ l \in Loops /\ task[l].pc = "tail"
    /\ exec' = Flattened(l)
    /\ task' = [task EXCEPT ![l] = IF @.what = "exit" THEN Idle
                                   ELSE [@ EXCEPT !.pc = "sleep", !.what = "none"]]
    /\ UNCHANGED <<flags, trade>>

(***************************************************************************)
(* The loops.                                                               *)
(***************************************************************************)
\* A loop looks at the flag between its ticks only.  A live tick that finds a
\* flatten under way returns at once.
LoopWakes(l) ==
    LET e == task[l].exec IN
    /\ l \in Loops /\ task[l].pc = "sleep"
    /\ IF ~exec[e].stop
       THEN ~exec[e].lock /\ task' = [task EXCEPT ![l].pc = "tick"] /\ UNCHANGED exec
       ELSE IF Live(e) /\ EmergencyClose /\ ~exec[e].clean
            THEN EnterFlatten(l, [task[l] EXCEPT !.what = "exit"], exec)
            ELSE task' = [task EXCEPT ![l] = Idle] /\ UNCHANGED exec
    /\ UNCHANGED <<flags, trade>>

InTick(l) == /\ l \in Loops /\ task[l].pc = "tick"
             /\ task' = [task EXCEPT ![l].pc = "sleep"]
             /\ UNCHANGED <<flags, exec, entry, late>>

\* The paper executor closes whatever state.positions holds, in simulation.
PaperTick(l) ==
    /\ InTick(l) /\ ~Live(task[l].exec)
    /\ \/ UNCHANGED <<pos, entries>>
       \/ pos # "none" /\ pos' = "none" /\ UNCHANGED entries
       \/ /\ pos = "none" /\ entries < MaxEntries
          /\ pos' = "sim" /\ entries' = entries + 1
    /\ UNCHANGED venue

\* The live executor recovers, closes, or takes for closed what the venue does
\* not show; a tick that a flatten overtakes goes on.
LiveTick(l) ==
    /\ InTick(l) /\ Live(task[l].exec)
    /\ \/ UNCHANGED <<pos, venue>>
       \/ venue /\ pos = "none" /\ pos' = "live" /\ UNCHANGED venue
       \/ pos # "none" /\ pos' = "none" /\ venue' = FALSE
    /\ UNCHANGED entries

\* A tripped kill check at the end of a tick; in paper mode it is the flag alone.
Trip(l) ==
    LET e == task[l].exec IN
    /\ l \in Loops /\ task[l].pc = "tick" /\ ~kill
    /\ ops < MaxOps /\ ops' = ops + 1
    /\ kill' = TRUE
    /\ IF Live(e)
       THEN running' = FALSE /\ EnterFlatten(l, [task[l] EXCEPT !.what = "trip"], exec)
       ELSE /\ task' = [task EXCEPT ![l].pc = "sleep"]
            /\ UNCHANGED <<running, exec>>
    /\ UNCHANGED <<down, executor, made, raced, trade>>

(***************************************************************************)
(* The scoring task.  It hands a signal to the executor of the moment and   *)
(* awaits the order; the fill is booked, unless the reply is lost, wherever *)
(* things stand by then.                                                    *)
(***************************************************************************)
\* Mutant: on_signal does not look at the flags.
SignalUnchecked ==
    /\ entry = 0 /\ entries < MaxEntries /\ ~kill /\ ~Shutting
    /\ Live(executor) /\ pos = "none"
    /\ entry' = executor /\ entries' = entries + 1
    /\ UNCHANGED <<flags, exec, task, pos, venue, late>>

Signal ==
    /\ entry = 0 /\ entries < MaxEntries /\ running /\ ~kill /\ ~Shutting
    /\ Live(executor) /\ ~exec[executor].stop /\ ~exec[executor].lock /\ pos = "none"
    /\ entry' = executor /\ entries' = entries + 1
    /\ UNCHANGED <<flags, exec, task, pos, venue, late>>

Answer ==
    /\ entry # 0 /\ entry' = 0
    /\ \/ UNCHANGED <<pos, venue, late>>
       \/ /\ venue' = TRUE /\ pos' \in {pos, IF pos = "none" THEN "live" ELSE pos}
          /\ late' = (late \/ exec[entry].stop \/ exec[entry].lock)
    /\ UNCHANGED <<flags, exec, task, entries>>

Requested == \E r \in Requests : RunStop(r) \/ SetMode(r) \/ Shutdown(r) \/ KillAll(r)
Flattening(t) == FlattenLock(t) \/ FlattenCloses(t) \/ RequestEnds(t) \/ LoopFlattened(t)
Ticking(l) == LoopWakes(l) \/ PaperTick(l) \/ LiveTick(l)
Next ==
    \/ Run \/ Requested \/ Signal \/ Answer
    \/ \E t \in Tasks : Flattening(t)
    \/ \E l \in Loops : Ticking(l) \/ Trip(l)

Spec == Init /\ [][Next]_vars

(***************************************************************************)
(* Properties.                                                              *)
(***************************************************************************)
TypeOK ==
    /\ {running, kill, down, venue, late} \subseteq BOOLEAN /\ raced \subseteq {"stop", "loop"}
    /\ made \in Execs /\ executor \in {0, made} /\ entry \in 0..made
    /\ exec \in [Execs -> [kind : {"paper", "real"}, stop : BOOLEAN, clean : BOOLEAN,
                           lock : BOOLEAN]]
    /\ task \in [Tasks -> [pc : {"idle", "tick", "sleep", "lock", "flat", "tail"},
                           what : {"none", "stop", "mode", "down", "kill", "trip", "exit"},
                           exec : 0..made, mode : Modes \cup {"none"}]]
    /\ pos \in {"none", "sim", "live"}
    /\ ops \in 0..MaxOps /\ entries \in 0..MaxEntries

Drives(l) == task[l].pc \in {"tick", "sleep"} /\ ~exec[task[l].exec].stop

\* An engine that shows as running has a loop behind its executor, unless run was
\* called inside another request's stop: set_mode then replaces the executor run has
\* started a loop for, and nothing but a stop makes run start another.
RunningIsDriven ==
    running /\ ~kill /\ ~Stopping /\ executor # 0 /\ "stop" \notin raced =>
        \E l \in Loops : Drives(l) /\ task[l].exec = executor

\* Two executors never drive the shared positions at once.
OneExecutor ==
    \A l, k \in Loops : Drives(l) /\ Drives(k) => task[l].exec = task[k].exec

\* A stopped or shut down engine has left nothing open on the venue but what filled
\* after its stop, unless run was called before an earlier stop or its loops had ended:
\* an old loop that trips then stops the engine and flattens for the old executor only.
StoppedIsFlat ==
    EmergencyClose /\ ~running /\ ~Stopping /\ entry = 0 /\ raced = {} => ~venue \/ late

\* A live position leaves state.positions only when it leaves the venue: the paper
\* executor of a later mode does not find it there and close it in simulation.
LiveIsNotSimulated ==
    [][EmergencyClose /\ venue /\ pos = "live" /\ pos' = "none" =>
         ~venue' \/ late \/ raced # {}]_vars
================================================================================
