------------------------------ MODULE UThread ------------------------------
(***************************************************************************)
(* upan::thread and upan::timer_thread (libustd/mthread/thread.cpp and     *)
(* timer_thread.cpp): controllers start, pause, resume, stop and destroy a *)
(* thread object; its worker runs the timer loop.                          *)
(*                                                                         *)
(* _state is atomic, so each get() and set() is a step.  start() and       *)
(* pause() hold _t_mutex from their get() to their set(); stop() and the   *)
(* worker change _state without it.  A call that throws changes nothing    *)
(* and is left out.                                                        *)
(***************************************************************************)
EXTENDS Naturals

CONSTANTS
    Controllers,  \* threads that call the methods of the thread object
    Worker,       \* the thread started by exect
    Nobody        \* owner of a free _t_mutex

ASSUME ActorAssumption == {Worker, Nobody} \cap Controllers = {} /\ Worker # Nobody

VARIABLES
    state,      \* _state
    mutex,      \* owner of _t_mutex
    pid,        \* whether _pid holds the id of the worker (else -1)
    alive,      \* whether the process of the worker exists
    error,      \* whether _error is set
    cpc,        \* cpc[c]: where controller c is
    wpc,        \* where the worker is
    dying,      \* the destructor has been entered
    freed,      \* the destructor has returned
    stopReturned, \* auxiliary: a stop() of a started thread has returned
    late        \* auxiliary: callbacks finished since the last pause()

vars == <<state, mutex, pid, alive, error, cpc, wpc, dying, freed, stopReturned, late>>
controls == <<dying, freed, stopReturned>>

States == {"not_running", "running", "paused", "stopping", "stopped"}
CPCs == {"idle", "startset", "exect", "setpid", "resumeset", "pauseset",
         "stopcheck", "stopset", "stopwait"}
WPCs == {"none", "active", "active2", "mode", "trigger", "sleep", "error",
         "finish", "exiting", "gone"}

TypeOK ==
    /\ state \in States
    /\ mutex \in Controllers \cup {Worker, Nobody}
    /\ pid \in BOOLEAN /\ alive \in BOOLEAN /\ error \in BOOLEAN
    /\ cpc \in [Controllers -> CPCs]
    /\ wpc \in WPCs
    /\ dying \in BOOLEAN /\ freed \in BOOLEAN /\ stopReturned \in BOOLEAN
    /\ late \in 0..2

Init ==
    /\ state = "not_running"
    /\ mutex = Nobody
    /\ pid = FALSE /\ alive = FALSE /\ error = FALSE
    /\ cpc = [c \in Controllers |-> "idle"]
    /\ wpc = "none"
    /\ dying = FALSE /\ freed = FALSE /\ stopReturned = FALSE
    /\ late = 0

-----------------------------------------------------------------------------
(* start() and pause() *)

Goto(c, l) == cpc' = [cpc EXCEPT ![c] = l]

\* Mutant of Switch: without _t_mutex.
SwitchUnlocked(c, from, l) ==
    /\ cpc[c] = "idle" /\ ~dying
    /\ state = from
    /\ mutex' = c
    /\ Goto(c, l)
    /\ UNCHANGED <<state, pid, alive, error, wpc, controls, late>>

\* mutex_guard g(_t_mutex), then the switch on _state.get(): from takes the
\* case of from to label l.
Switch(c, from, l) ==
    /\ cpc[c] = "idle" /\ ~dying
    /\ mutex = Nobody
    /\ state = from
    /\ mutex' = c
    /\ Goto(c, l)
    /\ UNCHANGED <<state, pid, alive, error, wpc, controls, late>>

Start(c) == Switch(c, "not_running", "startset")
Resume(c) == Switch(c, "paused", "resumeset")
Pause(c) == Switch(c, "running", "pauseset")

\* _state.set(running), before the worker exists.
StartSet(c) ==
    /\ cpc[c] = "startset"
    /\ state' = "running"
    /\ Goto(c, "exect")
    /\ UNCHANGED <<mutex, pid, alive, error, wpc, controls, late>>

\* exect: the worker may run before exect returns; or there is no new process.
Exect(c) ==
    /\ cpc[c] = "exect"
    /\ \/ alive' = TRUE /\ wpc' = "active" /\ Goto(c, "setpid") /\ UNCHANGED mutex
       \/ UNCHANGED <<alive, wpc>> /\ Goto(c, "idle") /\ mutex' = Nobody
    /\ UNCHANGED <<state, pid, error, controls, late>>

SetPid(c) ==
    /\ cpc[c] = "setpid"
    /\ pid' = TRUE
    /\ mutex' = Nobody
    /\ Goto(c, "idle")
    /\ UNCHANGED <<state, alive, error, wpc, controls, late>>

ResumeSet(c) ==
    /\ cpc[c] = "resumeset"
    /\ state' = "running"
    /\ mutex' = Nobody
    /\ Goto(c, "idle")
    /\ UNCHANGED <<pid, alive, error, wpc, controls, late>>

PauseSet(c) ==
    /\ cpc[c] = "pauseset"
    /\ state' = "paused"
    /\ late' = 0
    /\ mutex' = Nobody
    /\ Goto(c, "idle")
    /\ UNCHANGED <<pid, alive, error, wpc, controls>>

-----------------------------------------------------------------------------
(* stop() and the destructor *)

\* stop() returns in controller c: of a started thread, or of one that never
\* ran; when the destructor called it, the object goes away.
StopReturns(c, started) ==
    /\ Goto(c, "idle")
    /\ stopReturned' = (stopReturned \/ started)
    /\ freed' = dying
    /\ UNCHANGED <<state, mutex, pid, alive, error, wpc, dying, late>>

\* stop(), called directly or (last is TRUE) by the destructor, which needs
\* the object for itself: the first half of its test.
Stop(c, last) ==
    /\ cpc[c] = "idle" /\ ~dying
    /\ last => \A d \in Controllers : cpc[d] = "idle"
    /\ dying' = last
    /\ IF state = "not_running"
       THEN freed' = last /\ UNCHANGED cpc
       ELSE Goto(c, "stopcheck") /\ UNCHANGED freed
    /\ UNCHANGED <<state, mutex, pid, alive, error, wpc, stopReturned, late>>

\* Mutant of StopCheck: a paused thread is taken for a stopped one.
StopIgnoresPaused(c) ==
    /\ cpc[c] = "stopcheck"
    /\ \/ state \in {"paused", "stopped"} /\ StopReturns(c, TRUE)
       \/ state \notin {"paused", "stopped"} /\ Goto(c, "stopset")
          /\ UNCHANGED <<state, mutex, pid, alive, error, wpc, controls, late>>

\* The second half: _state.get() != stopped.
StopCheck(c) ==
    /\ cpc[c] = "stopcheck"
    /\ \/ state = "stopped" /\ StopReturns(c, TRUE)
       \/ state # "stopped" /\ Goto(c, "stopset")
          /\ UNCHANGED <<state, mutex, pid, alive, error, wpc, controls, late>>

StopSet(c) ==
    /\ cpc[c] = "stopset"
    /\ state' = "stopping"
    /\ Goto(c, "stopwait")
    /\ UNCHANGED <<mutex, pid, alive, error, wpc, controls, late>>

\* Mutant of StopWait: stop() does not wait.
StopWithoutWaiting(c) == cpc[c] = "stopwait" /\ StopReturns(c, TRUE)

\* The wait loop ends: _state is stopped, or isprocessalive(_pid) is false,
\* which it is for a _pid of -1.
StopWait(c) ==
    /\ cpc[c] = "stopwait"
    /\ state = "stopped" \/ ~(pid /\ alive)
    /\ StopReturns(c, TRUE)

-----------------------------------------------------------------------------
(* The worker: thread_callback around timer_thread::run *)

WGoto(l) == wpc' = l /\ UNCHANGED <<mutex, pid, cpc, controls>>

\* is_active(): the first get().
Active ==
    /\ wpc = "active"
    /\ WGoto(IF state = "running" THEN "mode" ELSE "active2")
    /\ UNCHANGED <<state, alive, error, late>>

\* Mutant of Active2: a stopping thread counts as active.
ActiveUntilStopped ==
    /\ wpc = "active2"
    /\ WGoto(IF state # "stopped" THEN "mode" ELSE "finish")
    /\ UNCHANGED <<state, alive, error, late>>

\* is_active(): the second get(); the loop ends when both fail.
Active2 ==
    /\ wpc = "active2"
    /\ WGoto(IF state = "paused" THEN "mode" ELSE "finish")
    /\ UNCHANGED <<state, alive, error, late>>

\* Mutant of Mode: the callback runs whatever the state.
ModeIgnoresPause ==
    /\ wpc = "mode"
    /\ WGoto("trigger")
    /\ UNCHANGED <<state, alive, error, late>>

\* if (state() == running).
Mode ==
    /\ wpc = "mode"
    /\ WGoto(IF state = "running" THEN "trigger" ELSE "sleep")
    /\ UNCHANGED <<state, alive, error, late>>

\* on_timer_trigger() returns or throws.
Trigger ==
    /\ wpc = "trigger"
    /\ WGoto("sleep") \/ WGoto("error")
    /\ late' = IF state = "paused" /\ late < 2 THEN late + 1 ELSE late
    /\ UNCHANGED <<state, alive, error>>

Sleep ==
    /\ wpc = "sleep"
    /\ WGoto("active")
    /\ UNCHANGED <<state, alive, error, late>>

\* set_error in the catch block, a critical section of _t_mutex.
SetError ==
    /\ wpc = "error"
    /\ mutex = Nobody
    /\ error' = TRUE
    /\ WGoto("finish")
    /\ UNCHANGED <<state, alive, late>>

\* The guard's destructor: _state.set(stopped), the last use of the object.
Finish ==
    /\ wpc = "finish"
    /\ state' = "stopped"
    /\ WGoto("exiting")
    /\ UNCHANGED <<alive, error, late>>

Exit ==
    /\ wpc = "exiting"
    /\ alive' = FALSE
    /\ WGoto("gone")
    /\ UNCHANGED <<state, error, late>>

WorkerStep ==
    Active \/ Active2 \/ Mode \/ Trigger \/ Sleep \/ SetError \/ Finish \/ Exit

InCall(c) ==
    StartSet(c) \/ Exect(c) \/ SetPid(c) \/ ResumeSet(c) \/ PauseSet(c)
    \/ StopCheck(c) \/ StopSet(c) \/ StopWait(c)

Next ==
    \/ WorkerStep
    \/ \E c \in Controllers :
         \/ Start(c) \/ Resume(c) \/ Pause(c) \/ InCall(c)
         \/ \E last \in BOOLEAN : Stop(c, last)

Spec == Init /\ [][Next]_vars

\* Worker and controllers keep being scheduled, and callbacks return.
FairSpec == Spec /\ WF_vars(WorkerStep) /\ \A c \in Controllers : WF_vars(InCall(c))

-----------------------------------------------------------------------------

\* The worker has yet to touch the object.
UsesObject == wpc \notin {"none", "exiting", "gone"}

\* However many controllers call start() at once, one worker is started.
OneWorker ==
    \A c \in Controllers : cpc[c] \in {"startset", "exect"} =>
        /\ wpc = "none"
        /\ \A d \in Controllers \ {c} : cpc[d] \notin {"startset", "exect"}

\* Once the destructor has returned the worker does not touch the object.
NoUseAfterFree == freed => ~UsesObject

\* Once a stop() of a started thread has returned no callback runs or will.
QuietAfterStop == stopReturned => ~UsesObject

\* After pause() has returned at most the callback under way is finished.
PauseQuiesces == late <= 1

\* stop() returns, also from a paused thread and when the worker ends by itself.
StopEnds == \A c \in Controllers : cpc[c] = "stopwait" ~> cpc[c] = "idle"

\* The exceptions of start() and pause() say that a thread that is stopping or
\* has stopped "can't run again" and "can't pause" (thread.cpp:83-86, 103).
StopIsNotUndone ==
    [][(state \in {"stopping", "stopped"}) => (state' \in {"stopping", "stopped"})]_vars

\* is_active() is true of a running or paused thread (thread.cpp:110), so the
\* loop of a thread nobody stopped ends only through an error.
LoopEndsOnlyWhenStopped ==
    [][wpc = "active2" /\ wpc' = "finish" => state \notin {"running", "paused"}]_vars
=============================================================================
