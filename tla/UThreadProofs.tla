--------------------------- MODULE UThreadProofs ---------------------------
(***************************************************************************)
(* For any number of controllers: start() starts one worker, and after     *)
(* pause() at most one callback ends.  For a thread object with one        *)
(* controller: when stop() or the destructor has returned the worker is    *)
(* done with the object.                                                   *)
(***************************************************************************)
EXTENDS UThread, TLAPS

\* The labels at which a controller holds _t_mutex.
Locked == {"startset", "exect", "setpid", "resumeset", "pauseset"}

\* _t_mutex is held at those labels, and before the start nothing has happened.
\* The worker reports stopped only when it is done.
CInv ==
    /\ TypeOK
    /\ \A c \in Controllers : cpc[c] \in Locked <=> mutex = c
    /\ \A c \in Controllers :
         /\ cpc[c] = "startset" => state = "not_running"
         /\ cpc[c] \in CPCs \ {"idle", "startset"} => state # "not_running"
         /\ cpc[c] = "exect" => wpc = "none"
    /\ state = "not_running" => wpc = "none"
    /\ state = "stopped" => wpc \in {"exiting", "gone"}

\* The return of stop() in a controller outside _t_mutex keeps the invariant.
LEMMA StopReturnsCInv ==
  ASSUME CInv, NEW c \in Controllers, cpc[c] \in {"stopcheck", "stopwait"},
         StopReturns(c, TRUE)
  PROVE  CInv'
  <1>1. freed' \in BOOLEAN /\ stopReturned' \in BOOLEAN
    BY Zenon DEF StopReturns, CInv, TypeOK
  <1>2. UNCHANGED <<state, mutex, pid, alive, error, wpc, dying, late>>
        /\ cpc' = [cpc EXCEPT ![c] = "idle"]
    BY DEF StopReturns, Goto
  <1>3. QED
    BY <1>1, <1>2, ActorAssumption DEF CInv, TypeOK, CPCs, Locked

\* Initially no call is open and there is no worker.
LEMMA InitCInv == Init => CInv
  <1> SUFFICES ASSUME Init PROVE CInv
    OBVIOUS
  <1>1. pid \in BOOLEAN /\ alive \in BOOLEAN /\ error \in BOOLEAN
        /\ dying \in BOOLEAN /\ freed \in BOOLEAN /\ stopReturned \in BOOLEAN
    BY Zenon DEF Init
  <1>2. state \in States /\ mutex = Nobody /\ wpc = "none" /\ late \in 0..2
        /\ cpc \in [Controllers -> CPCs] /\ state = "not_running"
        /\ \A c \in Controllers : cpc[c] = "idle"
    BY DEF Init, States, CPCs
  <1>3. QED
    BY <1>1, <1>2, ActorAssumption DEF CInv, TypeOK, WPCs, Locked

\* Every step keeps it.
LEMMA StepCInv == CInv /\ [Next]_vars => CInv'
  <1> SUFFICES ASSUME CInv, [Next]_vars PROVE CInv'
    OBVIOUS
  <1> USE ActorAssumption DEF CInv, TypeOK, States, CPCs, WPCs, Locked, Goto, WGoto, controls
  <1>1. ASSUME NEW c \in Controllers, Start(c) \/ Resume(c) \/ Pause(c) PROVE CInv'
    BY <1>1 DEF Start, Resume, Pause, Switch
  <1>2. ASSUME NEW c \in Controllers, StartSet(c) PROVE CInv'
    BY <1>2 DEF StartSet
  <1>3. ASSUME NEW c \in Controllers, Exect(c) PROVE CInv'
    BY <1>3 DEF Exect
  <1>4. ASSUME NEW c \in Controllers, SetPid(c) PROVE CInv'
    BY <1>4 DEF SetPid
  <1>5. ASSUME NEW c \in Controllers, ResumeSet(c) PROVE CInv'
    BY <1>5 DEF ResumeSet
  <1>6. ASSUME NEW c \in Controllers, PauseSet(c) PROVE CInv'
    BY <1>6 DEF PauseSet
  <1>7. ASSUME NEW c \in Controllers, NEW last \in BOOLEAN, Stop(c, last) PROVE CInv'
    <2>1. dying' \in BOOLEAN /\ freed' \in BOOLEAN
      BY <1>7, Zenon DEF Stop
    <2>2. \/ cpc' = [cpc EXCEPT ![c] = "stopcheck"] /\ state # "not_running"
          \/ cpc' = cpc
      BY <1>7 DEF Stop
    <2>3. UNCHANGED <<state, mutex, pid, alive, error, wpc, stopReturned, late>>
          /\ cpc[c] = "idle"
      BY <1>7 DEF Stop
    <2>4. QED
      BY <2>1, <2>2, <2>3
  <1>8. ASSUME NEW c \in Controllers, StopCheck(c) PROVE CInv'
    <2>1. CASE StopReturns(c, TRUE)
      BY <1>8, <2>1, StopReturnsCInv DEF StopCheck
    <2>2. CASE ~StopReturns(c, TRUE)
      <3>1. /\ cpc[c] = "stopcheck" /\ state # "stopped"
            /\ cpc' = [cpc EXCEPT ![c] = "stopset"]
            /\ UNCHANGED <<state, mutex, pid, alive, error, wpc, dying, freed, stopReturned, late>>
        BY <1>8, <2>2 DEF StopCheck
      <3>2. QED
        BY <3>1
    <2>3. QED
      BY <2>1, <2>2
  <1>9. ASSUME NEW c \in Controllers, StopSet(c) PROVE CInv'
    BY <1>9 DEF StopSet
  <1>10. ASSUME NEW c \in Controllers, StopWait(c) PROVE CInv'
    BY <1>10, StopReturnsCInv DEF StopWait
  <1>11. CASE Active \/ Active2 \/ Mode \/ Sleep
    BY <1>11 DEF Active, Active2, Mode, Sleep
  <1>12. CASE Trigger
    BY <1>12 DEF Trigger
  <1>13. CASE SetError
    BY <1>13 DEF SetError
  <1>14. CASE Finish
    BY <1>14 DEF Finish
  <1>15. CASE Exit
    BY <1>15 DEF Exit
  <1>16. CASE UNCHANGED vars
    BY <1>16 DEF vars
  <1>17. QED
    BY <1>1, <1>2, <1>3, <1>4, <1>5, <1>6, <1>7, <1>8, <1>9, <1>10, <1>11,
       <1>12, <1>13, <1>14, <1>15, <1>16 DEF Next, WorkerStep, InCall

\* The invariant holds in every reachable state.
LEMMA AlwaysCInv == Spec => []CInv
  BY InitCInv, StepCInv, PTL DEF Spec

\* The fields of the object and the controllers' progress keep their types.
THEOREM TypeCorrect == Spec => []TypeOK
  <1>1. CInv => TypeOK
    BY DEF CInv
  <1>2. QED
    BY <1>1, AlwaysCInv, PTL

\* Concurrent start() calls start one worker, whatever else is going on.
THEOREM StartsOneWorker == Spec => []OneWorker
  <1>1. CInv => OneWorker
    BY DEF CInv, OneWorker, Locked
  <1>2. QED
    BY <1>1, AlwaysCInv, PTL

-----------------------------------------------------------------------------

\* Once a callback has ended under a pause, the worker is in no other one.
PInv ==
    /\ late \in {0, 1}
    /\ late = 1 /\ state = "paused" => wpc # "trigger"

\* Every step keeps it: only PauseSet makes the state paused, and it starts
\* the count again; only Mode leads to a callback, and not under a pause.
LEMMA StepPInv == PInv /\ [Next]_vars => PInv'
  <1> SUFFICES ASSUME PInv, [Next]_vars PROVE PInv'
    OBVIOUS
  <1> USE DEF PInv
  <1>1. ASSUME NEW c \in Controllers, PauseSet(c) PROVE PInv'
    BY <1>1 DEF PauseSet
  <1>2. ASSUME NEW c \in Controllers, StartSet(c) \/ ResumeSet(c) \/ StopSet(c)
        PROVE  PInv'
    BY <1>2 DEF StartSet, ResumeSet, StopSet
  <1>3. ASSUME NEW c \in Controllers, Exect(c) PROVE PInv'
    BY <1>3 DEF Exect
  <1>4. ASSUME NEW c \in Controllers,
               Start(c) \/ Resume(c) \/ Pause(c) \/ SetPid(c) \/ StopCheck(c) \/ StopWait(c)
        PROVE  PInv'
    <2>1. UNCHANGED <<state, wpc, late>>
      BY <1>4 DEF Start, Resume, Pause, Switch, SetPid, StopCheck, StopWait, StopReturns
    <2>2. QED
      BY <2>1
  <1>5. ASSUME NEW c \in Controllers, NEW last \in BOOLEAN, Stop(c, last) PROVE PInv'
    BY <1>5 DEF Stop
  <1>6. CASE Trigger
    BY <1>6 DEF Trigger, WGoto
  <1>7. CASE Mode
    BY <1>7 DEF Mode, WGoto
  <1>8. CASE Active \/ Active2 \/ Sleep \/ SetError
    BY <1>8 DEF Active, Active2, Sleep, SetError, WGoto
  <1>9. CASE Finish \/ Exit
    BY <1>9 DEF Finish, Exit, WGoto
  <1>10. CASE UNCHANGED vars
    BY <1>10 DEF vars
  <1>11. QED
    BY <1>1, <1>2, <1>3, <1>4, <1>5, <1>6, <1>7, <1>8, <1>9, <1>10
       DEF Next, WorkerStep, InCall

\* After pause() has returned at most the callback under way is finished,
\* whatever other controllers do.
THEOREM PauseIsQuiet == Spec => []PauseQuiesces
  <1>1. Init => PInv
    BY DEF Init, PInv
  <1>2. PInv => PauseQuiesces
    BY DEF PInv, PauseQuiesces
  <1>3. QED
    BY <1>1, <1>2, StepPInv, PTL DEF Spec

-----------------------------------------------------------------------------

\* With one controller: a worker that uses the object has a process stop() can
\* wait for, and no call starts one after stop() or in the destructor.
SInv ==
    /\ UsesObject => alive /\ (pid \/ \E c \in Controllers : cpc[c] = "setpid")
    /\ freed => dying
    /\ dying => \A c \in Controllers : cpc[c] \notin Locked
    /\ stopReturned =>
         state # "not_running" /\ \A c \in Controllers : cpc[c] \notin {"startset", "exect"}
    /\ NoUseAfterFree
    /\ QuietAfterStop

\* Initially there is no worker, and no stop has returned.
LEMMA InitSInv == Init => SInv
  BY DEF Init, SInv, UsesObject, NoUseAfterFree, QuietAfterStop, Locked

\* stop() of a started thread returns to the only controller: the worker has
\* reported stopped, or its process is gone.
LEMMA StopReturnsSInv ==
  ASSUME NEW k, Controllers = {k}, CInv, SInv, StopReturns(k, TRUE),
         cpc[k] \in {"stopcheck", "stopwait"},
         state = "stopped" \/ ~(pid /\ alive)
  PROVE  SInv'
  <1>1. /\ UNCHANGED <<state, mutex, pid, alive, error, wpc, dying, late>>
        /\ cpc' = [cpc EXCEPT ![k] = "idle"]
        /\ freed' = dying
    BY DEF StopReturns, Goto
  <1>2. ~UsesObject
    BY DEF CInv, SInv, UsesObject
  <1>3. cpc'[k] = "idle" /\ state # "not_running"
    BY <1>1 DEF CInv, TypeOK, CPCs
  <1>4. QED
    BY <1>1, <1>2, <1>3 DEF SInv, UsesObject, NoUseAfterFree, QuietAfterStop, Locked

\* Every step keeps the invariant when there is one controller.
LEMMA StepSInv ==
  ASSUME NEW k, Controllers = {k}
  PROVE  CInv /\ SInv /\ [Next]_vars => SInv'
  <1> SUFFICES ASSUME CInv, SInv, [Next]_vars PROVE SInv'
    OBVIOUS
  <1> USE DEF CInv, TypeOK, CPCs, Locked, Goto, WGoto, controls,
              SInv, UsesObject, NoUseAfterFree, QuietAfterStop
  <1>1. CASE Start(k) \/ Resume(k) \/ Pause(k)
    BY <1>1 DEF Start, Resume, Pause, Switch
  <1>2. CASE StartSet(k)
    BY <1>2 DEF StartSet
  <1>3. CASE Exect(k)
    BY <1>3 DEF Exect
  <1>4. CASE SetPid(k)
    BY <1>4 DEF SetPid
  <1>5. CASE ResumeSet(k) \/ PauseSet(k)
    BY <1>5 DEF ResumeSet, PauseSet
  <1>6. ASSUME NEW last \in BOOLEAN, Stop(k, last) PROVE SInv'
    BY <1>6 DEF Stop
  <1>7. CASE StopCheck(k)
    <2>1. CASE state = "stopped" /\ StopReturns(k, TRUE)
      BY <1>7, <2>1, StopReturnsSInv DEF StopCheck
    <2>2. CASE state # "stopped"
      <3>1. /\ cpc' = [cpc EXCEPT ![k] = "stopset"] /\ cpc[k] = "stopcheck"
            /\ UNCHANGED <<state, pid, alive, wpc, dying, freed, stopReturned>>
        BY <1>7, <2>2 DEF StopCheck
      <3>2. QED
        BY <3>1
    <2>3. QED
      BY <1>7, <2>1, <2>2 DEF StopCheck
  <1>8. CASE StopSet(k)
    BY <1>8 DEF StopSet
  <1>9. CASE StopWait(k)
    BY <1>9, StopReturnsSInv DEF StopWait
  <1>10. CASE Active \/ Active2 \/ Mode \/ Trigger \/ Sleep \/ SetError
    BY <1>10 DEF Active, Active2, Mode, Trigger, Sleep, SetError
  <1>11. CASE Finish \/ Exit
    BY <1>11 DEF Finish, Exit
  <1>12. CASE UNCHANGED vars
    BY <1>12 DEF vars
  <1>13. QED
    BY <1>1, <1>2, <1>3, <1>4, <1>5, <1>6, <1>7, <1>8, <1>9, <1>10, <1>11, <1>12
       DEF Next, WorkerStep, InCall

\* When the destructor of a thread object with one controller has returned,
\* the worker never touches the freed object.
THEOREM FreedIsUnused ==
  ASSUME NEW k, Controllers = {k}
  PROVE  Spec => []NoUseAfterFree
  <1>1. CInv /\ SInv /\ [Next]_vars => SInv'
    BY StepSInv
  <1>2. SInv => NoUseAfterFree
    BY DEF SInv
  <1>3. QED
    BY <1>1, <1>2, InitSInv, AlwaysCInv, PTL DEF Spec

\* When stop() has returned to the only controller of a started thread, no
\* callback of it runs or will run.
THEOREM StopIsQuiet ==
  ASSUME NEW k, Controllers = {k}
  PROVE  Spec => []QuietAfterStop
  <1>1. CInv /\ SInv /\ [Next]_vars => SInv'
    BY StepSInv
  <1>2. SInv => QuietAfterStop
    BY DEF SInv
  <1>3. QED
    BY <1>1, <1>2, InitSInv, AlwaysCInv, PTL DEF Spec
=============================================================================
