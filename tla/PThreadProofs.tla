--------------------------- MODULE PThreadProofs ---------------------------
(***************************************************************************)
(* For any number of threads, keys and condition variables: what join      *)
(* returns, whose the thread-local slots are, that the users of a          *)
(* condition variable agree on its queue, and that init() runs once.       *)
(***************************************************************************)
EXTENDS PThread, TLAPS

\* The empty frame is a frame.
LEMMA NoFrameType == NoFrame \in Frames /\ 0 \in Ids /\ 1 \in Ids
  BY MainAssumption, CondAssumption, ModulusAssumption DEF NoFrame, Frames, CondCalls, Ids

\* Returning calls keep the types.
LEMMA ReturnType ==
  ASSUME CallType, NEW S, Return(S), UNCHANGED uses
  PROVE  CallType'
  BY NoFrameType DEF CallType, Return, PCs

\* The sequence goes up by one, or from the last id to 0.
LEMMA IncrementValue ==
  ASSUME NEW i \in Ids
  PROVE  Increment(i) \in Ids /\ Increment(i) \in {i + 1, 0}
  <1>1. CASE i + 1 < IdModulus
    BY <1>1, ModulusAssumption DEF Ids, Increment
  <1>2. CASE i + 1 = IdModulus
    <2>1. IdModulus % IdModulus = 0
      BY ModulusAssumption
    <2>2. QED
      BY <1>2, <2>1, ModulusAssumption DEF Ids, Increment
  <1>3. QED
    BY <1>1, <1>2, ModulusAssumption DEF Ids

\* The calls of the program keep pc and the frames in their types.
LEMMA CallTypeStep ==
  ASSUME TypeOK, [Next]_vars
  PROVE  CallType'
  <1> USE DEF TypeOK, CallType, Goto, PCs, InCond
  <1>1. ASSUME NEW t \in Threads, NEW p \in Threads, Create(t, p) PROVE CallType'
    <2>1. pc' \in [Threads -> PCs] /\ uses' = uses
      BY <1>1 DEF Create
    <2>2. frame' \in [Threads -> Frames]
      BY <1>1 DEF Create, Frames
    <2>3. QED
      BY <2>1, <2>2
  <1>2. ASSUME NEW t \in Threads, EntryCaller(t) \/ Add(t) PROVE CallType'
    BY <1>2 DEF EntryCaller, Add
  <1>3. ASSUME NEW t \in Threads, NEW v \in Values \cup {Null}, PthreadExit(t, v) PROVE CallType'
    BY <1>3 DEF PthreadExit, Frames
  <1>4. ASSUME NEW t \in Threads, ProcessExit(t) PROVE CallType'
    BY <1>4, NoFrameType DEF ProcessExit
  <1>5. ASSUME NEW t \in Threads, NEW p \in Threads, Join(t, p) PROVE CallType'
    BY <1>5 DEF Join, Frames
  <1>6. ASSUME NEW t \in Threads, WaitPid(t) PROVE CallType'
    <2>1. CASE Return({t})
      BY <1>6, <2>1, ReturnType DEF WaitPid
    <2>2. CASE ~Return({t})
      <3>1. frame[t].peer \in Threads
        BY DEF Frames
      <3>2. given[frame[t].peer] \in Values \cup {Null, Unknown}
        BY <3>1 DEF ThreadType
      <3>3. /\ pc' = [pc EXCEPT ![t] = "consume", ![frame[t].peer] = "free"]
            /\ frame' = [frame EXCEPT ![t].want = given[frame[t].peer]]
            /\ uses' = uses
        BY <1>6, <2>2 DEF WaitPid
      <3>4. QED
        BY <3>1, <3>2, <3>3 DEF Frames
    <2>3. QED
      BY <2>1, <2>2
  <1>7. ASSUME NEW t \in Threads, Consume(t) PROVE CallType'
    BY <1>7, ReturnType DEF Consume
  <1>8. ASSUME NEW t \in Threads, KeyStep(t) PROVE CallType'
    BY <1>8 DEF KeyStep, KeyCreate, SetSpecific, KeyDelete
  <1>9. ASSUME NEW t \in Threads, NEW c \in Conds, NEW op \in CondCalls, CondCall(t, c, op)
        PROVE  CallType'
    <2>0. [frame[t] EXCEPT !.call = op] \in Frames
      BY DEF Frames
    <2>1. [frame[t] EXCEPT !.call = op, !.cond = c] \in Frames
      BY <2>0 DEF Frames
    <2>2. frame' = [frame EXCEPT ![t] = [frame[t] EXCEPT !.call = op, !.cond = c]]
      BY <1>9 DEF CondCall
    <2>3. pc' \in [Threads -> PCs] /\ uses' = uses
      BY <1>9 DEF CondCall
    <2>4. QED
      BY <2>1, <2>2, <2>3
  <1>10. ASSUME NEW t \in Threads, ReadId(t) PROVE CallType'
    BY <1>10 DEF ReadId, Frames, CondType
  <1>11. ASSUME NEW t \in Threads, DrawId(t) PROVE CallType'
    BY <1>11 DEF DrawId, Frames, CondType
  <1>12. ASSUME NEW t \in Threads, SwapId(t) PROVE CallType'
    <2>1. WinnersId(condId[frame[t].cond], frame[t].id) \in Ids
      BY DEF WinnersId, Frames, CondType
    <2>2. QED
      BY <1>12, <2>1 DEF SwapId, Frames
  <1>13. ASSUME NEW t \in Threads, SetId(t) \/ EndWait(t) PROVE CallType'
    BY <1>13, ReturnType DEF SetId, EndWait
  <1>14. ASSUME NEW t \in Threads, WaitQueue(t) PROVE CallType'
    BY <1>14 DEF WaitQueue
  <1>15. ASSUME NEW t \in Threads, WaitDequeue(t) PROVE CallType'
    <2>1. \E S : Return(S)
      BY <1>15 DEF WaitDequeue
    <2>2. QED
      BY <1>15, <2>1, ReturnType DEF WaitDequeue
  <1>16. ASSUME NEW t \in Threads, OnceCall(t) PROVE CallType'
    BY <1>16 DEF OnceCall, Branch, OnceType
  <1>17. ASSUME NEW t \in Threads, OnceStep(t) PROVE CallType'
    BY <1>17 DEF OnceStep, InitEnds, OnceDone, OnceSpin
  <1>18. CASE UNCHANGED vars
    BY <1>18 DEF vars
  <1>19. QED
    BY <1>1, <1>2, <1>3, <1>4, <1>5, <1>6, <1>7, <1>8, <1>9, <1>10, <1>11, <1>12,
       <1>13, <1>14, <1>15, <1>16, <1>17, <1>18 DEF Next, ThreadStep, CondStep

\* The other variables keep their types.
LEMMA DataTypeStep ==
  ASSUME TypeOK, [Next]_vars
  PROVE  ThreadType' /\ KeyType' /\ CondType' /\ OnceType'
  <1> USE DEF TypeOK, threadVars, keyVars, condVars, onceVars
  <1>1. ASSUME NEW t \in Threads PROVE frame[t] \in Frames
    BY DEF CallType
  <1>2. ThreadType'
    <2>1. ASSUME NEW t \in Threads, NEW p \in Threads, Create(t, p) PROVE ThreadType'
      BY <2>1 DEF Create, ThreadType
    <2>2. ASSUME NEW t \in Threads, Add(t) PROVE ThreadType'
      BY <2>2, <1>1 DEF Add, AssignedEntry, ThreadType, Frames
    <2>3. ASSUME NEW t \in Threads, Consume(t) PROVE ThreadType'
      BY <2>3, <1>1 DEF Consume, ThreadType, Frames
    <2>4. CASE UNCHANGED threadVars
      BY <2>4 DEF ThreadType
    <2>5. ASSUME NEW t \in Threads, ThreadStep(t), ~UNCHANGED threadVars PROVE ThreadType'
      BY <2>1, <2>2, <2>3, <2>5
         DEF ThreadStep, EntryCaller, ProcessExit, WaitPid, Join, PthreadExit
    <2>6. ASSUME NEW t \in Threads, KeyStep(t) \/ CondStep(t) PROVE ThreadType'
      BY <2>6, <2>4 DEF KeyStep, KeyCreate, SetSpecific, KeyDelete, CondStep, CondCall, ReadId,
                   DrawId, SwapId, SetId, WaitQueue, WaitDequeue, EndWait
    <2>7. ASSUME NEW t \in Threads, OnceCall(t) \/ OnceStep(t) PROVE ThreadType'
      BY <2>7, <2>4 DEF OnceCall, OnceStep, InitEnds, OnceDone, OnceSpin
    <2>8. QED
      BY <2>4, <2>5, <2>6, <2>7 DEF Next, vars
  <1>3. KeyType'
    <2>1. ASSUME NEW t \in Threads, NEW p \in Threads, Create(t, p) PROVE KeyType'
      BY <2>1 DEF Create, KeyType
    <2>2. ASSUME NEW t \in Threads, EntryCaller(t) PROVE KeyType'
      BY <2>2 DEF EntryCaller, ClearedSlots, EmptySlot, Slot, KeyType
    <2>3. ASSUME NEW t \in Threads, NEW k \in Keys, NEW d \in BOOLEAN, KeyCreate(t, k, d)
          PROVE  KeyType'
      <3>1. [destructor |-> d, value |-> Null] \in Slot
        BY Zenon DEF Slot
      <3>2. QED
        BY <2>3, <3>1 DEF KeyCreate, KeyType
    <2>4. ASSUME NEW t \in Threads, NEW k \in Keys, NEW v \in Values \cup {Null},
                 SetSpecific(t, k, v)
          PROVE  KeyType'
      <3>1. local[t] \in [Keys -> Slot] /\ local[t][k] \in Slot
        BY DEF KeyType
      <3>2. [local[t][k] EXCEPT !.value = v] \in Slot
        BY <3>1 DEF Slot
      <3>3. [local[t] EXCEPT ![k].value = v] \in [Keys -> Slot]
        BY <3>1, <3>2
      <3>4. local' = [local EXCEPT ![t] = [local[t] EXCEPT ![k].value = v]]
        BY <2>4 DEF SetSpecific
      <3>5. QED
        BY <2>4, <3>3, <3>4 DEF SetSpecific, KeyType
    <2>5. ASSUME NEW t \in Threads, NEW k \in Keys, KeyDelete(t, k) PROVE KeyType'
      BY <2>5 DEF KeyDelete, KeyType
    <2>6. CASE UNCHANGED keyVars
      BY <2>6 DEF KeyType
    <2>7. ASSUME NEW t \in Threads, ThreadStep(t) PROVE KeyType'
      BY <2>1, <2>2, <2>6, <2>7
         DEF ThreadStep, Add, Consume, ProcessExit, WaitPid, Join, PthreadExit
    <2>8. ASSUME NEW t \in Threads, KeyStep(t) PROVE KeyType'
      BY <2>3, <2>4, <2>5, <2>8 DEF KeyStep
    <2>9. ASSUME NEW t \in Threads, CondStep(t) PROVE KeyType'
      BY <2>9, <2>6 DEF CondStep, CondCall, ReadId,
                   DrawId, SwapId, SetId, WaitQueue, WaitDequeue, EndWait
    <2>10. ASSUME NEW t \in Threads, OnceCall(t) \/ OnceStep(t) PROVE KeyType'
      BY <2>10, <2>6 DEF OnceCall, OnceStep, InitEnds, OnceDone, OnceSpin
    <2>11. QED
      BY <2>6, <2>7, <2>8, <2>9, <2>10 DEF Next, vars
  <1>4. CondType'
    <2>1. ASSUME NEW t \in Threads, DrawId(t) PROVE CondType'
      <3>1. wrapped' \in BOOLEAN /\ condId' = condId /\ seq' = Increment(seq)
        BY <2>1, Zenon DEF DrawId, CondType
      <3>2. QED
        BY <3>1, IncrementValue DEF CondType
    <2>2. ASSUME NEW t \in Threads, SwapId(t) PROVE CondType'
      BY <2>2, <1>1 DEF SwapId, CondType, Frames
    <2>3. ASSUME NEW t \in Threads, SetId(t) PROVE CondType'
      BY <2>3, <1>1 DEF SetId, CondType, Frames
    <2>4. CASE UNCHANGED condVars
      BY <2>4 DEF CondType
    <2>5. ASSUME NEW t \in Threads, CondStep(t) PROVE CondType'
      BY <2>1, <2>2, <2>3, <2>4, <2>5
         DEF CondStep, CondCall, ReadId, WaitQueue, WaitDequeue, EndWait
    <2>6. ASSUME NEW t \in Threads, ThreadStep(t) PROVE CondType'
      BY <2>4, <2>6 DEF ThreadStep, Create, EntryCaller, Add, Consume, ProcessExit, WaitPid,
                   Join, PthreadExit
    <2>7. ASSUME NEW t \in Threads, KeyStep(t) \/ OnceCall(t) \/ OnceStep(t) PROVE CondType'
      BY <2>4, <2>7 DEF KeyStep, KeyCreate, SetSpecific, KeyDelete,
                   OnceCall, OnceStep, InitEnds, OnceDone, OnceSpin
    <2>8. QED
      BY <2>4, <2>5, <2>6, <2>7 DEF Next, vars
  <1>5. OnceType'
    <2>1. ASSUME NEW t \in Threads, OnceCall(t) PROVE OnceType'
      <3>1. passed' \in BOOLEAN
        BY <2>1, Zenon DEF OnceCall, OnceType
      <3>2. /\ once' = IF once = 0 THEN 1 ELSE once
            /\ inits' = IF once = 0 THEN inits + 1 ELSE inits
            /\ init' = init
        BY <2>1 DEF OnceCall
      <3>3. QED
        BY <3>1, <3>2 DEF OnceType
    <2>2. ASSUME NEW t \in Threads, OnceStep(t) PROVE OnceType'
      <3>1. passed' \in BOOLEAN
        BY <2>2, Zenon DEF OnceStep, InitEnds, OnceDone, OnceSpin, OnceType
      <3>2. /\ once' \in {once, 2}
            /\ inits' = inits
            /\ init' \in {init, "returned", "threw"}
        BY <2>2 DEF OnceStep, InitEnds, OnceDone, DoneWord, OnceSpin
      <3>3. QED
        BY <3>1, <3>2 DEF OnceType
    <2>3. CASE UNCHANGED onceVars
      BY <2>3 DEF OnceType
    <2>4. ASSUME NEW t \in Threads, ThreadStep(t) PROVE OnceType'
      BY <2>3, <2>4 DEF ThreadStep, Create, EntryCaller, Add, Consume, ProcessExit, WaitPid,
                   Join, PthreadExit
    <2>5. ASSUME NEW t \in Threads, KeyStep(t) \/ CondStep(t) PROVE OnceType'
      BY <2>3, <2>5 DEF KeyStep, KeyCreate, SetSpecific, KeyDelete, CondStep, CondCall, ReadId,
                   DrawId, SwapId, SetId, WaitQueue, WaitDequeue, EndWait
    <2>6. QED
      BY <2>1, <2>2, <2>3, <2>4, <2>5 DEF Next, vars
  <1>6. QED
    BY <1>2, <1>3, <1>4, <1>5

\* The first state has the types.
LEMMA InitType == ASSUME Init PROVE TypeOK
  <1>1. CallType
    <2>1. uses \in SUBSET APIs
      BY ProgramAssumption DEF Init
    <2>2. QED
      BY <2>1, NoFrameType DEF Init, CallType, PCs
  <1>2. wrapped \in BOOLEAN /\ passed \in BOOLEAN
    BY Zenon DEF Init
  <1>3. ThreadType /\ KeyType
    BY DEF Init, ThreadType, KeyType, EmptySlot, Slot
  <1>4. CondType /\ OnceType
    BY <1>2, NoFrameType DEF Init, CondType, OnceType
  <1>5. QED
    BY <1>1, <1>3, <1>4 DEF TypeOK

\* The library's variables and the program counters keep their types; the
\* id sequence stays in its width.
THEOREM TypeCorrect == Spec => []TypeOK
  <1>1. TypeOK /\ [Next]_vars => TypeOK'
    BY CallTypeStep, DataTypeStep DEF TypeOK
  <1>2. QED
    BY <1>1, InitType, PTL DEF Spec

-----------------------------------------------------------------------------

\* The word is 0 until the one call of init(), and whoever is past init()
\* knows that it has returned.
OnceInv ==
    /\ inits <= 1 /\ (once = 0 => inits = 0 /\ init = "open")
    /\ (passed \/ once = 2) => init = "returned"
    /\ \A t \in Threads :
         /\ pc[t] = "init" => once = 1 /\ init = "open"
         /\ pc[t] = "setonce" => once = 1 /\ init = "returned"
         /\ \A u \in Threads :
              pc[t] \in {"init", "setonce"} /\ pc[u] \in {"init", "setonce"} => t = u

\* Steps that leave pthread_once alone keep it.
LEMMA OnceOther ==
  ASSUME TypeOK, OnceInv, UNCHANGED onceVars,
         \A t \in Threads : pc'[t] \in {"init", "setonce"} => pc'[t] = pc[t]
  PROVE  OnceInv'
  BY DEF OnceInv, onceVars, TypeOK

\* Every step keeps it.
LEMMA OnceInvStep ==
  ASSUME TypeOK, OnceInv, [Next]_vars
  PROVE  OnceInv'
  <1> DEFINE Apart == \A t \in Threads : pc'[t] \in {"init", "setonce"} => pc'[t] = pc[t]
  <1> USE DEF TypeOK, CallType, Goto
  <1>1. ASSUME NEW t \in Threads, ThreadStep(t) PROVE Apart /\ UNCHANGED onceVars
    <2>1. CASE Create(t, t) \/ EntryCaller(t) \/ Add(t) \/ ProcessExit(t)
      BY <2>1 DEF Create, EntryCaller, Add, ProcessExit
    <2>2. ASSUME NEW p \in Threads, Create(t, p) \/ Join(t, p)
          PROVE  Apart /\ UNCHANGED onceVars
      BY <2>2 DEF Create, Join
    <2>3. CASE WaitPid(t) \/ Consume(t)
      BY <2>3 DEF WaitPid, Consume, Return
    <2>4. ASSUME NEW v, PthreadExit(t, v) PROVE Apart /\ UNCHANGED onceVars
      BY <2>4 DEF PthreadExit
    <2>5. QED
      BY <1>1, <2>1, <2>2, <2>3, <2>4 DEF ThreadStep
  <1>2. ASSUME NEW t \in Threads, CondStep(t) PROVE Apart /\ UNCHANGED onceVars
    <2>1. ASSUME NEW c \in Conds, NEW op \in CondCalls, CondCall(t, c, op)
          PROVE  Apart /\ UNCHANGED onceVars
      BY <2>1 DEF CondCall
    <2>2. CASE ReadId(t) \/ DrawId(t) \/ SwapId(t) \/ WaitQueue(t)
      BY <2>2 DEF ReadId, DrawId, SwapId, WaitQueue
    <2>3. CASE SetId(t) \/ WaitDequeue(t) \/ EndWait(t)
      BY <2>3 DEF SetId, WaitDequeue, EndWait, Return
    <2>4. QED
      BY <1>2, <2>1, <2>2, <2>3 DEF CondStep
  <1>3. ASSUME NEW t \in Threads, KeyStep(t) PROVE Apart /\ UNCHANGED onceVars
    BY <1>3 DEF KeyStep, KeyCreate, SetSpecific, KeyDelete
  <1>4. ASSUME NEW t \in Threads, OnceCall(t) PROVE OnceInv'
    <2>1. CASE once = 0
      <3>1. once' = 1 /\ inits' = inits + 1 /\ init' = init /\ passed' = passed
            /\ pc' = [pc EXCEPT ![t] = "init"]
        BY <1>4, <2>1 DEF OnceCall, Branch, OnceType
      <3>2. init = "open"
        BY <2>1 DEF OnceInv
      <3>3. QED
        BY <2>1, <3>1, <3>2 DEF OnceInv, OnceType
    <2>2. CASE once = 1
      <3>1. once' = 1 /\ inits' = inits /\ init' = init /\ passed' = passed
            /\ pc' = [pc EXCEPT ![t] = "spin"]
        BY <1>4, <2>2 DEF OnceCall, Branch, OnceType
      <3>2. QED
        BY <2>2, <3>1 DEF OnceInv, OnceType
    <2>3. CASE once = 2
      <3>1. once' = 2 /\ inits' = inits /\ init' = init
            /\ pc' = [pc EXCEPT ![t] = "run"]
        BY <1>4, <2>3 DEF OnceCall, Branch, OnceType
      <3>2. QED
        BY <2>3, <3>1 DEF OnceInv, OnceType
    <2>4. QED
      BY <2>1, <2>2, <2>3 DEF OnceType
  <1>5. ASSUME NEW t \in Threads, InitEnds(t) PROVE OnceInv'
    BY <1>5 DEF InitEnds, OnceInv, OnceType
  <1>6. ASSUME NEW t \in Threads, OnceDone(t) PROVE OnceInv'
    BY <1>6 DEF OnceDone, DoneWord, OnceInv, OnceType
  <1>7. ASSUME NEW t \in Threads, OnceSpin(t) PROVE OnceInv'
    BY <1>7 DEF OnceSpin, OnceInv, OnceType
  <1>8. CASE UNCHANGED vars
    BY <1>8, OnceOther DEF vars
  <1>9. QED
    BY <1>1, <1>2, <1>3, <1>4, <1>5, <1>6, <1>7, <1>8, OnceOther DEF Next, OnceStep

\* pthread_once calls init() once, and returns after it has returned.
THEOREM InitRunsOnce == Spec => []OnceSafe
  <1>1. Init => OnceInv
    BY DEF Init, OnceInv
  <1>2. TypeOK /\ OnceInv /\ [Next]_vars => OnceInv'
    BY OnceInvStep
  <1>3. OnceInv => OnceSafe
    BY DEF OnceInv, OnceSafe
  <1>4. QED
    BY <1>1, <1>2, <1>3, TypeCorrect, PTL DEF Spec

-----------------------------------------------------------------------------

\* The entry of a thread that has ended is its own, and so is the entry a
\* join is about to fetch as long as nobody has the pid again.
JoinInv ==
    /\ \A t \in Threads : given[t] \in {Unknown, threadData[t]}
    /\ \A t \in Threads : pc[t] = "consume" =>
         \/ frame[t].want = Unknown
         \/ /\ frame[t].want = threadData[frame[t].peer]
            /\ pc[frame[t].peer] = "free"

\* Steps that leave the pids, the results and the joins alone keep it.
LEMMA JoinOther ==
  ASSUME TypeOK, JoinInv, UNCHANGED threadVars,
         \A t \in Threads : pc'[t] = "consume" => pc[t] = "consume" /\ frame'[t] = frame[t],
         \A t \in Threads : pc[t] = "free" => pc'[t] = "free"
  PROVE  JoinInv'
  <1>1. \A t \in Threads : frame[t].peer \in Threads
    BY DEF TypeOK, CallType, Frames
  <1>2. QED
    BY <1>1 DEF JoinInv, threadVars

\* Every step keeps it.
LEMMA JoinInvStep ==
  ASSUME TypeOK, JoinInv, [Next]_vars
  PROVE  JoinInv'
  <1> DEFINE Apart ==
        /\ UNCHANGED threadVars
        /\ \A t \in Threads : pc'[t] = "consume" => pc[t] = "consume" /\ frame'[t] = frame[t]
        /\ \A t \in Threads : pc[t] = "free" => pc'[t] = "free"
  <1>0. \A t \in Threads : frame[t] \in Frames /\ frame[t].peer \in Threads
    BY DEF TypeOK, CallType, Frames
  <1> USE DEF TypeOK, CallType, Goto
  <1>1. ASSUME NEW t \in Threads, NEW p \in Threads, Create(t, p) PROVE JoinInv'
    <2>1. threadData' = threadData /\ given' = [given EXCEPT ![p] = Unknown]
          /\ pc' = [pc EXCEPT ![p] = "entry"] /\ pc[p] = "free"
      BY <1>1 DEF Create
    <2>2. \A u \in Threads : pc'[u] = "consume" =>
            \/ frame'[u].want = Unknown
            \/ frame'[u] = frame[u] /\ frame[u].peer # p /\ pc[u] = "consume"
      BY <1>0, <1>1, <2>1 DEF Create, Frames
    <2>3. \A u \in Threads : given'[u] \in {Unknown, threadData'[u]}
      BY <2>1 DEF JoinInv, ThreadType
    <2>4. \A u \in Threads : pc'[u] = "consume" =>
            \/ frame'[u].want = Unknown
            \/ frame'[u].want = threadData'[frame'[u].peer] /\ pc'[frame'[u].peer] = "free"
      BY <1>0, <2>1, <2>2 DEF JoinInv
    <2>5. QED
      BY <2>3, <2>4 DEF JoinInv
  <1>2. ASSUME NEW t \in Threads, Add(t) PROVE JoinInv'
    <2>1. /\ threadData' = [threadData EXCEPT ![t] = frame[t].ret]
          /\ given' = [given EXCEPT ![t] = frame[t].ret]
          /\ pc' = [pc EXCEPT ![t] = "exit"] /\ frame' = frame /\ pc[t] = "add"
      BY <1>2 DEF Add, AssignedEntry
    <2>2. \A u \in Threads : given'[u] \in {Unknown, threadData'[u]}
      BY <2>1 DEF JoinInv, ThreadType
    <2>3. \A u \in Threads : pc'[u] = "consume" =>
            \/ frame'[u].want = Unknown
            \/ frame'[u].want = threadData'[frame'[u].peer] /\ pc'[frame'[u].peer] = "free"
      BY <1>0, <2>1 DEF JoinInv, ThreadType
    <2>4. QED
      BY <2>2, <2>3 DEF JoinInv
  <1>3. ASSUME NEW t \in Threads, WaitPid(t) PROVE JoinInv'
    <2>1. CASE Return({t})
      BY <1>3, <2>1, JoinOther DEF WaitPid, Return
    <2>2. CASE ~Return({t})
      <3> DEFINE p == frame[t].peer
      <3>1. /\ pc[p] = "zombie" /\ pc[t] = "waitpid"
            /\ frame' = [frame EXCEPT ![t].want = given[p]]
            /\ pc' = [pc EXCEPT ![t] = "consume", ![p] = "free"]
            /\ UNCHANGED threadVars
        BY <1>3, <2>2 DEF WaitPid
      <3>2. frame'[t].want = given[p] /\ frame'[t].peer = p /\ pc'[p] = "free"
        BY <1>0, <3>1 DEF Frames
      <3>3. ASSUME NEW u \in Threads, u # t, pc'[u] = "consume"
            PROVE  /\ frame'[u] = frame[u] /\ pc[u] = "consume"
                   /\ pc[frame[u].peer] = "free" => pc'[frame[u].peer] = "free"
        BY <1>0, <3>1, <3>3
      <3>4. QED
        BY <1>0, <3>1, <3>2, <3>3 DEF JoinInv, threadVars
    <2>3. QED
      BY <2>1, <2>2
  <1>4. ASSUME NEW t \in Threads, Consume(t) PROVE JoinInv'
    BY <1>0, <1>4 DEF Consume, Return, JoinInv
  <1>5. ASSUME NEW t \in Threads, EntryCaller(t) \/ ProcessExit(t) PROVE Apart
    BY <1>5 DEF EntryCaller, ProcessExit, Calls
  <1>6. ASSUME NEW t \in Threads, NEW p \in Threads, Join(t, p) PROVE Apart
    BY <1>6 DEF Join, Calls
  <1>7. ASSUME NEW t \in Threads, NEW v, PthreadExit(t, v) PROVE Apart
    BY <1>7 DEF PthreadExit, Calls
  <1>8. ASSUME NEW t \in Threads, KeyStep(t) PROVE Apart
    BY <1>8 DEF KeyStep, KeyCreate, SetSpecific, KeyDelete
  <1>9. ASSUME NEW t \in Threads, NEW c \in Conds, NEW op \in CondCalls, CondCall(t, c, op)
        PROVE  Apart
    BY <1>9 DEF CondCall, Calls
  <1>10. ASSUME NEW t \in Threads, ReadId(t) \/ DrawId(t) \/ SwapId(t) \/ WaitQueue(t)
         PROVE  Apart
    BY <1>10 DEF ReadId, DrawId, SwapId, WaitQueue
  <1>11. ASSUME NEW t \in Threads, SetId(t) \/ WaitDequeue(t) \/ EndWait(t) PROVE Apart
    BY <1>11 DEF SetId, WaitDequeue, EndWait, Return, Queue
  <1>12. ASSUME NEW t \in Threads, OnceCall(t) PROVE Apart
    <2>0. Branch(once) \in {"init", "spin", "run"}
      BY DEF Branch, OnceType
    <2>1. pc' = [pc EXCEPT ![t] = Branch(once)]
      BY <1>12 DEF OnceCall
    <2>2. UNCHANGED threadVars /\ frame' = frame /\ pc[t] = "run"
      BY <1>12 DEF OnceCall, Calls
    <2>3. QED
      BY <2>0, <2>1, <2>2
  <1>13. ASSUME NEW t \in Threads, OnceStep(t) PROVE Apart
    BY <1>13 DEF OnceStep, InitEnds, OnceDone, OnceSpin
  <1>14. CASE UNCHANGED vars
    BY <1>14, JoinOther DEF vars
  <1>15. QED
    BY <1>1, <1>2, <1>3, <1>4, <1>5, <1>6, <1>7, <1>8, <1>9, <1>10, <1>11, <1>12, <1>13,
       <1>14, JoinOther DEF Next, ThreadStep, CondStep

\* A join fetches the result of the thread it waited for, under the two
\* conditions of JoinReturnsOwn, in any interleaving and with pids reused.
THEOREM JoinIsOwn == Spec => JoinReturnsOwn
  <1>1. Init => JoinInv
    BY DEF Init, JoinInv
  <1>2. TypeOK /\ JoinInv /\ [Next]_vars => JoinInv'
    BY JoinInvStep
  <1> DEFINE Fetch ==
        \A t \in Threads : pc[t] = "consume" /\ pc'[t] = "run"
          => frame[t].want \in {Unknown, got'[t]}
  <1>3. ASSUME TypeOK, JoinInv, Next PROVE Fetch
    <2>1. SUFFICES ASSUME NEW t \in Threads, pc[t] = "consume", pc'[t] = "run"
                   PROVE  frame[t].want \in {Unknown, got'[t]}
      OBVIOUS
    <2> USE <1>3, <2>1 DEF TypeOK, CallType, Goto
    <2>2. Consume(t)
      <3>1. ASSUME NEW u \in Threads, ThreadStep(u) PROVE Consume(t)
        <4>1. ASSUME NEW p \in Threads, Create(u, p) \/ Join(u, p) PROVE FALSE
          BY <4>1 DEF Create, Join
        <4>2. ASSUME NEW v, PthreadExit(u, v) PROVE FALSE
          BY <4>2 DEF PthreadExit
        <4>3. CASE EntryCaller(u) \/ Add(u) \/ ProcessExit(u)
          BY <4>3 DEF EntryCaller, Add, ProcessExit, Calls
        <4>4. CASE WaitPid(u)
          BY <4>4 DEF WaitPid, Return
        <4>5. CASE Consume(u)
          BY <4>5 DEF Consume, Return
        <4>6. QED
          BY <3>1, <4>1, <4>2, <4>3, <4>4, <4>5 DEF ThreadStep
      <3>2. ASSUME NEW u \in Threads, KeyStep(u) PROVE FALSE
        BY <3>2 DEF KeyStep, KeyCreate, SetSpecific, KeyDelete
      <3>3. ASSUME NEW u \in Threads, CondStep(u) PROVE FALSE
        <4>1. ASSUME NEW c \in Conds, NEW op \in CondCalls, CondCall(u, c, op) PROVE FALSE
          BY <4>1 DEF CondCall
        <4>2. CASE ReadId(u) \/ DrawId(u) \/ SwapId(u) \/ WaitQueue(u)
          BY <4>2 DEF ReadId, DrawId, SwapId, WaitQueue
        <4>3. CASE SetId(u) \/ WaitDequeue(u) \/ EndWait(u)
          BY <4>3 DEF SetId, WaitDequeue, EndWait, Return, Queue
        <4>4. QED
          BY <3>3, <4>1, <4>2, <4>3 DEF CondStep
      <3>4. ASSUME NEW u \in Threads, OnceCall(u) \/ OnceStep(u) PROVE FALSE
        BY <3>4 DEF OnceCall, Calls, OnceStep, InitEnds, OnceDone, OnceSpin
      <3>5. QED
        BY <1>3, <3>1, <3>2, <3>3, <3>4 DEF Next
    <2>3. got'[t] = threadData[frame[t].peer]
      BY <2>2 DEF Consume, ThreadType
    <2>4. QED
      BY <1>3, <2>1, <2>3 DEF JoinInv
  <1>4. TypeOK /\ JoinInv /\ [Next]_vars => [Fetch]_vars
    BY <1>3
  <1>5. Spec => []TypeOK /\ []JoinInv /\ [][Next]_vars
    BY <1>1, <1>2, TypeCorrect, PTL DEF Spec
  <1>6. Spec => [][Fetch]_vars
    BY <1>4, <1>5, PTL
  <1>7. QED
    BY <1>6 DEF JoinReturnsOwn

-----------------------------------------------------------------------------

\* A thread only finds slots that it has filled itself, whatever the memory
\* held before it began.
THEOREM SlotsStayOwn == Spec => []SlotsAreOwn
  <1>1. Init => SlotsAreOwn
    BY DEF Init, SlotsAreOwn
  <1>2. ASSUME TypeOK, SlotsAreOwn, [Next]_vars PROVE SlotsAreOwn'
    <2> DEFINE Gone == {"free", "zombie", "entry"}
    <2> DEFINE Apart == /\ UNCHANGED keyVars
                        /\ \A t \in Threads : pc'[t] \notin Gone => pc[t] \notin Gone
    <2> USE <1>2 DEF TypeOK, CallType, KeyType, Goto
    <2>1. ASSUME Apart PROVE SlotsAreOwn'
      BY <2>1 DEF SlotsAreOwn, keyVars
    <2>2. ASSUME NEW t \in Threads, NEW p \in Threads, Create(t, p) PROVE SlotsAreOwn'
      BY <2>2 DEF Create, SlotsAreOwn
    <2>3. ASSUME NEW t \in Threads, EntryCaller(t) PROVE SlotsAreOwn'
      BY <2>3 DEF EntryCaller, ClearedSlots, SlotsAreOwn
    <2>4. ASSUME NEW t \in Threads, ThreadStep(t), ~EntryCaller(t),
                 ~\E p \in Threads : Create(t, p)
          PROVE  Apart
      <3>1. CASE Add(t) \/ ProcessExit(t) \/ \E p \in Threads : Join(t, p)
        BY <3>1 DEF Add, ProcessExit, Join, Calls
      <3>2. CASE WaitPid(t) \/ Consume(t)
        BY <3>2 DEF WaitPid, Consume, Return
      <3>3. ASSUME NEW v, PthreadExit(t, v) PROVE Apart
        BY <3>3 DEF PthreadExit, Calls
      <3>4. QED
        BY <2>4, <3>1, <3>2, <3>3 DEF ThreadStep
    <2>5. ASSUME NEW t \in Threads, NEW k \in Keys, NEW d \in BOOLEAN, KeyCreate(t, k, d)
          PROVE  SlotsAreOwn'
      BY <2>5 DEF KeyCreate, SlotsAreOwn
    <2>6. ASSUME NEW t \in Threads, NEW k \in Keys, NEW v, SetSpecific(t, k, v)
          PROVE  SlotsAreOwn'
      BY <2>6 DEF SetSpecific, SlotsAreOwn
    <2>7. ASSUME NEW t \in Threads, NEW k \in Keys, KeyDelete(t, k) PROVE SlotsAreOwn'
      BY <2>7 DEF KeyDelete, SlotsAreOwn
    <2>8. ASSUME NEW t \in Threads, NEW c \in Conds, NEW op \in CondCalls, CondCall(t, c, op)
          PROVE  Apart
      BY <2>8 DEF CondCall, Calls
    <2>9. ASSUME NEW t \in Threads, ReadId(t) \/ DrawId(t) \/ SwapId(t) \/ WaitQueue(t)
          PROVE  Apart
      BY <2>9 DEF ReadId, DrawId, SwapId, WaitQueue
    <2>10. ASSUME NEW t \in Threads, SetId(t) \/ WaitDequeue(t) \/ EndWait(t) PROVE Apart
      BY <2>10 DEF SetId, WaitDequeue, EndWait, Return, Queue
    <2>11. ASSUME NEW t \in Threads, OnceCall(t) \/ OnceStep(t) PROVE Apart
      BY <2>11 DEF OnceCall, Calls, OnceStep, InitEnds, OnceDone, OnceSpin
    <2>12. CASE UNCHANGED vars
      BY <2>12, <2>1 DEF vars
    <2>13. QED
      BY <2>1, <2>2, <2>3, <2>4, <2>5, <2>6, <2>7, <2>8, <2>9, <2>10, <2>11, <2>12
         DEF Next, KeyStep, CondStep
  <1>3. QED
    BY <1>1, <1>2, TypeCorrect, PTL DEF Spec

-----------------------------------------------------------------------------

\* An initialisation is alone with its condition variable, and goes its own
\* way through the labels.
CallInv ==
    /\ \A t \in Threads :
         /\ pc[t] = "set" => frame[t].call = "init"
         /\ pc[t] \in {"read", "swap", "queue", "asleep"} => frame[t].call # "init"
    /\ \A t, u \in Threads :
         t # u /\ pc[t] \in InCond /\ pc[u] \in InCond /\ frame[t].cond = frame[u].cond
           => frame[t].call # "init"

\* The ids in use have been drawn before, each for one word or one caller.
Drawn(i) == i # 0 /\ (i < seq \/ seq = 0)
Holder(t) == pc[t] \in {"swap", "set"}
IdInv ==
    /\ \A c \in Conds : condId[c] = 0 \/ Drawn(condId[c])
    /\ \A c, d \in Conds : condId[c] = condId[d] /\ condId[c] # 0 => c = d
    /\ \A t \in Threads : Holder(t) =>
         Drawn(frame[t].id) /\ \A c \in Conds : condId[c] # frame[t].id
    /\ \A t, u \in Threads :
         Holder(t) /\ Holder(u) /\ frame[t].id = frame[u].id => t = u
    /\ \A t \in Threads : pc[t] \in {"queue", "asleep"}
         => frame[t].id = condId[frame[t].cond] /\ frame[t].id # 0

CondInv == CallInv /\ (~wrapped => IdInv)

\* Steps that begin nothing in a condition variable call keep both.
LEMMA CondOther ==
  ASSUME TypeOK, CondInv, UNCHANGED condVars,
         \A t \in Threads : pc'[t] \in InCond => pc'[t] = pc[t] /\ frame'[t] = frame[t]
  PROVE  CondInv'
  <1>1. CallInv'
    BY DEF CondInv, CallInv, InCond
  <1>2. ~wrapped' => IdInv'
    BY DEF CondInv, IdInv, Drawn, Holder, InCond, condVars
  <1>3. QED
    BY <1>1, <1>2 DEF CondInv

\* The labels of the condition variable calls are followed as in CallInv.
LEMMA CallInvStep ==
  ASSUME TypeOK, CallInv, NEW t \in Threads, CondStep(t)
  PROVE  CallInv'
  <1> USE DEF TypeOK, CallType, Goto, InCond
  <1>0. \A u \in Threads : frame[u] \in Frames
    OBVIOUS
  <1>1. ASSUME NEW c \in Conds, NEW op \in CondCalls, CondCall(t, c, op) PROVE CallInv'
    <2>1. /\ frame'[t].call = op /\ frame'[t].cond = c
          /\ \A u \in Threads \ {t} : frame'[u] = frame[u] /\ pc'[u] = pc[u]
          /\ pc'[t] \in {"draw", "read"} /\ (pc'[t] = "read" => op # "init")
      BY <1>0, <1>1 DEF CondCall, Frames
    <2>2. \A u \in Threads : pc[u] \in InCond /\ frame[u].cond = c
                               => op # "init" /\ frame[u].call # "init"
      BY <1>1 DEF CondCall, Using
    <2>3. QED
      BY <2>1, <2>2 DEF CallInv
  <1>2. ASSUME pc[t] \in InCond, frame'[t].call = frame[t].call, frame'[t].cond = frame[t].cond,
               \A u \in Threads \ {t} : frame'[u] = frame[u] /\ pc'[u] = pc[u],
               \/ pc[t] = "read" /\ pc'[t] \in {"draw", "queue"}
               \/ pc[t] = "draw" /\ pc'[t] = IF frame[t].call = "init" THEN "set" ELSE "swap"
               \/ pc[t] \in {"swap", "queue"} /\ pc'[t] \in {"queue", "asleep"}
        PROVE  CallInv'
    BY <1>2 DEF CallInv
  <1>3. CASE ReadId(t)
    BY <1>0, <1>2, <1>3 DEF ReadId, Frames
  <1>4. CASE DrawId(t)
    BY <1>0, <1>2, <1>4 DEF DrawId, Frames
  <1>5. CASE SwapId(t)
    BY <1>0, <1>2, <1>5 DEF SwapId, Frames
  <1>6. CASE WaitQueue(t)
    BY <1>0, <1>2, <1>6 DEF WaitQueue
  <1>7. ASSUME NEW S, Return(S) PROVE CallInv'
    BY <1>7 DEF Return, CallInv
  <1>8. QED
    BY <1>1, <1>3, <1>4, <1>5, <1>6, <1>7 DEF CondStep, CondCalls, SetId, WaitDequeue, EndWait

\* The ids stay apart as in IdInv, until 0 is drawn.
LEMMA IdInvStep ==
  ASSUME TypeOK, CallInv, IdInv, NEW t \in Threads, CondStep(t), ~wrapped'
  PROVE  IdInv'
  <1> USE DEF TypeOK, CallType, CondType, Goto
  <1>0. \A u \in Threads : frame[u] \in Frames /\ frame[u].id \in Ids /\ frame[u].cond \in Conds
    BY DEF Frames
  <1>1. ASSUME NEW c \in Conds, NEW op \in CondCalls, CondCall(t, c, op) PROVE IdInv'
    <2>1. /\ \A u \in Threads \ {t} : frame'[u] = frame[u] /\ pc'[u] = pc[u]
          /\ pc'[t] \in {"draw", "read"} /\ UNCHANGED condVars
      BY <1>0, <1>1 DEF CondCall
    <2>2. QED
      BY <2>1 DEF IdInv, Drawn, Holder, condVars
  <1>2. CASE ReadId(t)
    <2>1. /\ \A u \in Threads \ {t} : frame'[u] = frame[u] /\ pc'[u] = pc[u]
          /\ frame'[t].id = condId[frame[t].cond] /\ frame'[t].cond = frame[t].cond
          /\ pc'[t] = IF condId[frame[t].cond] = 0 THEN "draw" ELSE "queue"
          /\ UNCHANGED condVars
      BY <1>0, <1>2 DEF ReadId, Frames
    <2>2. QED
      BY <2>1 DEF IdInv, Drawn, Holder, condVars
  <1>3. CASE DrawId(t)
    <2>1. /\ \A u \in Threads \ {t} : frame'[u] = frame[u] /\ pc'[u] = pc[u]
          /\ frame'[t].id = seq /\ pc'[t] \in {"swap", "set"} /\ condId' = condId
          /\ seq' = Increment(seq)
      BY <1>0, <1>3 DEF DrawId, Frames
    <2>2. seq # 0
      BY <1>3 DEF DrawId
    <2>3. seq' \in {seq + 1, 0} /\ seq \in Nat
      BY <2>1, IncrementValue DEF Ids
    <2>4. \A i \in Ids : Drawn(i) => i # seq /\ Drawn(i)'
      BY <2>2, <2>3 DEF Drawn, Ids
    <2>5. frame'[t].id # 0 /\ (frame'[t].id < seq' \/ seq' = 0)
      BY <2>1, <2>2, <2>3
    <2>6. \A c \in Conds : (condId'[c] = 0 \/ Drawn(condId[c])') /\ condId'[c] # frame'[t].id
      BY <2>1, <2>2, <2>4 DEF IdInv
    <2>7. \A u \in Threads \ {t} : Holder(u)' =>
            /\ Drawn(frame[u].id)' /\ frame'[u].id # frame'[t].id
            /\ \A c \in Conds : condId'[c] # frame'[u].id
      <3>1. SUFFICES ASSUME NEW u \in Threads \ {t}, Holder(u)'
                     PROVE  /\ Drawn(frame[u].id)' /\ frame'[u].id # frame'[t].id
                            /\ \A c \in Conds : condId'[c] # frame'[u].id
        OBVIOUS
      <3>2. Holder(u) /\ frame'[u] = frame[u] /\ frame[u].id \in Ids
        BY <1>0, <2>1, <3>1 DEF Holder
      <3>3. Drawn(frame[u].id) /\ \A c \in Conds : condId[c] # frame[u].id
        BY <3>2 DEF IdInv
      <3>4. frame[u].id # seq /\ frame[u].id # 0 /\ (frame[u].id < seq' \/ seq' = 0)
        BY <2>3, <3>2, <3>3, <2>4 DEF Drawn
      <3>5. QED
        BY <2>1, <3>2, <3>3, <3>4 DEF Drawn
    <2>8. QED
      BY <2>1, <2>5, <2>6, <2>7 DEF IdInv, Holder, Drawn
  <1>4. CASE SwapId(t)
    <2>1. /\ \A u \in Threads \ {t} : frame'[u] = frame[u] /\ pc'[u] = pc[u]
          /\ frame'[t].id = WinnersId(condId[frame[t].cond], frame[t].id)
          /\ frame'[t].cond = frame[t].cond
          /\ pc'[t] = "queue" /\ pc[t] = "swap" /\ seq' = seq
          /\ condId' = [condId EXCEPT ![frame[t].cond] = IF @ = 0 THEN frame[t].id ELSE @]
      BY <1>0, <1>4 DEF SwapId, Frames
    <2>2. CASE condId[frame[t].cond] = 0
      <3>1. /\ frame'[t].id = frame[t].id
            /\ condId' = [condId EXCEPT ![frame[t].cond] = frame[t].id]
        BY <2>1, <2>2 DEF WinnersId
      <3>2. \A u \in Threads : pc[u] \in {"queue", "asleep"} => frame[u].cond # frame[t].cond
        BY <2>2 DEF IdInv
      <3>3. QED
        BY <1>0, <2>1, <3>1, <3>2 DEF IdInv, Drawn, Holder
    <2>3. CASE condId[frame[t].cond] # 0
      <3>1. frame'[t].id = condId[frame[t].cond] /\ condId' = condId
        BY <1>0, <2>1, <2>3 DEF WinnersId
      <3>2. QED
        BY <1>0, <2>1, <2>3, <3>1 DEF IdInv, Drawn, Holder
    <2>4. QED
      BY <2>2, <2>3
  <1>5. CASE SetId(t)
    <2>1. /\ pc[t] = "set" /\ pc' = [u \in Threads |-> IF u = t THEN "run" ELSE pc[u]]
          /\ \A u \in Threads \ {t} : frame'[u] = frame[u]
          /\ condId' = [condId EXCEPT ![frame[t].cond] = frame[t].id] /\ seq' = seq
      BY <1>5 DEF SetId, Return
    <2>2. \A u \in Threads : pc[u] \in {"queue", "asleep"} => frame[u].cond # frame[t].cond
      BY <2>1 DEF CallInv, InCond
    <2>3. QED
      BY <1>0, <2>1, <2>2 DEF IdInv, Drawn, Holder
  <1>6. CASE WaitQueue(t)
    BY <1>6 DEF WaitQueue, IdInv, Drawn, Holder, condVars
  <1>7. ASSUME NEW S, Return(S), UNCHANGED condVars PROVE IdInv'
    BY <1>7 DEF Return, IdInv, Drawn, Holder, condVars
  <1>8. QED
    BY <1>1, <1>2, <1>3, <1>4, <1>5, <1>6, <1>7 DEF CondStep, WaitDequeue, EndWait

\* Every step keeps both.
LEMMA CondInvStep ==
  ASSUME TypeOK, CondInv, [Next]_vars
  PROVE  CondInv'
  <1> DEFINE Apart ==
        /\ UNCHANGED condVars
        /\ \A t \in Threads : pc'[t] \in InCond => pc'[t] = pc[t] /\ frame'[t] = frame[t]
  <1>1. ASSUME NEW t \in Threads, CondStep(t) PROVE CondInv'
    <2>1. wrapped => wrapped'
      BY <1>1 DEF CondStep, CondCall, ReadId, DrawId, SwapId, SetId, WaitQueue, WaitDequeue,
                  EndWait, condVars
    <2>2. QED
      BY <1>1, <2>1, CallInvStep, IdInvStep DEF CondInv
  <1> USE DEF TypeOK, CallType, Goto, InCond
  <1>2. ASSUME NEW t \in Threads, NEW p \in Threads, Create(t, p) PROVE Apart
    BY <1>2 DEF Create
  <1>3. ASSUME NEW t \in Threads, ThreadStep(t), ~\E p \in Threads : Create(t, p) PROVE Apart
    <2>1. CASE EntryCaller(t) \/ Add(t) \/ ProcessExit(t) \/ \E p \in Threads : Join(t, p)
      BY <2>1 DEF EntryCaller, Add, ProcessExit, Join
    <2>2. CASE WaitPid(t) \/ Consume(t)
      BY <2>2 DEF WaitPid, Consume, Return
    <2>3. ASSUME NEW v, PthreadExit(t, v) PROVE Apart
      BY <2>3 DEF PthreadExit
    <2>4. QED
      BY <1>3, <2>1, <2>2, <2>3 DEF ThreadStep
  <1>4. ASSUME NEW t \in Threads, KeyStep(t) PROVE Apart
    BY <1>4 DEF KeyStep, KeyCreate, SetSpecific, KeyDelete
  <1>5. ASSUME NEW t \in Threads, OnceCall(t) PROVE Apart
    <2>1. Branch(once) \in {"init", "spin", "run"}
      BY DEF Branch, OnceType
    <2>2. QED
      BY <1>5, <2>1 DEF OnceCall
  <1>6. ASSUME NEW t \in Threads, OnceStep(t) PROVE Apart
    BY <1>6 DEF OnceStep, InitEnds, OnceDone, OnceSpin
  <1>7. CASE UNCHANGED vars
    BY <1>7, CondOther DEF vars
  <1>8. QED
    BY <1>1, <1>2, <1>3, <1>4, <1>5, <1>6, <1>7, CondOther DEF Next

\* The invariant holds in every reachable state.
LEMMA AlwaysCondInv == Spec => []CondInv
  <1>1. Init => CondInv
    BY DEF Init, CondInv, CallInv, IdInv, Holder, InCond
  <1>2. TypeOK /\ CondInv /\ [Next]_vars => CondInv'
    BY CondInvStep
  <1>3. QED
    BY <1>1, <1>2, TypeCorrect, PTL DEF Spec

\* All users of a condition variable have the same queue, however many of
\* them raced to give the word its first id.
THEOREM UsersAgree == Spec => []CondIdAgrees
  <1>1. CondInv => CondIdAgrees
    BY DEF CondInv, IdInv, CondIdAgrees
  <1>2. QED
    BY <1>1, AlwaysCondInv, PTL

\* The notifications of a condition variable reach its own sleepers, and
\* nobody else's.
THEOREM NotificationsReach == Spec => NotifyReaches
  <1> DEFINE Reach == \A t \in Threads : NotifiesOwn(t)
             mine(t) == Sleepers(frame[t].cond)
  <1>1. ASSUME TypeOK, CondInv, Next PROVE Reach
    <2>1. SUFFICES ASSUME NEW t \in Threads, ~wrapped, pc[t] = "queue",
                          frame[t].call # "wait", pc'[t] = "run"
                   PROVE  /\ Woken \subseteq mine(t)
                          /\ frame[t].call = "broadcast" => Woken = mine(t)
                          /\ mine(t) # {} => Woken # {}
      BY DEF NotifiesOwn
    <2> USE <1>1, <2>1 DEF TypeOK, CallType, Goto
    <2>2. WaitDequeue(t)
      <3>1. ASSUME NEW u \in Threads, ThreadStep(u) PROVE FALSE
        <4>1. ASSUME NEW p \in Threads, Create(u, p) \/ Join(u, p) PROVE FALSE
          BY <4>1 DEF Create, Join
        <4>2. ASSUME NEW v, PthreadExit(u, v) PROVE FALSE
          BY <4>2 DEF PthreadExit
        <4>3. CASE EntryCaller(u) \/ Add(u) \/ ProcessExit(u)
          BY <4>3 DEF EntryCaller, Add, ProcessExit, Calls
        <4>4. CASE WaitPid(u) \/ Consume(u)
          BY <4>4 DEF WaitPid, Consume, Return
        <4>5. QED
          BY <3>1, <4>1, <4>2, <4>3, <4>4 DEF ThreadStep
      <3>2. ASSUME NEW u \in Threads, KeyStep(u) PROVE FALSE
        BY <3>2 DEF KeyStep, KeyCreate, SetSpecific, KeyDelete
      <3>3. ASSUME NEW u \in Threads, CondStep(u) PROVE WaitDequeue(t)
        <4>1. ASSUME NEW c \in Conds, NEW op \in CondCalls, CondCall(u, c, op) PROVE FALSE
          BY <4>1 DEF CondCall
        <4>2. CASE ReadId(u) \/ DrawId(u) \/ SwapId(u) \/ WaitQueue(u)
          BY <4>2 DEF ReadId, DrawId, SwapId, WaitQueue
        <4>3. CASE SetId(u) \/ EndWait(u)
          BY <4>3 DEF SetId, EndWait, Return
        <4>4. CASE WaitDequeue(u)
          BY <4>4 DEF WaitDequeue, Return, Queue
        <4>5. QED
          BY <3>3, <4>1, <4>2, <4>3, <4>4 DEF CondStep
      <3>4. ASSUME NEW u \in Threads, OnceCall(u) \/ OnceStep(u) PROVE FALSE
        BY <3>4 DEF OnceCall, Calls, OnceStep, InitEnds, OnceDone, OnceSpin
      <3>5. QED
        BY <3>1, <3>2, <3>3, <3>4 DEF Next
    <2>3. Queue(frame[t].id) = mine(t)
      <3>1. \A u \in Threads : frame[u].cond \in Conds
        BY DEF Frames
      <3>2. \A u \in Threads : pc[u] = "asleep" =>
              (frame[u].id = frame[t].id <=> frame[u].cond = frame[t].cond)
        BY <3>1 DEF CondInv, IdInv
      <3>3. QED
        BY <3>2 DEF Queue, Sleepers
    <2>4. frame[t].call \in {"signal", "broadcast"}
      BY <2>2 DEF WaitDequeue
    <2>5. CASE frame[t].call = "broadcast"
      <3>1. pc' = [u \in Threads |-> IF u \in {t} \cup mine(t) THEN "run" ELSE pc[u]]
        BY <2>2, <2>3, <2>5 DEF WaitDequeue, Return
      <3>2. Woken = mine(t)
        BY <3>1 DEF Woken, Sleepers
      <3>3. QED
        BY <3>2
    <2>6. CASE frame[t].call = "signal"
      <3>1. CASE mine(t) = {} /\ Return({t})
        BY <2>6, <3>1 DEF Return, Woken
      <3>2. ASSUME NEW u \in mine(t), Return({t, u}) PROVE Woken = {u}
        BY <3>2 DEF Return, Woken, Sleepers
      <3>3. QED
        BY <2>2, <2>3, <2>6, <3>1, <3>2 DEF WaitDequeue
    <2>7. QED
      BY <2>4, <2>5, <2>6
  <1>2. TypeOK /\ CondInv /\ [Next]_vars => [Reach]_vars
    BY <1>1
  <1>3. Spec => [][Reach]_vars
    <2>1. Spec => []TypeOK /\ []CondInv /\ [][Next]_vars
      BY TypeCorrect, AlwaysCondInv, PTL DEF Spec
    <2>2. QED
      BY <1>2, <2>1, PTL
  <1>4. QED
    BY <1>3 DEF NotifyReaches
=============================================================================
