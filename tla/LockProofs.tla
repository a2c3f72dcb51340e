----------------------------- MODULE LockProofs -----------------------------
(***************************************************************************)
(* The two locks, for every set of owners or threads and every nesting     *)
(* bound.  The mutex excludes, its plain counter is never raced on, and it *)
(* implements RecursiveLock.  The reader/writer lock, with or without      *)
(* upgrades, excludes, its queue is exact and no thread sleeps through the *)
(* moment it could get in.                                                 *)
(***************************************************************************)
EXTENDS Mutex, RWLock, SequenceTheorems, TLAPS

-----------------------------------------------------------------------------
(* Mutex                                                                   *)

\* A caller between winning the word and the end of its lock call.
Acquiring(o) ==
    /\ pc[o] = "setcount" => lock = o /\ held[o] = 0 /\ lockCount = 0
    /\ pc[o] \in {"incload", "incstore"} =>
         lock = o /\ held[o] > 0 /\ lockCount = held[o]
    /\ pc[o] = "incstore" => reg[o] = lockCount
    /\ pc[o] \in Waiting => lock # o

\* A caller inside a release: how far the count is behind the open levels.
ReleasePhase(a) ==
    /\ pc[a] \in Releasing => lock = target[a] /\ held[target[a]] > 0
    /\ pc[a] \in {"decload", "decstore"} => lockCount = held[target[a]]
    /\ pc[a] = "decstore" => reg[a] = lockCount
    /\ pc[a] = "zerotest" => lockCount = held[target[a]] - 1
    /\ pc[a] = "free" => lockCount = 0 /\ held[target[a]] = 1

\* An owner is released by one caller only, and by another one only while
\* it is parked.
ReleaseAlone(a) ==
    pc[a] \in Releasing =>
       /\ target[a] # a => pc[target[a]] = "parked"
       /\ \A b \in Owners : pc[b] \in Releasing /\ target[b] = target[a] => b = a

\* The inductive invariant.
MutexIInv ==
    /\ MutexTypeOK
    /\ CountExact
    /\ \A o \in Owners : Acquiring(o) /\ ReleasePhase(o) /\ ReleaseAlone(o)

\* The initial state satisfies the inductive invariant.
LEMMA InitMutexIInv == MutexInit => MutexIInv
  BY OwnerAssumption
     DEF MutexInit, MutexIInv, MutexTypeOK, CountExact, Acquiring, ReleasePhase, ReleaseAlone,
         Releasing, CountAccess, Waiting, PCs, BeingReleased

\* Every action of an owner o (releasing p) keeps the inductive invariant.
LEMMA StepMutexIInv == MutexIInv /\ [MutexNext]_mutexVars => MutexIInv'
  <1> SUFFICES ASSUME MutexIInv, [MutexNext]_mutexVars PROVE MutexIInv'
    OBVIOUS
  <1> USE OwnerAssumption
      DEF MutexIInv, MutexTypeOK, CountExact, Acquiring, ReleasePhase, ReleaseAlone,
          Releasing, CountAccess, Waiting, PCs, BeingReleased, Goto, mutexVars
  <1>1. ASSUME NEW o \in Owners, Lock(o) PROVE MutexIInv'
    BY <1>1 DEF Lock, CompareSwap
  <1>2. ASSUME NEW o \in Owners, TryLock(o) PROVE MutexIInv'
    BY <1>2 DEF TryLock, CompareSwap
  <1>3. ASSUME NEW o \in Owners, Spin(o) PROVE MutexIInv'
    BY <1>3 DEF Spin
  <1>4. ASSUME NEW o \in Owners, WaitOnLock(o) PROVE MutexIInv'
    BY <1>4 DEF WaitOnLock
  <1>5. ASSUME NEW o \in Owners, SetCount(o) PROVE MutexIInv'
    BY <1>5 DEF SetCount
  <1>6. ASSUME NEW o \in Owners, IncLoad(o) PROVE MutexIInv'
    BY <1>6 DEF IncLoad
  <1>7. ASSUME NEW o \in Owners, IncStore(o) PROVE MutexIInv'
    BY <1>7 DEF IncStore
  <1>8. ASSUME NEW o \in Owners, Unlock(o) PROVE MutexIInv'
    BY <1>8 DEF Unlock, ReleaseFor
  <1>9. ASSUME NEW o \in Owners, NEW p \in Owners, UnlockOwner(o, p) PROVE MutexIInv'
    BY <1>9 DEF UnlockOwner, ReleaseFor
  <1>10. ASSUME NEW o \in Owners, DecLoad(o) PROVE MutexIInv'
    BY <1>10 DEF DecLoad
  <1>11. ASSUME NEW o \in Owners, DecStore(o) PROVE MutexIInv'
    BY <1>11 DEF DecStore
  <1>12. ASSUME NEW o \in Owners, ZeroTest(o) PROVE MutexIInv'
    BY <1>12 DEF ZeroTest, CloseLevel
  <1>13. ASSUME NEW o \in Owners, FreeStore(o) PROVE MutexIInv'
    BY <1>13 DEF FreeStore, CloseLevel
  <1>14. ASSUME NEW o \in Owners, Park(o) PROVE MutexIInv'
    BY <1>14 DEF Park
  <1>15. ASSUME NEW o \in Owners, Resume(o) PROVE MutexIInv'
    BY <1>15 DEF Resume
  <1>16. CASE UNCHANGED mutexVars
    BY <1>16
  <1>17. QED
    BY <1>1, <1>2, <1>3, <1>4, <1>5, <1>6, <1>7, <1>8, <1>9, <1>10, <1>11,
       <1>12, <1>13, <1>14, <1>15, <1>16 DEF MutexNext, Progress

-----------------------------------------------------------------------------

\* The inductive invariant holds in every reachable state.
LEMMA AlwaysMutexIInv == MutexSpec => []MutexIInv
  BY InitMutexIInv, StepMutexIInv, PTL DEF MutexSpec

\* The variables keep their types, whatever the number of owners and depth.
THEOREM MutexTypeCorrect == MutexSpec => []MutexTypeOK
  <1>1. MutexIInv => MutexTypeOK
    BY DEF MutexIInv
  <1>2. QED
    BY <1>1, AlwaysMutexIInv, PTL

\* pthread_mutex_lock, trylock, unlock and unlock_owner together exclude: two
\* owners never have returned lock calls open at the same time.
THEOREM Exclusion == MutexSpec => []MutualExclusion
  <1>1. MutexIInv => MutualExclusion
    BY DEF MutexIInv, CountExact, MutualExclusion
  <1>2. QED
    BY <1>1, AlwaysMutexIInv, PTL

\* _lock and _lock_count agree with the calls made.
THEOREM CountIsDepth == MutexSpec => []CountExact
  <1>1. MutexIInv => CountExact
    BY DEF MutexIInv
  <1>2. QED
    BY <1>1, AlwaysMutexIInv, PTL

\* The unprotected accesses to _lock_count never meet.
THEOREM CountRaceFree == MutexSpec => []NoCountRace
  <1>1. MutexIInv => NoCountRace
    <2> SUFFICES ASSUME MutexIInv,
                        NEW o \in Owners, pc[o] \in CountAccess,
                        NEW p \in Owners, pc[p] \in CountAccess
                 PROVE  o = p
      BY DEF NoCountRace
    <2> DEFINE Subject(a) == IF pc[a] \in Releasing THEN target[a] ELSE a
    <2>1. lock = Subject(o) /\ lock = Subject(p)
      BY DEF MutexIInv, Acquiring, ReleasePhase, CountAccess, Releasing
    <2>2. CASE pc[o] \in Releasing /\ pc[p] \in Releasing
      BY <2>1, <2>2 DEF MutexIInv, ReleaseAlone
    <2>3. CASE pc[o] \in Releasing /\ pc[p] \notin Releasing
      BY <2>1, <2>3 DEF MutexIInv, ReleaseAlone, CountAccess, Releasing
    <2>4. CASE pc[o] \notin Releasing /\ pc[p] \in Releasing
      BY <2>1, <2>4 DEF MutexIInv, ReleaseAlone, CountAccess, Releasing
    <2>5. CASE pc[o] \notin Releasing /\ pc[p] \notin Releasing
      BY <2>1, <2>5
    <2>6. QED
      BY <2>2, <2>3, <2>4, <2>5
  <1>2. QED
    BY <1>1, AlwaysMutexIInv, PTL

\* Only the ends of a call change the open levels: the other steps stutter
\* in the abstract lock.
LEMMA StepRefines == MutexIInv /\ [MutexNext]_mutexVars => [Abstract!Next]_held
  <1> SUFFICES ASSUME MutexIInv, [MutexNext]_mutexVars PROVE [Abstract!Next]_held
    OBVIOUS
  <1> USE DEF MutexIInv, MutexTypeOK
  <1>1. ASSUME NEW o \in Owners, SetCount(o) PROVE Abstract!Acquire(o)
    BY <1>1 DEF SetCount, Abstract!Acquire, Abstract!OthersOut, Acquiring, CountExact
  <1>2. ASSUME NEW o \in Owners, IncStore(o) PROVE Abstract!Acquire(o)
    BY <1>2 DEF IncStore, Abstract!Acquire, Abstract!OthersOut, Acquiring, CountExact
  <1>3. ASSUME NEW a \in Owners, ZeroTest(a)
        PROVE  Abstract!Release(target[a]) \/ UNCHANGED held
    BY <1>3 DEF ZeroTest, CloseLevel, Abstract!Release, ReleasePhase, Releasing
  <1>4. ASSUME NEW a \in Owners, FreeStore(a) PROVE Abstract!Release(target[a])
    BY <1>4 DEF FreeStore, CloseLevel, Abstract!Release, ReleasePhase, Releasing
  <1>5. ASSUME NEW o \in Owners,
               \/ Lock(o) \/ TryLock(o) \/ Spin(o) \/ WaitOnLock(o) \/ IncLoad(o)
               \/ Unlock(o) \/ (\E p \in Owners : UnlockOwner(o, p))
               \/ DecLoad(o) \/ DecStore(o) \/ Park(o) \/ Resume(o)
        PROVE  UNCHANGED held
    BY <1>5 DEF Lock, TryLock, CompareSwap, Spin, WaitOnLock, IncLoad, Unlock,
                UnlockOwner, ReleaseFor, DecLoad, DecStore, Park, Resume, mutexVars
  <1>6. CASE UNCHANGED mutexVars
    BY <1>6 DEF mutexVars
  <1>7. QED
    BY <1>1, <1>2, <1>3, <1>4, <1>5, <1>6 DEF MutexNext, Progress, Abstract!Next

\* The mutex implements the recursive lock.
THEOREM Refinement == MutexSpec => ImplementsRecursiveLock
  <1>1. MutexInit => Abstract!Init
    BY DEF MutexInit, Abstract!Init
  <1>2. QED
    BY <1>1, StepRefines, AlwaysMutexIInv, PTL DEF MutexSpec, ImplementsRecursiveLock, Abstract!Spec

-----------------------------------------------------------------------------
(* RWLock                                                                  *)

\* Appending an element that a duplicate-free queue lacks.
LEMMA AppendUnique ==
  ASSUME NEW q \in Seq(Procs), NoDuplicates(q), NEW p \in Procs, ~Contains(q, p)
  PROVE  /\ Append(q, p) \in Seq(Procs)
         /\ NoDuplicates(Append(q, p))
         /\ \A x : Contains(Append(q, p), x) <=> Contains(q, x) \/ x = p
         /\ q # <<>> => Append(q, p)[1] = q[1]
         /\ Append(q, p) # <<>>
  <1> DEFINE r == Append(q, p)
  <1>1. /\ r \in Seq(Procs) /\ Len(r) = Len(q) + 1 /\ r[Len(q) + 1] = p
        /\ \A i \in 1..Len(q) : r[i] = q[i]
    OBVIOUS
  <1>2. \A i \in 1..Len(q) : q[i] # p
    BY DEF Contains
  <1> HIDE DEF r
  <1>3. NoDuplicates(r)
    BY <1>1, <1>2 DEF NoDuplicates
  <1>4. ASSUME NEW x PROVE Contains(r, x) <=> Contains(q, x) \/ x = p
    BY <1>1 DEF Contains
  <1>5. (q # <<>> => r[1] = q[1]) /\ r # <<>>
    BY <1>1
  <1>6. QED
    BY <1>1, <1>3, <1>4, <1>5 DEF r

\* list::erase of a value removes just that value from a duplicate-free queue
\* and keeps the head unless the head is that value.
LEMMA EraseUnique ==
  ASSUME NEW q \in Seq(Procs), NoDuplicates(q), NEW p \in Procs
  PROVE  /\ RemoveFirst(q, p) \in Seq(Procs)
         /\ NoDuplicates(RemoveFirst(q, p))
         /\ \A x : Contains(RemoveFirst(q, p), x) <=> Contains(q, x) /\ x # p
         /\ q # <<>> /\ q[1] # p =>
              RemoveFirst(q, p) # <<>> /\ RemoveFirst(q, p)[1] = q[1]
  <1> DEFINE r == RemoveFirst(q, p)
  <1>1. CASE ~Contains(q, p)
    <2>1. r = q
      BY <1>1 DEF RemoveFirst, Contains
    <2>2. QED
      BY <2>1, <1>1 DEF Contains
  <1>2. CASE Contains(q, p)
    <2>1. PICK k \in 1..Len(q) : q[k] = p
      BY <1>2 DEF Contains
    <2>2. {i \in 1..Len(q) : q[i] = p} = {k}
      BY <2>1 DEF NoDuplicates
    <2>3. Min({k}) = k
      BY DEF Min
    <2>4. r = RemoveAt(q, k)
      BY <2>1, <2>2, <2>3 DEF RemoveFirst, SelectInSeq
    <2>5. /\ r \in Seq(Procs)
          /\ Len(r) = Len(q) - 1
          /\ \A i \in 1..Len(r) : r[i] = IF i < k THEN q[i] ELSE q[i+1]
      <3> DEFINE before == SubSeq(q, 1, k-1)
                 after == SubSeq(q, k+1, Len(q))
      <3>1. /\ before \in Seq(Procs) /\ Len(before) = k-1
            /\ \A i \in 1..k-1 : before[i] = q[i]
        OBVIOUS
      <3>2. /\ after \in Seq(Procs) /\ Len(after) = Len(q) - k
            /\ \A i \in 1..Len(q)-k : after[i] = q[k+i]
        OBVIOUS
      <3>3. r = before \o after
        BY <2>4 DEF RemoveAt
      <3> HIDE DEF before, after, r
      <3>4. /\ r \in Seq(Procs) /\ Len(r) = Len(q) - 1
            /\ \A i \in 1..Len(r) :
                 r[i] = IF i <= k-1 THEN before[i] ELSE after[i - (k-1)]
        <4>1. /\ r \in Seq(Procs)
              /\ Len(r) = Len(before) + Len(after)
              /\ \A i \in 1..Len(before) + Len(after) :
                   r[i] = IF i <= Len(before) THEN before[i] ELSE after[i - Len(before)]
          BY <3>1, <3>2, <3>3, ConcatProperties
        <4>2. Len(before) + Len(after) = Len(q) - 1
          BY <3>1, <3>2
        <4>3. QED
          BY <4>1, <4>2, <3>1
      <3>5. QED
        BY <3>1, <3>2, <3>4
    <2>7. NoDuplicates(r)
      BY <2>5 DEF NoDuplicates
    <2>8. ASSUME NEW x PROVE Contains(r, x) <=> Contains(q, x) /\ x # p
      <3>1. ASSUME Contains(r, x) PROVE Contains(q, x) /\ x # p
        BY <3>1, <2>1, <2>5 DEF Contains, NoDuplicates
      <3>2. ASSUME Contains(q, x), x # p PROVE Contains(r, x)
        <4>1. PICK i \in 1..Len(q) : q[i] = x
          BY <3>2 DEF Contains
        <4>2. CASE i < k
          BY <4>1, <4>2, <2>5 DEF Contains
        <4>3. CASE i > k
          <5>1. i-1 \in 1..Len(r) /\ r[i-1] = x
            BY <4>1, <4>3, <2>5
          <5>2. QED
            BY <5>1 DEF Contains
        <4>4. QED
          BY <4>1, <4>2, <4>3, <3>2, <2>1
      <3>3. QED
        BY <3>1, <3>2
    <2>9. q # <<>> /\ q[1] # p => r # <<>> /\ r[1] = q[1]
      BY <2>1, <2>5
    <2>10. QED
      BY <2>5, <2>7, <2>8, <2>9
  <1>3. QED
    BY <1>1, <1>2

-----------------------------------------------------------------------------

\* The inductive invariant.
IInv == TypeOK /\ WriterExclusive /\ QueueIsPending /\ NoLostWakeup

\* q is the queue with p's request in it, as read_lock and write_lock see it.
RequestQueue(p, q) ==
    /\ q \in Seq(Procs)
    /\ NoDuplicates(q)
    /\ \A x \in Procs : Contains(q, x) <=> Contains(rwQueue, x) \/ x = p
    /\ rwQueue # <<>> => q # <<>> /\ q[1] = rwQueue[1]

\* p asks for lock l, and the other threads want what they wanted.
Asks(p, l) ==
    /\ wants' \in [Procs -> {"read", "write"}]
    /\ wants'[p] = l
    /\ \A x \in Procs \ {p} : wants'[x] = wants[x]

\* A new request extends the queue.
LEMMA EnqueueRequest ==
  ASSUME IInv, NEW p \in Procs, status[p] = "out"
  PROVE  RequestQueue(p, Enqueue(p))
  <1>1. ~Contains(rwQueue, p)
    BY DEF IInv, QueueIsPending, Pending
  <1>2. QED
    BY <1>1, AppendUnique DEF IInv, TypeOK, QueueIsPending, Enqueue, RequestQueue

\* A woken thread finds its request in the queue.
LEMMA WokenRequest ==
  ASSUME IInv, NEW p \in Procs, status[p] = "woken"
  PROVE  RequestQueue(p, rwQueue)
  BY DEF IInv, TypeOK, QueueIsPending, Pending, RequestQueue

\* A thread that goes to sleep leaves the invariant as it was.
LEMMA SleepKeeps ==
  ASSUME IInv, NEW p \in Procs, NEW q, RequestQueue(p, q), NEW l, Asks(p, l),
         l \in {"read", "write"},
         ~(IF l = "read" THEN ReadCondition(q, p) ELSE WriteCondition(q, p)),
         rwQueue' = q, status' = [status EXCEPT ![p] = "asleep"],
         UNCHANGED <<readers, activeWriter, writerCount>>
  PROVE  IInv'
  <1>1. TypeOK'
    BY DEF IInv, TypeOK, RequestQueue, Asks, Statuses
  <1>2. WriterExclusive'
    BY DEF IInv, WriterExclusive
  <1>3. QueueIsPending'
    BY DEF IInv, TypeOK, QueueIsPending, Pending, RequestQueue
  <1>4. NoLostWakeup'
    <2> SUFFICES ASSUME NEW x \in Procs, status'[x] = "asleep"
                 PROVE  ~Condition(rwQueue, x)'
      BY DEF NoLostWakeup
    <2>1. CASE x = p
      BY <2>1 DEF Condition, ReadCondition, WriteCondition, AtHead, NoReaders, Asks
    <2>2. CASE x # p
      <3>1. status[x] = "asleep" /\ wants'[x] = wants[x]
        BY <2>2 DEF IInv, TypeOK, Asks
      <3>2. Contains(rwQueue, x)
        BY <3>1 DEF IInv, QueueIsPending, Pending
      <3>3. rwQueue # <<>>
        BY <3>2 DEF Contains
      <3>4. ~Condition(rwQueue, x)
        BY <3>1 DEF IInv, NoLostWakeup
      <3>5. QED
        BY <3>1, <3>3, <3>4
           DEF Condition, ReadCondition, WriteCondition, AtHead, NoReaders, RequestQueue
    <2>3. QED
      BY <2>1, <2>2
  <1>5. QED
    BY <1>1, <1>2, <1>3, <1>4 DEF IInv

\* Nobody is asleep after notify_all, so nobody can have missed it.
LEMMA NotifyWakesAll ==
  ASSUME NEW s \in [Procs -> Statuses]
  PROVE  /\ NotifyAll(s) \in [Procs -> Statuses]
         /\ \A x \in Procs : NotifyAll(s)[x] # "asleep"
         /\ \A x \in Procs : NotifyAll(s)[x] = "out" <=> s[x] = "out"
  BY DEF NotifyAll, Statuses

\* The granted (or abandoned) request of p leaves the queue.
LEMMA LeaveQueue ==
  ASSUME IInv, NEW p \in Procs, NEW q, RequestQueue(p, q),
         rwQueue' = RemoveFirst(q, p),
         status' \in [Procs -> Statuses], status'[p] = "out",
         \A x \in Procs \ {p} : status'[x] = "out" <=> status[x] = "out"
  PROVE  rwQueue' \in Seq(Procs) /\ QueueIsPending'
  <1>1. /\ rwQueue' \in Seq(Procs)
        /\ NoDuplicates(rwQueue')
        /\ \A x : Contains(rwQueue', x) <=> Contains(q, x) /\ x # p
    BY EraseUnique DEF RequestQueue
  <1>2. ASSUME NEW x \in Procs PROVE Pending(x)' <=> Contains(rwQueue', x)
    BY <1>1 DEF RequestQueue, IInv, QueueIsPending, Pending
  <1>3. QED
    BY <1>1, <1>2 DEF QueueIsPending

\* read_lock from the first test of its condition to a grant or a wait.
LEMMA TryReadKeeps ==
  ASSUME IInv, NEW p \in Procs, NEW q, RequestQueue(p, q), Asks(p, "read"),
         TryRead(p, q)
  PROVE  IInv'
  <1>1. CASE ~ReadCondition(q, p)
    BY <1>1, SleepKeeps DEF TryRead
  <1>2. CASE ReadCondition(q, p)
    <2> DEFINE s == [status EXCEPT ![p] = "out"]
    <2>1. /\ rwQueue' = RemoveFirst(q, p)
          /\ readers' = [readers EXCEPT ![p] = @ + 1]
          /\ status' = IF rwQueue' # <<>> THEN NotifyAll(s) ELSE s
          /\ UNCHANGED <<activeWriter, writerCount>>
      BY <1>2 DEF TryRead
    <2>2. s \in [Procs -> Statuses]
      BY DEF IInv, TypeOK, Statuses
    <2>3. /\ status' \in [Procs -> Statuses]
          /\ status'[p] = "out"
          /\ \A x \in Procs \ {p} : status'[x] = "out" <=> status[x] = "out"
      BY <2>1, <2>2, NotifyWakesAll DEF IInv, TypeOK
    <2>4. rwQueue' \in Seq(Procs) /\ QueueIsPending'
      BY <2>1, <2>3, LeaveQueue
    <2>5. TypeOK'
      <3>1. readers' \in [Procs -> Nat]
        BY <2>1 DEF IInv, TypeOK
      <3>2. activeWriter' = activeWriter /\ writerCount' = writerCount
        BY <2>1
      <3>3. QED
        BY <3>1, <3>2, <2>3, <2>4 DEF IInv, TypeOK, Asks
    <2>6. WriterExclusive'
      BY <2>1, <1>2 DEF IInv, TypeOK, WriterExclusive, ReadCondition
    <2>7. NoLostWakeup'
      <3>1. CASE rwQueue' = <<>>
        <4>1. \A x \in Procs : ~Contains(rwQueue', x)
          BY <3>1 DEF Contains
        <4>2. QED
          BY <4>1, <2>4 DEF QueueIsPending, Pending, NoLostWakeup
      <3>2. CASE rwQueue' # <<>>
        BY <3>2, <2>1, <2>2, NotifyWakesAll DEF NoLostWakeup
      <3>3. QED
        BY <3>1, <3>2
    <2>8. QED
      BY <2>4, <2>5, <2>6, <2>7 DEF IInv
  <1>3. QED
    BY <1>1, <1>2

\* write_lock from the first test of its condition to a grant or a wait.
LEMMA TryWriteKeeps ==
  ASSUME IInv, NEW p \in Procs, NEW q, RequestQueue(p, q), Asks(p, "write"),
         TryWrite(p, q)
  PROVE  IInv'
  <1>1. CASE ~WriteCondition(q, p)
    BY <1>1, SleepKeeps DEF TryWrite
  <1>2. CASE WriteCondition(q, p)
    <2>1. /\ rwQueue' = RemoveFirst(q, p)
          /\ activeWriter' = p
          /\ writerCount' = writerCount + 1
          /\ status' = [status EXCEPT ![p] = "out"]
          /\ readers' = readers
      BY <1>2 DEF TryWrite
    <2>2. /\ status' \in [Procs -> Statuses]
          /\ status'[p] = "out"
          /\ \A x \in Procs \ {p} : status'[x] = "out" <=> status[x] = "out"
      BY <2>1 DEF IInv, TypeOK, Statuses
    <2>3. rwQueue' \in Seq(Procs) /\ QueueIsPending'
      BY <2>1, <2>2, LeaveQueue
    <2>4. TypeOK'
      BY <2>1, <2>2, <2>3 DEF IInv, TypeOK, Asks
    <2>5. WriterExclusive'
      BY <2>1, <1>2, ProcsAssumption
         DEF IInv, TypeOK, WriterExclusive, WriteCondition, NoReaders
    <2>6. NoLostWakeup'
      BY <2>1, <2>2, ProcsAssumption
         DEF NoLostWakeup, Condition, ReadCondition, WriteCondition
    <2>7. QED
      BY <2>3, <2>4, <2>5, <2>6 DEF IInv
  <1>3. QED
    BY <1>1, <1>2

\* Initially there is no request and no holder.
LEMMA InitIInv == Init => IInv
  BY ProcsAssumption
     DEF Init, IInv, TypeOK, Statuses, WriterExclusive, QueueIsPending, Pending,
         NoDuplicates, Contains, NoLostWakeup

\* One step per critical section of the code.
LEMMA StepIInv == IInv /\ [Next]_vars => IInv'
  <1> SUFFICES ASSUME IInv, [Next]_vars PROVE IInv'
    OBVIOUS
  <1>1. ASSUME NEW p \in Procs, ReadLock(p) PROVE IInv'
    <2>1. RequestQueue(p, Enqueue(p))
      BY <1>1, EnqueueRequest DEF ReadLock
    <2>2. Asks(p, "read")
      BY <1>1 DEF ReadLock, Asks, IInv, TypeOK
    <2>3. QED
      BY <1>1, <2>1, <2>2, TryReadKeeps DEF ReadLock
  <1>2. ASSUME NEW p \in Procs, WriteLock(p) PROVE IInv'
    <2>1. RequestQueue(p, Enqueue(p))
      BY <1>2, EnqueueRequest DEF WriteLock
    <2>2. Asks(p, "write")
      BY <1>2 DEF WriteLock, Asks, IInv, TypeOK
    <2>3. QED
      BY <1>2, <2>1, <2>2, TryWriteKeeps DEF WriteLock
  <1>3. ASSUME NEW p \in Procs, Retest(p) PROVE IInv'
    <2>1. RequestQueue(p, rwQueue)
      BY <1>3, WokenRequest DEF Retest
    <2>2. Asks(p, wants[p])
      BY <1>3 DEF Retest, Asks, IInv, TypeOK
    <2>3. CASE wants[p] = "read" /\ TryRead(p, rwQueue)
      BY <2>1, <2>2, <2>3, TryReadKeeps
    <2>4. CASE wants[p] = "write" /\ TryWrite(p, rwQueue)
      BY <2>1, <2>2, <2>4, TryWriteKeeps
    <2>5. QED
      BY <1>3, <2>3, <2>4 DEF Retest
  <1>4. ASSUME NEW p \in Procs, Interrupt(p) PROVE IInv'
    <2>1. TypeOK' /\ WriterExclusive'
      BY <1>4 DEF Interrupt, IInv, TypeOK, Statuses, WriterExclusive
    <2>2. QueueIsPending'
      BY <1>4 DEF Interrupt, IInv, TypeOK, QueueIsPending, Pending
    <2>3. NoLostWakeup'
      BY <1>4 DEF Interrupt, IInv, TypeOK, NoLostWakeup, Condition, ReadCondition,
                  WriteCondition, AtHead, NoReaders
    <2>4. QED
      BY <2>1, <2>2, <2>3 DEF IInv
  <1>5. ASSUME NEW p \in Procs, Abandon(p) PROVE IInv'
    <2> DEFINE s == [status EXCEPT ![p] = "out"]
    <2>1. s \in [Procs -> Statuses] /\ status' = NotifyAll(s)
      BY <1>5 DEF Abandon, IInv, TypeOK, Statuses
    <2>2. RequestQueue(p, rwQueue)
      BY <1>5 DEF Abandon, IInv, TypeOK, QueueIsPending, Pending, RequestQueue
    <2>3. /\ status' \in [Procs -> Statuses]
          /\ status'[p] = "out"
          /\ \A x \in Procs \ {p} : status'[x] = "out" <=> status[x] = "out"
      BY <2>1, NotifyWakesAll DEF IInv, TypeOK
    <2>4. rwQueue' \in Seq(Procs) /\ QueueIsPending'
      BY <1>5, <2>2, <2>3, LeaveQueue DEF Abandon
    <2>5. TypeOK' /\ WriterExclusive'
      BY <1>5, <2>3, <2>4 DEF Abandon, IInv, TypeOK, WriterExclusive
    <2>6. NoLostWakeup'
      BY <2>1, NotifyWakesAll DEF NoLostWakeup
    <2>7. QED
      BY <2>4, <2>5, <2>6 DEF IInv
  <1>6. ASSUME NEW p \in Procs, ReadUnlock(p) PROVE IInv'
    <2>1. /\ rwQueue' = rwQueue /\ activeWriter' = activeWriter
          /\ writerCount' = writerCount /\ wants' = wants
          /\ readers' = [readers EXCEPT ![p] = IF @ = 0 THEN 0 ELSE @ - 1]
      BY <1>6 DEF ReadUnlock
    <2>2. readers' \in [Procs -> Nat]
      BY <2>1 DEF IInv, TypeOK
    <2>3. status' = NotifyAll(status) \/ status' = status
      BY <1>6 DEF ReadUnlock
    <2>4. status' \in [Procs -> Statuses]
          /\ \A x \in Procs : status'[x] = "out" <=> status[x] = "out"
      BY <2>3, NotifyWakesAll DEF IInv, TypeOK
    <2>5. TypeOK'
      BY <2>1, <2>2, <2>4 DEF IInv, TypeOK
    <2>6. WriterExclusive' /\ QueueIsPending'
      BY <2>1, <2>4 DEF IInv, TypeOK, WriterExclusive, QueueIsPending, Pending
    <2>7. NoLostWakeup'
      <3>1. CASE status' = NotifyAll(status)
        BY <3>1, NotifyWakesAll DEF IInv, TypeOK, NoLostWakeup
      <3>2. CASE status' = status /\ (NoReaders' => NoReaders \/ activeWriter # NoActiveWriter)
        <4> SUFFICES ASSUME NEW x \in Procs, status[x] = "asleep",
                            Condition(rwQueue, x)'
                     PROVE  FALSE
          BY <3>2 DEF NoLostWakeup
        <4>1. ~Condition(rwQueue, x) /\ x # p
          BY <1>6 DEF IInv, NoLostWakeup, ReadUnlock
        <4>2. readers'[x] = readers[x]
          BY <4>1, <2>1 DEF IInv, TypeOK
        <4>3. QED
          BY <3>2, <4>1, <4>2, <2>1
             DEF Condition, ReadCondition, WriteCondition, AtHead
      <3>3. CASE readers[p] = 0
        BY <3>2, <3>3, <1>6, <2>1 DEF ReadUnlock, NoReaders, IInv, TypeOK
      <3>4. QED
        BY <3>1, <3>2, <3>3, <1>6 DEF ReadUnlock, IInv, TypeOK
    <2>8. QED
      BY <2>5, <2>6, <2>7 DEF IInv
  <1>7. ASSUME NEW p \in Procs, WriteUnlock(p) PROVE IInv'
    <2>1. CASE activeWriter # p
      <3>1. UNCHANGED vars
        BY <1>7, <2>1 DEF WriteUnlock, vars
      <3>2. QED
        BY <3>1 DEF vars, IInv, TypeOK, WriterExclusive, QueueIsPending, Pending,
                    NoLostWakeup, Condition, ReadCondition, WriteCondition, AtHead, NoReaders
    <2>2. CASE activeWriter = p /\ writerCount' # 0
      BY <1>7, <2>2, ProcsAssumption
         DEF WriteUnlock, IInv, TypeOK, WriterExclusive, QueueIsPending, Pending,
             NoLostWakeup, Condition, ReadCondition, WriteCondition, AtHead, NoReaders
    <2>3. CASE activeWriter = p /\ writerCount' = 0
      <3>1. /\ status' = NotifyAll(status) /\ activeWriter' = NoActiveWriter
            /\ rwQueue' = rwQueue /\ readers' = readers /\ wants' = wants
        BY <1>7, <2>3 DEF WriteUnlock
      <3>2. /\ status' \in [Procs -> Statuses]
            /\ \A x \in Procs : status'[x] # "asleep"
            /\ \A x \in Procs : status'[x] = "out" <=> status[x] = "out"
        BY <3>1, NotifyWakesAll DEF IInv, TypeOK
      <3>3. QED
        BY <2>3, <3>1, <3>2
           DEF IInv, TypeOK, WriterExclusive, QueueIsPending, Pending, NoLostWakeup
    <2>4. QED
      BY <2>1, <2>2, <2>3
  <1>8. CASE UNCHANGED vars
    BY <1>8 DEF vars, IInv, TypeOK, WriterExclusive, QueueIsPending, Pending,
                NoLostWakeup, Condition, ReadCondition, WriteCondition, AtHead, NoReaders
  <1>9. QED
    BY <1>1, <1>2, <1>3, <1>4, <1>5, <1>6, <1>7, <1>8 DEF Next

-----------------------------------------------------------------------------

\* The inductive invariant holds in every reachable state.
LEMMA AlwaysIInv == Spec => []IInv
  BY InitIInv, StepIInv, PTL DEF Spec

\* The members of rwlock keep their types.
THEOREM TypeCorrect == Spec => []TypeOK
  <1>1. IInv => TypeOK
    BY DEF IInv
  <1>2. QED
    BY <1>1, AlwaysIInv, PTL

\* A thread writes alone: read_lock and write_lock never let two threads in
\* of which one writes.
THEOREM WritersExclude == Spec => []WriterExclusive
  <1>1. IInv => WriterExclusive
    BY DEF IInv
  <1>2. QED
    BY <1>1, AlwaysIInv, PTL

\* _rwQueue is the set of unfinished requests, in order, also after waits
\* that ended with the exception.
THEOREM QueueExact == Spec => []QueueIsPending
  <1>1. IInv => QueueIsPending
    BY DEF IInv
  <1>2. QED
    BY <1>1, AlwaysIInv, PTL

\* Whenever a sleeping thread's condition has become true it was notified.
THEOREM WakeupsComplete == Spec => []NoLostWakeup
  <1>1. IInv => NoLostWakeup
    BY DEF IInv
  <1>2. QED
    BY <1>1, AlwaysIInv, PTL

\* A thread that has to wait holds nothing, unless it upgrades a read lock.
\* So there is no cycle of threads that wait for each other.
THEOREM NoHoldAndWait == Spec => []WaitersHoldNothing
  <1>1. Init => WaitersHoldNothing
    BY DEF Init, WaitersHoldNothing, Pending
  <1>2. IInv /\ WaitersHoldNothing /\ [Next]_vars => WaitersHoldNothing'
    <2> SUFFICES ASSUME IInv, WaitersHoldNothing, [Next]_vars, ~AllowUpgrade,
                        NEW p \in Procs, Pending(p)'
                 PROVE  readers'[p] = 0 /\ activeWriter' # p
      BY DEF WaitersHoldNothing
    <2> USE DEF IInv, TypeOK, Pending, WaitersHoldNothing
    <2>1. ASSUME NEW x \in Procs, NEW q, TryRead(x, q)
          PROVE  /\ activeWriter' = activeWriter
                 /\ p # x => readers'[p] = readers[p]
                 /\ p = x => ~ReadCondition(q, p) /\ readers' = readers
      <3>1. CASE ~ReadCondition(q, x)
        BY <2>1, <3>1 DEF TryRead
      <3>2. CASE ReadCondition(q, x)
        <4>1. status'[x] = "out"
          BY <2>1, <3>2 DEF TryRead, NotifyAll
        <4>2. readers' = [readers EXCEPT ![x] = @ + 1] /\ activeWriter' = activeWriter
          BY <2>1, <3>2 DEF TryRead
        <4>3. QED
          BY <4>1, <4>2
      <3>3. QED
        BY <3>1, <3>2
    <2>2. ASSUME NEW x \in Procs, NEW q, TryWrite(x, q)
          PROVE  /\ readers' = readers
                 /\ p # x => activeWriter' \in {activeWriter, x}
                 /\ p = x => ~WriteCondition(q, p) /\ activeWriter' = activeWriter
      BY <2>2 DEF TryWrite
    <2>3. ASSUME NEW x \in Procs, ReadLock(x) PROVE readers'[p] = 0 /\ activeWriter' # p
      <3>1. CASE p = x
        BY <2>1, <2>3, <3>1 DEF ReadLock, ReadCondition, WriterExclusive
      <3>2. CASE p # x
        <4>1. status[p] # "out"
          BY <2>3, <3>2 DEF ReadLock, TryRead, NotifyAll
        <4>2. QED
          BY <2>1, <2>3, <3>2, <4>1 DEF ReadLock
      <3>3. QED
        BY <3>1, <3>2
    <2>4. ASSUME NEW x \in Procs, WriteLock(x) PROVE readers'[p] = 0 /\ activeWriter' # p
      <3>1. CASE p = x
        BY <2>2, <2>4, <3>1 DEF WriteLock, WriteCondition
      <3>2. CASE p # x
        <4>1. status[p] # "out"
          BY <2>4, <3>2 DEF WriteLock, TryWrite
        <4>2. QED
          BY <2>2, <2>4, <3>2, <4>1 DEF WriteLock
      <3>3. QED
        BY <3>1, <3>2
    <2>5. ASSUME NEW x \in Procs, Retest(x) PROVE readers'[p] = 0 /\ activeWriter' # p
      <3>1. status[p] # "out"
        BY <2>5 DEF Retest, TryRead, TryWrite, NotifyAll
      <3>2. CASE TryRead(x, rwQueue)
        BY <2>1, <3>1, <3>2
      <3>3. CASE TryWrite(x, rwQueue)
        BY <2>2, <3>1, <3>3
      <3>4. QED
        BY <2>5, <3>2, <3>3 DEF Retest
    <2>6. ASSUME NEW x \in Procs, Interrupt(x) \/ Abandon(x)
          PROVE  readers'[p] = 0 /\ activeWriter' # p
      <3>1. status[p] # "out"
        BY <2>6 DEF Interrupt, Abandon, NotifyAll
      <3>2. QED
        BY <2>6, <3>1 DEF Interrupt, Abandon
    <2>7. ASSUME NEW x \in Procs, ReadUnlock(x) PROVE readers'[p] = 0 /\ activeWriter' # p
      <3>1. status[p] # "out"
        BY <2>7 DEF ReadUnlock, NotifyAll
      <3>2. readers' = [readers EXCEPT ![x] = IF @ = 0 THEN 0 ELSE @ - 1]
            /\ activeWriter' = activeWriter
        BY <2>7 DEF ReadUnlock
      <3>3. QED
        BY <3>1, <3>2
    <2>8. ASSUME NEW x \in Procs, WriteUnlock(x) PROVE readers'[p] = 0 /\ activeWriter' # p
      <3>1. status[p] # "out"
        BY <2>8 DEF WriteUnlock, NotifyAll
      <3>2. readers' = readers /\ activeWriter' \in {activeWriter, NoActiveWriter}
        BY <2>8 DEF WriteUnlock
      <3>3. QED
        BY <3>1, <3>2, ProcsAssumption
    <2>9. CASE UNCHANGED vars
      BY <2>9 DEF vars
    <2>10. QED
      BY <2>3, <2>4, <2>5, <2>6, <2>7, <2>8, <2>9 DEF Next
  <1>3. QED
    BY <1>1, <1>2, AlwaysIInv, PTL DEF Spec

\* Requests are served in the order of the queue: a thread that holds nothing
\* gets in only from the head, so a writer is not starved by later readers.
THEOREM ServedInOrder == Spec => NoOvertaking
  <1>1. IInv /\ [Next]_vars =>
          [\A p \in Procs : ~Holds(p) /\ Holds(p)' => AtHead(rwQueue, p)]_vars
    <2> SUFFICES ASSUME IInv, Next, NEW p \in Procs, ~Holds(p), Holds(p)'
                 PROVE  AtHead(rwQueue, p)
      BY DEF vars, Holds
    <2> USE DEF IInv, TypeOK, Holds
    <2>1. ASSUME NEW x \in Procs, NEW q, RequestQueue(x, q), TryRead(x, q)
          PROVE  AtHead(rwQueue, p)
      <3>1. x = p /\ ReadCondition(q, x)
        BY <2>1 DEF TryRead
      <3>2. QED
        BY <2>1, <3>1 DEF ReadCondition, AtHead, RequestQueue
    <2>2. ASSUME NEW x \in Procs, NEW q, RequestQueue(x, q), TryWrite(x, q)
          PROVE  AtHead(rwQueue, p)
      <3>1. x = p /\ WriteCondition(q, x)
        BY <2>2 DEF TryWrite
      <3>2. QED
        BY <2>2, <3>1 DEF WriteCondition, AtHead, RequestQueue
    <2>3. ASSUME NEW x \in Procs, ReadLock(x) \/ WriteLock(x) PROVE AtHead(rwQueue, p)
      BY <2>1, <2>2, <2>3, EnqueueRequest DEF ReadLock, WriteLock
    <2>4. ASSUME NEW x \in Procs, Retest(x) PROVE AtHead(rwQueue, p)
      BY <2>1, <2>2, <2>4, WokenRequest DEF Retest
    <2>5. ASSUME NEW x \in Procs,
                 Interrupt(x) \/ Abandon(x) \/ ReadUnlock(x) \/ WriteUnlock(x)
          PROVE  FALSE
      <3>1. readers'[p] = 0
        BY <2>5 DEF Interrupt, Abandon, ReadUnlock, WriteUnlock
      <3>2. activeWriter' # p
        BY <2>5, ProcsAssumption DEF Interrupt, Abandon, ReadUnlock, WriteUnlock
      <3>3. QED
        BY <3>1, <3>2
    <2>6. QED
      BY <2>3, <2>4, <2>5 DEF Next
  <1>2. QED
    BY <1>1, AlwaysIInv, PTL DEF Spec, NoOvertaking
=============================================================================
