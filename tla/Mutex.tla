------------------------------- MODULE Mutex -------------------------------
(***************************************************************************)
(* pthread_mutex_t and pthread_spinlock_t (libupthread/pthread_mutex.c and *)
(* libupthread/pthread_spin_mutex.c): a lock word changed by compare-and-  *)
(* swap, and a plain integer _lock_count that only the holder may touch.   *)
(* Every access to shared memory is a step of its own; ++ and -- of        *)
(* _lock_count are a load and a store.                                     *)
(*                                                                         *)
(* Blockers are callers with a non-negative lock owner id: they wait in    *)
(* the kernel.  Spinners have a negative one (a CPU, inside the kernel) or *)
(* use pthread_spin_lock, which is the same code with the spin loop only.  *)
(***************************************************************************)
EXTENDS Naturals

CONSTANTS
    Blockers,   \* owners that wait in waitonlock
    Spinners,   \* owners that spin
    Free,       \* FREE_MUTEX
    MaxLevel    \* bound: how deep an owner nests the lock

Owners == Blockers \cup Spinners

ASSUME OwnerAssumption == Free \notin Owners
ASSUME KindAssumption == Blockers \cap Spinners = {}
ASSUME DepthAssumption == MaxLevel \in Nat \ {0}

VARIABLES
    lock,       \* _lock: Free or the id of the owner
    lockCount,  \* _lock_count
    pc,         \* pc[o]: where o is inside the library
    reg,        \* reg[o]: the value of _lock_count o has loaded
    target,     \* target[o]: the owner whose lock o is releasing
    held        \* auxiliary: how many successful lock calls of o are open

mutexVars == <<lock, lockCount, pc, reg, target, held>>

\* The steps of a release, after its ownership check.
Releasing == {"decload", "decstore", "zerotest", "free"}
\* The steps whose next access is a plain read or write of _lock_count.
CountAccess == {"setcount", "incload", "incstore", "decload", "decstore", "zerotest"}
Waiting == {"spin", "retry", "waitonlock"}
PCs == {"idle", "parked", "free"} \cup CountAccess \cup Waiting

MutexTypeOK ==
    /\ lock \in Owners \cup {Free}
    /\ lockCount \in Nat
    /\ pc \in [Owners -> PCs]
    /\ reg \in [Owners -> Nat]
    /\ target \in [Owners -> Owners]
    /\ held \in [Owners -> Nat]

-----------------------------------------------------------------------------

MutexInit ==
    /\ lock = Free
    /\ lockCount = 0
    /\ pc = [o \in Owners |-> "idle"]
    /\ reg = [o \in Owners |-> 0]
    /\ target = [o \in Owners |-> o]
    /\ held = [o \in Owners |-> 0]

Goto(o, l) == pc' = [pc EXCEPT ![o] = l]

\* atomic_compare_swap(&_lock, FREE_MUTEX, o) and the branch on the old value;
\* an owner that finds somebody else there goes to busy.
CompareSwap(o, busy) ==
    /\ \/ lock = Free /\ lock' = o /\ Goto(o, "setcount")
       \/ lock = o /\ held[o] < MaxLevel /\ lock' = lock /\ Goto(o, "incload")
       \/ lock \notin {Free, o} /\ lock' = lock /\ Goto(o, busy)
    /\ UNCHANGED <<lockCount, reg, target, held>>

\* pthread_mutex_lock up to its branch, entered or retried after spinning.
Lock(o) ==
    /\ pc[o] \in {"idle", "retry"}
    /\ CompareSwap(o, IF o \in Spinners THEN "spin" ELSE "waitonlock")

\* pthread_mutex_trylock: gives up with EBUSY instead of waiting.
TryLock(o) == pc[o] = "idle" /\ CompareSwap(o, "idle")

\* Mutant of Spin: the word is taken for won when it was seen free.
SpinWithoutRetry(o) ==
    /\ pc[o] = "spin"
    /\ lock = Free
    /\ Goto(o, "setcount")
    /\ UNCHANGED <<lock, lockCount, reg, target, held>>

\* Mutant of Spin: the loop compares with the caller's id.
SpinForSelf(o) ==
    /\ pc[o] = "spin"
    /\ lock = o
    /\ Goto(o, "retry")
    /\ UNCHANGED <<lock, lockCount, reg, target, held>>

\* The pause loop: leave it when the word reads FREE_MUTEX, then compete again.
Spin(o) ==
    /\ pc[o] = "spin"
    /\ lock = Free
    /\ Goto(o, "retry")
    /\ UNCHANGED <<lock, lockCount, reg, target, held>>

\* The waitonlock system call: the kernel returns once it has replaced
\* FREE_MUTEX by the caller's id, which is why the caller does not swap again.
WaitOnLock(o) ==
    /\ pc[o] = "waitonlock"
    /\ lock = Free
    /\ lock' = o
    /\ Goto(o, "setcount")
    /\ UNCHANGED <<lockCount, reg, target, held>>

\* Mutant of SetCount: the count is left as the last owner left it.
SetCountForgotten(o) ==
    /\ pc[o] = "setcount"
    /\ held' = [held EXCEPT ![o] = @ + 1]
    /\ Goto(o, "idle")
    /\ UNCHANGED <<lock, lockCount, reg, target>>

\* _lock_count = 1, after the word was won by the swap or by the kernel.
SetCount(o) ==
    /\ pc[o] = "setcount"
    /\ lockCount' = 1
    /\ held' = [held EXCEPT ![o] = @ + 1]
    /\ Goto(o, "idle")
    /\ UNCHANGED <<lock, reg, target>>

\* ++_lock_count: the load, then the store.
IncLoad(o) ==
    /\ pc[o] = "incload"
    /\ reg' = [reg EXCEPT ![o] = lockCount]
    /\ Goto(o, "incstore")
    /\ UNCHANGED <<lock, lockCount, target, held>>

IncStore(o) ==
    /\ pc[o] = "incstore"
    /\ lockCount' = reg[o] + 1
    /\ held' = [held EXCEPT ![o] = @ + 1]
    /\ Goto(o, "idle")
    /\ UNCHANGED <<lock, reg, target>>

-----------------------------------------------------------------------------

\* Mutant of ReleaseFor: no ownership check.
ReleaseUnchecked(a, o) ==
    /\ target' = [target EXCEPT ![a] = o]
    /\ Goto(a, "decload")
    /\ UNCHANGED <<lock, lockCount, reg, held>>

\* The ownership check both unlock functions start with; a failed one
\* returns 1 and changes nothing.
ReleaseFor(a, o) ==
    \/ lock = o /\ target' = [target EXCEPT ![a] = o] /\ Goto(a, "decload")
                /\ UNCHANGED <<lock, lockCount, reg, held>>
    \/ lock # o /\ UNCHANGED mutexVars

\* pthread_mutex_unlock: may be called by an owner that holds nothing.
Unlock(o) == pc[o] = "idle" /\ ReleaseFor(o, o)

\* o is being released by somebody.
BeingReleased(o) == \E a \in Owners : pc[a] \in Releasing /\ target[a] = o

\* pthread_mutex_unlock_owner: a releases the lock in the name of o.  It is
\* meant for an owner that cannot run, so o is parked in the kernel and
\* nobody else is releasing it.
UnlockOwner(a, o) ==
    /\ pc[a] = "idle"
    /\ pc[o] = "parked"
    /\ ~BeingReleased(o)
    /\ ReleaseFor(a, o)

\* Mutant of DecLoad: the word is given back before the count is written.
FreeBeforeCount(a) ==
    /\ pc[a] = "decload"
    /\ reg' = [reg EXCEPT ![a] = lockCount]
    /\ lock' = IF lockCount = 1 THEN Free ELSE lock
    /\ Goto(a, IF lockCount > 0 THEN "decstore" ELSE "zerotest")
    /\ UNCHANGED <<lockCount, target, held>>

\* if (_lock_count > 0) --_lock_count: the load ...
DecLoad(a) ==
    /\ pc[a] = "decload"
    /\ reg' = [reg EXCEPT ![a] = lockCount]
    /\ Goto(a, IF lockCount > 0 THEN "decstore" ELSE "zerotest")
    /\ UNCHANGED <<lock, lockCount, target, held>>

\* ... and the store.
DecStore(a) ==
    /\ pc[a] = "decstore"
    /\ lockCount' = reg[a] - 1
    /\ Goto(a, "zerotest")
    /\ UNCHANGED <<lock, reg, target, held>>

\* One level is closed: by the test that finds more levels open, or by the
\* store that gives the word back.
CloseLevel(a) == held' = [held EXCEPT ![target[a]] = @ - 1]

\* Mutant of ZeroTest: a nested release gives the word back.
FreeAtEveryLevel(a) ==
    /\ pc[a] = "zerotest"
    /\ Goto(a, "free")
    /\ UNCHANGED <<lock, lockCount, reg, target, held>>

\* if (!_lock_count), the nested release returns here.
ZeroTest(a) ==
    /\ pc[a] = "zerotest"
    /\ \/ lockCount = 0 /\ Goto(a, "free") /\ UNCHANGED held
       \/ lockCount # 0 /\ Goto(a, "idle") /\ CloseLevel(a)
    /\ UNCHANGED <<lock, lockCount, reg, target>>

\* atomic_set(&_lock, FREE_MUTEX).
FreeStore(a) ==
    /\ pc[a] = "free"
    /\ lock' = Free
    /\ CloseLevel(a)
    /\ Goto(a, "idle")
    /\ UNCHANGED <<lockCount, reg, target>>

-----------------------------------------------------------------------------

\* A holder goes to sleep in the kernel (waitqueue, or the end of its
\* process) and comes back when nobody is releasing its lock any more.
Park(o) ==
    /\ pc[o] = "idle"
    /\ held[o] > 0
    /\ Goto(o, "parked")
    /\ UNCHANGED <<lock, lockCount, reg, target, held>>

Resume(o) ==
    /\ pc[o] = "parked"
    /\ ~BeingReleased(o)
    /\ Goto(o, "idle")
    /\ UNCHANGED <<lock, lockCount, reg, target, held>>

\* The steps of a call that has begun: they need nobody's decision.
Progress(o) ==
    \/ Spin(o) \/ WaitOnLock(o) \/ SetCount(o) \/ IncLoad(o) \/ IncStore(o)
    \/ DecLoad(o) \/ DecStore(o) \/ ZeroTest(o) \/ FreeStore(o)
    \/ pc[o] = "retry" /\ Lock(o)

MutexNext ==
    \E o \in Owners :
        \/ Progress(o)
        \/ Lock(o) \/ TryLock(o) \/ Unlock(o)
        \/ \E p \in Owners : UnlockOwner(o, p)
        \/ Park(o) \/ Resume(o)

MutexSpec == MutexInit /\ [][MutexNext]_mutexVars

\* A call that has begun keeps running: the scheduler is fair to its owner.
FairMutexSpec == MutexSpec /\ \A o \in Owners : WF_mutexVars(Progress(o))

-----------------------------------------------------------------------------

\* At no time two owners have a lock call that returned and is not released.
MutualExclusion ==
    \A o, p \in Owners : held[o] > 0 /\ held[p] > 0 => o = p

\* No two callers are at an access of the plain integer _lock_count at the
\* same time: it needs no atomic operation (pthread_mutex.c uses none).
NoCountRace ==
    \A o, p \in Owners : pc[o] \in CountAccess /\ pc[p] \in CountAccess => o = p

\* The two words agree with the calls made: the word is free exactly when
\* nobody holds the lock or is about to, with a count of zero left behind,
\* and between calls the count is the nesting depth of the owner in the word.
CountExact ==
    /\ lock = Free => lockCount = 0 /\ \A o \in Owners : held[o] = 0
    /\ \A o \in Owners :
         /\ held[o] > 0 => lock = o
         /\ lock = o /\ pc[o] \in {"idle", "parked"} /\ ~BeingReleased(o)
              => lockCount = held[o] /\ held[o] > 0

\* Every step of the lock is a step, or no step, of the abstract lock.
Abstract == INSTANCE RecursiveLock WITH depth <- held
ImplementsRecursiveLock == Abstract!Spec

\* A free lock somebody waits for does not stay free: no release is missed
\* by a spinning or sleeping caller.
FreedLockIsTaken ==
    (lock = Free /\ \E o \in Owners : pc[o] \in Waiting) ~> (lock # Free)
=============================================================================
