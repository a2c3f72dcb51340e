------------------------------- MODULE RWLock -------------------------------
(***************************************************************************)
(* upan::rwlock (libustd/mthread/rwlock.cpp): a recursive reader/writer    *)
(* lock with one queue of requests, built from a mutex _m and a condition  *)
(* variable _cv.                                                           *)
(*                                                                         *)
(* Everything the class keeps is read and written with _m held, so a step  *)
(* is one stretch of code from taking _m (mutex_guard, or the return of    *)
(* pthread_cond_wait) to giving it up (end of the call, or waitqueue,      *)
(* which puts the caller to sleep and releases _m in one system call).     *)
(* Module Mutex is what makes such a stretch atomic.                       *)
(***************************************************************************)
EXTENDS Naturals, Sequences, SequencesExt

CONSTANTS
    Procs,          \* the threads, identified by getpid()
    NoActiveWriter, \* NO_ACTIVE_WRITER
    MaxDepth,       \* bound: how deep a thread nests either lock
    AllowUpgrade    \* whether a thread that only reads may call write_lock

ASSUME ProcsAssumption == NoActiveWriter \notin Procs
ASSUME MaxDepthAssumption == MaxDepth \in Nat \ {0}
ASSUME UpgradeAssumption == AllowUpgrade \in BOOLEAN

VARIABLES
    readers,      \* _readers: open read locks per thread, 0 for no entry
    rwQueue,      \* _rwQueue
    activeWriter, \* _active_writer
    writerCount,  \* _active_writer_lock_count
    status,       \* status[p]: see Statuses
    wants         \* wants[p]: the lock p last asked for

vars == <<readers, rwQueue, activeWriter, writerCount, status, wants>>

\* A thread is outside the lock functions, asleep in waitqueue, or on its way
\* back from there to _m: woken by a notification, or interrupted.
Statuses == {"out", "asleep", "woken", "interrupted"}

TypeOK ==
    /\ readers \in [Procs -> Nat]
    /\ rwQueue \in Seq(Procs)
    /\ activeWriter \in Procs \cup {NoActiveWriter}
    /\ writerCount \in Nat
    /\ status \in [Procs -> Statuses]
    /\ wants \in [Procs -> {"read", "write"}]

Init ==
    /\ readers = [p \in Procs |-> 0]
    /\ rwQueue = <<>>
    /\ activeWriter = NoActiveWriter
    /\ writerCount = 0
    /\ status = [p \in Procs |-> "out"]
    /\ wants = [p \in Procs |-> "read"]

-----------------------------------------------------------------------------

\* The head of the queue test both conditions share.
AtHead(q, p) == q = <<>> \/ q[1] = p

Holds(p) == readers[p] > 0 \/ activeWriter = p

NoReaders == \A p \in Procs : readers[p] = 0

\* Mutant of ReadCondition: readers do not queue.
ReadAheadOfQueue(q, p) == activeWriter \in {NoActiveWriter, p}

\* Mutant of ReadCondition: no case for a recursive reader.
ReadNotRecursive(q, p) ==
    /\ activeWriter \in {NoActiveWriter, p}
    /\ AtHead(q, p) \/ activeWriter = p

\* The condition lambda of read_lock, on queue q.
ReadCondition(q, p) ==
    /\ activeWriter \in {NoActiveWriter, p}
    /\ AtHead(q, p) \/ readers[p] > 0 \/ activeWriter = p

\* Mutant of WriteCondition: the readers are not looked at.
WriteDespiteReaders(q, p) ==
    activeWriter = p \/ (activeWriter = NoActiveWriter /\ AtHead(q, p))

\* The condition lambda of write_lock, on queue q.
WriteCondition(q, p) ==
    /\ activeWriter = p \/ (activeWriter = NoActiveWriter /\ NoReaders)
    /\ AtHead(q, p) \/ activeWriter = p

Condition(q, p) ==
    IF wants[p] = "read" THEN ReadCondition(q, p) ELSE WriteCondition(q, p)

\* pid is appended to the queue unless it is there already.
Enqueue(p) == IF Contains(rwQueue, p) THEN rwQueue ELSE Append(rwQueue, p)

\* waitdequeue(id, true), the kernel side of notify_all: every sleeper wakes.
NotifyAll(s) == [p \in Procs |-> IF s[p] = "asleep" THEN "woken" ELSE s[p]]

\* waitc with queue q, up to its first wait or to the end of read_lock.
TryRead(p, q) ==
    \/ /\ ReadCondition(q, p)
       /\ rwQueue' = RemoveFirst(q, p)
       /\ readers' = [readers EXCEPT ![p] = @ + 1]
       /\ LET s == [status EXCEPT ![p] = "out"]
          IN status' = IF rwQueue' # <<>> THEN NotifyAll(s) ELSE s
       /\ UNCHANGED <<activeWriter, writerCount>>
    \/ /\ ~ReadCondition(q, p)
       /\ rwQueue' = q
       /\ status' = [status EXCEPT ![p] = "asleep"]
       /\ UNCHANGED <<readers, activeWriter, writerCount>>

\* The same for write_lock; a writer that gets in notifies nobody.
TryWrite(p, q) ==
    \/ /\ WriteCondition(q, p)
       /\ rwQueue' = RemoveFirst(q, p)
       /\ activeWriter' = p
       /\ writerCount' = writerCount + 1
       /\ status' = [status EXCEPT ![p] = "out"]
       /\ UNCHANGED readers
    \/ /\ ~WriteCondition(q, p)
       /\ rwQueue' = q
       /\ status' = [status EXCEPT ![p] = "asleep"]
       /\ UNCHANGED <<readers, activeWriter, writerCount>>

ReadLock(p) ==
    /\ status[p] = "out"
    /\ readers[p] < MaxDepth
    /\ wants' = [wants EXCEPT ![p] = "read"]
    /\ TryRead(p, Enqueue(p))

WriteLock(p) ==
    /\ status[p] = "out"
    /\ AllowUpgrade \/ readers[p] = 0 \/ activeWriter = p
    /\ activeWriter = p => writerCount < MaxDepth
    /\ wants' = [wants EXCEPT ![p] = "write"]
    /\ TryWrite(p, Enqueue(p))

\* A woken thread is back from pthread_cond_wait with _m held and tests its
\* condition again.
Retest(p) ==
    /\ status[p] = "woken"
    /\ \/ wants[p] = "read" /\ TryRead(p, rwQueue)
       \/ wants[p] = "write" /\ TryWrite(p, rwQueue)
    /\ UNCHANGED wants

\* The kernel ends a wait without a notification: waitqueue returns non-zero.
Interrupt(p) ==
    /\ status[p] = "asleep"
    /\ status' = [status EXCEPT ![p] = "interrupted"]
    /\ UNCHANGED <<readers, rwQueue, activeWriter, writerCount, wants>>

\* Mutant of Abandon: the exception path does not notify.
AbandonSilently(p) ==
    /\ status[p] = "interrupted"
    /\ rwQueue' = RemoveFirst(rwQueue, p)
    /\ status' = [status EXCEPT ![p] = "out"]
    /\ UNCHANGED <<readers, activeWriter, writerCount, wants>>

\* Mutant of Abandon: the request stays in the queue.
AbandonKeepsEntry(p) ==
    /\ status[p] = "interrupted"
    /\ status' = NotifyAll([status EXCEPT ![p] = "out"])
    /\ UNCHANGED <<readers, rwQueue, activeWriter, writerCount, wants>>

\* The catch block of read_lock and write_lock, then the exception leaves.
Abandon(p) ==
    /\ status[p] = "interrupted"
    /\ rwQueue' = RemoveFirst(rwQueue, p)
    /\ status' = NotifyAll([status EXCEPT ![p] = "out"])
    /\ UNCHANGED <<readers, activeWriter, writerCount, wants>>

\* Mutant of ReadUnlock: no check for a thread without a read lock.
ReadUnlockUnchecked(p) ==
    /\ status[p] = "out"
    /\ readers' = [readers EXCEPT ![p] = @ - 1]
    /\ UNCHANGED <<rwQueue, activeWriter, writerCount, status, wants>>

\* read_unlock; a thread that holds no read lock returns without effect.
ReadUnlock(p) ==
    /\ status[p] = "out"
    /\ readers' = [readers EXCEPT ![p] = IF @ = 0 THEN 0 ELSE @ - 1]
    /\ status' = IF readers[p] > 0 /\ NoReaders' /\ activeWriter = NoActiveWriter
                 THEN NotifyAll(status) ELSE status
    /\ UNCHANGED <<rwQueue, activeWriter, writerCount, wants>>

\* Mutant of WriteUnlock: the last release does not notify.
WriteUnlockSilently(p) ==
    /\ status[p] = "out"
    /\ activeWriter = p
    /\ writerCount' = writerCount - 1
    /\ activeWriter' = IF writerCount' = 0 THEN NoActiveWriter ELSE p
    /\ UNCHANGED <<readers, rwQueue, status, wants>>

\* write_unlock; a thread that is not the active writer returns without effect.
WriteUnlock(p) ==
    /\ status[p] = "out"
    /\ IF activeWriter = p
       THEN /\ writerCount' = writerCount - 1
            /\ activeWriter' = IF writerCount' = 0 THEN NoActiveWriter ELSE p
            /\ status' = IF writerCount' = 0 THEN NotifyAll(status) ELSE status
       ELSE UNCHANGED <<writerCount, activeWriter, status>>
    /\ UNCHANGED <<readers, rwQueue, wants>>

Next ==
    \E p \in Procs :
        \/ ReadLock(p) \/ WriteLock(p) \/ Retest(p)
        \/ Interrupt(p) \/ Abandon(p)
        \/ ReadUnlock(p) \/ WriteUnlock(p)

Spec == Init /\ [][Next]_vars

\* A thread that is awake gets _m and runs on; and nobody keeps a lock for
\* ever: a holder goes on releasing what it holds, and when it is down to one
\* level again and again it releases that one too instead of nesting anew.
ReaderReleases(p) == readers[p] > 0 /\ ReadUnlock(p)
WriterReleases(p) == activeWriter = p /\ WriteUnlock(p)

FairSpec ==
    /\ Spec
    /\ \A p \in Procs :
         /\ WF_vars(Retest(p) \/ Abandon(p))
         /\ WF_vars(ReaderReleases(p)) /\ SF_vars(readers[p] = 1 /\ ReaderReleases(p))
         /\ WF_vars(WriterReleases(p)) /\ SF_vars(writerCount = 1 /\ WriterReleases(p))

-----------------------------------------------------------------------------

Pending(p) == status[p] # "out"

\* While a thread writes nobody else reads, the recursion count of the writer
\* is positive exactly while there is one, and readers exclude a writer.
WriterExclusive ==
    /\ activeWriter = NoActiveWriter <=> writerCount = 0
    /\ activeWriter # NoActiveWriter =>
         \A p \in Procs \ {activeWriter} : readers[p] = 0

\* A thread sleeps only while its condition is false: no grant, release,
\* or interrupted request forgets the notification that it owes.
NoLostWakeup ==
    \A p \in Procs : status[p] = "asleep" => ~Condition(rwQueue, p)

\* The queue holds each unfinished request once and nothing else: neither a
\* grant nor an interruption leaves an entry that would block the others.
NoDuplicates(q) == \A i, j \in 1..Len(q) : q[i] = q[j] => i = j
QueueIsPending ==
    /\ NoDuplicates(rwQueue)
    /\ \A p \in Procs : Pending(p) <=> Contains(rwQueue, p)

\* A thread that is kept waiting holds nothing another one could wait for,
\* unless it upgrades.
WaitersHoldNothing ==
    \A p \in Procs : Pending(p) /\ ~AllowUpgrade =>
        readers[p] = 0 /\ activeWriter # p

\* A thread that holds nothing gets in only from the head of the queue.
NoOvertaking ==
    [][\A p \in Procs : ~Holds(p) /\ Holds(p)' => AtHead(rwQueue, p)]_vars

\* Every request ends, by a grant or by the exception.
EveryRequestEnds == \A p \in Procs : Pending(p) ~> ~Pending(p)
=============================================================================
