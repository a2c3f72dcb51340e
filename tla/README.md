# A verification project for upanlibs

upanlibs is the user-space and kernel library of the Upanix operating system: a
libc, a pthread library (`libupthread`), a C++ base library (`libustd`) and a UI
toolkit (`libupanui`). This directory holds TLA+ models of its concurrent core,
of its linked containers and of the UI object manager, the TLC configurations
that check them and TLAPS proofs about them.

All models are written from the source. `PROJECT.json` maps every definition to
the lines it stands for, and lists runs, mutants, hazards and theorems.

## Inventory

| Part | State | Operations | Interacts with | Hard because |
|---|---|---|---|---|
| mutex, spin lock (`libupthread/pthread_mutex.c`, `pthread_spin_mutex.c`; `mthread/mutex`, `spinmutex`) | lock word, plain recursion count | lock, trylock, unlock, unlock_owner | kernel `waitonlock`; everything below | races on the count, handover, nested release, release on behalf of a sleeping owner |
| condition variable (`pthread_cond.c`, `condition_variable`) | an id | wait, timed wait, signal, broadcast | kernel `waitqueue`/`waitdequeue`, mutex | agreement on the id, interrupted waits |
| reader/writer lock (`rwlock.cpp`) | readers per pid, request queue, active writer and its count | read/write lock and unlock | mutex, condition variable, list, map | lost wakeups, interrupted head of the queue, recursion, fairness |
| thread, timer thread (`thread.cpp`, `timer_thread.cpp`) | atomic state, pid, error | start, pause, resume, stop, destroy; worker loop | kernel `exect`, `isprocessalive`; refreshes the UI | stop against start and pause, lifetime of the object |
| ring queue (`ds/queue.h`) | two ends, atomic count, slots | push, write, front, pop, read, clear | producer and consumer without a lock | interleaved batches, wrap-around, full ring |
| pthread (`cpp/pthread.cpp`) | return value per pid, key table, thread-local values | create, exit, join, keys, once | mutex, kernel | pids that come back, values left behind, failing initialiser |
| UI object manager (`libupanui/uiobject/core`) | parent and child maps, redraw queue, focus | add, remove, destroy, draw, dispatch | two mutexes, timer thread | objects deleted while queued or focused |
| ordered tree, list, B-tree (`_tree.h`, `list.h`, `BTree.cpp`) | links, balance, fill | insert, erase, look up, iterate | the tree and the list are used by all, the B-tree by nobody here | rebalancing, special cases, erasing while iterating |
| small containers (`vector.h`, `bitset.h`, `MemPool.h`) | words, free list | allocate, release | | word boundaries |
| logger, metrics, env, netdb | cached files and arrays | log, rotate, get, set, reload | mutex, files | stale caches, references that outlive a lock |
| system call layer, dtime, streams, drawing, text | thin or purely functional | | kernel | |
| third-party code (libm, libcxxrt, unwinder, zlib, stdio and string functions, PNG) | | | | not this project's logic |

What makes each modelled part correct:

* mutex: mutual exclusion, the count is the nesting depth, no data race on the
  count, it is a recursive lock, a freed lock is taken by a waiter;
* rwlock: writer exclusion, no lost wakeup, the queue holds exactly the waiting
  threads, first come first served, every request ends;
* thread: one worker, nothing runs after `stop()` or the destructor, `stop()` ends;
* queue: a bounded FIFO for one producer and one consumer, no slot race;
* condition variable: all users of one variable have one id, a notification
  reaches sleepers of its own variable, and as many as it should;
* pthread: a join returns what the thread it waited for passed to `pthread_exit`,
  no thread sees what an earlier one left, `init()` runs once and before anybody
  returns from `pthread_once`;
* containers: after any history the links are sound, a tree is balanced, and each
  call does what it does to a set or a sequence;
* UI object manager: what changes is drawn, only objects that exist are used, and
  the destructor frees the whole tree and ends.

## Modules

| Module | Role |
|---|---|
| `RecursiveLock` | abstract: a recursive lock, one owner with a depth |
| `Mutex`, `MCMutex` | mutex and spin lock; instance |
| `RWLock`, `MCRWLock` | reader/writer lock with the condition variable it waits on; instance |
| `LockProofs` | proofs about both locks |
| `UThread`, `UThreadProofs`, `MCUThread` | thread object, its controllers and its worker |
| `BoundedFifo` | abstract: a bounded FIFO queue filled and emptied in batches |
| `Queue`, `QueueProofs`, `MCQueue` | the ring buffer |
| `PThread`, `PThreadProofs`, `MCPThread` | threads by pid, keys, `pthread_once`, ids of condition variables |
| `SortedSet` | abstract: a set with truthful results |
| `Tree`, `List`, `ContainerProofs` | the AVL tree and the linked list; proofs about both |
| `BTree`, `BTreeLemmas`, `BTreeProofs` | the B-tree; lemmas about the parts of its operations; its proof |
| `MCContainers` | the instance of all three containers |
| `UIObjects`, `UIObjectsProofs`, `MCUIObjects` | UI object manager, refresh thread, notifiers, destructor |

### Mutex

`lock` and `lockCount` are `_lock` and `_lock_count`. `pc[o]` says where caller
`o` is. Each atomic operation and each plain load or store of the count is a
step; `CompareSwap` is the `atomic_compare_swap` with the branch on its result.
The mutex and the spin lock are the same text but for the way they wait, so one
module serves both: blockers (owner id not negative) go to `WaitOnLock`, spinners
(a CPU in the kernel, or any user of the spin lock) to `Spin`. The shared
helpers are mapped to one of the two files.

`WaitOnLock` is the kernel. From the code that follows the call (it sets the
count to 1 and returns, with no new swap) the kernel must have stored the
caller's id in the word. `Park` and `Resume` are the kernel too: `UnlockOwner` is
meant for an owner that does not run (it sleeps in `waitqueue`, or its process
has ended), so the model calls it for a parked owner only, one call at a time.
Two callers releasing one owner at once would race on the count; in the repository
only the wrappers `mutex::unlock(pid)` and `spinmutex::unlock(owner)` call it, for the kernel.

`held` is auxiliary: the open lock calls of each owner. It is the refinement
mapping to `RecursiveLock`.

### RWLock

All data is touched with `_m` held, and `_m` is the lock that `Mutex` models, so
a step is one stretch of code under it. A thread is outside, asleep in
`waitqueue`, woken, or interrupted. `waitqueue` releases `_m` and sleeps in one
system call. `ReadLock` and `WriteLock` run up to the first wait or to the end;
`Retest` is one round of the loop in `waitc`; `Interrupt` is a non-zero return of
`waitqueue`, `Abandon` the catch block. `notify_all` wakes every sleeper.

`AllowUpgrade` says whether a thread that only reads may call `write_lock`. The
code lets it and then waits for `_readers` to become empty, the caller's own
entry included: such a thread waits until it is interrupted. Safety is checked
with upgrades, liveness without.

### UThread

`state` is the atomic `_state`; each `get()` and `set()` is a step. `start()` and
`pause()` hold `_t_mutex` from the switch to the end. `stop()` takes no mutex, nor
does the worker when it sets `stopped`. The worker is `thread_callback` around
the loop of `timer_thread::run`; the callback may throw. `Exect` may fail, and
the worker may run before `_pid` is set. Calls that throw change nothing and are
not steps. The destructor needs the object for itself: it begins when no other
controller is inside a call. `set_detach_state` and `detach` are not modelled.

A subclass destroys its own part before `~thread` calls `stop()`; what a client
must do is stop first, as `UIObjectManager` does. `QuietAfterStop` is about that.

### Queue

One producer (`push_back`, `write`) and one consumer (`front`, `pop_front`,
`read`) interleave access by access: tests of the count, each slot, the update of
the count. `Clear` writes both ends, so it is a step of a queue at rest. The
refinement mapping (`Items`) reads the counted slots from the oldest one; slots
that the consumer has passed but not uncounted still belong to it.

### PThread

`pc[t]` is where the thread with pid `t` is, `free` if nobody has the pid; the
kernel gives it out again (`Create`), which is what makes the entries that
`consume()` leaves in `_threadDataMap` and the old thread-local memory dangerous.
`thread_manager` works under its mutex, so each of its calls is a step; every
access to the id of a condition variable, to the id sequence and to the
`pthread_once_t` word is a step of its own. `waitqueue` and `waitdequeue` are the
kernel: a queue per id. Which mutex is given up there is the matter of `RWLock`.

`given`, `got`, `touched`, `inits`, `init` and `passed` are auxiliary, and so is
`wrapped`: the id sequence has drawn 0, which is also the mark of a variable
without an id, and from then on a waiter and its notifier may use two ids. A
program makes only some of the calls (`uses`, one of `Programs`): the parts share
nothing but the threads.

### Tree, SortedSet, List

A node keeps its element for life, so a tree node is named by its key; a list
node is a number. The member functions are operators from heap to heap in the
order of the code's assignments, allocation and release included. The recursion
of insert and erase is a recursive function on the calls, and `BoundFrom` is the
loop of both bounds. `Tree` is shown
to implement `SortedSet`; `List` is compared call by call with the same call on a
sequence (`CallEffect`). `ForeachStep` lets the function `foreach` calls erase the
element it is given, as `destroy()` of the UI does.

### BTree

The elements of a node are kept by value; left and right child of an element and
the parent of a node are pointers. `Search` is the binary search, which needs that
neighbours agree on the child between them. What calls itself in the code is a
recursive function here: of the node where the call goes down the tree; of how
many calls have been made where it goes up, as `InsertElement` and `Rebalance` do.
`InsertCall` and `RebalanceCall` are one such call, and stay what they are once
there is none to make; `RebalanceCall` has `BorrowRight`, `BorrowLeft` and `Merge`
for its branches.

The code loses the root when a merge takes its last element (lines 299 and 361):
if the left child was short, it becomes the root but keeps the old root for a
parent, and when it is full and splits, the middle element and the new half go to
that old root, which nothing points to; if the right child was short, the root is
the node that has just been deleted. `Uprooted` names these two states. A later
merge may leave a root without a parent again, but what went to the old root stays
lost, so the auxiliary `uprooted` remembers that the state has been met, and
`BTreeExact` is stated for as long as it has not. (With `Uprooted` in its place the
property is false, though no behaviour on few keys is long enough to show it; the
proof showed it.) No code in the repository uses the B-tree, and it has no test. `Insert` does not refuse a key that is there; the model does not
insert one.

### UIObjects

Three sorts of threads. The application's calls exclude one another and the
drawing through the tree mutex (`drawLock`), so each is a step; a mouse event
counts as one. The refresh thread holds that mutex through a `draw()`, whose
steps are the objects drawn (`frames` is the recursion of `drawTopDown`). The
notifiers change an object without the mutex, and so interleave with the drawing:
their change, the flag and the queueing are three steps. A notifier in `Blinking`
is the blink thread of a text area, which runs until `~TextArea` has stopped it;
the others are labels, changed by `setText` and the other setters on a thread of
the application. No destructor waits for those: that they have returned when
`~UIObjectManager` begins is the application's duty, and a guard of `Stop`.

`_changeState |= ...` is a load and a store without a lock. `x()`, `y()` and `xy()`
are therefore two steps, `MoveLoad` and `MoveStore`: under the tree mutex they
exclude everything but notifiers, and a flag that a notifier sets in between is
overwritten. The other writers of the word need one step: what they store has
Content or Size whatever they have loaded, so what they overwrite makes no
difference to `flagged`, and the Clean of the refresh thread is a plain store.

`~UIObjectManager` is `Stop`, `DestroyRoot` and then, object by object,
`DestroyChild`, `Unlist` and `Delete`. That no draw runs after `Stop` has
returned is `QuietAfterStop` of `UThread`.

Of the look of an object the model keeps whether its last change is in a buffer
(`outdated`), of `_changeState` whether it asks for more than a move (`flagged`).
`missed` is auxiliary: the objects whose change the code has lost. It does so in
five ways, and `Excused` names them:

1. drawing from above stops at a clean buffer (after a redraw of the root that
   replaced a full queue, or of the parent of a round canvas);
2. `draw()` throws for an object in no tree (a `Label` queues itself before it is
   added) and drops the rest of its set;
3. `setChangeState(Clean)` wipes a flag that was set during the drawing;
4. `x()`, `y()` or `xy()` stores Position over the flag of a notifier;
5. `remove()` asks for a redraw of the child and not of the parent.

The first lasts while the buffer above is clean. The others are of one object
each, until it is drawn or asks for a redraw again. Leave out any of the five and
TLC finds `NoChangeForgotten` violated in `ui`. `resize()` is not modelled: while it
runs its lock makes every notification of the object return, also that of
another thread, which loses changes in a way of its own.

`Stuck` names a deadlock: `destroy()` holds the queue mutex while it deletes an
object, `~TextArea` waits for its blink thread, and that thread waits for the
queue mutex.

`remove()` is modelled as it is: the parent entry stays, the child and not the
parent is queued, and a focus on it stays. `UIObjectManager::add` refuses only
that parent and child are the same; that an application does not hang an object
below itself by a longer way is a guard of `Add`.

## Runs

| Run | Instance | Distinct states | Shows |
|---|---|---|---|
| `mutex` | 2 blockers, 1 spinner, depth 2 | 65 436 | exclusion, count, refinement, a freed lock is taken |
| `rwlock` | 3 threads, depth 2, upgrades | 15 864 | exclusion, wakeups, queue, order |
| `rwlock_live` | 3 threads, depth 2, no upgrades | 5 812 | no hold and wait, every request ends |
| `thread` | 1 controller | 453 | lifetime, pause, `stop()` ends |
| `thread_two` | 2 controllers | 2 911 | one worker |
| `queue` | 3 slots, 2 values, batches of 2 | 120 240 | no slot race, FIFO |
| `pthread` | 3 pids, 1 key, 2 condition variables, 1 value, ids modulo 4 | 1 083 721 | joins, keys, ids, notifications, once |
| `containers` | tree of 12 keys; list of 4, 2 values; B-tree of 9 keys, and of 27 less 3 | 212 323 | links, balance, every call |
| `ui` | root and 2 objects, redraw queue of 2 | 124 449 | no change forgotten, only live objects used, teardown |
| `thread_stop_undone` | 2 controllers | | violated: see below |
| `thread_active_torn` | 1 controller | | violated: see below |
| `queue_read_overrun` | 3 slots | | violated: see below |

Bounds. The lock code compares ids for equality only, so a holder, a waiter and a
third caller that changes the word between two of their steps show all
interleavings; depth 2 separates the nested from the outermost release. Three
rwlock threads give a holder, the head of the queue and somebody behind it. Three
slots with batches of two let a batch straddle the end of the ring while the
ring is neither full nor empty. Two values show an element out of place. The
theorems remove the bounds for safety.

Three pids give a joiner, its child and a thread that takes the child's pid
meanwhile; for a condition variable two users that race for the id and a third
that notifies; two variables show a notification that goes astray. Four ids are
enough for the sequence to wrap in a run.

Twelve keys are the smallest tree in which one erase rotates at two levels. Four
list nodes give a first, a last and two inner neighbours. With four elements to a
node (32 in the code) nine keys reach splits, borrowing, merging and both ways of
losing the root. In the two trees of 27 keys, built upwards and downwards, three
deletions make inner nodes borrow from either side and merge.

In `ui` the canvas is round, translucent and buffered, the text area is a label
and blinks, and may be under the canvas or the root: the smallest tree with an
object whose drawing goes through another, and a buffer between root and leaf. A
queue of two fills up. Its one notifier is the blink thread. A label whose text is
set, alone or beside a blink thread, is covered by the theorems of
`UIObjectsProofs` only: they hold for every `Notifiers` and `Blinking`. `ChangesAppear` is
not checked for it.

Fairness. Mutex: a caller inside the library keeps running (`WF` of `Progress`);
nobody is forced to call unlock. RWLock: a woken or interrupted thread gets `_m`
(`WF` of `Retest`/`Abandon`; the mutex itself promises only that *some* waiter gets
it, so this is an assumption on the kernel's wait list), and holders release:
they may nest as they like but do not keep the last level for ever (`SF`).
UThread: worker and open calls keep running, and callbacks return. PThread: a
thread inside `pthread_once` keeps running, and `init()` ends; nobody need call
anything. UIObjects: the refresh thread triggers every 50 ms and gets the tree
mutex in the end (`SF` of `DrawBegin`, since `MoveLoad` takes it again and again; that
the mutex does not pass over one waiter for ever is an assumption, as above); a
notification or a move once begun goes on, and so does the destructor.

`CHECK_DEADLOCK FALSE` where the system may be over: a thread that has been
destroyed; threads that have ended, or that spin for ever because `init()` threw;
a UI after its destructor, or `Stuck`; a B-tree that has lost its root, or had its
three deletions.

### Findings

1. `thread_stop_undone`: `pause()` reads running; another thread's `stop()` sets
   stopping; `pause()` sets paused. The request to stop is lost and `stop()` waits
   on. The same happens to `stopped`, set by the worker.
2. `thread_active_torn`: `is_active()` reads the state twice. Paused at the first
   read and running at the second, it answers false and the loop ends.
3. `queue_read_overrun`: `read()` reads the count twice to lower `n`; a producer in
   between raises it above the request, and `out` is overrun.

Finding 2 is why `thread` states that callbacks stop, not that they continue.
Finding 1 is why the lifetime properties are stated for one controller.

Stated as exclusions of the properties, because the code does lose them:

* the id sequence of condition variables wraps to 0 (`wrapped`);
* a failing `init()` leaves the word at 1 (`OnceReturns`);
* a key that is deleted and created again shows the old value in the threads
  that had set it (`SlotsAreOwn` is about keys a thread never touched);
* the five losses in `Excused` and the deadlock `Stuck` of the UI;
* a B-tree that loses a level (`uprooted`).

Seen while reading, outside what the models are about:

* `thread::has_error()` (`ithread.h:60`) returns `_error.isEmpty()`, the opposite
  of its name;
* a waiter that holds its mutex recursively gives up one level of it in
  `waitqueue`, and sleeps with the mutex;
* `stop()` polls `isprocessalive` for a pid that another process may have got;
* `UIObjectManager` dispatches the keyboard without the tree mutex;
* `GraphicsContext.cpp:141`: the drawing transaction of a UI without automatic
  refresh starts its refresh thread at the end;
* `env.cpp:123` allocates `size() + 1` bytes for an array of that many pointers;
* `bitset.h:164` marks a bit with an `int` shift;
* `BTree::Insert` takes a key that is already there and keeps both elements.

Every property of a passing run has a mutant: a changed definition that stands
for a plausible bug, with which TLC finds the property violated.

## Proofs

TLAPS proves, for all values of the constants:

* `LockProofs`, the mutex: `MutexTypeCorrect`, `Exclusion`, `CountIsDepth`, `CountRaceFree`,
  `Refinement`. The inductive invariant ties the word to the one caller that is
  acquiring, holding, or releasing, and the loaded value and the count to `held`
  at each point of those calls. Exclusion alone is not inductive: a caller past its
  swap has no open level yet.
* `LockProofs`, the reader/writer lock: `TypeCorrect`, `WritersExclude`, `QueueExact`, `WakeupsComplete`,
  `NoHoldAndWait`, `ServedInOrder`. The queue has to be exact for the wakeups: the
  condition of a sleeper changes only when its predecessor leaves the queue, or
  when the last reader or the writer goes, and each of these steps notifies.
* `UThreadProofs`: `TypeCorrect`, `StartsOneWorker` and `PauseIsQuiet` for any
  number of controllers; `FreedIsUnused` and `StopIsQuiet` for one. The latter need that the
  pid is set whenever the only controller is inside `stop()` and a worker exists.
* `PThreadProofs`: `TypeCorrect`, `InitRunsOnce`, `JoinIsOwn`, `SlotsStayOwn`,
  `UsersAgree`, `NotificationsReach`, for any number of threads, keys, condition
  variables and ids. `OnceInv` ties the word to the one caller inside `init()`;
  `JoinInv` says that what a thread gave is what its entry in the map has, and
  that a join about to fetch a result still finds it, its pid not taken again, or is
  promised nothing; `CondInv` says which calls may be under
  way on a variable together (`CallInv`) and that an id once drawn and kept is not
  0 and is the variable's (`IdInv`).
* `QueueProofs`: `TypeCorrect`, `SlotsRaceFree`, `Refinement`, for every ring and
  batch size. The invariant has four parts: what is being written fits (`Room`),
  the consumer passes counted slots only (`Claim`), the ends are as far apart as
  the elements counted or written (`Ends`), and what is copied is the head of the
  queue (`Copied`). Lemmas about walking round the ring carry the arithmetic.
* `ContainerProofs`, the list: `ListIsWellFormed`, `ForeachVisitsAll` and the action property
  `CallsAreExact`, for lists of any length over any values. The invariant is that
  some sequence names the nodes in order: `first` is its head, `next` and `prev`
  are its neighbours taken round, and it names every allocated node once (`Ring`).
  `ListWellFormed` follows by showing that the walk from `first` along `next` is that
  sequence. Every insertion is one lemma (`GrownRing`: a node linked between two
  neighbours is `Put` into the sequence) and so is every deletion (`DeletedRing`,
  `Without`); `first` moves where the code's special cases say. Each call is then
  compared with its reference on sequences, the searches through the least or
  the greatest place of a value. That `foreach` misses nothing holds because its
  iterator has moved on before the function it calls may delete the element.
* `UIObjectsProofs`: `TypeCorrect`, `OnlyLiveUsed`, `TreeFreed` and
  `ChangesAreAskedFor`, for any number of objects, any shape of tree and any
  length of the redraw queue. That only live objects are used needs the whole of
  `UInv`: the two maps agree and link live objects (`Linked`), what the destructor
  has still to delete is in the order children first (`DestroyOrder`), a `draw()` has
  parents below children on its stack (`DrawOrder`), a move under way excludes both and no
  call of the application goes on beside them (`CallOrder`), and roots, queue, notifiers
  and the running draw name live objects only (`TreeAlive`, `UseAlive`,
  `DrawAlive`). `FreeInv` adds that what still has an entry hangs from the root,
  so that nothing is left when the destructor has passed. For the changes, `Asked` is
  carried along from the notifier to the queue and from the queue to the set
  being drawn (`Carried`, `Drawn`), and `ChangeFlagged` says that a buffer with a change
  is not skipped unless the change is `missed`; that a move stores no flag that was not
  there is part of `CallOrder`. What lies above an object is the least set closed under `parent()`.
* `ContainerProofs`, the AVL tree: `TreeIsWellFormed`, `TreeIsASet` (every step of `Tree` is a step of
  `SortedSet` or a stutter) and `TreeAnswers`, for any keys. The invariant
  `TreeInv` says that the allocated nodes are one AVL tree: `IsTree` speaks of a
  heap, a root and the set of nodes under it, so that a tree is a root joining two
  smaller ones (`Join`, `Split`), and a call that writes to one side leaves the
  other as it was (`Frame`). Each rotation turns trees into a tree, so
  `Rebalance` does; the recursion follows by induction on the height. Erasing
  a node with two children first puts its successor in its place, and until the
  successor's old place is emptied the heap is no tree: the recursion below is
  compared with the same recursion on a heap that is one. The iterator is proved by
  walking: the nodes between one key and the next are none (`Between`), and the
  climb to the parent ends (`ClimbRank`).
* `BTreeProofs`: `BTreeIsExact`, for any keys and any number of elements in a node
  from four on. The invariant `BTreeInv` says that the tree, unless it has been
  uprooted, is `Sound`: its nodes can be given children, levels above the leaves
  and bounds between which their keys are (`Shape`), each is filled (`Filled`), and
  their keys are the ones held (`KeysOf`). All leaves are at level 0, so no path is
  longer than another, and a row in order within its bounds decides where a
  search, an insertion or a neighbour is (section "Descents" of `BTreeLemmas`).
  Insert and delete are few ways to change rows, each from a `Shape` to a `Shape`
  with known keys: an element comes or goes, a node is cut around its middle
  (`CutShape`), two are merged around what was between them (`MergeShape`), elements
  pass through the parent (`ShiftShape`), a key is exchanged for the next one
  (`RekeyShape`: every key and bound is mapped, and order is kept). Between two
  calls of `InsertElement` a tree is not sound, but would be with one more element
  in one row (`Pending`); between two of `Rebalance` one node may be short
  (`Short`). `InsertOn` and `RebalanceOn` add that the levels left are no more than
  the calls to come, so that running them all is enough. The traversal is a
  function that calls itself for what is to the left of a place and for what is below;
  that it has a value, and the right one, goes by induction on level and place
  (`WalkExists`, `VisitsOrdered`). TLC cannot evaluate `BTreeInv`, which asks for
  levels and bounds that some function gives; it checks what follows from it.

Where a proof goes by induction, the module derives it for sets of naturals from
the library's theorem that < is well founded.

Assumptions are the named `ASSUME`s: distinct identifiers, positive sizes and bounds.

Only model-checked: `FreedLockIsTaken`, `EveryRequestEnds`, `StopEnds`,
`OnceReturns`, `ChangesAppear` and `TeardownEnds`: liveness is out of this
prover's reach.

## Not modelled, and the plan

1. `bitset` allocation, `MemPool`, the cached `environ()` array and the reload of the
   service database, log rotation, metrics references: small modules, each about
   the hazard listed for it.
2. Of the modelled parts: keyboard dispatch, `resize()` and its lock on
   notifications, visibility and z order of UI objects;
   copying and moving trees and lists; `SetValue` and destruction of the B-tree;
   `detach` of a thread.

The system call layer, drawing, text layout, streams and third-party code stay
out: they keep no state whose interleaving or history matters here, or are not
this repository's own.
