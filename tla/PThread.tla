------------------------------- MODULE PThread -------------------------------
(***************************************************************************)
(* Threads, thread-local keys and pthread_once (libupthread/cpp/           *)
(* pthread.cpp) and the queue ids of condition variables (libupthread/     *)
(* pthread_cond.c).                                                        *)
(*                                                                         *)
(* A thread is named by its pid, which the kernel gives again to a later   *)
(* thread.  Whatever thread_manager does is under its mutex (module        *)
(* Mutex), so it is one step; every other access to shared memory is a     *)
(* step of its own.  The mutex a waiter gives up in waitqueue is left to   *)
(* module RWLock; here the question is which queue it sleeps in.           *)
(***************************************************************************)
EXTENDS Naturals

CONSTANTS
    Threads,    \* the pids
    Main,       \* the first thread of the process: it never ends here
    KeyLimit,   \* PTHREAD_MAX_LOCAL_KEYS
    Conds,      \* the pthread_cond_t words
    Values,     \* what pthread_exit and pthread_setspecific are given
    Null,       \* nullptr
    Unknown,    \* a result nothing is promised about
    IdModulus,  \* 2^32, the range of an id
    Programs    \* the sets of calls, see APIs, a program may restrict itself to

APIs == {"thread", "join", "key", "cond", "once"}
Keys == 0 .. KeyLimit - 1
Ids == 0 .. IdModulus - 1

ASSUME MainAssumption == Main \in Threads
ASSUME KeyAssumption == KeyLimit \in Nat
ASSUME CondAssumption == Conds # {}
ASSUME ValueAssumption == Null \notin Values /\ Unknown \notin Values \cup {Null}
ASSUME ModulusAssumption == IdModulus \in Nat /\ IdModulus > 1
ASSUME ProgramAssumption == Programs \subseteq SUBSET APIs

VARIABLES
    uses,       \* the calls this program makes
    pc,         \* pc[t]: where t is, "free" if no thread has the pid
    joinable,   \* joinable[t]: the flag exectp was given
    frame,      \* frame[t]: the locals of the call t is in, see Frames
    threadData, \* _threadDataMap, Null for no entry
    threadKeys, \* _threadKeys
    local,      \* local[t][k]: _thread_local_data of t
    condId,     \* cond->_id, 0 before the first use
    seq,        \* _global_cv_id_seq._val
    once,       \* the pthread_once_t word
    \* Auxiliary, for the properties:
    given,      \* given[t]: what the last thread with pid t passed to pthread_exit
    got,        \* got[t]: what the last pthread_join of t returned
    touched,    \* touched[t]: the keys the present thread t created or set
    wrapped,    \* the id sequence has been through 0
    inits, init,\* how often init() was called, and how it ended
    passed      \* some pthread_once has returned 0

threadVars == <<joinable, threadData, given, got>>
keyVars == <<threadKeys, local, touched>>
condVars == <<condId, seq, wrapped>>
onceVars == <<once, inits, init, passed>>
vars == <<uses, pc, frame, threadVars, keyVars, condVars, onceVars>>

Slot == [destructor : BOOLEAN, value : Values \cup {Null}]
EmptySlot == [destructor |-> FALSE, value |-> Null]

\* Locals: ret is the argument of pthread_exit; peer the thread pthread_join
\* waits for, want what it should return; call and cond the condition
\* variable call and its argument, id the id it has drawn or read.
CondCalls == {"init", "wait", "signal", "broadcast"}
Frames == [ret : Values \cup {Null}, peer : Threads, want : Values \cup {Null, Unknown},
           call : CondCalls, cond : Conds, id : Ids]
NoFrame == [ret |-> Null, peer |-> Main, want |-> Unknown,
            call |-> "init", cond |-> CHOOSE c \in Conds : TRUE, id |-> 0]
InCond == {"read", "draw", "swap", "set", "queue", "asleep"}
PCs == {"free", "entry", "run", "add", "exit", "zombie", "waitpid", "consume",
        "init", "setonce", "spin"} \cup InCond

CallType ==
    /\ uses \in SUBSET APIs
    /\ pc \in [Threads -> PCs]
    /\ frame \in [Threads -> Frames]

ThreadType ==
    /\ joinable \in [Threads -> BOOLEAN]
    /\ threadData \in [Threads -> Values \cup {Null}]
    /\ given \in [Threads -> Values \cup {Null, Unknown}]
    /\ got \in [Threads -> Values \cup {Null}]

KeyType ==
    /\ threadKeys \in [Keys -> BOOLEAN]
    /\ local \in [Threads -> [Keys -> Slot]]
    /\ touched \in [Threads -> SUBSET Keys]

CondType == condId \in [Conds -> Ids] /\ seq \in Ids /\ wrapped \in BOOLEAN

OnceType ==
    /\ once \in 0 .. 2 /\ inits \in Nat /\ passed \in BOOLEAN
    /\ init \in {"open", "returned", "threw"}

TypeOK == CallType /\ ThreadType /\ KeyType /\ CondType /\ OnceType

\* Any program, with any of its threads already running.
Init ==
    /\ uses \in Programs
    /\ pc \in {f \in [Threads -> {"run", "free"}] : f[Main] = "run"}
    /\ joinable = [t \in Threads |-> FALSE]
    /\ frame = [t \in Threads |-> NoFrame]
    /\ threadData = [t \in Threads |-> Null]
    /\ threadKeys = [k \in Keys |-> FALSE]
    /\ local = [t \in Threads |-> [k \in Keys |-> EmptySlot]]
    /\ condId = [c \in Conds |-> 0]
    /\ seq = 1
    /\ once = 0
    /\ given = [t \in Threads |-> Unknown]
    /\ got = [t \in Threads |-> Null]
    /\ touched = [t \in Threads |-> {}]
    /\ wrapped = FALSE
    /\ inits = 0
    /\ init = "open"
    /\ passed = FALSE

Goto(t, l) == pc' = [pc EXCEPT ![t] = l]
\* Some calls return, and their locals are gone.
Return(S) ==
    /\ pc' = [t \in Threads |-> IF t \in S THEN "run" ELSE pc[t]]
    /\ frame' = [t \in Threads |-> IF t \in S THEN NoFrame ELSE frame[t]]
Calls(t, api) == pc[t] = "run" /\ api \in uses

-----------------------------------------------------------------------------
(* pthread_create, pthread_exit, pthread_join                              *)

\* exectp picks a pid nobody has.  A join that has seen the end of the old
\* thread p, and not yet fetched its result, is promised nothing any more.
Create(t, p) ==
    /\ Calls(t, "thread")
    /\ pc[p] = "free"
    /\ Goto(p, "entry")
    /\ \E j \in BOOLEAN : joinable' = [joinable EXCEPT ![p] = j]
    /\ given' = [given EXCEPT ![p] = Unknown]
    /\ frame' = [u \in Threads |->
                   IF pc[u] = "consume" /\ frame[u].peer = p
                   THEN [frame[u] EXCEPT !.want = Unknown] ELSE frame[u]]
    /\ touched' = [touched EXCEPT ![p] = {}]
    /\ UNCHANGED <<uses, threadData, got, threadKeys, local, condVars, onceVars>>

\* The loop over _thread_local_data; its mutant leaves the slots alone.
UnclearedSlots(t) == local[t]
ClearedSlots(t) == [k \in Keys |-> EmptySlot]

\* upthread_entry_caller up to tmain: until then the slots hold whatever
\* the memory held, here what the last thread of that pid left.
EntryCaller(t) ==
    /\ pc[t] = "entry"
    /\ local' = [local EXCEPT ![t] = ClearedSlots(t)]
    /\ Goto(t, "run")
    /\ UNCHANGED <<uses, frame, threadVars, threadKeys, touched, condVars, onceVars>>

\* pthread_exit(v), also at the return of tmain: the destructors of this
\* thread's slots (they are the program's own code), then ...
PthreadExit(t, v) ==
    /\ Calls(t, "thread") /\ t # Main
    /\ frame' = [frame EXCEPT ![t].ret = v]
    /\ Goto(t, "add")
    /\ UNCHANGED <<uses, threadVars, keyVars, condVars, onceVars>>

\* _threadDataMap[tid] = data; the mutant is an insert, which keeps the
\* entry of an earlier thread.
InsertedEntry(old, data) == IF old = Null THEN data ELSE old
AssignedEntry(old, data) == data

\* ... thread_manager::add(getpid(), ret) ...
Add(t) ==
    /\ pc[t] = "add"
    /\ threadData' = [threadData EXCEPT ![t] = AssignedEntry(@, frame[t].ret)]
    /\ given' = [given EXCEPT ![t] = frame[t].ret]
    /\ Goto(t, "exit")
    /\ UNCHANGED <<uses, frame, joinable, got, keyVars, condVars, onceVars>>

\* ... and exit(0).  A thread may also call exit itself or be killed, and
\* then leaves no result of its own.
ProcessExit(t) ==
    /\ \/ pc[t] = "exit"
       \/ Calls(t, "thread") /\ t # Main
    /\ frame' = [frame EXCEPT ![t] = NoFrame]
    /\ Goto(t, IF joinable[t] THEN "zombie" ELSE "free")
    /\ UNCHANGED <<uses, threadVars, keyVars, condVars, onceVars>>

\* pthread_join sleeps in waitpid until the child p has ended ...
Join(t, p) ==
    /\ Calls(t, "join") /\ p \notin {t, Main}
    /\ frame' = [frame EXCEPT ![t].peer = p]
    /\ Goto(t, "waitpid")
    /\ UNCHANGED <<uses, threadVars, keyVars, condVars, onceVars>>

\* ... which frees its pid; without such a child the call fails.
WaitPid(t) ==
    LET p == frame[t].peer IN
    /\ pc[t] = "waitpid"
    /\ \/ /\ pc[p] = "zombie"
          /\ frame' = [frame EXCEPT ![t].want = given[p]]
          /\ pc' = [pc EXCEPT ![t] = "consume", ![p] = "free"]
       \/ /\ pc[p] = "free" \/ ~joinable[p]
          /\ Return({t})
    /\ UNCHANGED <<uses, threadVars, keyVars, condVars, onceVars>>

\* *ret = thread_manager::consume(tid), which leaves the entry in the map.
Consume(t) ==
    /\ pc[t] = "consume"
    /\ got' = [got EXCEPT ![t] = threadData[frame[t].peer]]
    /\ Return({t})
    /\ UNCHANGED <<uses, joinable, threadData, given, keyVars, condVars, onceVars>>

-----------------------------------------------------------------------------
(* Thread-local keys.  A failing create (EAGAIN) changes nothing.          *)

KeyCreate(t, k, destructor) ==
    /\ Calls(t, "key")
    /\ ~threadKeys[k] /\ \A j \in Keys : j < k => threadKeys[j]
    /\ threadKeys' = [threadKeys EXCEPT ![k] = TRUE]
    /\ local' = [local EXCEPT ![t][k] = [destructor |-> destructor, value |-> Null]]
    /\ touched' = [touched EXCEPT ![t] = @ \cup {k}]
    /\ UNCHANGED <<uses, pc, frame, threadVars, condVars, onceVars>>

SetSpecific(t, k, v) ==
    /\ Calls(t, "key")
    /\ local' = [local EXCEPT ![t][k].value = v]
    /\ touched' = [touched EXCEPT ![t] = @ \cup {k}]
    /\ UNCHANGED <<uses, pc, frame, threadVars, threadKeys, condVars, onceVars>>

KeyDelete(t, k) ==
    /\ Calls(t, "key")
    /\ threadKeys' = [threadKeys EXCEPT ![k] = FALSE]
    /\ UNCHANGED <<uses, pc, frame, threadVars, local, touched, condVars, onceVars>>

-----------------------------------------------------------------------------
(* Condition variables                                                     *)

\* t is inside a call on c.
Using(t, c) == pc[t] \in InCond /\ frame[t].cond = c

\* A program initialises a condition variable only while nobody uses it.
\* Bound: no new call once the id sequence has wrapped.
CondCall(t, c, op) ==
    /\ Calls(t, "cond") /\ ~wrapped
    /\ \A u \in Threads : Using(u, c) => op # "init" /\ frame[u].call # "init"
    /\ frame' = [frame EXCEPT ![t].call = op, ![t].cond = c]
    /\ Goto(t, IF op = "init" THEN "draw" ELSE "read")
    /\ UNCHANGED <<uses, condVars, threadVars, keyVars, onceVars>>

\* get_cond_id: atomic_get(&cond->_id) ...
ReadId(t) ==
    LET i == condId[frame[t].cond] IN
    /\ pc[t] = "read"
    /\ frame' = [frame EXCEPT ![t].id = i]
    /\ Goto(t, IF i = 0 THEN "draw" ELSE "queue")
    /\ UNCHANGED <<uses, condVars, threadVars, keyVars, onceVars>>

\* What atomic_add leaves, at 32 bits; mutant: a lost increment, so that two
\* calls draw the same id.
LostIncrement(i) == i
Increment(i) == (i + 1) % IdModulus

\* ... atomic_add(&_global_cv_id_seq._val, 1), also of pthread_cond_init ...
DrawId(t) ==
    /\ pc[t] = "draw"
    /\ frame' = [frame EXCEPT ![t].id = seq]
    /\ seq' = Increment(seq)
    /\ wrapped' = (wrapped \/ seq = 0)
    /\ Goto(t, IF frame[t].call = "init" THEN "set" ELSE "swap")
    /\ UNCHANGED <<uses, condId, threadVars, keyVars, onceVars>>

\* id = prev == 0 ? val : prev; the mutant goes on with the id it drew.
OwnId(prev, val) == val
WinnersId(prev, val) == IF prev = 0 THEN val ELSE prev

\* ... atomic_compare_swap(&cond->_id, 0, val): the loser takes the winner's.
SwapId(t) ==
    LET f == frame[t] IN
    /\ pc[t] = "swap"
    /\ condId' = [condId EXCEPT ![f.cond] = IF @ = 0 THEN f.id ELSE @]
    /\ frame' = [frame EXCEPT ![t].id = WinnersId(condId[f.cond], f.id)]
    /\ Goto(t, "queue")
    /\ UNCHANGED <<uses, seq, wrapped, threadVars, keyVars, onceVars>>

\* pthread_cond_init stores the id it has drawn.
SetId(t) ==
    /\ pc[t] = "set"
    /\ condId' = [condId EXCEPT ![frame[t].cond] = frame[t].id]
    /\ Return({t})
    /\ UNCHANGED <<uses, seq, wrapped, threadVars, keyVars, onceVars>>

\* waitqueue(id, ..)
WaitQueue(t) ==
    /\ pc[t] = "queue" /\ frame[t].call = "wait"
    /\ Goto(t, "asleep")
    /\ UNCHANGED <<uses, frame, threadVars, keyVars, condVars, onceVars>>

\* The threads asleep in queue i.
Queue(i) == {u \in Threads : pc[u] = "asleep" /\ frame[u].id = i}

\* waitdequeue(id, all): wakes one sleeper of that queue, or all of them.
WaitDequeue(t) ==
    LET queue == Queue(frame[t].id) IN
    /\ pc[t] = "queue"
    /\ \/ frame[t].call = "broadcast" /\ Return({t} \cup queue)
       \/ frame[t].call = "signal" /\ queue = {} /\ Return({t})
       \/ frame[t].call = "signal" /\ \E u \in queue : Return({t, u})
    /\ UNCHANGED <<uses, threadVars, keyVars, condVars, onceVars>>

\* The time of pthread_cond_timedwait is over, or the wait is interrupted.
EndWait(t) ==
    /\ pc[t] = "asleep"
    /\ Return({t})
    /\ UNCHANGED <<uses, threadVars, keyVars, condVars, onceVars>>

-----------------------------------------------------------------------------
(* pthread_once                                                            *)

\* Where the old value of the word sends the caller; the mutant does not
\* wait for another thread's init().
BranchNoWait(r) == IF r = 0 THEN "init" ELSE "run"
Branch(r) == CASE r = 0 -> "init" [] r = 1 -> "spin" [] r = 2 -> "run"

\* atomic_compare_swap(once, 0, 1) and the branch.
OnceCall(t) ==
    /\ Calls(t, "once")
    /\ once' = IF once = 0 THEN 1 ELSE once
    /\ inits' = IF once = 0 THEN inits + 1 ELSE inits
    /\ passed' = (passed \/ Branch(once) = "run")
    /\ Goto(t, Branch(once))
    /\ UNCHANGED <<uses, frame, init, threadVars, keyVars, condVars>>

\* init() returns, or throws through pthread_once.
InitEnds(t) ==
    /\ pc[t] = "init"
    /\ \/ init' = "returned" /\ Goto(t, "setonce")
       \/ init' = "threw" /\ Goto(t, "run")
    /\ UNCHANGED <<uses, frame, once, inits, passed, threadVars, keyVars, condVars>>

\* atomic_swap(once, 2); its mutant leaves the word at 1.
UnsetWord == 1
DoneWord == 2
OnceDone(t) ==
    /\ pc[t] = "setonce"
    /\ once' = DoneWord /\ passed' = TRUE
    /\ Goto(t, "run")
    /\ UNCHANGED <<uses, frame, inits, init, threadVars, keyVars, condVars>>

\* The yield loop ends when the word reads 2.
OnceSpin(t) ==
    /\ pc[t] = "spin" /\ once = 2
    /\ passed' = TRUE
    /\ Goto(t, "run")
    /\ UNCHANGED <<uses, frame, once, inits, init, threadVars, keyVars, condVars>>

-----------------------------------------------------------------------------

ThreadStep(t) ==
    \/ EntryCaller(t) \/ Add(t) \/ ProcessExit(t) \/ WaitPid(t) \/ Consume(t)
    \/ \E p \in Threads : Create(t, p) \/ Join(t, p)
    \/ \E v \in Values \cup {Null} : PthreadExit(t, v)

KeyStep(t) ==
    \E k \in Keys :
        \/ \E d \in BOOLEAN : KeyCreate(t, k, d)
        \/ \E v \in Values \cup {Null} : SetSpecific(t, k, v)
        \/ KeyDelete(t, k)

CondStep(t) ==
    \/ \E c \in Conds, op \in CondCalls : CondCall(t, c, op)
    \/ ReadId(t) \/ DrawId(t) \/ SwapId(t) \/ SetId(t)
    \/ WaitQueue(t) \/ WaitDequeue(t) \/ EndWait(t)

\* pthread_once after it has begun.
OnceStep(t) == InitEnds(t) \/ OnceDone(t) \/ OnceSpin(t)

Next ==
    \E t \in Threads :
        ThreadStep(t) \/ KeyStep(t) \/ CondStep(t) \/ OnceCall(t) \/ OnceStep(t)

Spec == Init /\ [][Next]_vars

\* The scheduler runs every thread that has called pthread_once, and init()
\* ends; nothing else is assumed.
FairSpec == Spec /\ \A t \in Threads : WF_vars(OnceStep(t))

-----------------------------------------------------------------------------

\* What pthread_join hands out is what the thread it waited for passed to
\* pthread_exit, although the entries of _threadDataMap outlive the threads
\* and the pids come back; promised unless that thread ended without
\* pthread_exit, or its pid was taken before the result was fetched.
JoinReturnsOwn ==
    [][ \A t \in Threads : pc[t] = "consume" /\ pc'[t] = "run"
          => frame[t].want \in {Unknown, got'[t]} ]_vars

\* A thread never sees a value, nor runs a destructor, that an earlier
\* thread of its pid left in thread-local memory.
SlotsAreOwn ==
    \A t \in Threads, k \in Keys :
        pc[t] \notin {"free", "zombie", "entry"} /\ k \notin touched[t]
            => local[t][k] = EmptySlot

\* Whoever leaves get_cond_id with an id for c has the one every other user
\* of c has, even if all of them met the word at 0: no waiter sleeps in a
\* queue its notifiers do not look at (as long as the sequence is not
\* through 0, which is also the mark of a word without id).
CondIdAgrees ==
    ~wrapped => \A t \in Threads :
        pc[t] \in {"queue", "asleep"}
            => frame[t].id = condId[frame[t].cond] /\ frame[t].id # 0

Sleepers(c) == {u \in Threads : pc[u] = "asleep" /\ frame[u].cond = c}
Woken == {u \in Threads : pc[u] = "asleep" /\ pc'[u] # "asleep"}
NotifiesOwn(t) ==
    LET f == frame[t] IN
    (~wrapped /\ pc[t] = "queue" /\ f.call # "wait" /\ pc'[t] = "run")
      => /\ Woken \subseteq Sleepers(f.cond)
         /\ f.call = "broadcast" => Woken = Sleepers(f.cond)
         /\ Sleepers(f.cond) # {} => Woken # {}

\* A notification of c wakes no sleeper of another condition variable; a
\* signal wakes one sleeper of c if there is any, a broadcast all of them.
NotifyReaches == [][\A t \in Threads : NotifiesOwn(t)]_vars

\* init() is called once however many threads meet in pthread_once, and
\* nobody returns from there before it has returned.
OnceSafe == inits <= 1 /\ (passed => init = "returned")

\* Who finds another thread inside init() gets out of the yield loop, unless
\* init() throws: then the word stays 1 for ever.
OnceReturns ==
    \A t \in Threads : pc[t] = "spin" ~> (pc[t] # "spin" \/ init = "threw")
=============================================================================
