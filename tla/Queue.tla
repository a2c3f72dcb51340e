------------------------------- MODULE Queue -------------------------------
(***************************************************************************)
(* upan::queue (libustd/ds/queue.h): a ring buffer whose element count is  *)
(* atomic, so that one producer and one consumer can share it without a    *)
(* lock.  Each access to _count and to a slot is a step; _writeEnd belongs *)
(* to the producer and _readEnd to the consumer.                           *)
(***************************************************************************)
EXTENDS Naturals, Sequences

CONSTANTS
    Size,     \* _size
    Values,   \* element values
    MaxBatch  \* bound: the largest n given to read and write

ASSUME SizeAssumption == Size \in Nat \ {0}
ASSUME BatchAssumption == MaxBatch \in Nat \ {0}

VARIABLES
    readEnd, writeEnd, count, buffer,  \* the members of the class
    ppc,    \* where the producer is
    batch,  \* what the producer's call has left to write
    wrote,  \* how many elements that call has written
    cpc,    \* where the consumer is
    want,   \* the n of the consumer's read
    n,      \* that n after the clamp
    got,    \* what the consumer's call has copied
    out     \* the result of the consumer's last call

producer == <<writeEnd, ppc, batch, wrote>>
consumer == <<readEnd, cpc, want, n, got, out>>
vars == <<readEnd, writeEnd, count, buffer, ppc, batch, wrote, cpc, want, n, got, out>>

Slots == 0..(Size - 1)
Succ(i) == (i + 1) % Size
Batches == UNION {[1..k -> Values] : k \in 1..MaxBatch}

TypeOK ==
    /\ readEnd \in Slots /\ writeEnd \in Slots
    /\ count \in 0..Size
    /\ buffer \in [Slots -> Values]
    /\ ppc \in {"idle", "limit", "store"}
    /\ batch \in Seq(Values) /\ wrote \in 0..Size
    /\ cpc \in {"idle", "peek", "drop", "clamp", "clampset", "load"}
    /\ want \in 0..MaxBatch /\ n \in 0..Size
    /\ got \in Seq(Values) /\ out \in Seq(Values)

\* new T[_size] leaves any values in the slots.
Init ==
    /\ readEnd = 0 /\ writeEnd = 0 /\ count = 0
    /\ buffer \in [Slots -> Values]
    /\ ppc = "idle" /\ batch = <<>> /\ wrote = 0
    /\ cpc = "idle" /\ want = 0 /\ n = 0 /\ got = <<>> /\ out = <<>>

-----------------------------------------------------------------------------
(* The producer *)

\* Mutant of PushBack: no test for a full queue.
PushBackUnchecked(v) ==
    /\ ppc = "idle"
    /\ batch' = <<v>>
    /\ ppc' = "store"
    /\ UNCHANGED <<writeEnd, wrote, count, buffer, consumer>>

\* push_back, not on a full queue (it returns false there).
PushBack(v) ==
    /\ ppc = "idle"
    /\ count # Size
    /\ batch' = <<v>>
    /\ ppc' = "store"
    /\ UNCHANGED <<writeEnd, wrote, count, buffer, consumer>>

\* write, not on a full queue (it returns 0 there).
Write(s) ==
    /\ ppc = "idle"
    /\ count # Size
    /\ batch' = s
    /\ ppc' = "limit"
    /\ UNCHANGED <<writeEnd, wrote, count, buffer, consumer>>

\* Mutant of Limit: n is not lowered to what is free.
LimitForgotten ==
    /\ ppc = "limit"
    /\ ppc' = "store"
    /\ UNCHANGED <<writeEnd, batch, wrote, count, buffer, consumer>>

\* remaining = availableCapacity(), and n is lowered to it.
Limit ==
    /\ ppc = "limit"
    /\ batch' = SubSeq(batch, 1, IF Len(batch) > Size - count THEN Size - count ELSE Len(batch))
    /\ ppc' = "store"
    /\ UNCHANGED <<writeEnd, wrote, count, buffer, consumer>>

\* Mutant of Store: _writeEnd moves before the element is stored.
StoreAhead ==
    /\ ppc = "store"
    /\ batch # <<>>
    /\ buffer' = [buffer EXCEPT ![Succ(writeEnd)] = Head(batch)]
    /\ writeEnd' = Succ(writeEnd)
    /\ batch' = Tail(batch)
    /\ wrote' = wrote + 1
    /\ UNCHANGED <<ppc, count, consumer>>

\* One element into the slot at _writeEnd.
Store ==
    /\ ppc = "store"
    /\ batch # <<>>
    /\ buffer' = [buffer EXCEPT ![writeEnd] = Head(batch)]
    /\ writeEnd' = Succ(writeEnd)
    /\ batch' = Tail(batch)
    /\ wrote' = wrote + 1
    /\ UNCHANGED <<ppc, count, consumer>>

\* _count.inc() or _count.add(n), when all are written.
Publish ==
    /\ ppc = "store"
    /\ batch = <<>>
    /\ count' = count + wrote
    /\ wrote' = 0
    /\ ppc' = "idle"
    /\ UNCHANGED <<writeEnd, batch, buffer, consumer>>

-----------------------------------------------------------------------------
(* The consumer *)

\* The empty() test front, pop_front and read begin with; on an empty queue
\* front throws and the others return.
Begin(l) ==
    /\ cpc = "idle"
    /\ count # 0
    /\ cpc' = l

Front ==
    /\ Begin("peek")
    /\ UNCHANGED <<readEnd, want, n, got, out, count, buffer, producer>>

Peek ==
    /\ cpc = "peek"
    /\ out' = <<buffer[readEnd]>>
    /\ cpc' = "idle"
    /\ UNCHANGED <<readEnd, want, n, got, count, buffer, producer>>

\* pop_front moves _readEnd, then counts down.
PopFront ==
    /\ Begin("drop")
    /\ readEnd' = Succ(readEnd)
    /\ UNCHANGED <<want, n, got, out, count, buffer, producer>>

Drop ==
    /\ cpc = "drop"
    /\ count' = count - 1
    /\ cpc' = "idle"
    /\ UNCHANGED <<readEnd, want, n, got, out, buffer, producer>>

Read(k) ==
    /\ Begin("clamp")
    /\ want' = k
    /\ UNCHANGED <<readEnd, n, got, out, count, buffer, producer>>

\* if (n > _count.get()) ...
Clamp ==
    /\ cpc = "clamp"
    /\ \/ want > count /\ cpc' = "clampset" /\ UNCHANGED n
       \/ want <= count /\ cpc' = "load" /\ n' = want
    /\ UNCHANGED <<readEnd, want, got, out, count, buffer, producer>>

\* ... n = _count.get(): the count is read again.
ClampSet ==
    /\ cpc = "clampset"
    /\ n' = count
    /\ cpc' = "load"
    /\ UNCHANGED <<readEnd, want, got, out, count, buffer, producer>>

\* One element out of the slot at _readEnd.
Load ==
    /\ cpc = "load"
    /\ Len(got) < n
    /\ got' = Append(got, buffer[readEnd])
    /\ readEnd' = Succ(readEnd)
    /\ UNCHANGED <<cpc, want, n, out, count, buffer, producer>>

\* _count.add(-n), and read returns n.
Release ==
    /\ cpc = "load"
    /\ Len(got) = n
    /\ count' = count - n
    /\ out' = got
    /\ got' = <<>>
    /\ n' = 0
    /\ want' = 0
    /\ cpc' = "idle"
    /\ UNCHANGED <<readEnd, buffer, producer>>

\* clear() writes the ends of both sides: it needs the queue to itself.
Clear ==
    /\ ppc = "idle" /\ cpc = "idle"
    /\ readEnd' = 0 /\ writeEnd' = 0 /\ count' = 0
    /\ UNCHANGED <<buffer, ppc, batch, wrote, cpc, want, n, got, out>>

Next ==
    \/ \E v \in Values : PushBack(v)
    \/ \E s \in Batches : Write(s)
    \/ Limit \/ Store \/ Publish
    \/ Front \/ Peek \/ PopFront \/ Drop
    \/ \E k \in 1..MaxBatch : Read(k)
    \/ Clamp \/ ClampSet \/ Load \/ Release
    \/ Clear

Spec == Init /\ [][Next]_vars

-----------------------------------------------------------------------------

\* The producer never writes the slot the consumer reads: the slots need no
\* lock, although neither side sees the other's end.
NoSlotRace ==
    ~ /\ ppc = "store" /\ batch # <<>>
      /\ cpc = "peek" \/ (cpc = "load" /\ Len(got) < n)
      /\ writeEnd = readEnd

\* The slots the consumer's open call has passed are still counted.
Passed == IF cpc = "drop" THEN 1 ELSE Len(got)
Oldest == (readEnd + Size - Passed) % Size
Items == [i \in 1..count |-> buffer[(Oldest + i - 1) % Size]]

\* Seen through _count, the ring is a bounded FIFO: what is read is what was
\* written, once and in order, whatever the interleaving and the wrap-around.
Fifo == INSTANCE BoundedFifo WITH items <- Items
ImplementsFifo == Fifo!Spec

\* read(out, n) copies at most n elements, which is all that out has room for
\* (queue.h:44, and the clamp of queue.h:102).
ReadWithinRequest == cpc = "load" => n <= want
=============================================================================
