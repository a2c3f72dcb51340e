---------------------------- MODULE QueueProofs ----------------------------
(***************************************************************************)
(* For every size of the ring and every batch size: the two sides never    *)
(* touch the same slot, and the queue implements BoundedFifo.              *)
(***************************************************************************)
EXTENDS Queue, TLAPS

\* Walking at most once around the ring.
LEMMA Wrap ==
  ASSUME NEW x \in Slots, NEW k \in 0..Size
  PROVE  /\ (x + k) % Size \in Slots
         /\ (x + k) % Size = IF x + k < Size THEN x + k ELSE x + k - Size
  BY SizeAssumption DEF Slots

\* Two different distances of less than a turn end in different slots.
LEMMA WrapDistinct ==
  ASSUME NEW x \in Slots, NEW i \in 0..(Size-1), NEW j \in 0..(Size-1), i # j
  PROVE  (x + i) % Size # (x + j) % Size
  <1>1. i \in 0..Size /\ j \in 0..Size
    BY SizeAssumption
  <1>2. /\ (x + i) % Size = IF x + i < Size THEN x + i ELSE x + i - Size
        /\ (x + j) % Size = IF x + j < Size THEN x + j ELSE x + j - Size
    BY <1>1, Wrap
  <1>3. QED
    BY <1>2, SizeAssumption DEF Slots

\* Two walks of together at most one turn add up.
LEMMA WrapAdd ==
  ASSUME NEW x \in Slots, NEW i \in 0..Size, NEW j \in 0..Size, i + j <= Size
  PROVE  (((x + i) % Size) + j) % Size = (x + (i + j)) % Size
  <1> DEFINE y == (x + i) % Size
  <1>1. y \in Slots /\ y = IF x + i < Size THEN x + i ELSE x + i - Size
    BY Wrap
  <1> HIDE DEF y
  <1>2. (y + j) % Size = IF y + j < Size THEN y + j ELSE y + j - Size
    BY <1>1, Wrap
  <1>3. i + j \in 0..Size
    BY SizeAssumption
  <1>4. (x + (i + j)) % Size = IF x + (i + j) < Size THEN x + (i + j) ELSE x + (i + j) - Size
    BY <1>3, Wrap
  <1>5. (y + j) % Size = (x + (i + j)) % Size
    BY <1>1, <1>2, <1>4, SizeAssumption DEF Slots
  <1>6. QED
    BY <1>5 DEF y

\* Walking back from a slot and forward again.
LEMMA WalkBack ==
  ASSUME NEW x \in Slots, NEW k \in 0..Size
  PROVE  /\ (x + Size - k) % Size \in Slots
         /\ (((x + Size - k) % Size) + k) % Size = x
         /\ k < Size => (((x + 1) % Size) + Size - (k + 1)) % Size = (x + Size - k) % Size
  <1> DEFINE y == (x + Size - k) % Size
             z == (x + 1) % Size
  <1>1. Size - k \in 0..Size /\ x + Size - k = x + (Size - k)
    BY SizeAssumption DEF Slots
  <1>2. y \in Slots /\ y = IF x + (Size - k) < Size THEN x + (Size - k) ELSE x + (Size - k) - Size
    BY <1>1, Wrap
  <1>3. z \in Slots /\ z = IF x + 1 < Size THEN x + 1 ELSE x + 1 - Size
    BY SizeAssumption, Wrap
  <1> HIDE DEF y, z
  <1>4. (y + k) % Size = IF y + k < Size THEN y + k ELSE y + k - Size
    BY <1>2, Wrap
  <1>5. (y + k) % Size = x
    BY <1>2, <1>4, SizeAssumption DEF Slots
  <1>6. ASSUME k < Size PROVE (z + Size - (k + 1)) % Size = y
    <2>1. Size - (k + 1) \in 0..Size /\ z + Size - (k + 1) = z + (Size - (k + 1))
      BY <1>6, <1>3, SizeAssumption DEF Slots
    <2>2. (z + Size - (k + 1)) % Size
            = IF z + (Size - (k + 1)) < Size THEN z + (Size - (k + 1))
                                             ELSE z + (Size - (k + 1)) - Size
      BY <2>1, <1>3, Wrap
    <2>3. QED
      BY <1>2, <1>3, <2>2, SizeAssumption DEF Slots
  <1>7. QED
    BY <1>2, <1>5, <1>6 DEF y, z

-----------------------------------------------------------------------------

\* What the producer is about to publish fits beside what is counted.
Room ==
    /\ ppc = "store" => count + wrote + Len(batch) <= Size
    /\ ppc # "store" => wrote = 0

\* The consumer only passes slots that are counted.
Claim ==
    /\ cpc # "load" => got = <<>>
    /\ cpc # "idle" => count >= 1
    /\ cpc \in {"clamp", "clampset"} => want >= 1
    /\ cpc = "load" => n \in 1..count /\ Len(got) <= n

\* The two ends are as far apart as the elements counted or being written.
Ends == writeEnd = (Oldest + (count + wrote)) % Size

\* What is copied so far is the head of the queue.
Copied == \A i \in 1..Len(got) : got[i] = buffer[(Oldest + i - 1) % Size]

\* The inductive invariant.
IInv == TypeOK /\ Room /\ Claim /\ Ends /\ Copied

\* The empty queue satisfies it.
LEMMA InitIInv == Init => IInv
  <1> SUFFICES ASSUME Init PROVE IInv
    OBVIOUS
  <1>1. 0 \in Slots /\ 0 \in 0..Size /\ 0 \in 0..MaxBatch
    BY SizeAssumption, BatchAssumption DEF Slots
  <1>2. TypeOK
    BY <1>1 DEF Init, TypeOK
  <1>3. Passed = 0
    BY DEF Init, Passed
  <1>4. Oldest = 0
    <2>1. (0 + Size - 0) % Size = 0
      BY SizeAssumption
    <2>2. QED
      BY <1>3, <2>1 DEF Oldest, Init
  <1>5. Ends
    BY <1>4, SizeAssumption DEF Ends, Init
  <1>6. QED
    BY <1>2, <1>5 DEF IInv, Room, Claim, Copied, Init

\* What the invariant says of the consumer's position.
LEMMA Position ==
  ASSUME IInv
  PROVE  /\ Passed \in 0..count
         /\ Passed \in 0..Size
         /\ Oldest \in Slots
         /\ readEnd = (Oldest + Passed) % Size
         /\ cpc = "load" => Passed = Len(got)
         /\ cpc \notin {"load", "drop"} => Passed = 0
  <1>1. /\ Passed \in 0..count
        /\ cpc = "load" => Passed = Len(got)
        /\ cpc \notin {"load", "drop"} => Passed = 0
    BY DEF IInv, TypeOK, Claim, Passed
  <1>2. Passed \in 0..Size
    BY <1>1, SizeAssumption DEF IInv, TypeOK
  <1>3. readEnd \in Slots
    BY DEF IInv, TypeOK
  <1>4. Oldest \in Slots /\ readEnd = (Oldest + Passed) % Size
    BY <1>2, <1>3, WalkBack DEF Oldest
  <1>5. QED
    BY <1>1, <1>2, <1>4

\* The refinement mapping yields a queue of count values.
LEMMA ItemsType ==
  ASSUME IInv
  PROVE  /\ Items \in Seq(Values) /\ Len(Items) = count
         /\ \A i \in 1..count : Items[i] = buffer[(Oldest + i - 1) % Size]
  <1>1. count \in 0..Size /\ Oldest \in Slots /\ buffer \in [Slots -> Values]
    BY Position DEF IInv, TypeOK
  <1>2. ASSUME NEW i \in 1..count PROVE buffer[(Oldest + i - 1) % Size] \in Values
    <2>1. i - 1 \in 0..Size /\ Oldest + i - 1 = Oldest + (i - 1)
      BY <1>1, SizeAssumption DEF Slots
    <2>2. (Oldest + (i - 1)) % Size \in Slots
      BY <2>1, <1>1, Wrap
    <2>3. QED
      BY <2>1, <2>2, <1>1
  <1>3. QED
    BY <1>1, <1>2, SizeAssumption DEF Items

\* Steps that leave the ring and the consumer's progress alone.
LEMMA Frame ==
  ASSUME UNCHANGED <<readEnd, count, buffer>>, Passed' = Passed
  PROVE  Oldest' = Oldest /\ Items' = Items
  BY DEF Oldest, Items

\* The producer's calls up to their first slot: nothing of the ring changes.
LEMMA ProducerBegins ==
  ASSUME IInv,
         \/ \E v \in Values : PushBack(v)
         \/ \E s \in Batches : Write(s)
         \/ Limit
  PROVE  IInv' /\ UNCHANGED <<Items, out>>
  <1>1. UNCHANGED <<readEnd, writeEnd, count, buffer, wrote, consumer>>
    BY DEF PushBack, Write, Limit, consumer
  <1>2. UNCHANGED <<cpc, want, n, got, out>>
    BY <1>1 DEF consumer
  <1>3. Passed' = Passed
    BY <1>2 DEF Passed
  <1>4. Oldest' = Oldest /\ Items' = Items
    BY <1>1, <1>3, Frame
  <1>5. /\ batch' \in Seq(Values)
        /\ ppc' \in {"limit", "store"}
        /\ wrote = 0
        /\ ppc' = "store" => count + Len(batch') <= Size
    <2>1. CASE \E v \in Values : PushBack(v)
      BY <2>1, SizeAssumption DEF PushBack, IInv, TypeOK, Room
    <2>2. CASE \E s \in Batches : Write(s)
      <3>1. PICK s \in Batches : Write(s)
        BY <2>2
      <3>2. PICK k \in 1..MaxBatch : s \in [1..k -> Values]
        BY <3>1 DEF Batches
      <3>3. s \in Seq(Values)
        BY <3>2, BatchAssumption
      <3>4. QED
        BY <3>1, <3>3 DEF Write, IInv, Room
    <2>3. CASE Limit
      <3> DEFINE m == IF Len(batch) > Size - count THEN Size - count ELSE Len(batch)
      <3>1. batch \in Seq(Values) /\ count \in 0..Size /\ wrote = 0
        BY <2>3 DEF IInv, TypeOK, Limit, Room
      <3>2. m \in 0..Len(batch) /\ m <= Size - count
        BY <3>1, SizeAssumption
      <3>3. batch' = SubSeq(batch, 1, m) /\ ppc' = "store"
        BY <2>3 DEF Limit
      <3> HIDE DEF m
      <3>4. batch' \in Seq(Values) /\ Len(batch') = m
        BY <3>1, <3>2, <3>3
      <3>5. QED
        BY <3>1, <3>2, <3>3, <3>4, SizeAssumption
    <2>4. QED
      BY <2>1, <2>2, <2>3
  <1>6. TypeOK'
    BY <1>1, <1>2, <1>5 DEF IInv, TypeOK
  <1>7. Room' /\ Claim'
    BY <1>1, <1>2, <1>5, SizeAssumption DEF IInv, TypeOK, Room, Claim
  <1>8. Ends' /\ Copied'
    BY <1>1, <1>2, <1>4 DEF IInv, Ends, Copied
  <1>9. QED
    BY <1>2, <1>4, <1>6, <1>7, <1>8 DEF IInv

\* Store writes a slot that is neither counted nor copied from.
LEMMA StoreStep == IInv /\ Store => IInv' /\ UNCHANGED <<Items, out>>
  <1> SUFFICES ASSUME IInv, Store PROVE IInv' /\ UNCHANGED <<Items, out>>
    OBVIOUS
  <1>1. /\ buffer' = [buffer EXCEPT ![writeEnd] = Head(batch)]
        /\ writeEnd' = (writeEnd + 1) % Size
        /\ batch' = Tail(batch) /\ batch # <<>> /\ wrote' = wrote + 1
        /\ UNCHANGED <<ppc, count, readEnd, cpc, want, n, got, out>> /\ ppc = "store"
    BY DEF Store, consumer, Succ
  <1>2. /\ batch \in Seq(Values) /\ count \in 0..Size /\ wrote \in 0..Size
        /\ count + wrote + Len(batch) <= Size /\ writeEnd \in Slots
        /\ buffer \in [Slots -> Values]
    BY <1>1 DEF IInv, TypeOK, Room
  <1>3. /\ Head(batch) \in Values /\ Tail(batch) \in Seq(Values)
        /\ Len(Tail(batch)) = Len(batch) - 1 /\ Len(batch) >= 1
    BY <1>1, <1>2
  <1>4. count + wrote \in 0..(Size - 1) /\ wrote + 1 \in 0..Size
    BY <1>2, <1>3, SizeAssumption
  <1>5. Passed' = Passed
    BY <1>1 DEF Passed
  <1>6. Oldest' = Oldest /\ Oldest \in Slots
    BY <1>1, <1>5, Position DEF Oldest
  <1>7. writeEnd = (Oldest + (count + wrote)) % Size
    BY DEF IInv, Ends
  <1>8. ASSUME NEW i \in 1..count
        PROVE  buffer'[(Oldest + i - 1) % Size] = buffer[(Oldest + i - 1) % Size]
    <2>1. i - 1 \in 0..(Size - 1) /\ i - 1 # count + wrote /\ Oldest + i - 1 = Oldest + (i - 1)
      BY <1>2, <1>6, SizeAssumption DEF Slots
    <2>2. (Oldest + (i - 1)) % Size # writeEnd
      BY <2>1, <1>4, <1>6, <1>7, WrapDistinct
    <2>3. (Oldest + (i - 1)) % Size \in Slots
      BY <2>1, <1>6, Wrap, SizeAssumption
    <2>4. QED
      BY <2>1, <2>2, <2>3, <1>1, <1>2
  <1>9. Items' = Items
    BY <1>1, <1>6, <1>8 DEF Items
  <1>10. Copied'
    <2>1. Len(got) \in Nat /\ Len(got) <= count
      BY DEF IInv, TypeOK, Claim
    <2>2. ASSUME NEW i \in 1..Len(got)
          PROVE  got[i] = buffer'[(Oldest + i - 1) % Size]
      BY <2>1, <2>2, <1>2, <1>8 DEF IInv, Copied
    <2>3. QED
      BY <2>2, <1>1, <1>6 DEF Copied
  <1>11. writeEnd' \in Slots
    BY <1>1, <1>2, Wrap, SizeAssumption
  <1>12. Ends'
    <2>1. ((((Oldest + (count + wrote)) % Size) + 1) % Size) = (Oldest + ((count + wrote) + 1)) % Size
      BY <1>4, <1>6, WrapAdd, SizeAssumption
    <2>2. (count + wrote) + 1 = count' + wrote'
      BY <1>1, <1>2
    <2>3. QED
      BY <2>1, <2>2, <1>1, <1>6, <1>7 DEF Ends
  <1>13. TypeOK'
    BY <1>1, <1>2, <1>3, <1>4, <1>11 DEF IInv, TypeOK
  <1>14. Room' /\ Claim'
    BY <1>1, <1>2, <1>3 DEF IInv, Room, Claim
  <1>15. QED
    BY <1>1, <1>9, <1>10, <1>12, <1>13, <1>14 DEF IInv

\* Publish makes the slots written since the last one part of the queue.
LEMMA PublishStep ==
  IInv /\ Publish => IInv' /\ (Fifo!Put \/ UNCHANGED <<Items, out>>)
  <1> SUFFICES ASSUME IInv, Publish
               PROVE  IInv' /\ (Fifo!Put \/ UNCHANGED <<Items, out>>)
    OBVIOUS
  <1>1. /\ count' = count + wrote /\ wrote' = 0 /\ ppc' = "idle" /\ ppc = "store" /\ batch = <<>>
        /\ UNCHANGED <<writeEnd, batch, buffer, readEnd, cpc, want, n, got, out>>
    BY DEF Publish, consumer
  <1>2. count \in 0..Size /\ wrote \in 0..Size /\ count + wrote \in 0..Size
    BY <1>1, SizeAssumption DEF IInv, TypeOK, Room
  <1>3. Passed' = Passed
    BY <1>1 DEF Passed
  <1>4. Oldest' = Oldest /\ Oldest \in Slots
    BY <1>1, <1>3, Position DEF Oldest
  <1>5. TypeOK'
    BY <1>1, <1>2, SizeAssumption DEF IInv, TypeOK
  <1>6. Room' /\ Claim'
    BY <1>1, <1>2 DEF IInv, TypeOK, Room, Claim
  <1>7. Ends'
    <2>1. count' + wrote' = count + wrote
      BY <1>1, <1>2
    <2>2. QED
      BY <2>1, <1>1, <1>4 DEF IInv, Ends
  <1>8. Copied'
    BY <1>1, <1>4 DEF IInv, Copied
  <1>9. CASE wrote = 0
    <2>1. count' = count
      BY <1>1, <1>2, <1>9
    <2>2. Items' = Items
      BY <2>1, <1>1, <1>4 DEF Items
    <2>3. QED
      BY <2>2, <1>1, <1>5, <1>6, <1>7, <1>8 DEF IInv
  <1>10. CASE wrote # 0
    <2>1. Items' = [i \in 1..(count + wrote) |-> buffer[(Oldest + i - 1) % Size]]
      BY <1>1, <1>4 DEF Items
    <2>2. ASSUME NEW i \in 1..(count + wrote) PROVE buffer[(Oldest + i - 1) % Size] \in Values
      <3>1. i - 1 \in 0..Size /\ Oldest + i - 1 = Oldest + (i - 1)
        BY <1>2, <1>4, SizeAssumption DEF Slots
      <3>2. (Oldest + (i - 1)) % Size \in Slots
        BY <3>1, <1>4, Wrap
      <3>3. QED
        BY <3>1, <3>2 DEF IInv, TypeOK
    <2>3. Items' \in Seq(Values) /\ Len(Items') = count + wrote
      BY <2>1, <2>2, <1>2
    <2>4. Items \in Seq(Values) /\ Len(Items) = count
      BY ItemsType
    <2>5. \A i \in 1..count : Items'[i] = Items[i]
      BY <1>1, <1>2, <1>4 DEF Items
    <2>6. SubSeq(Items', 1, Len(Items)) = Items
      <3>1. /\ SubSeq(Items', 1, count) \in Seq(Values) /\ Len(SubSeq(Items', 1, count)) = count
            /\ \A i \in 1..count : SubSeq(Items', 1, count)[i] = Items'[i]
        BY <2>3, <1>2
      <3>2. QED
        BY <3>1, <2>4, <2>5
    <2>7. Len(Items') \in (Len(Items) + 1)..Size
      BY <2>3, <2>4, <1>2, <1>10
    <2>8. QED
      BY <2>3, <2>6, <2>7, <1>1, <1>5, <1>6, <1>7, <1>8 DEF Fifo!Put, IInv
  <1>11. QED
    BY <1>5, <1>6, <1>7, <1>8, <1>9, <1>10 DEF IInv

\* The consumer's tests and its clamp: nothing of the ring changes, and an n
\* taken from _count is covered by it, for nobody else lowers the count.
LEMMA ConsumerBegins ==
  ASSUME IInv, Front \/ (\E k \in 1..MaxBatch : Read(k)) \/ Clamp \/ ClampSet
  PROVE  IInv' /\ UNCHANGED <<Items, out>>
  <1>1. UNCHANGED <<readEnd, got, out, count, buffer, writeEnd, ppc, batch, wrote>>
    BY DEF Front, Read, Clamp, ClampSet, producer
  <1>2. /\ cpc \notin {"load", "drop"} /\ cpc' # "drop" /\ cpc' # "idle"
        /\ cpc' \in {"peek", "clamp", "clampset", "load"}
        /\ count >= 1 /\ got = <<>>
        /\ want' \in 0..MaxBatch /\ n' \in 0..Size
        /\ cpc' \in {"clamp", "clampset"} => want' >= 1
        /\ cpc' = "load" => n' \in 1..count
    BY SizeAssumption, BatchAssumption
       DEF Front, Read, Begin, Clamp, ClampSet, IInv, TypeOK, Claim
  <1>3. Passed' = Passed
    BY <1>1, <1>2 DEF Passed
  <1>4. Oldest' = Oldest /\ Items' = Items
    BY <1>1, <1>3, Frame
  <1>5. TypeOK'
    BY <1>1, <1>2 DEF IInv, TypeOK
  <1>6. Room' /\ Claim'
    BY <1>1, <1>2 DEF IInv, Room, Claim
  <1>7. Ends' /\ Copied'
    BY <1>1, <1>4 DEF IInv, Ends, Copied
  <1>8. QED
    BY <1>1, <1>4, <1>5, <1>6, <1>7 DEF IInv

\* front() returns the oldest element.
LEMMA PeekStep == IInv /\ Peek => IInv' /\ Fifo!Peek
  <1> SUFFICES ASSUME IInv, Peek PROVE IInv' /\ Fifo!Peek
    OBVIOUS
  <1>1. /\ UNCHANGED <<readEnd, want, n, got, count, buffer, writeEnd, ppc, batch, wrote>>
        /\ cpc = "peek" /\ cpc' = "idle" /\ out' = <<buffer[readEnd]>>
    BY DEF Peek, producer
  <1>2. Passed' = Passed /\ Passed = 0 /\ got = <<>> /\ count >= 1
    BY <1>1 DEF Passed, IInv, Claim
  <1>3. Oldest' = Oldest /\ Items' = Items
    BY <1>1, <1>2, Frame
  <1>4. readEnd \in Slots /\ count \in 0..Size /\ buffer[readEnd] \in Values
    BY DEF IInv, TypeOK
  <1>5. readEnd = (Oldest + 1 - 1) % Size
    <2>1. readEnd = (Oldest + 0) % Size /\ Oldest \in Slots
      BY <1>2, Position
    <2>2. Oldest + 1 - 1 = Oldest + 0
      BY <2>1, SizeAssumption DEF Slots
    <2>3. QED
      BY <2>1, <2>2
  <1>6. Items # <<>> /\ Items[1] = buffer[readEnd]
    BY <1>2, <1>4, <1>5, ItemsType, SizeAssumption
  <1>7. TypeOK'
    BY <1>1, <1>4 DEF IInv, TypeOK
  <1>8. Room' /\ Claim' /\ Ends' /\ Copied'
    BY <1>1, <1>2, <1>3 DEF IInv, Room, Claim, Ends, Copied
  <1>9. QED
    BY <1>1, <1>3, <1>6, <1>7, <1>8 DEF IInv, Fifo!Peek

\* Passing a slot moves _readEnd and leaves the oldest counted slot in place.
LEMMA PassSlot ==
  ASSUME IInv, readEnd' = Succ(readEnd), Passed < Size, Passed' = Passed + 1,
         UNCHANGED <<count, buffer>>
  PROVE  Oldest' = Oldest /\ Items' = Items /\ readEnd' \in Slots
  <1>1. readEnd \in Slots /\ Passed \in 0..Size
    BY Position DEF IInv, TypeOK
  <1>2. (((readEnd + 1) % Size) + Size - (Passed + 1)) % Size = (readEnd + Size - Passed) % Size
    BY <1>1, WalkBack
  <1>3. Oldest' = Oldest
    BY <1>2 DEF Oldest, Succ
  <1>4. readEnd' \in Slots
    BY <1>1, Wrap, SizeAssumption DEF Succ
  <1>5. QED
    BY <1>3, <1>4 DEF Items

\* pop_front moves _readEnd: the element is still counted.
LEMMA PopFrontStep == IInv /\ PopFront => IInv' /\ UNCHANGED <<Items, out>>
  <1> SUFFICES ASSUME IInv, PopFront PROVE IInv' /\ UNCHANGED <<Items, out>>
    OBVIOUS
  <1>1. /\ UNCHANGED <<want, n, got, out, count, buffer, writeEnd, ppc, batch, wrote>>
        /\ cpc = "idle" /\ cpc' = "drop" /\ count # 0 /\ readEnd' = Succ(readEnd)
    BY DEF PopFront, Begin, producer
  <1>2. Passed = 0 /\ Passed' = 1 /\ got = <<>> /\ count \in 0..Size
    BY <1>1 DEF Passed, IInv, TypeOK, Claim
  <1>3. Oldest' = Oldest /\ Items' = Items /\ readEnd' \in Slots
    BY <1>1, <1>2, PassSlot, SizeAssumption
  <1>4. TypeOK'
    BY <1>1, <1>3 DEF IInv, TypeOK
  <1>5. Room' /\ Claim' /\ Ends' /\ Copied'
    BY <1>1, <1>2, <1>3 DEF IInv, Room, Claim, Ends, Copied
  <1>6. QED
    BY <1>1, <1>3, <1>4, <1>5 DEF IInv

\* One element of a read is copied.
LEMMA LoadStep == IInv /\ Load => IInv' /\ UNCHANGED <<Items, out>>
  <1> SUFFICES ASSUME IInv, Load PROVE IInv' /\ UNCHANGED <<Items, out>>
    OBVIOUS
  <1>1. /\ UNCHANGED <<cpc, want, n, out, count, buffer, writeEnd, ppc, batch, wrote>>
        /\ cpc = "load" /\ Len(got) < n /\ readEnd' = Succ(readEnd)
        /\ got' = Append(got, buffer[readEnd])
    BY DEF Load, producer
  <1>2. /\ got \in Seq(Values) /\ buffer[readEnd] \in Values
        /\ n \in 1..count /\ count \in 0..Size
    BY <1>1 DEF IInv, TypeOK, Claim
  <1>3. /\ got' \in Seq(Values) /\ Len(got') = Len(got) + 1
        /\ got'[Len(got) + 1] = buffer[readEnd]
        /\ \A i \in 1..Len(got) : got'[i] = got[i]
    BY <1>1, <1>2
  <1>4. Passed = Len(got) /\ Passed' = Passed + 1 /\ Passed < Size
    BY <1>1, <1>2, <1>3, SizeAssumption DEF Passed
  <1>5. Oldest' = Oldest /\ Items' = Items /\ readEnd' \in Slots
    BY <1>1, <1>4, PassSlot
  <1>6. readEnd = (Oldest + (Len(got) + 1) - 1) % Size
    <2>1. readEnd = (Oldest + Len(got)) % Size /\ Oldest \in Slots
      BY <1>4, Position
    <2>2. Oldest + (Len(got) + 1) - 1 = Oldest + Len(got)
      BY <2>1, <1>2, SizeAssumption DEF Slots
    <2>3. QED
      BY <2>1, <2>2
  <1>7. Copied'
    <2>1. ASSUME NEW i \in 1..(Len(got) + 1)
          PROVE  got'[i] = buffer[(Oldest + i - 1) % Size]
      <3>1. CASE i = Len(got) + 1
        BY <3>1, <1>3, <1>6
      <3>2. CASE i # Len(got) + 1
        <4>1. i \in 1..Len(got)
          BY <3>2, <1>2
        <4>2. QED
          BY <4>1, <1>3 DEF IInv, Copied
      <3>3. QED
        BY <3>1, <3>2
    <2>2. QED
      BY <2>1, <1>1, <1>3, <1>5 DEF Copied
  <1>8. TypeOK'
    BY <1>1, <1>3, <1>5 DEF IInv, TypeOK
  <1>9. Room' /\ Claim' /\ Ends'
    BY <1>1, <1>2, <1>3, <1>5 DEF IInv, Room, Claim, Ends
  <1>10. QED
    BY <1>1, <1>5, <1>7, <1>8, <1>9 DEF IInv

\* Walking further from a slot the consumer leaves behind.
LEMMA Shift ==
  ASSUME IInv, NEW m \in 1..count, NEW i \in 1..(count - m)
  PROVE  buffer[(((Oldest + m) % Size) + i - 1) % Size] = Items[i + m]
  <1> DEFINE y == (Oldest + m) % Size
  <1>1. Oldest \in Slots /\ count \in 0..Size
    BY Position DEF IInv, TypeOK
  <1>2. /\ m \in 0..Size /\ i - 1 \in 0..Size /\ m + (i - 1) <= Size
        /\ i + m \in 1..count
    BY <1>1, SizeAssumption
  <1>3. y \in Slots
    BY <1>1, <1>2, Wrap
  <1>4. (y + (i - 1)) % Size = (Oldest + (m + (i - 1))) % Size
    BY <1>1, <1>2, WrapAdd
  <1> HIDE DEF y
  <1>5. y + i - 1 = y + (i - 1) /\ Oldest + (i + m) - 1 = Oldest + (m + (i - 1))
    BY <1>1, <1>2, <1>3, SizeAssumption DEF Slots
  <1>6. Items[i + m] = buffer[(Oldest + (i + m) - 1) % Size]
    BY <1>2, ItemsType
  <1>7. QED
    BY <1>4, <1>5, <1>6 DEF y

\* When the count goes down by the slots passed, the rest of the queue stays.
LEMMA Leave ==
  ASSUME IInv, NEW m \in 1..count, m = Passed, Passed' = 0,
         count' = count - m, UNCHANGED <<readEnd, buffer>>
  PROVE  /\ Oldest' = (Oldest + m) % Size
         /\ Oldest' \in Slots
         /\ Items' \in Seq(Values) /\ Len(Items') = count - m
         /\ \A i \in 1..(count - m) : Items'[i] = Items[i + m]
  <1>1. Oldest \in Slots /\ count \in 0..Size /\ readEnd \in Slots
    BY Position DEF IInv, TypeOK
  <1>2. readEnd = (Oldest + m) % Size
    BY Position
  <1>3. Oldest' = readEnd
    <2>1. (readEnd + Size - 0) % Size = readEnd
      BY <1>1, SizeAssumption DEF Slots
    <2>2. QED
      BY <2>1 DEF Oldest
  <1>4. Items' = [i \in 1..(count - m) |-> buffer[(((Oldest + m) % Size) + i - 1) % Size]]
    BY <1>2, <1>3 DEF Items
  <1>5. \A i \in 1..(count - m) : Items'[i] = Items[i + m]
    BY <1>4, Shift
  <1>6. Items \in Seq(Values) /\ Len(Items) = count
    BY ItemsType
  <1>7. \A i \in 1..(count - m) : Items'[i] \in Values
    BY <1>1, <1>5, <1>6, SizeAssumption
  <1>8. Items' \in Seq(Values) /\ Len(Items') = count - m
    BY <1>1, <1>4, <1>7, SizeAssumption
  <1>9. QED
    BY <1>1, <1>2, <1>3, <1>5, <1>8

\* The two ends after the count has gone down.
LEMMA LeaveEnds ==
  ASSUME IInv, NEW m \in 1..count, Oldest' = (Oldest + m) % Size,
         count' = count - m, UNCHANGED <<writeEnd, wrote>>
  PROVE  Ends'
  <1>1. Oldest \in Slots /\ count \in 0..Size /\ wrote \in 0..Size /\ count + wrote <= Size
    <2>1. Oldest \in Slots
      BY Position
    <2>2. /\ count \in 0..Size /\ wrote \in 0..Size
          /\ batch \in Seq(Values) /\ Len(batch) \in Nat
      BY DEF IInv, TypeOK
    <2>3. count + wrote <= Size
      BY <2>2, SizeAssumption DEF IInv, Room
    <2>4. QED
      BY <2>1, <2>2, <2>3
  <1>2. m \in 0..Size /\ count - m + wrote \in 0..Size
        /\ m + (count - m + wrote) = count + wrote
    BY <1>1, SizeAssumption
  <1>3. (((Oldest + m) % Size) + (count - m + wrote)) % Size = (Oldest + (m + (count - m + wrote))) % Size
    BY <1>1, <1>2, WrapAdd
  <1>4. writeEnd = (Oldest + (count + wrote)) % Size
    BY DEF IInv, Ends
  <1>5. QED
    BY <1>2, <1>3, <1>4 DEF Ends

\* The second half of pop_front drops the oldest element.
LEMMA DropStep == IInv /\ Drop => IInv' /\ Fifo!Drop
  <1> SUFFICES ASSUME IInv, Drop PROVE IInv' /\ Fifo!Drop
    OBVIOUS
  <1>1. /\ UNCHANGED <<readEnd, want, n, got, out, buffer, writeEnd, ppc, batch, wrote>>
        /\ cpc = "drop" /\ cpc' = "idle" /\ count' = count - 1
    BY DEF Drop, producer
  <1>2. got = <<>> /\ count \in 1..Size /\ 1 \in 1..count
    BY <1>1, SizeAssumption DEF IInv, TypeOK, Claim
  <1>3. Passed = 1 /\ Passed' = 0
    BY <1>1, <1>2 DEF Passed
  <1>4. /\ Oldest' = (Oldest + 1) % Size
        /\ Items' \in Seq(Values) /\ Len(Items') = count - 1
        /\ \A i \in 1..(count - 1) : Items'[i] = Items[i + 1]
    BY <1>1, <1>2, <1>3, Leave
  <1>5. Ends'
    BY <1>1, <1>2, <1>4, LeaveEnds
  <1>6. TypeOK'
    BY <1>1, <1>2, SizeAssumption DEF IInv, TypeOK
  <1>7. Room' /\ Claim' /\ Copied'
    <2>1. batch \in Seq(Values) /\ Len(batch) \in Nat /\ wrote \in 0..Size
      BY DEF IInv, TypeOK
    <2>2. Room'
      BY <1>1, <1>2, <2>1, SizeAssumption DEF IInv, Room
    <2>3. Claim' /\ Copied'
      BY <1>1, <1>2 DEF Claim, Copied
    <2>4. QED
      BY <2>2, <2>3
  <1>8. Items \in Seq(Values) /\ Len(Items) = count
    BY ItemsType
  <1>9. Items # <<>> /\ Items' = Tail(Items)
    <2>1. Items # <<>>
      BY <1>2, <1>8
    <2>2. /\ Tail(Items) \in Seq(Values) /\ Len(Tail(Items)) = count - 1
          /\ \A i \in 1..(count - 1) : Tail(Items)[i] = Items[i + 1]
      BY <1>2, <1>8, <2>1
    <2>3. QED
      BY <2>1, <2>2, <1>2, <1>4
  <1>10. QED
    BY <1>1, <1>5, <1>6, <1>7, <1>9 DEF IInv, Fifo!Drop

\* What is left of a sequence after its first m elements.
LEMMA Remainder ==
  ASSUME NEW S, NEW s \in Seq(S), NEW m \in 0..Len(s)
  PROVE  /\ SubSeq(s, m + 1, Len(s)) \in Seq(S)
         /\ Len(SubSeq(s, m + 1, Len(s))) = Len(s) - m
         /\ \A i \in 1..(Len(s) - m) : SubSeq(s, m + 1, Len(s))[i] = s[i + m]
  OBVIOUS

\* Sequences are equal when their elements are.
LEMMA SameSequence ==
  ASSUME NEW S, NEW s \in Seq(S), NEW t \in Seq(S), Len(s) = Len(t),
         \A i \in 1..Len(s) : s[i] = t[i]
  PROVE  t = s
  OBVIOUS

\* read() returns the oldest elements and takes them off the queue.
LEMMA ReleaseStep == IInv /\ Release => IInv' /\ \E k \in 1..Len(Items) : Fifo!Take(k)
  <1> SUFFICES ASSUME IInv, Release
               PROVE  IInv' /\ \E k \in 1..Len(Items) : Fifo!Take(k)
    OBVIOUS
  <1>1. /\ UNCHANGED <<readEnd, buffer, writeEnd, ppc, batch, wrote>>
        /\ cpc = "load" /\ cpc' = "idle" /\ count' = count - n /\ Len(got) = n
        /\ out' = got /\ got' = <<>> /\ n' = 0 /\ want' = 0
    BY DEF Release, producer
  <1>2. /\ got \in Seq(Values) /\ count \in 0..Size /\ n \in 1..count
    BY <1>1 DEF IInv, TypeOK, Claim
  <1>3. Passed = n /\ Passed' = 0
    BY <1>1 DEF Passed
  <1>4. /\ Oldest' = (Oldest + n) % Size
        /\ Items' \in Seq(Values) /\ Len(Items') = count - n
        /\ \A i \in 1..(count - n) : Items'[i] = Items[i + n]
    BY <1>1, <1>2, <1>3, Leave
  <1>5. Ends'
    BY <1>1, <1>2, <1>4, LeaveEnds
  <1>6. TypeOK'
    BY <1>1, <1>2, SizeAssumption, BatchAssumption DEF IInv, TypeOK
  <1>7. Room' /\ Claim' /\ Copied'
    BY <1>1, <1>2, SizeAssumption DEF IInv, TypeOK, Room, Claim, Copied
  <1>8. /\ Items \in Seq(Values) /\ Len(Items) = count
        /\ \A i \in 1..count : Items[i] = buffer[(Oldest + i - 1) % Size]
    BY ItemsType
  <1>9. got = SubSeq(Items, 1, n)
    <2>1. \A i \in 1..n : got[i] = Items[i]
      BY <1>1, <1>2, <1>8 DEF IInv, Copied
    <2>2. /\ SubSeq(Items, 1, n) \in Seq(Values) /\ Len(SubSeq(Items, 1, n)) = n
          /\ \A i \in 1..n : SubSeq(Items, 1, n)[i] = Items[i]
      BY <1>2, <1>8, SizeAssumption
    <2>3. QED
      BY <2>1, <2>2, <1>1, <1>2
  <1>10. Items' = SubSeq(Items, n + 1, Len(Items))
    <2> DEFINE rest == SubSeq(Items, n + 1, Len(Items))
    <2>1. n \in 0..Len(Items)
      BY <1>2, <1>8, SizeAssumption
    <2>2. /\ rest \in Seq(Values) /\ Len(rest) = count - n
          /\ \A i \in 1..(count - n) : rest[i] = Items[i + n]
      BY <2>1, <1>8, Remainder
    <2> HIDE DEF rest
    <2>3. Items' = rest
      <3>1. Len(rest) = Len(Items') /\ \A i \in 1..Len(rest) : rest[i] = Items'[i]
        BY <2>2, <1>4
      <3>2. QED
        BY <3>1, <2>2, <1>4, SameSequence
    <2>4. QED
      BY <2>3 DEF rest
  <1>11. Fifo!Take(n) /\ n \in 1..Len(Items)
    BY <1>1, <1>2, <1>8, <1>9, <1>10 DEF Fifo!Take
  <1>12. QED
    BY <1>5, <1>6, <1>7, <1>11 DEF IInv

\* clear() on a queue at rest.
LEMMA ClearStep == IInv /\ Clear => IInv' /\ Fifo!Clear
  <1> SUFFICES ASSUME IInv, Clear PROVE IInv' /\ Fifo!Clear
    OBVIOUS
  <1>1. /\ UNCHANGED <<buffer, ppc, batch, wrote, cpc, want, n, got, out>>
        /\ ppc = "idle" /\ cpc = "idle" /\ readEnd' = 0 /\ writeEnd' = 0 /\ count' = 0
    BY DEF Clear
  <1>2. got = <<>> /\ wrote = 0
    BY <1>1 DEF IInv, Room, Claim
  <1>3. Passed' = 0
    BY <1>1, <1>2 DEF Passed
  <1>4. Oldest' = 0
    <2>1. (0 + Size - 0) % Size = 0
      BY SizeAssumption
    <2>2. QED
      BY <1>1, <1>3, <2>1 DEF Oldest
  <1>5. Ends'
    BY <1>1, <1>2, <1>4, SizeAssumption DEF Ends
  <1>6. TypeOK'
    BY <1>1, SizeAssumption DEF IInv, TypeOK, Slots
  <1>7. Room' /\ Claim' /\ Copied'
    BY <1>1, <1>2 DEF IInv, Room, Claim, Copied
  <1>8. Items' = <<>>
    BY <1>1 DEF Items
  <1>9. QED
    BY <1>1, <1>5, <1>6, <1>7, <1>8 DEF IInv, Fifo!Clear

\* Every step keeps the invariant and is a step of BoundedFifo or a stutter.
LEMMA StepIInv == IInv /\ [Next]_vars => IInv' /\ [Fifo!Next]_(Fifo!vars)
  <1> SUFFICES ASSUME IInv, [Next]_vars PROVE IInv' /\ [Fifo!Next]_(Fifo!vars)
    OBVIOUS
  <1> USE DEF Fifo!Next, Fifo!vars
  <1>1. CASE (\E v \in Values : PushBack(v)) \/ (\E s \in Batches : Write(s)) \/ Limit
    BY <1>1, ProducerBegins
  <1>2. CASE Store
    BY <1>2, StoreStep
  <1>3. CASE Publish
    BY <1>3, PublishStep
  <1>4. CASE Front \/ (\E k \in 1..MaxBatch : Read(k)) \/ Clamp \/ ClampSet
    BY <1>4, ConsumerBegins
  <1>5. CASE Peek
    BY <1>5, PeekStep
  <1>6. CASE PopFront
    BY <1>6, PopFrontStep
  <1>7. CASE Drop
    BY <1>7, DropStep
  <1>8. CASE Load
    BY <1>8, LoadStep
  <1>9. CASE Release
    BY <1>9, ReleaseStep
  <1>10. CASE Clear
    BY <1>10, ClearStep
  <1>11. CASE UNCHANGED vars
    <2>1. UNCHANGED <<readEnd, writeEnd, count, buffer, ppc, batch, wrote, cpc, want, n, got, out>>
      BY <1>11 DEF vars
    <2>2. Passed' = Passed
      BY <2>1 DEF Passed
    <2>3. Oldest' = Oldest /\ Items' = Items
      BY <2>1, <2>2, Frame
    <2>4. IInv'
      BY <2>1, <2>3 DEF IInv, TypeOK, Room, Claim, Ends, Copied
    <2>5. QED
      BY <2>1, <2>3, <2>4
  <1>12. QED
    BY <1>1, <1>2, <1>3, <1>4, <1>5, <1>6, <1>7, <1>8, <1>9, <1>10, <1>11 DEF Next

\* The invariant holds in every state.
LEMMA AlwaysIInv == Spec => []IInv
  BY InitIInv, StepIInv, PTL DEF Spec

-----------------------------------------------------------------------------

\* The ends stay in the ring and _count between 0 and _size.
THEOREM TypeCorrect == Spec => []TypeOK
  <1>1. IInv => TypeOK
    BY DEF IInv
  <1>2. QED
    BY <1>1, AlwaysIInv, PTL

\* The slots need no lock: the consumer reads a counted slot, and the producer
\* writes one that is not counted.
THEOREM SlotsRaceFree == Spec => []NoSlotRace
  <1>1. ASSUME IInv PROVE NoSlotRace
    <2> SUFFICES ASSUME ppc = "store", batch # <<>>,
                        cpc = "peek" \/ (cpc = "load" /\ Len(got) < n)
                 PROVE  writeEnd # readEnd
      BY DEF NoSlotRace
    <2>1. /\ batch \in Seq(Values) /\ count \in 0..Size /\ wrote \in 0..Size
          /\ count + wrote + Len(batch) <= Size
      BY <1>1 DEF IInv, TypeOK, Room
    <2>2. Len(batch) >= 1
      BY <2>1
    <2>3. count + wrote \in 0..(Size - 1)
      BY <2>1, <2>2, SizeAssumption
    <2>4. Passed \in 0..count /\ Passed < count
      <3>1. Passed \in 0..count
        BY <1>1, Position
      <3>2. CASE cpc = "peek"
        BY <3>1, <3>2, <2>1, <1>1, Position DEF IInv, Claim
      <3>3. CASE cpc = "load" /\ Len(got) < n
        BY <3>1, <3>3, <2>1, <1>1, Position DEF IInv, TypeOK, Claim
      <3>4. QED
        BY <3>1, <3>2, <3>3
    <2>5. Passed \in 0..(Size - 1) /\ Passed # count + wrote
      BY <2>1, <2>3, <2>4, SizeAssumption
    <2>6. Oldest \in Slots /\ readEnd = (Oldest + Passed) % Size
      BY <1>1, Position
    <2>7. writeEnd = (Oldest + (count + wrote)) % Size
      BY <1>1 DEF IInv, Ends
    <2>8. QED
      BY <2>3, <2>5, <2>6, <2>7, WrapDistinct
  <1>2. QED
    BY <1>1, AlwaysIInv, PTL

\* One producer and one consumer see a bounded FIFO queue.
THEOREM Refinement == Spec => ImplementsFifo
  <1>1. Init => Fifo!Init
    BY DEF Init, Fifo!Init, Items
  <1>2. IInv /\ [Next]_vars => [Fifo!Next]_<<Items, out>>
    BY StepIInv DEF Fifo!vars
  <1>3. QED
    BY <1>1, <1>2, AlwaysIInv, PTL DEF Spec, ImplementsFifo, Fifo!Spec, Fifo!vars
=============================================================================
