--------------------------- MODULE RaftLogProofs ---------------------------
(***************************************************************************)
(* Proofs about RaftLog, for every size of the array.                      *)
(***************************************************************************)
EXTENDS RaftLog, SequenceTheorems, TLAPS

\* Going k slots up the array, and n slots down.
LEMMA Up ==
    ASSUME NEW s \in Nat \ {0}, NEW f \in 0 .. s - 1, NEW k \in 0 .. s
    PROVE  (f + k) % s = IF f + k < s THEN f + k ELSE f + k - s
<1>1. CASE f + k < s
  BY <1>1
<1>2. CASE s <= f + k
  <2>1. f + k = s * 1 + (f + k - s)
    OBVIOUS
  <2> QED BY <2>1, <1>2
<1> QED BY <1>1, <1>2

LEMMA Down ==
    ASSUME NEW s \in Nat \ {0}, NEW f \in 0 .. s - 1, NEW n \in 0 .. s
    PROVE  (f - n) % s = IF n <= f THEN f - n ELSE f - n + s
<1>1. CASE n <= f
  BY <1>1
<1>2. CASE f < n
  <2>1. f - n = s * (-1) + (f - n + s)
    OBVIOUS
  <2> QED BY <2>1, <1>2
<1> QED BY <1>1, <1>2

\* Every entry of the log was written.
Filled == \A k \in 0 .. count - 1 : entries[At(k)] \in RaftEntry

\* What every step keeps.  The indices never pass the bound.
IInv ==
    /\ TypeOK
    /\ back = At(count)
    /\ Filled
    /\ CurrentIdx <= MaxIdx

USE LogAssumption DEF LogAssumption

\* The array with room for one more holds the same entries in the same order.
LEMMA RoomHoldsLog ==
    ASSUME IInv
    PROVE  /\ Room.size \in Nat \ {0} /\ count < Room.size
           /\ Room.entries \in [0 .. Room.size - 1 -> RaftEntry \cup {NULL}]
           /\ Room.front \in 0 .. Room.size - 1 /\ Room.back \in 0 .. Room.size - 1
           /\ Room.back = (Room.front + count) % Room.size
           /\ \A k \in 0 .. count - 1 :
                  Room.entries[(Room.front + k) % Room.size] = entries[At(k)]
<1> USE DEF IInv, TypeOK, At
<1>1. CASE count < size
  BY <1>1 DEF Room
<1>2. CASE count = size
  <2> DEFINE s == 2 * size
  <2>1. Room = [size |-> s, entries |-> Grown, front |-> 0, back |-> count]
    BY <1>2 DEF Room
  <2>2. s \in Nat \ {0} /\ count \in 0 .. s - 1 /\ count < s
    BY <1>2
  <2>3. \A i \in 0 .. s - 1 : i < count => At(i) \in 0 .. size - 1
    BY <1>2
  <2>4. Grown \in [0 .. s - 1 -> RaftEntry \cup {NULL}]
    BY <2>3 DEF Grown
  <2>5. \A k \in 0 .. count - 1 : Grown[k] = entries[At(k)]
    BY <1>2 DEF Grown
  <2> HIDE DEF s
  <2>6. \A k \in 0 .. count : (0 + k) % s = k
    BY <2>2
  <2>7. 0 \in 0 .. s - 1 /\ count \in 0 .. count /\ \A k \in 0 .. count - 1 : k \in 0 .. count
    BY <2>2
  <2> QED BY <2>1, <2>2, <2>4, <2>5, <2>6, <2>7
<1> QED BY <1>1, <1>2

\* Where the next slot is: one further along the array.
LEMMA NextSlot ==
    ASSUME NEW s \in Nat \ {0}, NEW f \in 0 .. s - 1, NEW k \in 0 .. s - 1
    PROVE  /\ (((f + k) % s) + 1) % s = (f + (k + 1)) % s
           /\ (((f + 1) % s) + k) % s = (f + (k + 1)) % s
<1> DEFINE a == (f + k) % s
           b == (f + 1) % s
<1>1. k \in 0 .. s /\ 1 \in 0 .. s /\ k + 1 \in 0 .. s
  OBVIOUS
<1>2. a = IF f + k < s THEN f + k ELSE f + k - s
  BY <1>1, Up
<1>3. b = IF f + 1 < s THEN f + 1 ELSE f + 1 - s
  BY <1>1, Up
<1>4. (f + (k + 1)) % s = IF f + (k + 1) < s THEN f + (k + 1) ELSE f + (k + 1) - s
  BY <1>1, Up
<1> HIDE DEF a, b
<1>5. a \in 0 .. s - 1 /\ b \in 0 .. s - 1
  BY <1>2, <1>3
<1>6. (a + 1) % s = IF a + 1 < s THEN a + 1 ELSE a + 1 - s
  BY <1>1, <1>5, Up
<1>7. (b + k) % s = IF b + k < s THEN b + k ELSE b + k - s
  BY <1>1, <1>5, Up
<1>8. (a + 1) % s = (f + (k + 1)) % s
  BY <1>2, <1>4, <1>6
<1>9. (b + k) % s = (f + (k + 1)) % s
  BY <1>3, <1>4, <1>7
<1> QED BY <1>8, <1>9 DEF a, b

\* Cutting n entries off moves back by n.
LEMMA SlotBack ==
    ASSUME NEW s \in Nat \ {0}, NEW f \in 0 .. s - 1, NEW c \in 0 .. s, NEW n \in 0 .. c
    PROVE  (((f + c) % s) - n) % s = (f + (c - n)) % s
<1> DEFINE a == (f + c) % s
<1>1. a = IF f + c < s THEN f + c ELSE f + c - s
  BY Up
<1>2. c - n \in 0 .. s /\ n \in 0 .. s
  OBVIOUS
<1>3. (f + (c - n)) % s = IF f + (c - n) < s THEN f + (c - n) ELSE f + (c - n) - s
  BY <1>2, Up
<1> HIDE DEF a
<1>4. a \in 0 .. s - 1
  BY <1>1
<1>5. (a - n) % s = IF n <= a THEN a - n ELSE a - n + s
  BY <1>2, <1>4, Down
<1>6. (a - n) % s = (f + (c - n)) % s
  BY <1>1, <1>3, <1>5
<1> QED BY <1>6 DEF a

\* Different entries lie in different slots.
LEMMA SlotsDiffer ==
    ASSUME NEW s \in Nat \ {0}, NEW f \in 0 .. s - 1,
           NEW j \in 0 .. s - 1, NEW k \in 0 .. s - 1, j # k
    PROVE  (f + j) % s # (f + k) % s
<1>1. j \in 0 .. s /\ k \in 0 .. s
  OBVIOUS
<1>2. (f + j) % s = IF f + j < s THEN f + j ELSE f + j - s
  BY <1>1, Up
<1>3. (f + k) % s = IF f + k < s THEN f + k ELSE f + k - s
  BY <1>1, Up
<1> QED BY <1>2, <1>3

-----------------------------------------------------------------------------
(* The invariant, action by action.                                        *)

\* Appending writes the slot after the youngest entry and no entry's slot.
LEMMA AppendEntryWrites ==
    ASSUME IInv, NEW e \in RaftEntry, AppendEntry(e)
    PROVE  /\ size' \in Nat \ {0} /\ count < size' /\ front' \in 0 .. size' - 1
           /\ entries' \in [0 .. size' - 1 -> RaftEntry \cup {NULL}]
           /\ back' \in 0 .. size' - 1 /\ back' = At(count)'
           /\ base' = base
           /\ count' \in {count, count + 1}
           /\ \A k \in 0 .. count :
                  entries'[At(k)'] = IF k < count THEN entries[At(k)] ELSE e
<1> DEFINE s == Room.size
           f == Room.front
           b == Room.back
           ents == Room.entries
<1>1. /\ s \in Nat \ {0} /\ count \in 0 .. s - 1
      /\ ents \in [0 .. s - 1 -> RaftEntry \cup {NULL}]
      /\ f \in 0 .. s - 1 /\ b \in 0 .. s - 1
      /\ b = (f + count) % s
      /\ \A k \in 0 .. count - 1 : ents[(f + k) % s] = entries[At(k)]
  BY RoomHoldsLog DEF IInv, TypeOK
<1>2. /\ size' = s /\ front' = f /\ entries' = [ents EXCEPT ![b] = e] /\ base' = base
      /\ \/ count' = count + 1 /\ back' = (b + 1) % s
         \/ count' = count /\ back' = b
  BY DEF AppendEntry
<1> HIDE DEF s, f, b, ents
<1>3. (b + 1) % s \in 0 .. s - 1 /\ (b + 1) % s = (f + (count + 1)) % s
  <2>1. s \in Nat \ {0} /\ f \in 0 .. s - 1 /\ count \in 0 .. s - 1
    BY <1>1
  <2>2. (((f + count) % s) + 1) % s = (f + (count + 1)) % s
    BY <2>1, NextSlot
  <2> QED BY <1>1, <2>2
<1>4. back' \in 0 .. s - 1 /\ back' = (f + count') % s
  BY <1>1, <1>2, <1>3
<1>5. \A k \in 0 .. count - 1 : (f + k) % s \in 0 .. s - 1 /\ (f + k) % s # b
  <2> SUFFICES ASSUME NEW k \in 0 .. count - 1
               PROVE  (f + k) % s \in 0 .. s - 1 /\ (f + k) % s # b
    OBVIOUS
  <2>1. k \in 0 .. s - 1 /\ k # count
    BY <1>1
  <2>2. (f + k) % s # (f + count) % s
    BY <1>1, <2>1, SlotsDiffer
  <2>3. (f + k) % s \in 0 .. s - 1
    BY <1>1, <2>1
  <2> QED BY <1>1, <2>2, <2>3
<1>6. \A k \in 0 .. count - 1 : entries'[(f + k) % s] = entries[At(k)]
  BY <1>1, <1>2, <1>5
<1>7. entries'[(f + count) % s] = e
  BY <1>1, <1>2
<1>8. \A k : At(k)' = (f + k) % s
  BY <1>2 DEF At
<1>9. entries' \in [0 .. s - 1 -> RaftEntry \cup {NULL}]
  BY <1>1, <1>2
<1>10. back' = At(count)'
  BY <1>2, <1>4 DEF At
<1>11. \A k \in 0 .. count :
           entries'[(f + k) % s] = IF k < count THEN entries[At(k)] ELSE e
  <2>1. \A k \in 0 .. count : 
          \/ k < count /\ k \in 0 .. count - 1
          \/ k = count /\ ~(k < count)
    BY <1>1
  <2> QED BY <2>1, <1>6, <1>7
<1>12. \A k \in 0 .. count :
           entries'[At(k)'] = IF k < count THEN entries[At(k)] ELSE e
  BY <1>8, <1>11
<1>13. size' \in Nat \ {0} /\ count < size' /\ front' \in 0 .. size' - 1
  BY <1>1, <1>2
<1>14. entries' \in [0 .. size' - 1 -> RaftEntry \cup {NULL}] /\ back' \in 0 .. size' - 1
  BY <1>2, <1>4, <1>9
<1> QED BY <1>2, <1>10, <1>12, <1>13, <1>14

LEMMA AppendEntryKeeps ==
    ASSUME IInv, NEW e \in RaftEntry, AppendEntry(e)
    PROVE  IInv'
<1>1. count \in Nat /\ base \in 0 .. MaxIdx /\ CurrentIdx + 1 <= MaxIdx
  BY DEF IInv, TypeOK, AppendEntry
<1>2. TypeOK'
  BY <1>1, AppendEntryWrites DEF TypeOK
<1>3. Filled'
  <2>1. \A k \in 0 .. count : entries'[At(k)'] \in RaftEntry
    <3>1. \A k \in 0 .. count : k < count => entries[At(k)] \in RaftEntry
      BY <1>1 DEF IInv, Filled
    <3> QED BY <3>1, AppendEntryWrites
  <2>2. \A k \in 0 .. count' - 1 : k \in 0 .. count
    <3>1. CASE count' = count
      BY <3>1, <1>1
    <3>2. CASE count' = count + 1
      BY <3>2, <1>1
    <3> QED BY <3>1, <3>2, AppendEntryWrites
  <2> QED BY <2>1, <2>2 DEF Filled
<1>4. (CurrentIdx <= MaxIdx)'
  <2>1. CASE count' = count
    BY <2>1, <1>1, AppendEntryWrites DEF CurrentIdx
  <2>2. CASE count' = count + 1
    BY <2>2, <1>1, AppendEntryWrites DEF CurrentIdx
  <2> QED BY <2>1, <2>2, AppendEntryWrites
<1>5. (back = At(count))'
  BY AppendEntryWrites
<1> QED BY <1>2, <1>3, <1>4, <1>5 DEF IInv

\* Deleting moves back, polling moves front, over entries that were written.
LEMMA DeleteKeeps ==
    ASSUME IInv, NEW idx \in 1 .. MaxIdx, Delete(idx)
    PROVE  IInv'
<1> USE DEF IInv, TypeOK
<1>1. PICK n \in 0 .. NumFrom(idx) :
          /\ count' = count - n /\ back' = (back - n) % size
          /\ UNCHANGED <<array, front, base>>
  BY DEF Delete
<1>2. n \in 0 .. count
  BY DEF NumFrom, CurrentIdx
<1>3. size' = size /\ entries' = entries /\ front' = front /\ base' = base
  BY <1>1 DEF array
<1>4. (back - n) % size = At(count - n)
  BY <1>2, SlotBack DEF At
<1>5. TypeOK' /\ (CurrentIdx <= MaxIdx)'
  BY <1>1, <1>2, <1>3 DEF CurrentIdx
<1>6. (back = At(count))'
  <2>1. (back - n) % size = (front' + count') % size'
    BY <1>1, <1>3, <1>4 DEF At
  <2> QED BY <2>1, <1>1 DEF At
<1>7. Filled'
  <2>1. \A k : At(k)' = At(k)
    BY <1>3 DEF At
  <2>2. \A k \in 0 .. count' - 1 : k \in 0 .. count - 1
    BY <1>1, <1>2
  <2> QED BY <2>1, <2>2, <1>3 DEF Filled
<1> QED BY <1>5, <1>6, <1>7

LEMMA PollKeeps ==
    ASSUME IInv, Poll
    PROVE  IInv'
<1> USE DEF IInv, TypeOK
<1>1. /\ count > 0 /\ front' = (front + 1) % size /\ count' = count - 1 /\ base' = base + 1
      /\ size' = size /\ entries' = entries /\ back' = back
  BY DEF Poll, array
<1>2. \A k \in 0 .. size - 1 : At(k)' = At(k + 1)
  BY <1>1, NextSlot DEF At
<1>3. (back = At(count))'
  BY <1>1, <1>2
<1>4. Filled'
  BY <1>1, <1>2 DEF Filled
<1>5. front' \in 0 .. size - 1
  BY <1>1
<1> QED BY <1>1, <1>3, <1>4, <1>5 DEF CurrentIdx

\* An empty log, and one of a single entry in the first slot.
LEMMA EmptiedKeeps ==
    ASSUME IInv, Clear \/ Empty
    PROVE  IInv'
<1> USE DEF IInv, TypeOK
<1>1. /\ front' = 0 /\ back' = 0 /\ count' = 0 /\ base' \in {0, base}
      /\ size' = size /\ entries' = entries
  BY DEF Clear, Empty, array
<1>2. At(0)' = 0
  BY <1>1 DEF At
<1>3. (back = At(count))'
  BY <1>1, <1>2
<1>4. TypeOK'
  BY <1>1
<1>5. Filled'
  <2>1. count' - 1 = -1 /\ 0 .. -1 = {}
    BY <1>1
  <2> QED BY <2>1 DEF Filled
<1>6. (CurrentIdx <= MaxIdx)'
  <2>1. CASE base' = 0
    BY <2>1, <1>1 DEF CurrentIdx
  <2>2. CASE base' = base
    BY <2>2, <1>1 DEF CurrentIdx
  <2> QED BY <2>1, <2>2, <1>1
<1> QED BY <1>3, <1>4, <1>5, <1>6

LEMMA LoadKeeps ==
    ASSUME IInv, NEW idx \in 1 .. MaxIdx, NEW e \in RaftEntry, LoadFromSnapshot(idx, e)
    PROVE  IInv'
<1> USE DEF IInv, TypeOK
<1>1. /\ front' = 0 /\ back' = 1 % size /\ count' = 1 /\ base' = idx - 1
      /\ size' = size /\ entries' = [entries EXCEPT ![0] = e]
  BY DEF LoadFromSnapshot
<1>2. At(0)' = 0 /\ entries'[0] = e
  BY <1>1 DEF At
<1>3. Filled'
  BY <1>1, <1>2 DEF Filled
<1>4. TypeOK' /\ (CurrentIdx <= MaxIdx)'
  BY <1>1 DEF CurrentIdx
<1>5. (back = At(count))'
  BY <1>1 DEF At
<1> QED BY <1>3, <1>4, <1>5

LEMMA Invariance == Spec => []IInv
<1>1. Init => IInv
  <2> SUFFICES ASSUME Init PROVE IInv
    OBVIOUS
  <2>1. InitialSize \in Nat \ {0} /\ 0 % InitialSize = 0
    OBVIOUS
  <2> QED BY <2>1 DEF Init, IInv, TypeOK, At, Filled, CurrentIdx
<1>2. IInv /\ [Next]_vars => IInv'
  <2> SUFFICES ASSUME IInv, [Next]_vars PROVE IInv'
    OBVIOUS
  <2>1. CASE \E e \in RaftEntry : AppendEntry(e)
    BY <2>1, AppendEntryKeeps
  <2>2. CASE \E idx \in 1 .. MaxIdx : Delete(idx)
    BY <2>2, DeleteKeeps
  <2>3. CASE Poll
    BY <2>3, PollKeeps
  <2>4. CASE Clear \/ Empty
    BY <2>4, EmptiedKeeps
  <2>5. CASE \E idx \in 1 .. MaxIdx, e \in RaftEntry : LoadFromSnapshot(idx, e)
    BY <2>5, LoadKeeps
  <2>6. CASE UNCHANGED vars
    BY <2>6 DEF vars, array, IInv, TypeOK, At, Filled, CurrentIdx
  <2> QED BY <2>1, <2>2, <2>3, <2>4, <2>5, <2>6 DEF Next
<1> QED BY <1>1, <1>2, PTL DEF Spec

-----------------------------------------------------------------------------
(* What follows from it.                                                   *)

\* The slot of an index is that of its distance from base.
LEMMA SlotIsAt ==
    ASSUME IInv, NEW i \in base + 1 .. CurrentIdx
    PROVE  Slot(i) = At(i - base - 1) /\ i - base - 1 \in 0 .. count - 1
BY DEF Slot, At, IInv, TypeOK, CurrentIdx

\* The fields of the log keep their types and ranges for every initial size:
\* the array is never indexed outside, and never holds more than its size.
THEOREM TypeCorrect == Spec => []TypeOK
<1>1. IInv => TypeOK
  BY DEF IInv
<1> QED BY Invariance, <1>1, PTL

\* front, back and count agree and no entry is read from a slot never written
\* (log_get_at_idx over log_append_entry, log_delete, log_poll and growth).
THEOREM ArrayHoldsLog == Spec => []Shape
<1>1. IInv => Shape
  <2> SUFFICES ASSUME IInv PROVE Shape
    OBVIOUS
  <2>1. back = At(count)
    BY DEF IInv
  <2>2. ASSUME NEW i \in base + 1 .. CurrentIdx PROVE GetAtIdx(i) \in RaftEntry
    <3>1. base < i /\ i <= CurrentIdx
      BY DEF IInv, TypeOK, CurrentIdx
    <3> QED BY <3>1, SlotIsAt DEF GetAtIdx, IInv, Filled
  <2> QED BY <2>1, <2>2 DEF Shape
<1> QED BY Invariance, <1>1, PTL

-----------------------------------------------------------------------------
(* The array implements an indexed log.                                    *)

\* The entries in order, as a sequence.
LEMMA LogIsSeq ==
    IInv => /\ Log \in Seq(RaftEntry) /\ Len(Log) = count
            /\ \A i \in 1 .. count : Log[i] = entries[At(i - 1)]
<1> SUFFICES ASSUME IInv
             PROVE  /\ Log \in Seq(RaftEntry) /\ Len(Log) = count
                    /\ \A i \in 1 .. count : Log[i] = entries[At(i - 1)]
  OBVIOUS
<1>1. count \in Nat
  BY DEF IInv, TypeOK
<1>2. \A i \in 1 .. count : i - 1 \in 0 .. count - 1
  BY <1>1
<1>3. \A i \in 1 .. count : entries[At(i - 1)] \in RaftEntry
  BY <1>2 DEF IInv, Filled
<1>4. Log \in [1 .. count -> RaftEntry]
  BY <1>3 DEF Log
<1> QED BY <1>1, <1>4 DEF Log

LEMMA LogIsSeqNext ==
    ASSUME IInv'
    PROVE  /\ Log' \in Seq(RaftEntry) /\ Len(Log') = count'
           /\ \A i \in 1 .. count' : Log'[i] = entries'[At(i - 1)']
<1>1. (IInv => /\ Log \in Seq(RaftEntry) /\ Len(Log) = count
               /\ \A i \in 1 .. count : Log[i] = entries[At(i - 1)])'
  BY LogIsSeq, PTL
<1> QED BY <1>1

LEMMA AppendEntryRefines ==
    ASSUME IInv, NEW e \in RaftEntry, AppendEntry(e)
    PROVE  Abstract!Add \/ UNCHANGED <<base, Log>>
<1> DEFINE n == count
<1>1. IInv'
  BY AppendEntryKeeps
<1>2. n \in Nat /\ Log \in Seq(RaftEntry) /\ Len(Log) = n
  BY LogIsSeq DEF IInv, TypeOK
<1>3. \A i \in 1 .. n + 1 :
          entries'[At(i - 1)'] = IF i <= n THEN Log[i] ELSE e
  <2> SUFFICES ASSUME NEW i \in 1 .. n + 1
               PROVE  entries'[At(i - 1)'] = IF i <= n THEN Log[i] ELSE e
    OBVIOUS
  <2>1. i - 1 \in 0 .. count /\ (i <= n <=> i - 1 < count) /\ (i <= n => i \in 1 .. count)
    BY <1>2
  <2>2. entries'[At(i - 1)'] = IF i - 1 < count THEN entries[At(i - 1)] ELSE e
    BY <2>1, AppendEntryWrites
  <2> QED BY <2>1, <2>2, LogIsSeq
<1>4. \A i \in 1 .. n : i \in 1 .. n + 1 /\ i <= n
  BY <1>2
<1>5. CASE count' = n
  <2>1. Log' \in Seq(RaftEntry) /\ Len(Log') = n /\ \A i \in 1 .. n : Log'[i] = Log[i]
    BY <1>1, <1>3, <1>4, <1>5, LogIsSeqNext
  <2>2. Log' = Log
    BY <2>1, <1>2, SeqEqual
  <2> QED BY <2>2, AppendEntryWrites
<1>6. CASE count' = n + 1
  <2>1. /\ Append(Log, e) \in Seq(RaftEntry) /\ Len(Append(Log, e)) = n + 1
        /\ \A i \in 1 .. n + 1 : Append(Log, e)[i] = IF i <= n THEN Log[i] ELSE e
    BY <1>2
  <2>2. /\ Log' \in Seq(RaftEntry) /\ Len(Log') = n + 1
        /\ \A i \in 1 .. n + 1 : Log'[i] = Append(Log, e)[i]
    BY <1>1, <1>3, <1>6, <2>1, LogIsSeqNext
  <2>3. Log' = Append(Log, e)
    BY <2>1, <2>2, SeqEqual
  <2> QED BY <2>3, AppendEntryWrites DEF Abstract!Add
<1> QED BY <1>5, <1>6, AppendEntryWrites

LEMMA DeleteRefines ==
    ASSUME IInv, NEW idx \in 1 .. MaxIdx, Delete(idx)
    PROVE  Abstract!DropYoungest
<1>1. IInv'
  BY DeleteKeeps
<1>2. PICK d \in 0 .. NumFrom(idx) : count' = count - d /\ UNCHANGED <<array, front, base>>
  BY DEF Delete
<1>3. count \in Nat /\ d \in 0 .. count
  BY DEF NumFrom, CurrentIdx, IInv, TypeOK
<1> DEFINE n == count - d
<1>4. n \in 0 .. count /\ \A i \in 1 .. n : i \in 1 .. count
  BY <1>3
<1>5. /\ Log \in Seq(RaftEntry) /\ Len(Log) = count
      /\ \A i \in 1 .. count : Log[i] = entries[At(i - 1)]
  BY LogIsSeq
<1>6. \A k : entries'[At(k)'] = entries[At(k)]
  BY <1>2 DEF At, array
<1>7. /\ Log' \in Seq(RaftEntry) /\ Len(Log') = n
      /\ \A i \in 1 .. n : Log'[i] = Log[i]
  BY <1>1, <1>2, <1>4, <1>5, <1>6, LogIsSeqNext
<1>8. /\ SubSeq(Log, 1, n) \in Seq(RaftEntry) /\ Len(SubSeq(Log, 1, n)) = n
      /\ \A i \in 1 .. n : SubSeq(Log, 1, n)[i] = Log[i]
  BY <1>3, <1>5
<1>9. Log' = SubSeq(Log, 1, n)
  BY <1>7, <1>8, SeqEqual
<1> QED BY <1>2, <1>4, <1>5, <1>9 DEF Abstract!DropYoungest

LEMMA PollRefines ==
    ASSUME IInv, Poll
    PROVE  Abstract!DropOldest
<1>1. IInv'
  BY PollKeeps
<1>2. /\ count > 0 /\ count' = count - 1 /\ base' = base + 1
      /\ front' = (front + 1) % size /\ size' = size /\ entries' = entries
  BY DEF Poll, array
<1>3. count \in 1 .. size /\ size \in Nat \ {0} /\ front \in 0 .. size - 1
  BY <1>2 DEF IInv, TypeOK
<1>4. /\ Log \in Seq(RaftEntry) /\ Len(Log) = count /\ Log # <<>>
      /\ \A i \in 1 .. count : Log[i] = entries[At(i - 1)]
  BY <1>3, LogIsSeq
<1>5. ASSUME NEW i \in 1 .. count - 1
      PROVE  entries'[At(i - 1)'] = Log[i + 1]
  <2>1. i - 1 \in 0 .. size - 1 /\ i + 1 \in 1 .. count /\ (i - 1) + 1 = i /\ (i + 1) - 1 = i
    BY <1>3
  <2>2. (((front + 1) % size) + (i - 1)) % size = (front + ((i - 1) + 1)) % size
    BY <1>3, <2>1, NextSlot
  <2>3. At(i - 1)' = At(i)
    BY <1>2, <2>1, <2>2 DEF At
  <2> QED BY <1>2, <1>4, <2>1, <2>3
<1>6. /\ Log' \in Seq(RaftEntry) /\ Len(Log') = count - 1
      /\ \A i \in 1 .. count - 1 : Log'[i] = Log[i + 1]
  BY <1>1, <1>2, <1>5, LogIsSeqNext
<1>7. /\ Tail(Log) \in Seq(RaftEntry) /\ Len(Tail(Log)) = count - 1
      /\ \A i \in 1 .. count - 1 : Tail(Log)[i] = Log[i + 1]
  BY <1>3, <1>4, HeadTailProperties
<1>8. Log' = Tail(Log)
  BY <1>6, <1>7, SeqEqual
<1> QED BY <1>2, <1>4, <1>8 DEF Abstract!DropOldest

LEMMA LoadRefines ==
    ASSUME IInv, NEW idx \in 1 .. MaxIdx, NEW e \in RaftEntry, LoadFromSnapshot(idx, e)
    PROVE  Abstract!Load
<1>1. IInv'
  BY LoadKeeps
<1>2. /\ front' = 0 /\ count' = 1 /\ base' = idx - 1 /\ size' = size
      /\ entries' = [entries EXCEPT ![0] = e]
  BY DEF LoadFromSnapshot
<1>3. entries'[At(0)'] = e
  BY <1>2 DEF At, IInv, TypeOK
<1>4. Log' \in Seq(RaftEntry) /\ Len(Log') = 1 /\ Log'[1] = e
  BY <1>1, <1>2, <1>3, LogIsSeqNext
<1>5. <<e>> \in Seq(RaftEntry) /\ Len(<<e>>) = 1 /\ <<e>>[1] = e
  OBVIOUS
<1>6. Log' = <<e>>
  BY <1>4, <1>5, SeqEqual
<1>7. base' \in Nat
  BY <1>2
<1> QED BY <1>6, <1>7 DEF Abstract!Load

LEMMA EmptiedRefines ==
    ASSUME IInv, Clear \/ Empty
    PROVE  Abstract!Clear \/ Abstract!DropYoungest
<1>1. IInv'
  BY EmptiedKeeps
<1>2. count' = 0
  BY DEF Clear, Empty
<1>3. Log' = <<>>
  BY <1>1, <1>2, LogIsSeqNext, EmptySeq
<1>4. CASE Clear
  BY <1>3, <1>4 DEF Clear, Abstract!Clear
<1>5. CASE Empty
  <2>1. base' = base
    BY <1>5 DEF Empty
  <2>2. 0 \in 0 .. Len(Log) /\ SubSeq(Log, 1, 0) = <<>>
    BY LogIsSeq, SubSeqEmpty DEF IInv, TypeOK
  <2> QED BY <1>3, <2>1, <2>2 DEF Abstract!DropYoungest
<1> QED BY <1>4, <1>5

\* The ring buffer is a log with consecutive indices: what the callers of
\* raft_log.c do to it is what they would do to a sequence.
THEOREM Refinement == Spec => ImplementsIndexedLog
<1>1. Init => Abstract!Init
  <2> SUFFICES ASSUME Init PROVE Abstract!Init
    OBVIOUS
  <2>1. count = 0 /\ base = 0
    BY DEF Init
  <2>2. Log = <<>>
    BY <2>1 DEF Log
  <2> QED BY <2>1, <2>2 DEF Abstract!Init
<1>2. IInv /\ [Next]_vars => [Abstract!Next]_<<base, Log>>
  <2> SUFFICES ASSUME IInv, [Next]_vars PROVE [Abstract!Next]_<<base, Log>>
    OBVIOUS
  <2>1. CASE \E e \in RaftEntry : AppendEntry(e)
    BY <2>1, AppendEntryRefines DEF Abstract!Next
  <2>2. CASE \E idx \in 1 .. MaxIdx : Delete(idx)
    BY <2>2, DeleteRefines DEF Abstract!Next
  <2>3. CASE Poll
    BY <2>3, PollRefines DEF Abstract!Next
  <2>4. CASE Clear \/ Empty
    BY <2>4, EmptiedRefines DEF Abstract!Next
  <2>5. CASE \E idx \in 1 .. MaxIdx, e \in RaftEntry : LoadFromSnapshot(idx, e)
    BY <2>5, LoadRefines DEF Abstract!Next
  <2>6. CASE UNCHANGED vars
    BY <2>6 DEF vars, array, Log, At
  <2> QED BY <2>1, <2>2, <2>3, <2>4, <2>5, <2>6 DEF Next
<1> QED BY <1>1, <1>2, Invariance, PTL DEF Spec, ImplementsIndexedLog, Abstract!Spec

\* log_peektail goes by back and finds the entry that front and count name.
THEOREM TailCorrect == Spec => []TailIsYoungest
<1>1. IInv => TailIsYoungest
  <2> SUFFICES ASSUME IInv PROVE TailIsYoungest
    OBVIOUS
  <2>1. /\ size \in Nat \ {0} /\ front \in 0 .. size - 1 /\ count \in 0 .. size
        /\ base \in Nat /\ back = At(count)
    BY DEF IInv, TypeOK
  <2>2. CASE count = 0
    BY <2>1, <2>2 DEF TailIsYoungest, PeekTail, GetAtIdx, CurrentIdx
  <2>3. CASE count > 0
    <3>1. CurrentIdx - 1 - base = count - 1 /\ base < CurrentIdx /\ CurrentIdx <= CurrentIdx
      BY <2>1, <2>3 DEF CurrentIdx
    <3>2. GetAtIdx(CurrentIdx) = entries[At(count - 1)]
      BY <3>1 DEF GetAtIdx, Slot
    <3>3. 1 \in 0 .. count
      BY <2>1, <2>3
    <3>4. At(count - 1) = (back - 1) % size
      BY <2>1, <3>3, SlotBack DEF At
    <3>5. back \in 0 .. size - 1 /\ 1 \in 0 .. size
      BY <2>1 DEF IInv, TypeOK
    <3>6. (back - 1) % size = IF 1 <= back THEN back - 1 ELSE back - 1 + size
      BY <2>1, <3>5, Down
    <3>7. (back - 1) % size = IF back = 0 THEN size - 1 ELSE back - 1
      BY <2>1, <3>5, <3>6
    <3> QED BY <2>3, <3>2, <3>4, <3>7 DEF TailIsYoungest, PeekTail
  <2> QED BY <2>1, <2>2, <2>3
<1> QED BY Invariance, <1>1, PTL

\* A batch never runs past the youngest entry, or over entries that were polled.
THEOREM BatchCorrect == Spec => []BatchIsRun
<1>1. IInv => BatchIsRun
  <2> SUFFICES ASSUME IInv, NEW i \in base + 1 .. CurrentIdx
               PROVE  LET first == Slot(i)
                      IN  /\ first \in GetFromIdx(i)
                          /\ \A slot \in GetFromIdx(i) :
                                 /\ slot >= first
                                 /\ i + slot - first <= CurrentIdx
                                 /\ entries[slot] = GetAtIdx(i + slot - first)
    BY DEF BatchIsRun
  <2> DEFINE j == i - 1 - base
             first == Slot(i)
             last == IF first < back THEN back - 1 ELSE size - 1
  <2>1. /\ size \in Nat \ {0} /\ front \in 0 .. size - 1 /\ count \in 0 .. size
        /\ base \in Nat /\ back = (front + count) % size
    BY DEF IInv, TypeOK, At
  <2>2. i \in Nat /\ j \in 0 .. count - 1 /\ j \in 0 .. size /\ i = base + 1 + j
        /\ base < i /\ i <= CurrentIdx /\ CurrentIdx = base + count
    BY <2>1 DEF CurrentIdx
  <2>3. first = (front + j) % size
    BY DEF Slot, At
  <2>4. GetFromIdx(i) = first .. last
    <3>1. front + i - 1 - base = front + j /\ ~(front + j < 0)
      BY <2>1, <2>2
    <3>2. Rem(front + i - 1 - base, size) = first
      BY <3>1, <2>3 DEF Rem
    <3>3. ~(CurrentIdx < i \/ i < base)
      BY <2>1, <2>2
    <3> QED BY <3>2, <3>3 DEF GetFromIdx
  <2> HIDE DEF j, first
  <2>5. first = IF front + j < size THEN front + j ELSE front + j - size
    BY <2>1, <2>2, <2>3, Up
  <2>6. back = IF front + count < size THEN front + count ELSE front + count - size
    BY <2>1, Up
  <2>7. first \in 0 .. size - 1 /\ first <= last
    BY <2>1, <2>2, <2>5, <2>6
  <2>8. ASSUME NEW slot \in first .. last
        PROVE  /\ slot >= first
               /\ i + slot - first <= CurrentIdx
               /\ entries[slot] = GetAtIdx(i + slot - first)
    <3> DEFINE k == j + (slot - first)
    <3>1. k \in 0 .. count - 1 /\ k \in 0 .. size
      BY <2>1, <2>2, <2>5, <2>6, <2>7
    <3>2. slot = IF front + k < size THEN front + k ELSE front + k - size
      BY <2>1, <2>2, <2>5, <2>6, <2>7
    <3>3. i + slot - first = base + 1 + k
      BY <2>1, <2>2, <2>7
    <3> HIDE DEF k
    <3>4. (front + k) % size = IF front + k < size THEN front + k ELSE front + k - size
      BY <2>1, <3>1, Up
    <3>5. At(k) = slot
      BY <3>2, <3>4 DEF At
    <3> DEFINE m == base + 1 + k
    <3>6. base < m /\ m <= CurrentIdx /\ m - 1 - base = k
      BY <2>1, <2>2, <3>1
    <3> HIDE DEF m
    <3>7. GetAtIdx(m) = entries[slot]
      BY <3>5, <3>6 DEF GetAtIdx, Slot
    <3>8. slot >= first
      BY <2>7
    <3> QED BY <3>3, <3>6, <3>7, <3>8 DEF m
  <2>9. first \in first .. last
    BY <2>1, <2>6, <2>7
  <2>10. /\ first \in GetFromIdx(i)
         /\ \A slot \in GetFromIdx(i) :
                /\ slot >= first
                /\ i + slot - first <= CurrentIdx
                /\ entries[slot] = GetAtIdx(i + slot - first)
    BY <2>4, <2>8, <2>9
  <2> QED BY <2>10 DEF first
<1> QED BY Invariance, <1>1, PTL

-----------------------------------------------------------------------------
(* What the application was told, as long as no snapshot is loaded.        *)

\* The log by index, with the slots counted from front.
ByIdx == [i \in base + 1 .. base + count |-> entries[At(i - 1 - base)]]

LEMMA StoredByIdx == IInv => (StoredMatches <=> stored = ByIdx)
<1> SUFFICES ASSUME IInv
             PROVE  [i \in base + 1 .. CurrentIdx |-> GetAtIdx(i)] = ByIdx
  BY DEF StoredMatches
<1>1. ASSUME NEW i \in base + 1 .. base + count
      PROVE  GetAtIdx(i) = entries[At(i - 1 - base)]
  <2>1. base < i /\ i <= CurrentIdx
    BY DEF IInv, TypeOK, CurrentIdx
  <2> QED BY <2>1 DEF GetAtIdx, Slot
<1> QED BY <1>1 DEF CurrentIdx, ByIdx

LEMMA AppendEntryStores ==
    ASSUME IInv, StoredMatches, NEW e \in RaftEntry, AppendEntry(e)
    PROVE  stored' = ByIdx'
<1>1. count \in Nat /\ base \in Nat /\ CurrentIdx = base + count
  BY DEF IInv, TypeOK, CurrentIdx
<1>2. stored = [i \in base + 1 .. base + count |-> entries[At(i - 1 - base)]]
  BY StoredByIdx DEF ByIdx
<1>3. base' = base
  BY DEF AppendEntry
<1>4. ByIdx' = [i \in base + 1 .. base + count' |-> entries'[(front' + (i - 1 - base)) % size']]
  BY <1>3 DEF ByIdx, At
<1>5. \A k \in 0 .. count :
          entries'[(front' + k) % size'] = IF k < count THEN entries[At(k)] ELSE e
  <2>1. \A k : At(k)' = (front' + k) % size'
    BY DEF At
  <2> QED BY <2>1, AppendEntryWrites
<1>6. ASSUME NEW i \in base + 1 .. base + count
      PROVE  entries'[(front' + (i - 1 - base)) % size'] = entries[At(i - 1 - base)]
  <2>1. i - 1 - base \in 0 .. count /\ i - 1 - base < count
    BY <1>1
  <2> QED BY <2>1, <1>5
<1>7. CASE count' = count /\ stored' = stored
  BY <1>2, <1>4, <1>6, <1>7
<1>8. CASE /\ count' = count + 1
           /\ stored' = [j \in DOMAIN stored \cup {CurrentIdx + 1} |->
                            IF j = CurrentIdx + 1 THEN e ELSE stored[j]]
  <2> DEFINE n == base + count + 1
  <2>1. (base + 1 .. base + count) \cup {n} = base + 1 .. n /\ base + count' = n
    BY <1>1, <1>8
  <2>2. stored' = [j \in base + 1 .. n |-> IF j = n THEN e ELSE stored[j]]
    BY <1>1, <1>2, <1>8, <2>1
  <2>3. n - 1 - base \in 0 .. count /\ ~(n - 1 - base < count)
    BY <1>1
  <2>4. ASSUME NEW j \in base + 1 .. n
        PROVE  (IF j = n THEN e ELSE stored[j]) = entries'[(front' + (j - 1 - base)) % size']
    <3>1. CASE j = n
      BY <3>1, <2>3, <1>5
    <3>2. CASE j # n
      <4>1. j \in base + 1 .. base + count
        BY <3>2, <1>1
      <4> QED BY <4>1, <3>2, <1>2, <1>6
    <3> QED BY <3>1, <3>2
  <2> HIDE DEF n
  <2> QED BY <2>1, <2>2, <2>4, <1>4
<1> QED BY <1>7, <1>8 DEF AppendEntry

LEMMA DeleteStores ==
    ASSUME IInv, StoredMatches, NEW idx \in 1 .. MaxIdx, Delete(idx)
    PROVE  stored' = ByIdx'
<1>1. PICK n \in 0 .. NumFrom(idx) :
          /\ count' = count - n
          /\ stored' = Restrict(stored, DOMAIN stored \ (CurrentIdx - n + 1 .. CurrentIdx))
          /\ UNCHANGED <<array, front, base>>
  BY DEF Delete
<1>2. count \in Nat /\ base \in Nat /\ CurrentIdx = base + count /\ n \in 0 .. count
  BY DEF NumFrom, CurrentIdx, IInv, TypeOK
<1>3. stored = [i \in base + 1 .. base + count |-> entries[At(i - 1 - base)]]
  BY StoredByIdx DEF ByIdx
<1>4. (base + 1 .. base + count) \ (CurrentIdx - n + 1 .. CurrentIdx) = base + 1 .. base + (count - n)
  BY <1>2
<1>5. \A i \in base + 1 .. base + (count - n) : i \in base + 1 .. base + count
  BY <1>2
<1>6. stored' = [i \in base + 1 .. base + (count - n) |-> entries[At(i - 1 - base)]]
  BY <1>1, <1>3, <1>4, <1>5 DEF Restrict
<1>7. ByIdx' = [i \in base + 1 .. base + (count - n) |-> entries[At(i - 1 - base)]]
  BY <1>1 DEF ByIdx, At, array
<1> QED BY <1>6, <1>7

LEMMA PollStores ==
    ASSUME IInv, StoredMatches, Poll
    PROVE  stored' = ByIdx'
<1>1. /\ count > 0 /\ count' = count - 1 /\ base' = base + 1
      /\ front' = (front + 1) % size /\ size' = size /\ entries' = entries
      /\ stored' = Restrict(stored, DOMAIN stored \ {base + 1})
  BY DEF Poll, array
<1>2. /\ count \in 1 .. size /\ base \in Nat
      /\ size \in Nat \ {0} /\ front \in 0 .. size - 1
  BY <1>1 DEF IInv, TypeOK
<1>3. stored = [i \in base + 1 .. base + count |-> entries[At(i - 1 - base)]]
  BY StoredByIdx DEF ByIdx
<1> DEFINE b == base + 1
           n == count - 1
<1>4. b + n = base + count /\ b \in Nat /\ n \in Nat
  BY <1>2
<1>5. (base + 1 .. base + count) \ {base + 1} = b + 1 .. b + n
  BY <1>2
<1>6. ASSUME NEW i \in b + 1 .. b + n
      PROVE  /\ i \in base + 1 .. base + count
             /\ entries[At(i - 1 - base)] = entries[(((front + 1) % size) + (i - 1 - b)) % size]
  <2>1. /\ i \in base + 1 .. base + count /\ i - 1 - b \in 0 .. size - 1
        /\ (i - 1 - b) + 1 = i - 1 - base
    BY <1>2
  <2>2. (((front + 1) % size) + (i - 1 - b)) % size = (front + ((i - 1 - b) + 1)) % size
    BY <1>2, <2>1, NextSlot
  <2> QED BY <2>1, <2>2 DEF At
<1>7. stored' = [i \in b + 1 .. b + n |-> entries[At(i - 1 - base)]]
  BY <1>1, <1>3, <1>5, <1>6 DEF Restrict
<1>8. ByIdx' = [i \in b + 1 .. b + n |-> entries[(((front + 1) % size) + (i - 1 - b)) % size]]
  BY <1>1 DEF ByIdx, At
<1> QED BY <1>6, <1>7, <1>8

\* An application that keeps what log_offer, log_pop and log_poll tell it, at the
\* index they name, has exactly the log, also when it refused some of the calls.
THEOREM StoreCorrect == Spec => []StoredIsLog
<1>1. Init => StoredIsLog
  <2> SUFFICES ASSUME Init PROVE StoredMatches
    BY DEF StoredIsLog
  <2>1. base + 1 .. CurrentIdx = {} /\ stored = <<>>
    BY DEF Init, CurrentIdx
  <2> QED BY <2>1 DEF StoredMatches
<1>2. IInv /\ IInv' /\ StoredIsLog /\ [Next]_vars => StoredIsLog'
  <2> SUFFICES ASSUME IInv, IInv', StoredIsLog, [Next]_vars, ~ loaded'
               PROVE  StoredMatches'
    BY DEF StoredIsLog
  <2>1. stored' = ByIdx'
    <3>1. CASE \E e \in RaftEntry : AppendEntry(e)
      <4>1. PICK e \in RaftEntry : AppendEntry(e)
        BY <3>1
      <4>2. StoredMatches
        BY <4>1 DEF AppendEntry, StoredIsLog
      <4> QED BY <4>1, <4>2, AppendEntryStores
    <3>2. CASE \E idx \in 1 .. MaxIdx : Delete(idx)
      <4>1. PICK idx \in 1 .. MaxIdx : Delete(idx)
        BY <3>2
      <4>2. StoredMatches
        BY <4>1 DEF Delete, StoredIsLog
      <4> QED BY <4>1, <4>2, DeleteStores
    <3>3. CASE Poll
      <4>1. StoredMatches
        BY <3>3 DEF Poll, StoredIsLog
      <4> QED BY <3>3, <4>1, PollStores
    <3>4. CASE Clear \/ Empty
      <4>1. count' = 0 /\ stored' = <<>>
        BY <3>4 DEF Clear, Empty
      <4>2. \/ base' = 0
            \/ base' = base /\ base \in Nat
        BY <3>4 DEF Clear, Empty, IInv, TypeOK
      <4>3. base' + 1 .. base' + count' = {}
        <5>1. CASE base' = 0
          BY <5>1, <4>1
        <5>2. CASE base' = base /\ base \in Nat
          BY <5>2, <4>1
        <5> QED BY <4>2, <5>1, <5>2
      <4> QED BY <4>1, <4>3 DEF ByIdx
    <3>5. CASE UNCHANGED vars
      <4>1. StoredMatches
        BY <3>5 DEF vars, StoredIsLog
      <4> QED BY <4>1, <3>5, StoredByIdx DEF vars, array, At, ByIdx
    <3>6. ~ \E idx \in 1 .. MaxIdx, e \in RaftEntry : LoadFromSnapshot(idx, e)
      BY DEF LoadFromSnapshot
    <3> QED BY <3>1, <3>2, <3>3, <3>4, <3>5, <3>6 DEF Next
  <2>2. (IInv => (StoredMatches <=> stored = ByIdx))'
    BY StoredByIdx, PTL
  <2> QED BY <2>1, <2>2
<1> QED BY <1>1, <1>2, Invariance, PTL DEF Spec

-----------------------------------------------------------------------------
(* What a deletion leaves.                                                 *)

LEMMA DeleteLeavesOlder ==
    ASSUME IInv, NEW idx \in 1 .. MaxIdx, Delete(idx), NEW i \in 1 .. idx - 1
    PROVE  GetAtIdx(i)' = GetAtIdx(i)
<1>1. PICK n \in 0 .. NumFrom(idx) :
          /\ count' = count - n
          /\ UNCHANGED <<size, entries, front, base>>
  BY DEF Delete, array
<1>2. idx \in Nat /\ i \in Nat /\ count \in Nat /\ base \in Nat
  BY DEF IInv, TypeOK
<1>3. NumFrom(idx) \in Nat /\ (i <= base \/ i + n <= base + count \/ n = 0)
  BY <1>1, <1>2 DEF NumFrom, CurrentIdx
<1>4. base < i /\ i <= base + count' <=> base < i /\ i <= base + count
  BY <1>1, <1>2, <1>3
<1>5. entries'[Slot(i)'] = entries[Slot(i)]
  BY <1>1 DEF Slot, At
<1>6. QED
  BY <1>1, <1>4, <1>5 DEF GetAtIdx, CurrentIdx

\* Whatever is deleted, and wherever a failing callback stops it, an entry before
\* the index asked for is found where it was.
THEOREM DeleteIsExact == Spec => DeleteKeepsOlder
<1>1. IInv => [\A idx \in 1 .. MaxIdx :
                 Delete(idx) => \A i \in 1 .. idx - 1 : GetAtIdx(i)' = GetAtIdx(i)]_vars
  BY DeleteLeavesOlder
<1>2. QED
  BY <1>1, Invariance, PTL DEF DeleteKeepsOlder
=============================================================================
