-------------------------- MODULE FifoQueueProofs --------------------------
(***************************************************************************)
(* FifoQueue implements DropOldestQueue for every capacity, as long as     *)
(* an int counts the timestamps pushed.                                    *)
(***************************************************************************)
EXTENDS FifoQueue, TLAPS

\* A remainder is a cell of the array.
LEMMA ModInCells ==
  ASSUME NEW c \in Nat \ {0}, NEW a \in Nat
  PROVE  a % c \in 0 .. c - 1
  OBVIOUS

\* Counters less than c apart select different cells.
LEMMA ModDistinct ==
  ASSUME NEW c \in Nat \ {0}, NEW a \in Nat, NEW b \in Nat, a < b, b - a < c
  PROVE  a % c # b % c
<1> SUFFICES ASSUME a % c = b % c PROVE FALSE
  OBVIOUS
<1> DEFINE qa == a \div c
           qb == b \div c
<1>1. /\ qa \in Int
      /\ qb \in Int
      /\ a = c * qa + (a % c)
      /\ b = c * qb + (b % c)
      /\ a % c \in Int
  OBVIOUS
<1> HIDE DEF qa, qb
<1>2. b - a = c * (qb - qa)
  BY <1>1
<1>3. qb - qa >= 1
  <2>1. SUFFICES ASSUME qb - qa <= 0 PROVE FALSE
    BY <1>1
  <2>2. c * (qb - qa) <= 0
    BY <2>1, <1>1
  <2>3. QED
    BY <2>2, <1>2
<1>4. c * (qb - qa) >= c
  BY <1>1, <1>3
<1>5. QED
  BY <1>2, <1>4
----------------------------------------------------------------------------
(***************************************************************************)
(* The inductive invariant.  WindowFits alone is not inductive: that a     *)
(* counter does not wrap depends on how many pushes there were.            *)
(***************************************************************************)
FifoInv ==
  /\ TypeOK
  /\ WindowFits
  /\ tail_ = pushed

USE CapacityAssumption, IntMaxAssumption, MaxPushAssumption, NoResultAssumption

\* A new queue satisfies the invariant (matcher.cpp:112-118).
LEMMA FifoInvInit == Init => FifoInv
  BY DEF Init, FifoInv, TypeOK, WindowFits

\* What a push does when no counter wraps.
LEMMA PushEffect ==
  ASSUME MaxPush <= IntMax, FifoInv, NEW ts \in Timestamp, Push(ts)
  PROVE  /\ tail_' = tail_ + 1
         /\ head_' = IF tail_ - head_ = Capacity THEN head_ + 1 ELSE head_
         /\ queue_' = [queue_ EXCEPT ![tail_ % Capacity] = ts]
<1>1. tail_' = tail_ + 1
  BY DEF Push, Wrap, FifoInv, TypeOK, WindowFits
<1>2. head_' = IF tail_ - head_ = Capacity THEN head_ + 1 ELSE head_
  BY <1>1 DEF Push, HeadAfterPush, Wrap, FifoInv, TypeOK, WindowFits
<1>3. Cell(tail_) = tail_ % Capacity
  BY DEF Cell, FifoInv, TypeOK, WindowFits
<1>4. queue_' = [queue_ EXCEPT ![tail_ % Capacity] = ts]
  BY <1>3 DEF Push, Cells, FifoInv, TypeOK
<1>5. QED
  BY <1>1, <1>2, <1>4

\* What a pop of a nonempty queue does when no counter wraps.
LEMMA PopEffect ==
  ASSUME MaxPush <= IntMax, FifoInv, PopEntry
  PROVE  /\ head_' = head_ + 1
         /\ result' = queue_[head_ % Capacity]
<1>1. head_' = head_ + 1
  BY DEF PopEntry, Wrap, FifoInv, TypeOK, WindowFits
<1>2. Cell(head_) = head_ % Capacity /\ head_ % Capacity \in Cells
  BY ModInCells DEF Cell, Cells, FifoInv, TypeOK, WindowFits
<1>3. QED
  BY <1>1, <1>2 DEF PopEntry

\* push and pop preserve the invariant (matcher.cpp:120-138).
LEMMA FifoInvNext ==
  ASSUME MaxPush <= IntMax
  PROVE  FifoInv /\ [Next]_vars => FifoInv'
<1> SUFFICES ASSUME FifoInv, [Next]_vars
             PROVE  FifoInv'
  OBVIOUS
<1>1. ASSUME NEW ts \in Timestamp, Push(ts)
      PROVE  FifoInv'
  <2>1. TypeOK'
    <3>1. queue_' \in [Cells -> Timestamp]
      BY <1>1 DEF FifoInv, TypeOK, Push
    <3>2. tail_' \in 0 .. IntMax /\ head_' \in 0 .. IntMax
      <4>1. /\ tail_' = tail_ + 1
            /\ head_' = IF tail_ - head_ = Capacity THEN head_ + 1 ELSE head_
        BY <1>1, PushEffect
      <4>2. tail_ < MaxPush
        BY <1>1 DEF Push, FifoInv
      <4>3. QED
        BY <4>1, <4>2 DEF FifoInv, TypeOK, WindowFits
    <3>3. result' = NoResult /\ pushed' \in 0 .. MaxPush
      BY <1>1 DEF FifoInv, TypeOK, Push
    <3>4. QED
      BY <3>1, <3>2, <3>3 DEF TypeOK
  <2>2. WindowFits'
    BY <1>1, PushEffect DEF FifoInv, TypeOK, WindowFits
  <2>3. tail_' = pushed'
    BY <1>1, PushEffect DEF FifoInv, Push
  <2>4. QED
    BY <2>1, <2>2, <2>3 DEF FifoInv
<1>2. ASSUME PopEntry
      PROVE  FifoInv'
  <2>1. head_ % Capacity \in Cells
    BY ModInCells DEF Cells, FifoInv, TypeOK, WindowFits
  <2>2. QED
    BY <1>2, <2>1, PopEffect DEF FifoInv, TypeOK, WindowFits, PopEntry
<1>3. ASSUME PopEmpty
      PROVE  FifoInv'
  BY <1>3 DEF FifoInv, TypeOK, WindowFits, PopEmpty
<1>4. ASSUME UNCHANGED vars
      PROVE  FifoInv'
  BY <1>4 DEF FifoInv, TypeOK, WindowFits, vars
<1>5. QED
  BY <1>1, <1>2, <1>3, <1>4 DEF Next

\* The invariant holds as long as an int counts the pushes.
LEMMA FifoInvariant ==
  ASSUME MaxPush <= IntMax
  PROVE  Spec => []FifoInv
<1>1. Init => FifoInv
  BY FifoInvInit
<1>2. FifoInv /\ [Next]_vars => FifoInv'
  BY FifoInvNext
<1>3. QED
  BY <1>1, <1>2, PTL DEF Spec

\* FifoQueue (matcher.cpp:120-138): for every capacity and any sequence of
\* no more than INT_MAX pushes, the variables keep their types.
THEOREM FifoTypeCorrect ==
  ASSUME MaxPush <= IntMax
  PROVE  Spec => []TypeOK
<1>1. FifoInv => TypeOK
  BY DEF FifoInv
<1>2. QED
  BY <1>1, FifoInvariant, PTL

\* FifoQueue::push and pop (matcher.cpp:120-138): for every capacity the
\* window from head_ to tail_ fits the array, whatever was dropped.
THEOREM FifoWindowFits ==
  ASSUME MaxPush <= IntMax
  PROVE  Spec => []WindowFits
<1>1. FifoInv => WindowFits
  BY DEF FifoInv
<1>2. QED
  BY <1>1, FifoInvariant, PTL
----------------------------------------------------------------------------
(***************************************************************************)
(* Refinement.  A cell is overwritten only when the entry it held has left *)
(* the window, because counters less than Capacity apart select different  *)
(* cells.                                                                  *)
(***************************************************************************)
\* The window from head_ to tail_ is a queue no longer than the array.
LEMMA EntriesSeq ==
  ASSUME FifoInv
  PROVE  /\ Entries \in Seq(Timestamp)
         /\ Len(Entries) = tail_ - head_
         /\ \A i \in 1 .. (tail_ - head_) :
               Entries[i] = queue_[(head_ + i - 1) % Capacity]
<1>1. \A i \in 1 .. (tail_ - head_) : (head_ + i - 1) % Capacity \in Cells
  BY ModInCells DEF Cells, FifoInv, TypeOK, WindowFits
<1>2. Entries \in [1 .. (tail_ - head_) -> Timestamp]
  BY <1>1 DEF Entries, FifoInv, TypeOK
<1>3. tail_ - head_ \in Nat
  BY DEF FifoInv, TypeOK, WindowFits
<1>4. QED
  BY <1>2, <1>3 DEF Entries

\* A pushed timestamp disturbs no entry still in the window.
LEMMA PushKeepsEntries ==
  ASSUME MaxPush <= IntMax, FifoInv, NEW ts \in Timestamp, Push(ts)
  PROVE  /\ \A k \in head_' .. tail_ - 1 :
               queue_'[k % Capacity] = queue_[k % Capacity]
         /\ queue_'[tail_ % Capacity] = ts
<1>1. \A k \in head_' .. tail_ - 1 : k % Capacity # tail_ % Capacity
  <2> SUFFICES ASSUME NEW k \in head_' .. tail_ - 1
               PROVE  k % Capacity # tail_ % Capacity
    OBVIOUS
  <2>1. k \in Nat /\ tail_ \in Nat /\ k < tail_ /\ tail_ - k < Capacity
    BY PushEffect DEF FifoInv, TypeOK, WindowFits
  <2>2. QED
    BY <2>1, ModDistinct
<1>2. \A k \in head_' .. tail_ - 1 : k % Capacity \in Cells
  BY ModInCells, PushEffect DEF Cells, FifoInv, TypeOK, WindowFits
<1>3. tail_ % Capacity \in Cells
  BY ModInCells DEF Cells, FifoInv, TypeOK, WindowFits
<1>4. QED
  BY <1>1, <1>2, <1>3, PushEffect DEF FifoInv, TypeOK

\* push (matcher.cpp:120-129) appends, and drops the oldest entry of a full
\* queue.
LEMMA PushRefines ==
  ASSUME MaxPush <= IntMax, FifoInv, FifoInv', NEW ts \in Timestamp, Push(ts)
  PROVE  Abs!Push(ts)
<1>1. PICK h \in Nat : head_' = h
  BY DEF FifoInv, TypeOK, WindowFits
<1>2. /\ tail_ \in Nat
      /\ tail_' = tail_ + 1
      /\ h <= tail_
      /\ h = IF tail_ - head_ = Capacity THEN head_ + 1 ELSE head_
  <2>1. /\ tail_' = tail_ + 1
        /\ h = IF tail_ - head_ = Capacity THEN head_ + 1 ELSE head_
    BY <1>1, PushEffect
  <2>2. QED
    BY <2>1 DEF FifoInv, TypeOK, WindowFits
<1> DEFINE kept == IF Len(Entries) = Capacity THEN Tail(Entries) ELSE Entries
           n    == tail_ - h
<1>3. n \in Nat /\ n = tail_ - h
  BY <1>2
<1>4. /\ kept \in Seq(Timestamp)
      /\ Len(kept) = n
      /\ \A i \in 1 .. n : kept[i] = queue_[(h + i - 1) % Capacity]
  <2>1. CASE tail_ - head_ = Capacity
    <3>1. kept = Tail(Entries) /\ h = head_ + 1 /\ Entries # <<>>
      BY <2>1, <1>2, EntriesSeq
    <3>2. /\ kept \in Seq(Timestamp)
          /\ Len(kept) = Len(Entries) - 1
          /\ \A i \in 1 .. Len(kept) : kept[i] = Entries[i + 1]
      BY <3>1, EntriesSeq
    <3>3. Len(kept) = n
      BY <3>1, <3>2, <2>1, EntriesSeq DEF FifoInv, TypeOK, WindowFits
    <3>4. ASSUME NEW i \in 1 .. n
          PROVE  kept[i] = queue_[(h + i - 1) % Capacity]
      <4>1. i + 1 \in 1 .. (tail_ - head_) /\ head_ + (i + 1) - 1 = h + i - 1
        BY <3>1, <3>3 DEF FifoInv, TypeOK, WindowFits
      <4>2. QED
        BY <4>1, <3>2, <3>3, EntriesSeq
    <3>5. QED
      BY <3>2, <3>3, <3>4
  <2>2. CASE tail_ - head_ # Capacity
    <3>1. kept = Entries /\ h = head_
      BY <2>2, <1>2, EntriesSeq
    <3>2. QED
      BY <3>1, <1>2, EntriesSeq
  <2>3. QED
    BY <2>1, <2>2
<1> HIDE DEF kept, n
<1>5. /\ Entries' \in Seq(Timestamp)
      /\ Len(Entries') = n + 1
      /\ \A i \in 1 .. n + 1 : Entries'[i] = queue_'[(h + i - 1) % Capacity]
  <2>1. tail_' - head_' = n + 1
    BY <1>1, <1>2, <1>3
  <2>2. Entries' = [i \in 1 .. n + 1 |-> queue_'[(h + i - 1) % Capacity]]
    BY <1>1, <2>1 DEF Entries
  <2>3. \A i \in 1 .. n + 1 : (h + i - 1) % Capacity \in Cells
    BY <1>3, ModInCells DEF Cells
  <2>4. Entries' \in [1 .. n + 1 -> Timestamp]
    BY <2>2, <2>3 DEF FifoInv, TypeOK
  <2>5. Entries' \in Seq(Timestamp)
    BY <1>3, <2>4
  <2>6. Len(Entries') = n + 1
    BY <1>3, <2>4, <2>5
  <2>7. QED
    BY <2>2, <2>5, <2>6
<1>6. ASSUME NEW i \in 1 .. n + 1
      PROVE  Entries'[i] = Append(kept, ts)[i]
  <2>1. CASE i <= n
    <3>1. h + i - 1 \in h .. tail_ - 1
      BY <2>1, <1>2, <1>3
    <3>2. queue_'[(h + i - 1) % Capacity] = queue_[(h + i - 1) % Capacity]
      BY <3>1, <1>1, PushKeepsEntries
    <3>3. Append(kept, ts)[i] = kept[i]
      BY <2>1, <1>3, <1>4
    <3>4. i \in 1 .. n
      BY <2>1, <1>3
    <3>5. kept[i] = queue_[(h + i - 1) % Capacity]
      BY <3>4, <1>4
    <3>6. Entries'[i] = queue_'[(h + i - 1) % Capacity]
      BY <1>5
    <3>7. QED
      BY <3>2, <3>3, <3>5, <3>6
  <2>2. CASE i = n + 1
    <3>1. h + i - 1 = tail_
      BY <2>2, <1>2, <1>3
    <3>2. Append(kept, ts)[i] = ts
      BY <2>2, <1>3, <1>4
    <3>3. QED
      BY <3>1, <3>2, <1>5, PushKeepsEntries
  <2>3. i <= n \/ i = n + 1
    BY <1>3
  <2>4. QED
    BY <2>1, <2>2, <2>3
<1>7. Entries' = Append(kept, ts)
  BY <1>3, <1>4, <1>5, <1>6
<1>8. QED
  BY <1>7 DEF Abs!Push, Push, kept

\* pop of a nonempty queue (matcher.cpp:131-138) takes its oldest entry.
LEMMA PopRefines ==
  ASSUME MaxPush <= IntMax, FifoInv, PopEntry
  PROVE  Abs!PopEntry
<1>1. Entries # <<>>
  BY EntriesSeq DEF PopEntry, FifoInv, TypeOK, WindowFits
<1>2. result' = Head(Entries)
  BY <1>1, EntriesSeq, PopEffect DEF FifoInv, TypeOK, WindowFits, PopEntry
<1>3. Entries' = Tail(Entries)
  <2>0. /\ head_ \in Nat
        /\ tail_ \in Nat
        /\ head_ < tail_
        /\ head_' = head_ + 1
        /\ tail_' = tail_
        /\ queue_' = queue_
    BY PopEffect DEF PopEntry, FifoInv, TypeOK, WindowFits
  <2>1. /\ Tail(Entries) \in Seq(Timestamp)
        /\ Len(Tail(Entries)) = tail_ - head_ - 1
        /\ \A i \in 1 .. (tail_ - head_ - 1) : Tail(Entries)[i] = Entries[i + 1]
    BY <1>1, <2>0, EntriesSeq
  <2>2. ASSUME NEW i \in 1 .. (tail_' - head_')
        PROVE  Entries'[i] = Entries[i + 1]
    <3>1. /\ i + 1 \in 1 .. (tail_ - head_)
          /\ head_' + i - 1 = head_ + (i + 1) - 1
      BY <2>0
    <3>2. QED
      BY <2>0, <3>1 DEF Entries
  <2>3. /\ Entries' \in Seq(Timestamp)
        /\ Len(Entries') = tail_ - head_ - 1
    <3>1. \A i \in 1 .. (tail_' - head_') : (head_' + i - 1) % Capacity \in Cells
      BY <2>0, ModInCells DEF Cells
    <3>2. Entries' \in [1 .. (tail_' - head_') -> Timestamp]
      BY <2>0, <3>1 DEF Entries, FifoInv, TypeOK
    <3>3. tail_' - head_' = tail_ - head_ - 1 /\ tail_' - head_' \in Nat
      BY <2>0
    <3>4. QED
      BY <3>2, <3>3
  <2>4. QED
    BY <2>0, <2>1, <2>2, <2>3
<1>4. QED
  BY <1>1, <1>2, <1>3 DEF Abs!PopEntry

\* FifoQueue (matcher.cpp:111-138) implements the drop-oldest queue main()'s
\* callbacks rely on, for every capacity: pops return the pushed timestamps in
\* order, none twice, none from an uninitialised cell, and only the oldest
\* entries of a full queue are lost.
THEOREM FifoRefines ==
  ASSUME MaxPush <= IntMax
  PROVE  Spec => AbsSpec
<1>1. Init => Abs!Init
  BY DEF Init, Abs!Init, Entries
<1>2. FifoInv /\ FifoInv' /\ [Next]_vars => [Abs!Next]_(Abs!vars)
  <2> SUFFICES ASSUME FifoInv, FifoInv', [Next]_vars
               PROVE  [Abs!Next]_(Abs!vars)
    OBVIOUS
  <2>1. ASSUME NEW ts \in Timestamp, Push(ts)
        PROVE  Abs!Next
    BY <2>1, PushRefines DEF Abs!Next
  <2>2. CASE PopEntry
    BY <2>2, PopRefines DEF Abs!Next
  <2>3. CASE PopEmpty
    <3>1. Entries = <<>> /\ Entries' = Entries
      BY <2>3, EntriesSeq DEF PopEmpty, Entries, FifoInv, TypeOK, WindowFits
    <3>2. QED
      BY <2>3, <3>1 DEF PopEmpty, Abs!PopEmpty, Abs!Next
  <2>4. CASE UNCHANGED vars
    BY <2>4 DEF vars, Abs!vars, Entries
  <2>5. QED
    BY <2>1, <2>2, <2>3, <2>4 DEF Next
<1>3. QED
  BY <1>1, <1>2, FifoInvariant, PTL DEF Spec, AbsSpec, Abs!Spec
============================================================================
