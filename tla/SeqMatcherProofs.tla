-------------------------- MODULE SeqMatcherProofs --------------------------
(***************************************************************************)
(* Theorems about SeqMatcher, for every list of stages, every set of       *)
(* threads and every size of the table.  What is said about threads holds  *)
(* under NoCollision.                                                      *)
(***************************************************************************)
EXTENDS SeqMatcher, MatchersProofs

\* The events of Next.
FedEvent == [ts : 1 .. MaxTs, tid : Tids, stage : AllStages, key : {0}]

\* A stage that counts as collected has the timestamp of an event, and once
\* the first stage is in, the record knows a thread.
SlotsSound ==
  \A h \in Slots :
    /\ \A s \in slots_[h].filled : slots_[h].ts[s] \in 1 .. MaxTs
    /\ first_stage_ \in slots_[h].filled => slots_[h].tid \in Tids

TypeInv == TypeOK /\ SlotsSound

\* The mask is a set of stages and first_stage_ is in it (matcher.cpp:11-16).
LEMMA MaskType ==
  /\ stages_mask_ \subseteq AllStages
  /\ \A s \in stages_mask_ : first_stage_ \in stages_mask_
<1>1. stages_ \in Seq(Nat)
  <2>1. AllStages \subseteq Nat /\ stages_ \in Seq(AllStages)
    BY StagesAssumption
  <2>2. ASSUME NEW i \in 1 .. Len(stages_) PROVE stages_[i] \in Nat
    <3>1. stages_[i] \in AllStages
      BY <2>1
    <3> QED BY <2>1, <3>1
  <2> QED BY <2>1, <2>2
<1> QED BY <1>1, StagesAssumption, FirstStageIsSmallest
        DEF stages_mask_, first_stage_, Mask

\* tid_hash gives an index of slots_ (matcher.h:69).
LEMMA HashType == \A t \in Tids : tid_hash(t) \in Slots
<1> SUFFICES ASSUME NEW t \in Tids PROVE t % TID_SLOTS \in 0 .. TID_SLOTS - 1
  BY DEF tid_hash, Slots
<1>1. t \in Nat /\ TID_SLOTS \in Nat /\ TID_SLOTS > 0
  BY TidsAssumption, SlotsAssumption
<1> QED BY <1>1

\* What an event does to the record of its thread, field by field.
LEMMA SlotFields ==
  ASSUME slots_ \in [Slots -> Records],
         NEW e \in FedEvent, e.stage \in stages_mask_
  PROVE  LET old == slots_[tid_hash(e.tid)]
         IN  /\ Slot(e) \in Records
             /\ Slot(e).ts = [old.ts EXCEPT ![e.stage] = e.ts]
             /\ Slot(e).filled =
                  (IF e.stage = first_stage_ THEN {} ELSE old.filled) \cup {e.stage}
             /\ Slot(e).tid = IF e.stage = first_stage_ THEN e.tid ELSE old.tid
<1> DEFINE old == slots_[tid_hash(e.tid)]
           base == IF e.stage = first_stage_
                   THEN [old EXCEPT !.filled = {}, !.tid = e.tid] ELSE old
<1>1. old \in Records
  BY HashType DEF FedEvent
<1>2. base \in Records /\ base.ts = old.ts
      /\ base.filled = (IF e.stage = first_stage_ THEN {} ELSE old.filled)
      /\ base.tid = IF e.stage = first_stage_ THEN e.tid ELSE old.tid
  BY <1>1 DEF Records, FedEvent
<1>3. Slot(e) = [base EXCEPT !.ts[e.stage] = e.ts, !.filled = @ \cup {e.stage}]
  BY DEF Slot, SeqRecord, Fill
<1> HIDE DEF base
<1>4. /\ Slot(e).ts = [base.ts EXCEPT ![e.stage] = e.ts]
      /\ Slot(e).filled = base.filled \cup {e.stage}
      /\ Slot(e).tid = base.tid
      /\ Slot(e) \in Records
  <2>1. base = [ts |-> base.ts, filled |-> base.filled, tid |-> base.tid]
    BY <1>2 DEF Records
  <2>2. Slot(e) = [ts |-> [base.ts EXCEPT ![e.stage] = e.ts],
                   filled |-> base.filled \cup {e.stage}, tid |-> base.tid]
    BY <1>2, <1>3 DEF Records
  <2>3. [base.ts EXCEPT ![e.stage] = e.ts] \in [stages_mask_ -> 0 .. MaxTs]
    BY <1>2 DEF Records, FedEvent
  <2> QED BY <1>2, <2>2, <2>3 DEF Records
<1> QED BY <1>2, <1>4

\* Next, with its events gathered in a set.
LEMMA NextCases ==
  ASSUME Next
  PROVE  \/ \E e \in FedEvent : FeedIgnored(e) \/ FeedCollect(e) \/ FeedComplete(e)
         \/ Drain
BY DEF Next, FedEvent, RawEvent
-----------------------------------------------------------------------------
\* A new matcher is well typed (matcher.cpp:7-17).
LEMMA TypeInit == Init => TypeInv
<1> SUFFICES ASSUME Init PROVE TypeInv
  OBVIOUS
<1>1. ZeroRecord(stages_mask_) \in Records
  BY MaxTsAssumption DEF ZeroRecord, Records
<1>2. TypeOK
  BY <1>1, MaxTsAssumption DEF Init, TypeOK
<1>3. SlotsSound
  BY DEF Init, SlotsSound, ZeroRecord
<1> QED BY <1>2, <1>3 DEF TypeInv

\* The record an event leaves is sound, and a complete one makes a snapshot.
LEMMA SlotSound ==
  ASSUME TypeInv, NEW e \in FedEvent, e.stage \in stages_mask_
  PROVE  /\ Slot(e) \in Records
         /\ \A s \in Slot(e).filled : Slot(e).ts[s] \in 1 .. MaxTs
         /\ first_stage_ \in Slot(e).filled => Slot(e).tid \in Tids
         /\ Complete(Slot(e), stages_mask_) =>
              Snapshot(Slot(e), stages_mask_) \in Snapshots
<1> DEFINE old == slots_[tid_hash(e.tid)]
<1>1. /\ Slot(e) \in Records
      /\ Slot(e).ts = [old.ts EXCEPT ![e.stage] = e.ts]
      /\ Slot(e).filled =
           (IF e.stage = first_stage_ THEN {} ELSE old.filled) \cup {e.stage}
      /\ Slot(e).tid = IF e.stage = first_stage_ THEN e.tid ELSE old.tid
  BY SlotFields DEF TypeInv, TypeOK
<1>2. /\ tid_hash(e.tid) \in Slots /\ old \in Records
      /\ \A s \in old.filled : old.ts[s] \in 1 .. MaxTs
      /\ first_stage_ \in old.filled => old.tid \in Tids
  BY HashType DEF TypeInv, TypeOK, SlotsSound, FedEvent
<1> HIDE DEF old
<1>3. e.ts \in 1 .. MaxTs /\ e.tid \in Tids
  BY DEF FedEvent
<1>4. \A s \in Slot(e).filled : Slot(e).ts[s] \in 1 .. MaxTs
  BY <1>1, <1>2, <1>3 DEF Records
<1>5. first_stage_ \in Slot(e).filled => Slot(e).tid \in Tids
  BY <1>1, <1>2, <1>3
<1>6. ASSUME Complete(Slot(e), stages_mask_)
      PROVE  Snapshot(Slot(e), stages_mask_) \in Snapshots
  <2>1. Slot(e).ts \in [stages_mask_ -> 1 .. MaxTs]
    BY <1>1, <1>4, <1>6 DEF Complete, Records
  <2>2. Slot(e).tid \in Tids
    BY <1>5, <1>6, MaskType DEF Complete
  <2> QED BY <2>1, <2>2 DEF Snapshot, Snapshots
<1> QED BY <1>1, <1>4, <1>5, <1>6

\* feed and drain keep the types, and keep the records sound
\* (matcher.cpp:19-64).
LEMMA TypeNext == TypeInv /\ [Next]_vars => TypeInv'
<1> SUFFICES ASSUME TypeInv, [Next]_vars PROVE TypeInv'
  OBVIOUS
<1>1. ASSUME NEW e \in FedEvent, FeedIgnored(e) PROVE TypeInv'
  <2>1. clock' \in [Tids -> 0 .. MaxTs]
    BY <1>1 DEF FeedIgnored, Arrive, TypeInv, TypeOK, FedEvent
  <2> QED BY <1>1, <2>1 DEF FeedIgnored, TypeInv, TypeOK, SlotsSound
<1>2. ASSUME NEW e \in FedEvent, FeedCollect(e) PROVE TypeInv'
  <2>1. clock' \in [Tids -> 0 .. MaxTs]
    BY <1>2 DEF FeedCollect, Arrive, TypeInv, TypeOK, FedEvent
  <2>2. /\ Slot(e) \in Records
        /\ \A s \in Slot(e).filled : Slot(e).ts[s] \in 1 .. MaxTs
        /\ first_stage_ \in Slot(e).filled => Slot(e).tid \in Tids
    BY <1>2, SlotSound DEF FeedCollect
  <2>3. slots_' = [slots_ EXCEPT ![tid_hash(e.tid)] = Slot(e)]
    BY <1>2 DEF FeedCollect
  <2>4. TypeOK'
    BY <1>2, <2>1, <2>2, <2>3 DEF FeedCollect, TypeInv, TypeOK
  <2>5. SlotsSound'
    BY <2>2, <2>3 DEF TypeInv, TypeOK, SlotsSound
  <2> QED BY <2>4, <2>5 DEF TypeInv
<1>3. ASSUME NEW e \in FedEvent, FeedComplete(e) PROVE TypeInv'
  <2>1. clock' \in [Tids -> 0 .. MaxTs]
    BY <1>3 DEF FeedComplete, Arrive, TypeInv, TypeOK, FedEvent
  <2> DEFINE new == [Slot(e) EXCEPT !.filled = {}]
  <2>2. new \in Records /\ new.filled = {}
    BY <1>3, SlotSound DEF FeedComplete, Records
  <2>3. slots_' = [slots_ EXCEPT ![tid_hash(e.tid)] = new]
    BY <1>3 DEF FeedComplete
  <2>4. Snapshot(Slot(e), stages_mask_) \in Snapshots
    BY <1>3, SlotSound DEF FeedComplete
  <2> HIDE DEF new
  <2>5. TypeOK'
    <3>1. slots_' \in [Slots -> Records]
      BY <2>2, <2>3 DEF TypeInv, TypeOK
    <3>2. pending_' \in Seq(Snapshots) /\ notified' \in Seq(Snapshots)
      BY <1>3, <2>4 DEF FeedComplete, TypeInv, TypeOK
    <3>3. drained' \in Seq(Snapshots)
      BY <1>3 DEF FeedComplete, TypeInv, TypeOK
    <3> QED BY <2>1, <3>1, <3>2, <3>3 DEF TypeOK
  <2>6. SlotsSound'
    BY <2>2, <2>3 DEF TypeInv, TypeOK, SlotsSound
  <2> QED BY <2>5, <2>6 DEF TypeInv
<1>4. CASE Drain
  BY <1>4 DEF Drain, TypeInv, TypeOK, SlotsSound
<1>5. CASE UNCHANGED vars
  BY <1>5 DEF vars, TypeInv, TypeOK, SlotsSound
<1> QED BY <1>1, <1>2, <1>3, <1>4, <1>5, NextCases

\* Every behaviour of a SeqMatcher is well typed: no snapshot handed to a
\* callback carries a zero timestamp of memset or the thread 0.
THEOREM SeqTypeCorrect == Spec => []TypeOK
<1>1. Spec => []TypeInv
  BY TypeInit, TypeNext, PTL DEF Spec
<1> QED BY <1>1, PTL DEF TypeInv
-----------------------------------------------------------------------------
(***************************************************************************)
(* Threads.  With no collision the record of a thread holds only its own   *)
(* events, the first stage's before the others, and later ones than any    *)
(* group of the thread.                                                    *)
(***************************************************************************)
RecordsOrdered ==
  \A t \in Tids :
    LET rec == slots_[tid_hash(t)]
    IN  /\ \A s \in rec.filled : rec.ts[s] <= clock[t]
        /\ first_stage_ \in rec.filled =>
             /\ rec.tid = t
             /\ \A s \in rec.filled \ {first_stage_} : rec.ts[first_stage_] < rec.ts[s]

GroupsBefore ==
  \A i \in DOMAIN notified : \A s \in stages_mask_ :
    LET t == notified[i].tid
    IN  /\ notified[i].ts[s] <= clock[t]
        /\ \A r \in slots_[tid_hash(t)].filled :
             notified[i].ts[s] < slots_[tid_hash(t)].ts[r]

FirstEarliest ==
  \A i \in DOMAIN notified : \A s \in stages_mask_ \ {first_stage_} :
    notified[i].ts[first_stage_] < notified[i].ts[s]

NoOverlap ==
  \A i, j \in DOMAIN notified :
    i < j /\ notified[i].tid = notified[j].tid =>
      \A s, r \in stages_mask_ : notified[i].ts[s] < notified[j].ts[r]

ThreadInv == TypeInv /\ RecordsOrdered /\ GroupsBefore /\ FirstEarliest /\ NoOverlap

\* The parts of a snapshot handed to the callbacks.
LEMMA NotifiedType ==
  ASSUME TypeInv
  PROVE  \A i \in DOMAIN notified :
           /\ notified[i] \in Snapshots
           /\ notified[i].tid \in Tids
           /\ \A s \in stages_mask_ : notified[i].ts[s] \in 1 .. MaxTs
<1> SUFFICES ASSUME NEW i \in DOMAIN notified
             PROVE  notified[i] \in Snapshots
  BY DEF Snapshots
<1> QED BY DEF TypeInv, TypeOK

\* A new matcher has no groups and empty records.
LEMMA ThreadInit == Init => ThreadInv
BY TypeInit, HashType
   DEF Init, ThreadInv, RecordsOrdered, GroupsBefore, FirstEarliest, NoOverlap,
       ZeroRecord

\* The record an event leaves is ordered, after every group of its thread.
LEMMA SlotOrdered ==
  ASSUME ThreadInv, NoCollision, NEW e \in FedEvent, e.stage \in stages_mask_,
         Arrive(e)
  PROVE  /\ \A s \in Slot(e).filled : Slot(e).ts[s] <= e.ts
         /\ first_stage_ \in Slot(e).filled =>
              /\ Slot(e).tid = e.tid
              /\ \A s \in Slot(e).filled \ {first_stage_} :
                   Slot(e).ts[first_stage_] < Slot(e).ts[s]
         /\ \A i \in DOMAIN notified : notified[i].tid = e.tid =>
              \A s \in stages_mask_ : \A r \in Slot(e).filled :
                notified[i].ts[s] < Slot(e).ts[r]
<1> DEFINE old == slots_[tid_hash(e.tid)]
<1>1. /\ Slot(e).ts = [old.ts EXCEPT ![e.stage] = e.ts]
      /\ Slot(e).filled =
           (IF e.stage = first_stage_ THEN {} ELSE old.filled) \cup {e.stage}
      /\ Slot(e).tid = IF e.stage = first_stage_ THEN e.tid ELSE old.tid
  BY SlotFields DEF ThreadInv, TypeInv, TypeOK
<1>2. /\ e.ts \in 1 .. MaxTs /\ e.tid \in Tids
      /\ clock[e.tid] \in 0 .. MaxTs /\ clock[e.tid] < e.ts
  BY DEF FedEvent, Arrive, ThreadInv, TypeInv, TypeOK
<1>3. old \in Records
  BY <1>2, HashType DEF ThreadInv, TypeInv, TypeOK
<1>4. /\ \A s \in old.filled : old.ts[s] <= clock[e.tid]
      /\ first_stage_ \in old.filled =>
           /\ old.tid = e.tid
           /\ \A s \in old.filled \ {first_stage_} : old.ts[first_stage_] < old.ts[s]
  BY <1>2 DEF ThreadInv, RecordsOrdered
<1>5. \A i \in DOMAIN notified : notified[i].tid = e.tid =>
        \A s \in stages_mask_ :
          /\ notified[i].ts[s] <= clock[e.tid]
          /\ \A r \in old.filled : notified[i].ts[s] < old.ts[r]
  BY DEF ThreadInv, GroupsBefore
<1>6. \A i \in DOMAIN notified : \A s \in stages_mask_ : notified[i].ts[s] \in 1 .. MaxTs
  BY NotifiedType DEF ThreadInv
<1> HIDE DEF old
<1>7. \A s \in Slot(e).filled : Slot(e).ts[s] <= e.ts
  BY <1>1, <1>2, <1>3, <1>4 DEF Records
<1>8. ASSUME first_stage_ \in Slot(e).filled
      PROVE  /\ Slot(e).tid = e.tid
             /\ \A s \in Slot(e).filled \ {first_stage_} :
                  Slot(e).ts[first_stage_] < Slot(e).ts[s]
  <2>1. CASE e.stage = first_stage_
    BY <1>1, <2>1
  <2>2. CASE e.stage # first_stage_
    <3>1. first_stage_ \in old.filled /\ old.ts[first_stage_] \in Int
      BY <1>1, <1>3, <1>8, <2>2 DEF Records
    <3>2. old.ts[first_stage_] < e.ts
      BY <1>2, <1>4, <3>1
    <3> QED BY <1>1, <1>3, <1>4, <2>2, <3>1, <3>2 DEF Records
  <2> QED BY <2>1, <2>2
<1>9. ASSUME NEW i \in DOMAIN notified, notified[i].tid = e.tid,
             NEW s \in stages_mask_, NEW r \in Slot(e).filled
      PROVE  notified[i].ts[s] < Slot(e).ts[r]
  <2>1. notified[i].ts[s] < e.ts
    BY <1>2, <1>5, <1>6, <1>9
  <2> QED BY <1>1, <1>3, <1>5, <1>9, <2>1 DEF Records
<1> QED BY <1>7, <1>8, <1>9

\* A thread's clock never goes back.
LEMMA ClockAdvances ==
  ASSUME TypeInv, NEW e \in FedEvent, Arrive(e)
  PROVE  /\ clock'[e.tid] = e.ts
         /\ \A t \in Tids : t # e.tid => clock'[t] = clock[t]
         /\ clock[e.tid] < e.ts
         /\ \A t \in Tids : clock[t] \in Int
         /\ e.ts \in Int /\ e.tid \in Tids
BY DEF TypeInv, TypeOK, Arrive, FedEvent

\* feed and drain preserve the order of records and groups
\* (matcher.cpp:19-64).
LEMMA ThreadNext == ThreadInv /\ NoCollision /\ [Next]_vars => ThreadInv'
<1> SUFFICES ASSUME ThreadInv, NoCollision, [Next]_vars PROVE ThreadInv'
  OBVIOUS
<1>t. TypeInv /\ TypeInv'
  BY TypeNext DEF ThreadInv
<1>n. \A i \in DOMAIN notified :
        /\ notified[i].tid \in Tids
        /\ \A s \in stages_mask_ : notified[i].ts[s] \in Int
  BY <1>t, NotifiedType
<1>r. \A t \in Tids :
        /\ tid_hash(t) \in Slots
        /\ slots_[tid_hash(t)] \in Records
        /\ \A s \in slots_[tid_hash(t)].filled : slots_[tid_hash(t)].ts[s] \in Int
  BY <1>t, HashType DEF TypeInv, TypeOK, SlotsSound
<1>1. ASSUME NEW e \in FedEvent, FeedIgnored(e) PROVE ThreadInv'
  <2>1. /\ clock'[e.tid] = e.ts
        /\ \A t \in Tids : t # e.tid => clock'[t] = clock[t]
        /\ clock[e.tid] < e.ts
        /\ \A t \in Tids : clock[t] \in Int
        /\ e.ts \in Int /\ e.tid \in Tids
    BY <1>1, <1>t, ClockAdvances DEF FeedIgnored
  <2>2. slots_' = slots_ /\ notified' = notified
    BY <1>1 DEF FeedIgnored
  <2>3. RecordsOrdered'
    BY <1>r, <2>1, <2>2 DEF ThreadInv, RecordsOrdered
  <2>4. GroupsBefore'
    BY <1>n, <2>1, <2>2 DEF ThreadInv, GroupsBefore
  <2>5. FirstEarliest' /\ NoOverlap'
    BY <2>2 DEF ThreadInv, FirstEarliest, NoOverlap
  <2> QED BY <1>t, <2>3, <2>4, <2>5 DEF ThreadInv
<1>2. ASSUME NEW e \in FedEvent, FeedCollect(e) PROVE ThreadInv'
  <2>1. /\ clock'[e.tid] = e.ts
        /\ \A t \in Tids : t # e.tid => clock'[t] = clock[t]
        /\ clock[e.tid] < e.ts
        /\ \A t \in Tids : clock[t] \in Int
        /\ e.ts \in Int /\ e.tid \in Tids
    BY <1>2, <1>t, ClockAdvances DEF FeedCollect
  <2>2. /\ \A s \in Slot(e).filled : Slot(e).ts[s] <= e.ts
        /\ first_stage_ \in Slot(e).filled =>
             /\ Slot(e).tid = e.tid
             /\ \A s \in Slot(e).filled \ {first_stage_} :
                  Slot(e).ts[first_stage_] < Slot(e).ts[s]
        /\ \A i \in DOMAIN notified : notified[i].tid = e.tid =>
             \A s \in stages_mask_ : \A r \in Slot(e).filled :
               notified[i].ts[s] < Slot(e).ts[r]
    BY <1>2, SlotOrdered DEF FeedCollect
  <2>3. /\ slots_'[tid_hash(e.tid)] = Slot(e)
        /\ \A t \in Tids : t # e.tid => slots_'[tid_hash(t)] = slots_[tid_hash(t)]
    BY <1>2, <1>t, <2>1, HashType DEF FeedCollect, NoCollision, TypeInv, TypeOK
  <2>4. notified' = notified
    BY <1>2 DEF FeedCollect
  <2>5. RecordsOrdered'
    <3> SUFFICES ASSUME NEW t \in Tids
                 PROVE  LET rec == slots_'[tid_hash(t)]
                        IN  /\ \A s \in rec.filled : rec.ts[s] <= clock'[t]
                            /\ first_stage_ \in rec.filled =>
                                 /\ rec.tid = t
                                 /\ \A s \in rec.filled \ {first_stage_} :
                                      rec.ts[first_stage_] < rec.ts[s]
      BY DEF RecordsOrdered
    <3>1. CASE t = e.tid
      BY <2>1, <2>2, <2>3, <3>1
    <3>2. CASE t # e.tid
      BY <2>1, <2>3, <3>2 DEF ThreadInv, RecordsOrdered
    <3> QED BY <3>1, <3>2
  <2>6. GroupsBefore'
    <3> SUFFICES ASSUME NEW i \in DOMAIN notified, NEW s \in stages_mask_
                 PROVE  /\ notified[i].ts[s] <= clock'[notified[i].tid]
                        /\ \A r \in slots_'[tid_hash(notified[i].tid)].filled :
                             notified[i].ts[s]
                               < slots_'[tid_hash(notified[i].tid)].ts[r]
      BY <2>4 DEF GroupsBefore
    <3>0. /\ notified[i].ts[s] <= clock[notified[i].tid]
          /\ notified[i].tid \in Tids /\ notified[i].ts[s] \in Int
          /\ \A r \in slots_[tid_hash(notified[i].tid)].filled :
               notified[i].ts[s] < slots_[tid_hash(notified[i].tid)].ts[r]
      BY <1>n DEF ThreadInv, GroupsBefore
    <3>1. CASE notified[i].tid = e.tid
      BY <2>1, <2>2, <2>3, <3>0, <3>1
    <3>2. CASE notified[i].tid # e.tid
      BY <2>1, <2>3, <3>0, <3>2
    <3> QED BY <3>1, <3>2
  <2>7. FirstEarliest' /\ NoOverlap'
    BY <2>4 DEF ThreadInv, FirstEarliest, NoOverlap
  <2> QED BY <1>t, <2>5, <2>6, <2>7 DEF ThreadInv
<1>3. ASSUME NEW e \in FedEvent, FeedComplete(e) PROVE ThreadInv'
  <2> DEFINE snap == Snapshot(Slot(e), stages_mask_)
             n == Len(notified)
  <2>1. /\ clock'[e.tid] = e.ts
        /\ \A t \in Tids : t # e.tid => clock'[t] = clock[t]
        /\ clock[e.tid] < e.ts
        /\ \A t \in Tids : clock[t] \in Int
        /\ e.ts \in Int /\ e.tid \in Tids
    BY <1>3, <1>t, ClockAdvances DEF FeedComplete
  <2>2. /\ \A s \in stages_mask_ : Slot(e).ts[s] <= e.ts
        /\ Slot(e).tid = e.tid
        /\ \A s \in stages_mask_ \ {first_stage_} :
             Slot(e).ts[first_stage_] < Slot(e).ts[s]
        /\ \A i \in DOMAIN notified : notified[i].tid = e.tid =>
             \A s, r \in stages_mask_ : notified[i].ts[s] < Slot(e).ts[r]
    BY <1>3, SlotOrdered, MaskType DEF FeedComplete, Complete
  <2>3. snap.ts = Slot(e).ts /\ snap.tid = e.tid
    BY <2>2 DEF Snapshot
  <2>4. /\ slots_'[tid_hash(e.tid)].filled = {}
        /\ \A t \in Tids : t # e.tid => slots_'[tid_hash(t)] = slots_[tid_hash(t)]
    <3>1. [Slot(e) EXCEPT !.filled = {}].filled = {}
      BY <1>3, <1>t, SlotSound DEF FeedComplete, Records
    <3> QED BY <1>3, <1>t, <2>1, <3>1, HashType
            DEF FeedComplete, NoCollision, TypeInv, TypeOK
  <2>5. /\ n \in Nat /\ DOMAIN notified = 1 .. n
        /\ DOMAIN notified' = 1 .. n + 1
        /\ notified'[n + 1] = snap
        /\ \A i \in 1 .. n : notified'[i] = notified[i]
    BY <1>3, <1>t DEF FeedComplete, TypeInv, TypeOK
  <2> HIDE DEF snap, n
  <2>6. RecordsOrdered'
    <3> SUFFICES ASSUME NEW t \in Tids
                 PROVE  LET rec == slots_'[tid_hash(t)]
                        IN  /\ \A s \in rec.filled : rec.ts[s] <= clock'[t]
                            /\ first_stage_ \in rec.filled =>
                                 /\ rec.tid = t
                                 /\ \A s \in rec.filled \ {first_stage_} :
                                      rec.ts[first_stage_] < rec.ts[s]
      BY DEF RecordsOrdered
    <3>1. CASE t = e.tid
      BY <2>4, <3>1
    <3>2. CASE t # e.tid
      BY <2>1, <2>4, <3>2 DEF ThreadInv, RecordsOrdered
    <3> QED BY <3>1, <3>2
  <2>7. GroupsBefore'
    <3> SUFFICES ASSUME NEW i \in 1 .. n + 1, NEW s \in stages_mask_
                 PROVE  /\ notified'[i].ts[s] <= clock'[notified'[i].tid]
                        /\ \A r \in slots_'[tid_hash(notified'[i].tid)].filled :
                             notified'[i].ts[s]
                               < slots_'[tid_hash(notified'[i].tid)].ts[r]
      BY <2>5 DEF GroupsBefore
    <3>1. CASE i = n + 1
      BY <2>1, <2>2, <2>3, <2>4, <2>5, <3>1
    <3>2. CASE i \in 1 .. n
      <4>1. /\ notified[i].ts[s] <= clock[notified[i].tid]
            /\ notified[i].tid \in Tids /\ notified[i].ts[s] \in Int
            /\ \A r \in slots_[tid_hash(notified[i].tid)].filled :
                 notified[i].ts[s] < slots_[tid_hash(notified[i].tid)].ts[r]
        BY <1>n, <2>5, <3>2 DEF ThreadInv, GroupsBefore
      <4>2. CASE notified[i].tid = e.tid
        BY <2>1, <2>4, <2>5, <3>2, <4>1, <4>2
      <4>3. CASE notified[i].tid # e.tid
        BY <2>1, <2>4, <2>5, <3>2, <4>1, <4>3
      <4> QED BY <4>2, <4>3
    <3> QED BY <2>5, <3>1, <3>2
  <2>8. FirstEarliest'
    <3> SUFFICES ASSUME NEW i \in 1 .. n + 1, NEW s \in stages_mask_ \ {first_stage_}
                 PROVE  notified'[i].ts[first_stage_] < notified'[i].ts[s]
      BY <2>5 DEF FirstEarliest
    <3>1. CASE i = n + 1
      BY <2>2, <2>3, <2>5, <3>1
    <3>2. CASE i \in 1 .. n
      BY <2>5, <3>2 DEF ThreadInv, FirstEarliest
    <3> QED BY <2>5, <3>1, <3>2
  <2>9. NoOverlap'
    <3> SUFFICES ASSUME NEW i \in 1 .. n + 1, NEW j \in 1 .. n + 1,
                        i < j, notified'[i].tid = notified'[j].tid,
                        NEW s \in stages_mask_, NEW r \in stages_mask_
                 PROVE  notified'[i].ts[s] < notified'[j].ts[r]
      BY <2>5 DEF NoOverlap
    <3>1. i \in 1 .. n
      BY <2>5
    <3>2. CASE j = n + 1
      BY <2>2, <2>3, <2>5, <3>1, <3>2
    <3>3. CASE j \in 1 .. n
      BY <2>5, <3>1, <3>3 DEF ThreadInv, NoOverlap
    <3> QED BY <2>5, <3>2, <3>3
  <2> QED BY <1>t, <2>6, <2>7, <2>8, <2>9 DEF ThreadInv
<1>4. CASE Drain
  BY <1>4, <1>t DEF Drain, ThreadInv, RecordsOrdered, GroupsBefore, FirstEarliest, NoOverlap
<1>5. CASE UNCHANGED vars
  BY <1>5, <1>t DEF vars, ThreadInv, RecordsOrdered, GroupsBefore, FirstEarliest, NoOverlap
<1> QED BY <1>1, <1>2, <1>3, <1>4, <1>5, NextCases

\* The order of records and groups holds if no two threads share a record.
LEMMA ThreadInvariant == NoCollision => (Spec => []ThreadInv)
<1> SUFFICES ASSUME NoCollision PROVE Spec => []ThreadInv
  OBVIOUS
<1> QED BY ThreadInit, ThreadNext, PTL DEF Spec

\* In every group the first stage comes first (matcher.cpp:27-30).
THEOREM SeqFirstIsEarliest == Spec => []FirstIsEarliest
<1>1. CASE NoCollision
  <2>1. ThreadInv => FirstIsEarliest
    BY DEF ThreadInv, FirstEarliest, FirstIsEarliest
  <2> QED BY <1>1, <2>1, ThreadInvariant, PTL
<1>2. CASE ~ NoCollision
  <2>1. FirstIsEarliest
    BY <1>2 DEF FirstIsEarliest
  <2> QED BY <2>1, PTL
<1> QED BY <1>1, <1>2

\* The groups of a thread are disjoint in time (matcher.cpp:55).
THEOREM SeqGroupsDoNotOverlap == Spec => []GroupsDoNotOverlap
<1>1. CASE NoCollision
  <2>1. ThreadInv => GroupsDoNotOverlap
    BY DEF ThreadInv, NoOverlap, GroupsDoNotOverlap
  <2> QED BY <1>1, <2>1, ThreadInvariant, PTL
<1>2. CASE ~ NoCollision
  <2>1. GroupsDoNotOverlap
    BY <1>2 DEF GroupsDoNotOverlap
  <2> QED BY <2>1, PTL
<1> QED BY <1>1, <1>2

\* drain() returns what the callbacks were told of, once (matcher.cpp:59-64).
THEOREM SeqDrainedOnce == Spec => []DrainedOnce
<1>1. Init => DrainedOnce
  BY DEF Init, DrainedOnce
<1>2. TypeOK /\ DrainedOnce /\ [Next]_vars => DrainedOnce'
  <2> SUFFICES ASSUME TypeOK, DrainedOnce, [Next]_vars PROVE DrainedOnce'
    OBVIOUS
  <2>1. pending_ \in Seq(Snapshots) /\ drained \in Seq(Snapshots)
    BY DEF TypeOK
  <2>2. ASSUME NEW e \in FedEvent, FeedIgnored(e) \/ FeedCollect(e) PROVE DrainedOnce'
    BY <2>2 DEF FeedIgnored, FeedCollect, DrainedOnce
  <2>3. ASSUME NEW e \in FedEvent, FeedComplete(e) PROVE DrainedOnce'
    <3>1. PICK x : x = Snapshot(Slot(e), stages_mask_)
      OBVIOUS
    <3>2. pending_' = Append(pending_, x) /\ notified' = Append(notified, x)
          /\ drained' = drained
      BY <2>3, <3>1 DEF FeedComplete
    <3>3. drained \o Append(pending_, x) = Append(drained \o pending_, x)
      BY <2>1
    <3> QED BY <3>2, <3>3 DEF DrainedOnce
  <2>4. CASE Drain
    <3>1. (drained \o pending_) \o <<>> = drained \o pending_
      BY <2>1
    <3> QED BY <2>4, <3>1 DEF Drain, DrainedOnce
  <2>5. CASE UNCHANGED vars
    BY <2>5 DEF vars, DrainedOnce
  <2> QED BY <2>2, <2>3, <2>4, <2>5, NextCases
<1> QED BY <1>1, <1>2, SeqTypeCorrect, PTL DEF Spec
-----------------------------------------------------------------------------
(***************************************************************************)
(* Refinement.                                                             *)
(***************************************************************************)

\* What the abstract matcher collects of e's thread is e's record.
LEMMA CollectedIsSlot ==
  ASSUME TypeInv, NEW e \in FedEvent, e.stage \in stages_mask_
  PROVE  /\ Abs!Collected(e.tid, e.stage, e.ts)
              = [s \in Slot(e).filled |-> Slot(e).ts[s]]
         /\ Slot(e).filled \subseteq stages_mask_
         /\ Slot(e).ts \in [stages_mask_ -> 0 .. MaxTs]
<1> DEFINE old == slots_[tid_hash(e.tid)]
           kept == IF e.stage = first_stage_ THEN {} ELSE old.filled
<1>1. /\ Slot(e) \in Records
      /\ Slot(e).ts = [old.ts EXCEPT ![e.stage] = e.ts]
      /\ Slot(e).filled = kept \cup {e.stage}
  BY SlotFields DEF TypeInv, TypeOK
<1>2. old \in Records /\ e.tid \in Tids
  BY HashType DEF TypeInv, TypeOK, FedEvent
<1>3. OpenOf(e.tid) = [s \in old.filled |-> old.ts[s]]
  BY DEF OpenOf
<1>4. Abs!Collected(e.tid, e.stage, e.ts)
        = [s \in kept \cup {e.stage} |-> IF s = e.stage THEN e.ts ELSE OpenOf(e.tid)[s]]
  BY <1>2, <1>3 DEF Abs!Collected
<1> HIDE DEF old
<1>5. ASSUME NEW s \in kept \cup {e.stage}
      PROVE  (IF s = e.stage THEN e.ts ELSE OpenOf(e.tid)[s]) = Slot(e).ts[s]
  BY <1>1, <1>2, <1>3 DEF Records
<1> QED BY <1>1, <1>4, <1>5 DEF Records

\* A seq matcher whose threads have distinct hashes groups the events of each
\* thread as though it had a matcher of its own.
THEOREM SeqRefines == NoCollision => (Spec => AbsSpec)
<1> SUFFICES ASSUME NoCollision PROVE Spec => AbsSpec
  OBVIOUS
<1>1. Init => Abs!Init
  <2> SUFFICES ASSUME Init PROVE Abs!Init
    OBVIOUS
  <2>1. ASSUME NEW t \in Tids PROVE OpenOf(t) = Abs!Nothing
    <3>1. slots_[tid_hash(t)].filled = {}
      BY HashType DEF Init, ZeroRecord
    <3> QED BY <3>1 DEF OpenOf, Abs!Nothing
  <2>2. [i \in DOMAIN notified |-> GroupOf(notified[i])] = <<>>
    BY DEF Init
  <2> QED BY <2>1, <2>2 DEF Abs!Init
<1>2. ThreadInv /\ [Next]_vars => [Abs!Next]_(Abs!vars)
  <2> SUFFICES ASSUME ThreadInv, [Next]_vars PROVE [Abs!Next]_(Abs!vars)
    OBVIOUS
  <2>1. ASSUME UNCHANGED <<slots_, notified>> PROVE UNCHANGED Abs!vars
    BY <2>1 DEF Abs!vars, OpenOf, GroupOf
  <2>2. ASSUME NEW e \in FedEvent, FeedIgnored(e) PROVE UNCHANGED Abs!vars
    BY <2>1, <2>2 DEF FeedIgnored
  <2>3. ASSUME NEW e \in FedEvent, FeedCollect(e)
        PROVE  Abs!Collect(e.tid, e.stage, e.ts)
    <3> DEFINE got == Abs!Collected(e.tid, e.stage, e.ts)
    <3>1. /\ got = [s \in Slot(e).filled |-> Slot(e).ts[s]]
          /\ e.tid \in Tids
      BY <2>3, CollectedIsSlot DEF FeedCollect, FedEvent, ThreadInv
    <3>2. stages_mask_ \ DOMAIN got # {}
      BY <2>3, <3>1 DEF FeedCollect, Complete
    <3>3. /\ OpenOf(e.tid)' = got
          /\ \A t \in Tids : t # e.tid => OpenOf(t)' = OpenOf(t)
      <4>1. /\ slots_'[tid_hash(e.tid)] = Slot(e)
            /\ \A t \in Tids : t # e.tid => slots_'[tid_hash(t)] = slots_[tid_hash(t)]
        BY <2>3, <3>1, HashType
           DEF FeedCollect, NoCollision, ThreadInv, TypeInv, TypeOK
      <4> QED BY <3>1, <4>1 DEF OpenOf
    <3>4. notified' = notified
      BY <2>3 DEF FeedCollect
    <3> HIDE DEF got
    <3>5. [t \in Tids |-> OpenOf(t)]' = [[t \in Tids |-> OpenOf(t)] EXCEPT ![e.tid] = got]
      BY <3>1, <3>3
    <3>6. [i \in DOMAIN notified |-> GroupOf(notified[i])]'
            = [i \in DOMAIN notified |-> GroupOf(notified[i])]
      BY <3>4 DEF GroupOf
    <3> QED BY <3>2, <3>5, <3>6 DEF Abs!Collect, got
  <2>4. ASSUME NEW e \in FedEvent, FeedComplete(e)
        PROVE  Abs!HandOn(e.tid, e.stage, e.ts)
    <3> DEFINE got == Abs!Collected(e.tid, e.stage, e.ts)
               snap == Snapshot(Slot(e), stages_mask_)
               grp == [i \in DOMAIN notified |-> GroupOf(notified[i])]
    <3>1. /\ got = [s \in Slot(e).filled |-> Slot(e).ts[s]]
          /\ Slot(e).filled \subseteq stages_mask_
          /\ Slot(e).ts \in [stages_mask_ -> 0 .. MaxTs]
          /\ e.tid \in Tids
      BY <2>4, CollectedIsSlot DEF FeedComplete, FedEvent, ThreadInv
    <3>2. Slot(e).filled = stages_mask_
      BY <2>4, <3>1 DEF FeedComplete, Complete
    <3>3. got = Slot(e).ts /\ stages_mask_ \ DOMAIN got = {}
      BY <3>1, <3>2
    <3>4. Slot(e).tid = e.tid
      <4>1. first_stage_ \in Slot(e).filled
        BY <2>4, <3>2, MaskType DEF FeedComplete
      <4> QED BY <2>4, <4>1, SlotOrdered DEF FeedComplete
    <3>5. GroupOf(snap) = [id |-> e.tid, ts |-> got]
      BY <3>3, <3>4 DEF GroupOf, Snapshot
    <3>6. [t \in Tids |-> OpenOf(t)]'
            = [[t \in Tids |-> OpenOf(t)] EXCEPT ![e.tid] = Abs!Nothing]
      <4>1. [Slot(e) EXCEPT !.filled = {}].filled = {}
        BY <2>4, SlotSound DEF FeedComplete, Records, ThreadInv
      <4>2. /\ slots_'[tid_hash(e.tid)].filled = {}
            /\ \A t \in Tids : t # e.tid => slots_'[tid_hash(t)] = slots_[tid_hash(t)]
        BY <2>4, <3>1, <4>1, HashType
           DEF FeedComplete, NoCollision, ThreadInv, TypeInv, TypeOK
      <4>3. /\ OpenOf(e.tid)' = Abs!Nothing
            /\ \A t \in Tids : t # e.tid => OpenOf(t)' = OpenOf(t)
        BY <4>2 DEF OpenOf, Abs!Nothing
      <4> QED BY <3>1, <4>3
    <3>7. grp' = Append(grp, GroupOf(snap))
      <4>1. notified \in Seq(Snapshots) /\ notified' = Append(notified, snap)
        BY <2>4 DEF FeedComplete, ThreadInv, TypeInv, TypeOK
      <4>2. PICK n \in Nat : n = Len(notified)
        BY <4>1
      <4> HIDE DEF snap
      <4>3. /\ DOMAIN notified = 1 .. n /\ DOMAIN notified' = 1 .. n + 1
            /\ notified'[n + 1] = snap
            /\ \A i \in 1 .. n : notified'[i] = notified[i]
        BY <4>1, <4>2
      <4>4. grp' = [i \in 1 .. n + 1 |-> GroupOf(notified'[i])]
        BY <4>3 DEF GroupOf
      <4>5. Append(grp, GroupOf(snap))
              = [i \in 1 .. n + 1 |-> IF i = n + 1 THEN GroupOf(snap) ELSE grp[i]]
        <5>1. grp = [i \in 1 .. n |-> GroupOf(notified[i])]
          BY <4>3
        <5>2. Len(grp) = n
          BY <5>1
        <5> QED BY <5>1, <5>2
      <4>6. ASSUME NEW i \in 1 .. n + 1
            PROVE  GroupOf(notified'[i]) = IF i = n + 1 THEN GroupOf(snap) ELSE grp[i]
        BY <4>3
      <4> QED BY <4>4, <4>5, <4>6
    <3> HIDE DEF got, snap, grp
    <3>8. /\ [t \in Tids |-> OpenOf(t)]'
               = [[t \in Tids |-> OpenOf(t)] EXCEPT ![e.tid] = Abs!Nothing]
          /\ grp' = Append(grp, [id |-> e.tid, ts |-> got])
          /\ stages_mask_ \ DOMAIN got = {}
      BY <3>3, <3>5, <3>6, <3>7
    <3> QED BY <3>8 DEF Abs!HandOn, got, grp
  <2>5. CASE Drain
    BY <2>1, <2>5 DEF Drain
  <2>6. CASE UNCHANGED vars
    BY <2>1, <2>6 DEF vars
  <2>7. ASSUME NEW e \in FedEvent, FeedCollect(e) \/ FeedComplete(e) PROVE Abs!Next
    <3>1. e.tid \in Tids /\ e.stage \in stages_mask_ /\ e.ts \in 1 .. MaxTs
      BY <2>7 DEF FedEvent, FeedCollect, FeedComplete
    <3> QED BY <2>3, <2>4, <2>7, <3>1 DEF Abs!Next
  <2> QED BY <2>2, <2>5, <2>6, <2>7, NextCases
<1> QED BY <1>1, <1>2, ThreadInvariant, PTL DEF Spec, AbsSpec, Abs!Spec
=============================================================================
