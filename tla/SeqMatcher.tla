----------------------------- MODULE SeqMatcher -----------------------------
(***************************************************************************)
(* class SeqMatcher (src/matcher.h, src/matcher.cpp): pairs the events of  *)
(* one thread.  The record of a thread is found by its tid modulo          *)
(* TID_SLOTS; nothing checks whose record it is.                           *)
(*                                                                         *)
(* pending_ is kept as the sequence of complete groups, each standing for  *)
(* the deltas of all its pairs of stages (Deltas in module Matchers).      *)
(*                                                                         *)
(* The events come from the probes (external): a thread's own events       *)
(* arrive in the order of their timestamps, those of different threads in  *)
(* any order.                                                              *)
(***************************************************************************)
EXTENDS Matchers

CONSTANTS
  stages_,      \* the list of stages of this matcher
  AllStages,    \* the stages of all probes
  Tids,         \* the threads
  TID_SLOTS,    \* 65536 in the code
  MaxTs         \* bound: the largest timestamp

ASSUME StagesAssumption ==
  stages_ \in Seq(AllStages) /\ AllStages \subseteq 0 .. 63
ASSUME TidsAssumption   == Tids \subseteq Nat \ {0}
ASSUME SlotsAssumption  == TID_SLOTS \in Nat \ {0}
ASSUME MaxTsAssumption  == MaxTs \in Nat

VARIABLES
  slots_,       \* one record per hash value
  pending_,     \* complete groups not yet drained
  drained,      \* what the calls of drain() returned
  notified,     \* the snapshots given to the on_complete_ callbacks
  clock         \* the timestamp of each thread's last event

vars == <<slots_, pending_, drained, notified, clock>>

stages_mask_ == Mask(stages_)
first_stage_ == FirstStage(stages_)

Slots == 0 .. TID_SLOTS - 1

\* Mutant: the hash forgets a bit.
tid_hash_half(tid) == (tid \div 2) % TID_SLOTS

tid_hash(tid) == tid % TID_SLOTS

Init ==
  /\ slots_ = [h \in Slots |-> ZeroRecord(stages_mask_)]
  /\ pending_ = <<>>
  /\ drained = <<>>
  /\ notified = <<>>
  /\ clock = [t \in Tids |-> 0]

\* The probes deliver e: a thread's timestamps increase.
Arrive(e) ==
  /\ clock[e.tid] < e.ts
  /\ clock' = [clock EXCEPT ![e.tid] = e.ts]

\* The record of e's thread once e is in.
Slot(e) == SeqRecord(slots_[tid_hash(e.tid)], e, first_stage_)

\* An event of another matcher's stage.
FeedIgnored(e) ==
  /\ e.stage \notin stages_mask_
  /\ Arrive(e)
  /\ UNCHANGED <<slots_, pending_, drained, notified>>

FeedCollect(e) ==
  /\ e.stage \in stages_mask_
  /\ Arrive(e)
  /\ ~ Complete(Slot(e), stages_mask_)
  /\ slots_' = [slots_ EXCEPT ![tid_hash(e.tid)] = Slot(e)]
  /\ UNCHANGED <<pending_, drained, notified>>

\* Mutant: the completed record keeps its stages.
FeedCompleteKeeps(e) ==
  /\ e.stage \in stages_mask_
  /\ Arrive(e)
  /\ Complete(Slot(e), stages_mask_)
  /\ slots_' = [slots_ EXCEPT ![tid_hash(e.tid)] = Slot(e)]
  /\ pending_' = Append(pending_, Snapshot(Slot(e), stages_mask_))
  /\ notified' = Append(notified, Snapshot(Slot(e), stages_mask_))
  /\ UNCHANGED drained

\* The group is complete: its deltas go to pending_, its snapshot to every
\* callback, and the record is emptied.
FeedComplete(e) ==
  /\ e.stage \in stages_mask_
  /\ Arrive(e)
  /\ Complete(Slot(e), stages_mask_)
  /\ slots_' = [slots_ EXCEPT ![tid_hash(e.tid)] = [Slot(e) EXCEPT !.filled = {}]]
  /\ pending_' = Append(pending_, Snapshot(Slot(e), stages_mask_))
  /\ notified' = Append(notified, Snapshot(Slot(e), stages_mask_))
  /\ UNCHANGED drained

\* Mutant: drain() copies pending_ and leaves it.
DrainCopies ==
  /\ drained' = drained \o pending_
  /\ UNCHANGED <<slots_, pending_, notified, clock>>

\* drain() hands pending_ over and leaves it empty.
Drain ==
  /\ drained' = drained \o pending_
  /\ pending_' = <<>>
  /\ UNCHANGED <<slots_, notified, clock>>

Next ==
  \/ \E ts \in 1 .. MaxTs, tid \in Tids, stage \in AllStages :
       LET e == RawEvent(ts, tid, stage, 0)
       IN  FeedIgnored(e) \/ FeedCollect(e) \/ FeedComplete(e)
  \/ Drain

Spec == Init /\ [][Next]_vars
-----------------------------------------------------------------------------
(***************************************************************************)
(* Invariants.                                                             *)
(***************************************************************************)
Records ==
  [ts : [stages_mask_ -> 0 .. MaxTs], filled : SUBSET stages_mask_,
   tid : Tids \cup {0}]

Snapshots ==
  [stages : {stages_mask_}, ts : [stages_mask_ -> 1 .. MaxTs], tid : Tids]

\* Every variable has its type.  A complete group has a timestamp of an event,
\* not the zero of memset, for each of its stages, and the tid of a thread
\* (matcher.cpp:35-54): the first stage, which sets slot.tid, is among those
\* that had to be collected.
TypeOK ==
  /\ slots_ \in [Slots -> Records]
  /\ pending_ \in Seq(Snapshots)
  /\ drained \in Seq(Snapshots)
  /\ notified \in Seq(Snapshots)
  /\ clock \in [Tids -> 0 .. MaxTs]

\* No two threads have the same record.
NoCollision == \A t, u \in Tids : tid_hash(t) = tid_hash(u) => t = u

\* In every group the first stage's event is the earliest: what was collected
\* before it belongs to an earlier pass of the thread through the code, and is
\* discarded (matcher.cpp:27-30).  The latencies measured from the first stage
\* therefore never wrap around.
FirstIsEarliest ==
  NoCollision =>
    \A i \in DOMAIN notified : \A s \in stages_mask_ \ {first_stage_} :
      notified[i].ts[first_stage_] < notified[i].ts[s]

\* Two groups of a thread never share an event or overlap in time: the record
\* is emptied when a group completes (matcher.cpp:55).
GroupsDoNotOverlap ==
  NoCollision =>
    \A i, j \in DOMAIN notified :
      i < j /\ notified[i].tid = notified[j].tid =>
        \A s, r \in stages_mask_ : notified[i].ts[s] < notified[j].ts[r]

\* The deltas drain() returns are those of the groups the callbacks were told
\* of, each once and in the same order, however often drain() is called
\* (matcher.cpp:59-64).
DrainedOnce == drained \o pending_ = notified
-----------------------------------------------------------------------------
(***************************************************************************)
(* Refinement: a seq matcher collects by thread, if no two of them share a *)
(* record.                                                                 *)
(***************************************************************************)
OpenOf(t) ==
  LET rec == slots_[tid_hash(t)]
  IN  [s \in rec.filled |-> rec.ts[s]]

GroupOf(snap) == [id |-> snap.tid, ts |-> snap.ts]

Abs == INSTANCE StageGroups WITH
         Id <- Tids, Stage <- stages_mask_, First <- first_stage_, Restart <- TRUE,
         Time <- 1 .. MaxTs,
         open <- [t \in Tids |-> OpenOf(t)],
         groups <- [i \in DOMAIN notified |-> GroupOf(notified[i])]

\* The events of a thread are grouped as though it had a matcher of its own:
\* "同一 tid 上收齐指定 stages 后触发回调" (matcher.h:43).
AbsSpec == Abs!Spec
=============================================================================
