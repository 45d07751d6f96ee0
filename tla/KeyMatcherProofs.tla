-------------------------- MODULE KeyMatcherProofs --------------------------
(***************************************************************************)
(* Theorems about KeyMatcher, for every list of stages, every set of       *)
(* threads and keys and any number of events.                              *)
(***************************************************************************)
EXTENDS KeyMatcher, MatchersProofs

\* What is in the record of a key: some of the stages, never all, each with the
\* number of an event of that key and stage; the thread is that of the first
\* stage's event.
RecordsSound ==
  \A k \in DOMAIN records_ :
    LET rec == records_[k]
    IN  /\ rec.filled # {}
        /\ rec.filled # stages_mask_
        /\ \A s \in rec.filled :
             rec.ts[s] \in DOMAIN seen /\ seen[rec.ts[s]].key = k /\ seen[rec.ts[s]].stage = s
        /\ first_stage_ \in rec.filled => rec.tid = seen[rec.ts[first_stage_]].tid

\* The same of a complete group.
GroupSound(snap, k) ==
  /\ \A s \in stages_mask_ :
       snap.ts[s] \in DOMAIN seen /\ seen[snap.ts[s]].key = k /\ seen[snap.ts[s]].stage = s
  /\ stages_mask_ # {} => snap.tid = seen[snap.ts[first_stage_]].tid

GroupsSound ==
  /\ Len(Groups) = Len(keyOf)
  /\ \A g \in DOMAIN keyOf : GroupSound(Groups[g], keyOf[g])

\* Event i came after every group of k.
After(k, i) ==
  \A g \in DOMAIN keyOf : keyOf[g] = k => \A s \in stages_mask_ : Groups[g].ts[s] < i

\* A record holds events that came after the groups of its key, and every such
\* event of a stage of this matcher has its stage in the record.
RecordsAfter ==
  \A k \in DOMAIN records_ : \A s \in records_[k].filled : After(k, records_[k].ts[s])

NothingForgotten ==
  \A i \in DOMAIN seen : seen[i].stage \in stages_mask_ /\ After(seen[i].key, i) =>
    /\ seen[i].key \in DOMAIN records_
    /\ seen[i].stage \in records_[seen[i].key].filled

KeyInv == TypeOK /\ RecordsSound /\ GroupsSound /\ RecordsAfter /\ NothingForgotten
-----------------------------------------------------------------------------
\* The mask is a set of stages and first_stage_ is in it (matcher.cpp:70-77).
LEMMA KeyMaskType ==
  /\ stages_mask_ \subseteq AllStages
  /\ \A s \in stages_mask_ : first_stage_ \in stages_mask_
<1>1. AllStages \subseteq Nat /\ stages_ \in Seq(AllStages)
  BY StagesAssumption
<1>2. ASSUME NEW i \in 1 .. Len(stages_) PROVE stages_[i] \in Nat
  <2>1. stages_[i] \in AllStages
    BY <1>1
  <2> QED BY <1>1, <2>1
<1>3. stages_ \in Seq(Nat)
  BY <1>1, <1>2
<1> QED BY <1>1, <1>3, FirstStageIsSmallest DEF stages_mask_, first_stage_, Mask

\* Next, with its events gathered in a set: an event's timestamp is its number.
LEMMA KeyNextCases ==
  ASSUME Next, seen \in Seq(Events)
  PROVE  \/ \E e \in Events : /\ e.ts = Len(seen) + 1
                              /\ FeedIgnored(e) \/ FeedCollect(e) \/ FeedComplete(e)
         \/ Drain
<1>1. ASSUME NEW tid \in Tids, NEW stage \in AllStages, NEW key \in Keys,
             Len(seen) < MaxTs
      PROVE  /\ RawEvent(Len(seen) + 1, tid, stage, key) \in Events
             /\ RawEvent(Len(seen) + 1, tid, stage, key).ts = Len(seen) + 1
  BY <1>1, MaxTsAssumption DEF RawEvent, Events
<1> QED BY <1>1 DEF Next

\* records_[key], of an old key or a new one, is a record (matcher.cpp:85).
LEMMA AtType ==
  ASSUME TypeOK, NEW k
  PROVE  /\ At(k) \in Records
         /\ k \notin DOMAIN records_ => At(k).filled = {}
         /\ k \in DOMAIN records_ => At(k) = records_[k]
<1>1. /\ ZeroRecord(stages_mask_) \in Records
      /\ ZeroRecord(stages_mask_).filled = {}
  BY MaxTsAssumption DEF ZeroRecord, Records
<1> QED BY <1>1 DEF At, TypeOK

\* What an event does to the record of its key, field by field
\* (matcher.cpp:85-90).
LEMMA RecFields ==
  ASSUME TypeOK, NEW e \in Events, e.stage \in stages_mask_
  PROVE  /\ Rec(e) \in Records
         /\ Rec(e).ts = [At(e.key).ts EXCEPT ![e.stage] = e.ts]
         /\ Rec(e).filled = At(e.key).filled \cup {e.stage}
         /\ Rec(e).tid = IF e.stage = first_stage_ THEN e.tid ELSE At(e.key).tid
<1> DEFINE old == At(e.key)
           base == IF e.stage = first_stage_ THEN [old EXCEPT !.tid = e.tid] ELSE old
<1>1. old \in Records
  BY AtType
<1>2. Rec(e) = [base EXCEPT !.ts[e.stage] = e.ts, !.filled = @ \cup {e.stage}]
  BY DEF Rec, KeyRecord, Fill
<1> HIDE DEF old
<1>3. base \in Records /\ base.ts = old.ts /\ base.filled = old.filled
      /\ base.tid = IF e.stage = first_stage_ THEN e.tid ELSE old.tid
  BY <1>1 DEF Records, Events
<1> HIDE DEF base
<1>4. base = [ts |-> base.ts, filled |-> base.filled, tid |-> base.tid]
  BY <1>3 DEF Records
<1>5. Rec(e) = [ts |-> [base.ts EXCEPT ![e.stage] = e.ts],
                filled |-> base.filled \cup {e.stage}, tid |-> base.tid]
  BY <1>2, <1>3 DEF Records
<1>6. [base.ts EXCEPT ![e.stage] = e.ts] \in [stages_mask_ -> 0 .. MaxTs]
  BY <1>3 DEF Records, Events
<1>7. Rec(e) \in Records
  BY <1>3, <1>5, <1>6 DEF Records
<1> QED BY <1>3, <1>5, <1>7 DEF old

\* What the groups are after a step (matcher.cpp:91-98, 103-108).
LEMMA GroupsStep ==
  ASSUME TypeOK
  PROVE  /\ Groups \in Seq(Snapshots)
         /\ \A e \in Events :
              /\ FeedIgnored(e) \/ FeedCollect(e) => Groups' = Groups
              /\ FeedComplete(e) =>
                   Groups' = Append(Groups, Snapshot(Rec(e), stages_mask_))
         /\ Drain => Groups' = Groups
         /\ UNCHANGED vars => Groups' = Groups
<1>1. pending_ \in Seq(Snapshots) /\ drained \in Seq(Snapshots)
  BY DEF TypeOK
<1>2. Groups \in Seq(Snapshots)
  BY <1>1 DEF Groups
<1>3. ASSUME NEW e \in Events, FeedIgnored(e) \/ FeedCollect(e) PROVE Groups' = Groups
  BY <1>3 DEF FeedIgnored, FeedCollect, Groups
<1>4. ASSUME NEW e \in Events, FeedComplete(e)
      PROVE  Groups' = Append(Groups, Snapshot(Rec(e), stages_mask_))
  <2>1. PICK x : x = Snapshot(Rec(e), stages_mask_)
    OBVIOUS
  <2>2. drained \o Append(pending_, x) = Append(drained \o pending_, x)
    BY <1>1
  <2> QED BY <1>4, <2>1, <2>2 DEF FeedComplete, Groups
<1>5. ASSUME Drain PROVE Groups' = Groups
  <2>1. (drained \o pending_) \o <<>> = drained \o pending_
    BY <1>1
  <2> QED BY <1>5, <2>1 DEF Drain, Groups
<1>6. UNCHANGED vars => Groups' = Groups
  BY DEF vars, Groups
<1> QED BY <1>2, <1>3, <1>4, <1>5, <1>6
-----------------------------------------------------------------------------
\* A new matcher satisfies the invariant (matcher.cpp:68-77).
LEMMA KeyInit == Init => KeyInv
<1> SUFFICES ASSUME Init PROVE KeyInv
  OBVIOUS
<1>1. /\ DOMAIN records_ = {} /\ pending_ = <<>> /\ drained = <<>>
      /\ seen = <<>> /\ keyOf = <<>>
  BY DEF Init
<1>2. records_ \in [DOMAIN records_ -> Records]
  BY <1>1 DEF Init
<1>3. Groups = <<>>
  BY <1>1 DEF Groups
<1>4. TypeOK
  BY <1>1, <1>2 DEF TypeOK
<1> QED BY <1>1, <1>3, <1>4
        DEF KeyInv, RecordsSound, GroupsSound, RecordsAfter, NothingForgotten

\* Numbering: the event just fed is the last, the earlier ones stay.
LEMMA SeenGrows ==
  ASSUME seen \in Seq(Events), NEW e \in Events, e.ts = Len(seen) + 1,
         seen' = Append(seen, e)
  PROVE  /\ seen' \in Seq(Events)
         /\ e.ts \in Nat /\ DOMAIN seen = 1 .. e.ts - 1 /\ DOMAIN seen' = 1 .. e.ts
         /\ seen'[e.ts] = e
         /\ \A i \in DOMAIN seen : i \in DOMAIN seen' /\ seen'[i] = seen[i]
  OBVIOUS

\* The record an event leaves is sound and after the groups of its key, and a
\* complete one makes a sound group (matcher.cpp:85-98).
LEMMA RecSound ==
  ASSUME KeyInv, NEW e \in Events, e.ts = Len(seen) + 1, e.stage \in stages_mask_,
         seen' = Append(seen, e)
  PROVE  /\ \A s \in Rec(e).filled :
              /\ Rec(e).ts[s] \in DOMAIN seen' /\ Rec(e).ts[s] \in 1 .. MaxTs
              /\ seen'[Rec(e).ts[s]].key = e.key
              /\ seen'[Rec(e).ts[s]].stage = s
              /\ After(e.key, Rec(e).ts[s])
         /\ first_stage_ \in Rec(e).filled =>
              Rec(e).tid = seen'[Rec(e).ts[first_stage_]].tid
         /\ Complete(Rec(e), stages_mask_) =>
              Snapshot(Rec(e), stages_mask_) \in Snapshots
<1> DEFINE old == At(e.key)
<1>1. /\ Rec(e) \in Records
      /\ Rec(e).ts = [old.ts EXCEPT ![e.stage] = e.ts]
      /\ Rec(e).filled = old.filled \cup {e.stage}
      /\ Rec(e).tid = IF e.stage = first_stage_ THEN e.tid ELSE old.tid
  BY RecFields DEF KeyInv
<1>2. /\ seen' \in Seq(Events)
      /\ e.ts \in Nat /\ DOMAIN seen = 1 .. e.ts - 1 /\ DOMAIN seen' = 1 .. e.ts
      /\ seen'[e.ts] = e
      /\ \A i \in DOMAIN seen : i \in DOMAIN seen' /\ seen'[i] = seen[i]
  BY SeenGrows DEF KeyInv, TypeOK
<1>3. /\ old \in Records
      /\ \A s \in old.filled :
           /\ old.ts[s] \in DOMAIN seen /\ seen[old.ts[s]].key = e.key
           /\ seen[old.ts[s]].stage = s /\ After(e.key, old.ts[s])
      /\ first_stage_ \in old.filled => old.tid = seen[old.ts[first_stage_]].tid
  BY AtType DEF KeyInv, RecordsSound, RecordsAfter
<1>4. After(e.key, e.ts)
  <2> SUFFICES ASSUME NEW g \in DOMAIN keyOf, NEW s \in stages_mask_
               PROVE  Groups[g].ts[s] < e.ts
    BY DEF After
  <2>1. Groups[g].ts[s] \in DOMAIN seen
    BY DEF KeyInv, GroupsSound, GroupSound
  <2> QED BY <1>2, <2>1
<1>5. e.ts \in 1 .. MaxTs /\ e.tid \in Tids
  BY DEF Events
<1> HIDE DEF old
<1>6. ASSUME NEW s \in Rec(e).filled
      PROVE  /\ Rec(e).ts[s] \in DOMAIN seen' /\ Rec(e).ts[s] \in 1 .. MaxTs
             /\ seen'[Rec(e).ts[s]].key = e.key
             /\ seen'[Rec(e).ts[s]].stage = s
             /\ After(e.key, Rec(e).ts[s])
  <2>1. CASE s = e.stage
    <3>1. Rec(e).ts[s] = e.ts
      BY <1>1, <1>3, <2>1 DEF Records
    <3> QED BY <1>2, <1>4, <1>5, <2>1, <3>1
  <2>2. CASE s # e.stage
    <3>1. Rec(e).ts[s] = old.ts[s] /\ s \in old.filled
      BY <1>1, <1>3, <2>2 DEF Records
    <3>2. old.ts[s] \in 1 .. MaxTs
      BY <1>2, <1>3, <1>5, <3>1, MaxTsAssumption
    <3> QED BY <1>2, <1>3, <3>1, <3>2
  <2> QED BY <2>1, <2>2
<1>7. ASSUME first_stage_ \in Rec(e).filled
      PROVE  Rec(e).tid = seen'[Rec(e).ts[first_stage_]].tid
  <2>1. CASE first_stage_ = e.stage
    <3>1. Rec(e).ts[first_stage_] = e.ts
      BY <1>1, <1>3, <2>1 DEF Records
    <3> QED BY <1>1, <1>2, <2>1, <3>1
  <2>2. CASE first_stage_ # e.stage
    <3>1. Rec(e).ts[first_stage_] = old.ts[first_stage_] /\ first_stage_ \in old.filled
      BY <1>1, <1>3, <1>7, <2>2 DEF Records
    <3> QED BY <1>1, <1>2, <1>3, <2>2, <3>1
  <2> QED BY <2>1, <2>2
<1>8. ASSUME Complete(Rec(e), stages_mask_)
      PROVE  Snapshot(Rec(e), stages_mask_) \in Snapshots
  <2>1. Rec(e).ts \in [stages_mask_ -> 1 .. MaxTs]
    BY <1>1, <1>6, <1>8 DEF Complete, Records
  <2>2. first_stage_ \in Rec(e).filled
    BY <1>8, KeyMaskType DEF Complete
  <2>3. seen'[Rec(e).ts[first_stage_]] \in Events
    BY <1>2, <1>6, <2>2
  <2>4. Rec(e).tid \in Tids
    BY <1>7, <2>2, <2>3 DEF Events
  <2> QED BY <2>1, <2>4 DEF Snapshot, Snapshots
<1> QED BY <1>6, <1>7, <1>8

\* feed and drain preserve the invariant (matcher.cpp:79-108).
LEMMA KeyNext == KeyInv /\ [Next]_vars => KeyInv'
<1> SUFFICES ASSUME KeyInv, [Next]_vars PROVE KeyInv'
  OBVIOUS
<1>t. TypeOK /\ Groups \in Seq(Snapshots) /\ DOMAIN Groups = DOMAIN keyOf
  BY GroupsStep DEF KeyInv, GroupsSound, TypeOK
<1>1. ASSUME NEW e \in Events, e.ts = Len(seen) + 1, FeedIgnored(e) PROVE KeyInv'
  <2>1. /\ seen' \in Seq(Events)
        /\ e.ts \in Nat /\ DOMAIN seen = 1 .. e.ts - 1 /\ DOMAIN seen' = 1 .. e.ts
        /\ seen'[e.ts] = e
        /\ \A i \in DOMAIN seen : i \in DOMAIN seen' /\ seen'[i] = seen[i]
    BY <1>1, <1>t, SeenGrows DEF FeedIgnored, TypeOK
  <2>2. /\ Groups' = Groups /\ keyOf' = keyOf /\ records_' = records_
        /\ e.stage \notin stages_mask_
    BY <1>1, <1>t, GroupsStep DEF FeedIgnored
  <2>3. TypeOK'
    BY <1>1, <1>t, <2>1 DEF FeedIgnored, TypeOK
  <2>4. \A k, i : After(k, i)' <=> After(k, i)
    BY <2>2 DEF After
  <2>5. RecordsSound' /\ RecordsAfter'
    BY <2>1, <2>2, <2>4 DEF KeyInv, RecordsSound, RecordsAfter
  <2>6. GroupsSound'
    BY <2>1, <2>2, KeyMaskType DEF KeyInv, GroupsSound, GroupSound
  <2>7. NothingForgotten'
    <3> SUFFICES ASSUME NEW i \in DOMAIN seen', seen'[i].stage \in stages_mask_,
                        After(seen'[i].key, i)
                 PROVE  /\ seen'[i].key \in DOMAIN records_
                        /\ seen'[i].stage \in records_[seen'[i].key].filled
      BY <2>2, <2>4 DEF NothingForgotten
    <3>1. i \in DOMAIN seen /\ seen'[i] = seen[i]
      BY <2>1, <2>2
    <3> QED BY <3>1 DEF KeyInv, NothingForgotten
  <2> QED BY <2>3, <2>5, <2>6, <2>7 DEF KeyInv
<1>2. ASSUME NEW e \in Events, e.ts = Len(seen) + 1, FeedCollect(e) PROVE KeyInv'
  <2> DEFINE rec == Rec(e)
  <2>1. /\ seen' \in Seq(Events)
        /\ e.ts \in Nat /\ DOMAIN seen = 1 .. e.ts - 1 /\ DOMAIN seen' = 1 .. e.ts
        /\ seen'[e.ts] = e
        /\ \A i \in DOMAIN seen : i \in DOMAIN seen' /\ seen'[i] = seen[i]
    BY <1>2, <1>t, SeenGrows DEF FeedCollect, TypeOK
  <2>2. /\ Groups' = Groups /\ keyOf' = keyOf /\ e.key \in Keys
        /\ e.stage \in stages_mask_
        /\ DOMAIN records_' = DOMAIN records_ \cup {e.key}
        /\ records_'[e.key] = rec
        /\ records_' = [k \in DOMAIN records_ \cup {e.key} |->
                          IF k = e.key THEN rec ELSE records_[k]]
        /\ \A k \in DOMAIN records_ : k # e.key => records_'[k] = records_[k]
    BY <1>2, <1>t, GroupsStep DEF FeedCollect, With, Events
  <2>3. /\ rec \in Records
        /\ rec.filled = At(e.key).filled \cup {e.stage}
        /\ \A s \in rec.filled :
             /\ rec.ts[s] \in DOMAIN seen' /\ rec.ts[s] \in 1 .. MaxTs
             /\ seen'[rec.ts[s]].key = e.key
             /\ seen'[rec.ts[s]].stage = s
             /\ After(e.key, rec.ts[s])
        /\ first_stage_ \in rec.filled => rec.tid = seen'[rec.ts[first_stage_]].tid
    BY <1>2, <1>t, RecFields, RecSound DEF FeedCollect
  <2>4. rec.filled # stages_mask_ /\ rec.filled # {}
    BY <1>2, <2>3 DEF FeedCollect, Complete
  <2>5. At(e.key).filled = IF e.key \in DOMAIN records_ THEN records_[e.key].filled ELSE {}
    BY <1>t, AtType
  <2> HIDE DEF rec
  <2>6. TypeOK'
    BY <1>2, <1>t, <2>1, <2>2, <2>3 DEF FeedCollect, TypeOK
  <2>7. \A k, i : After(k, i)' <=> After(k, i)
    BY <2>2 DEF After
  <2>8. RecordsSound' /\ RecordsAfter'
    <3>1. ASSUME NEW k \in DOMAIN records_, k # e.key
          PROVE  /\ records_'[k] = records_[k]
                 /\ records_[k].filled # {} /\ records_[k].filled # stages_mask_
                 /\ \A s \in records_[k].filled :
                      /\ records_[k].ts[s] \in DOMAIN seen'
                      /\ seen'[records_[k].ts[s]].key = k
                      /\ seen'[records_[k].ts[s]].stage = s
                      /\ After(k, records_[k].ts[s])
                 /\ first_stage_ \in records_[k].filled =>
                      records_[k].tid = seen'[records_[k].ts[first_stage_]].tid
      BY <2>1, <2>2, <3>1 DEF KeyInv, RecordsSound, RecordsAfter
    <3>2. RecordsSound'
      <4> SUFFICES ASSUME NEW k \in DOMAIN records_'
                   PROVE  /\ records_'[k].filled # {} /\ records_'[k].filled # stages_mask_
                          /\ \A s \in records_'[k].filled :
                               /\ records_'[k].ts[s] \in DOMAIN seen'
                               /\ seen'[records_'[k].ts[s]].key = k
                               /\ seen'[records_'[k].ts[s]].stage = s
                          /\ first_stage_ \in records_'[k].filled =>
                               records_'[k].tid = seen'[records_'[k].ts[first_stage_]].tid
        BY DEF RecordsSound
      <4>1. CASE k = e.key
        BY <2>2, <2>3, <2>4, <4>1
      <4>2. CASE k # e.key
        BY <2>2, <3>1, <4>2
      <4> QED BY <4>1, <4>2
    <3>3. RecordsAfter'
      <4> SUFFICES ASSUME NEW k \in DOMAIN records_', NEW s \in records_'[k].filled
                   PROVE  After(k, records_'[k].ts[s])
        BY <2>7 DEF RecordsAfter
      <4>1. CASE k = e.key
        BY <2>2, <2>3, <4>1
      <4>2. CASE k # e.key
        BY <2>2, <3>1, <4>2
      <4> QED BY <4>1, <4>2
    <3> QED BY <3>2, <3>3
  <2>9. GroupsSound'
    BY <2>1, <2>2, KeyMaskType DEF KeyInv, GroupsSound, GroupSound
  <2>10. NothingForgotten'
    <3> SUFFICES ASSUME NEW i \in DOMAIN seen', seen'[i].stage \in stages_mask_,
                        After(seen'[i].key, i)
                 PROVE  /\ seen'[i].key \in DOMAIN records_'
                        /\ seen'[i].stage \in records_'[seen'[i].key].filled
      BY <2>2, <2>7 DEF NothingForgotten
    <3>1. CASE i = e.ts
      BY <2>1, <2>2, <2>3, <3>1
    <3>2. CASE i # e.ts
      <4>1. i \in DOMAIN seen /\ seen'[i] = seen[i]
        BY <2>1, <3>2
      <4>2. seen[i].key \in DOMAIN records_ /\ seen[i].stage \in records_[seen[i].key].filled
        BY <4>1 DEF KeyInv, NothingForgotten
      <4> QED BY <2>2, <2>3, <2>5, <4>1, <4>2
    <3> QED BY <3>1, <3>2
  <2> QED BY <2>6, <2>8, <2>9, <2>10 DEF KeyInv
<1>3. ASSUME NEW e \in Events, e.ts = Len(seen) + 1, FeedComplete(e) PROVE KeyInv'
  <2> DEFINE rec == Rec(e)
             snap == Snapshot(Rec(e), stages_mask_)
             n == Len(Groups)
  <2>1. /\ seen' \in Seq(Events)
        /\ e.ts \in Nat /\ DOMAIN seen = 1 .. e.ts - 1 /\ DOMAIN seen' = 1 .. e.ts
        /\ seen'[e.ts] = e
        /\ \A i \in DOMAIN seen : i \in DOMAIN seen' /\ seen'[i] = seen[i]
    BY <1>3, <1>t, SeenGrows DEF FeedComplete, TypeOK
  <2>2. /\ e.stage \in stages_mask_ /\ e.key \in Keys
        /\ DOMAIN records_' = DOMAIN records_ \ {e.key}
        /\ records_' = [k \in DOMAIN records_ \ {e.key} |-> records_[k]]
        /\ \A k \in DOMAIN records_' : k # e.key /\ records_'[k] = records_[k]
    BY <1>3 DEF FeedComplete, Erase, Events
  <2>3. /\ n \in Nat /\ DOMAIN Groups = 1 .. n /\ DOMAIN keyOf = 1 .. n
        /\ Len(Groups') = n + 1 /\ Len(keyOf') = n + 1
        /\ DOMAIN keyOf' = 1 .. n + 1
        /\ Groups'[n + 1] = snap /\ keyOf'[n + 1] = e.key
        /\ \A g \in 1 .. n : Groups'[g] = Groups[g] /\ keyOf'[g] = keyOf[g]
    <3>1. Groups' = Append(Groups, snap) /\ keyOf' = Append(keyOf, e.key)
      BY <1>3, <1>t, GroupsStep DEF FeedComplete
    <3>2. keyOf \in Seq(Keys) /\ Len(keyOf) = n
      BY <1>t DEF KeyInv, GroupsSound, TypeOK
    <3> HIDE DEF snap
    <3> QED BY <1>t, <2>2, <3>1, <3>2
  <2>4. /\ snap \in Snapshots /\ snap.ts = rec.ts /\ snap.tid = rec.tid
        /\ \A s \in stages_mask_ :
             /\ rec.ts[s] \in DOMAIN seen'
             /\ seen'[rec.ts[s]].key = e.key
             /\ seen'[rec.ts[s]].stage = s
        /\ stages_mask_ # {} => rec.tid = seen'[rec.ts[first_stage_]].tid
        /\ rec.ts[e.stage] = e.ts
    <3>1. /\ rec.ts = [At(e.key).ts EXCEPT ![e.stage] = e.ts]
          /\ At(e.key) \in Records
      BY <1>3, <1>t, RecFields, AtType DEF FeedComplete
    <3>2. rec.ts[e.stage] = e.ts
      BY <2>2, <3>1 DEF Records
    <3>3. snap.ts = rec.ts /\ snap.tid = rec.tid
      BY DEF Snapshot
    <3>4. stages_mask_ \subseteq rec.filled /\ (stages_mask_ # {} => first_stage_ \in rec.filled)
      BY <1>3, KeyMaskType DEF FeedComplete, Complete
    <3> HIDE DEF rec, snap
    <3> QED BY <1>3, <3>2, <3>3, <3>4, RecSound DEF FeedComplete, rec, snap
  <2> HIDE DEF rec, snap, n
  <2>5. TypeOK'
    <3>1. pending_' \in Seq(Snapshots) /\ drained' \in Seq(Snapshots)
      BY <1>3, <1>t, <2>4 DEF FeedComplete, TypeOK, snap
    <3>2. keyOf' \in Seq(Keys)
      BY <1>3, <1>t, <2>2 DEF FeedComplete, TypeOK
    <3> QED BY <1>t, <2>1, <2>2, <3>1, <3>2 DEF TypeOK
  <2>6. /\ \A i : ~ (i \in DOMAIN seen' /\ After(e.key, i)')
        /\ \A k, i : After(k, i)' => After(k, i)
        /\ \A k, i : k # e.key /\ After(k, i) => After(k, i)'
    <3>1. ASSUME NEW i \in DOMAIN seen', After(e.key, i)' PROVE FALSE
      <4>1. snap.ts[e.stage] < i
        BY <2>2, <2>3, <3>1 DEF After
      <4> QED BY <2>1, <2>4, <4>1
    <3>2. \A k, i : After(k, i)' => After(k, i)
      BY <2>3 DEF After
    <3>3. \A k, i : k # e.key /\ After(k, i) => After(k, i)'
      BY <2>3 DEF After
    <3> QED BY <3>1, <3>2, <3>3
  <2>7. RecordsSound' /\ RecordsAfter'
    BY <2>1, <2>2, <2>6 DEF KeyInv, RecordsSound, RecordsAfter
  <2>8. GroupsSound'
    <3> SUFFICES ASSUME NEW g \in 1 .. n + 1 PROVE GroupSound(Groups[g], keyOf[g])'
      BY <2>3 DEF GroupsSound
    <3>1. CASE g = n + 1
      BY <2>3, <2>4, <3>1 DEF GroupSound
    <3>2. CASE g \in 1 .. n
      <4>1. GroupSound(Groups[g], keyOf[g]) /\ Groups'[g] = Groups[g] /\ keyOf'[g] = keyOf[g]
        BY <2>3, <3>2 DEF KeyInv, GroupsSound
      <4> QED BY <2>1, <4>1, KeyMaskType DEF GroupSound
    <3> QED BY <2>3, <3>1, <3>2
  <2>9. NothingForgotten'
    <3> SUFFICES ASSUME NEW i \in DOMAIN seen', seen'[i].stage \in stages_mask_,
                        NEW k, k = seen'[i].key,
                        \A g \in DOMAIN keyOf' : keyOf'[g] = k =>
                          \A s \in stages_mask_ : Groups'[g].ts[s] < i
                 PROVE  /\ k \in DOMAIN records_'
                        /\ seen'[i].stage \in records_'[k].filled
      BY DEF NothingForgotten, After
    <3>1. After(k, i)'
      BY DEF After
    <3>2. k # e.key /\ After(k, i)
      BY <2>6, <3>1
    <3>3. i \in DOMAIN seen /\ seen'[i] = seen[i]
      BY <2>1, <3>2
    <3>4. k \in DOMAIN records_ /\ seen[i].stage \in records_[k].filled
      BY <3>2, <3>3 DEF KeyInv, NothingForgotten
    <3> QED BY <2>2, <3>2, <3>3, <3>4
  <2> QED BY <2>5, <2>7, <2>8, <2>9 DEF KeyInv
<1>4. ASSUME Groups' = Groups, TypeOK', UNCHANGED <<records_, seen, keyOf>> PROVE KeyInv'
  BY <1>4 DEF KeyInv, RecordsSound, RecordsAfter, GroupsSound, GroupSound, NothingForgotten, After
<1>5. CASE Drain
  <2>1. TypeOK'
    BY <1>5, <1>t DEF Drain, TypeOK
  <2> QED BY <1>4, <1>5, <1>t, <2>1, GroupsStep DEF Drain
<1>6. CASE UNCHANGED vars
  <2>1. TypeOK'
    BY <1>6, <1>t DEF vars, TypeOK
  <2> QED BY <1>4, <1>6, <1>t, <2>1, GroupsStep DEF vars
<1> QED BY <1>1, <1>2, <1>3, <1>5, <1>6, <1>t, KeyNextCases DEF TypeOK

\* The invariant of a key matcher.
LEMMA KeyInvariant == Spec => []KeyInv
BY KeyInit, KeyNext, PTL DEF Spec

\* Every behaviour of a KeyMatcher is well typed: no group is handed out with
\* a timestamp or a thread that no event set (matcher.cpp:91-98).
THEOREM KeyTypeCorrect == Spec => []TypeOK
<1>1. KeyInv => TypeOK
  BY DEF KeyInv
<1> QED BY <1>1, KeyInvariant, PTL

\* Every group consists of events of one request, and drain() has returned it
\* or will (matcher.cpp:85-98, 103-108).
THEOREM KeyGroupsOfOneRequest == Spec => []GroupsAreOfOneRequest
<1>1. KeyInv => GroupsAreOfOneRequest
  <2> SUFFICES ASSUME KeyInv PROVE GroupsAreOfOneRequest
    OBVIOUS
  <2>1. Groups \in Seq(Snapshots) /\ keyOf \in Seq(Keys)
    BY GroupsStep DEF KeyInv, TypeOK
  <2>2. DOMAIN Groups = DOMAIN keyOf
    BY <2>1 DEF KeyInv, GroupsSound
  <2> QED BY <2>2 DEF KeyInv, GroupsSound, GroupSound, GroupsAreOfOneRequest
<1> QED BY <1>1, KeyInvariant, PTL

\* records_ holds the requests in flight and nothing else: no key is forgotten
\* and no finished one kept (matcher.cpp:85-99).
THEOREM KeyRecordsInFlight == Spec => []RecordsInFlight
<1>1. KeyInv => RecordsInFlight
  <2> SUFFICES ASSUME KeyInv PROVE RecordsInFlight
    OBVIOUS
  <2> DEFINE Since(k) ==
               {i \in DOMAIN seen :
                  /\ seen[i].key = k
                  /\ seen[i].stage \in stages_mask_
                  /\ \A g \in DOMAIN keyOf : keyOf[g] = k =>
                       \A s \in stages_mask_ : Groups[g].ts[s] < i}
             StagesSince(k) == {seen[i].stage : i \in Since(k)}
  <2>1. ASSUME NEW k, NEW i \in Since(k)
        PROVE  k \in DOMAIN records_ /\ seen[i].stage \in records_[k].filled
    BY DEF KeyInv, NothingForgotten, After
  <2>2. ASSUME NEW k \in DOMAIN records_, NEW s \in records_[k].filled
        PROVE  s \in StagesSince(k)
    <3> DEFINE i == records_[k].ts[s]
    <3>1. i \in DOMAIN seen /\ seen[i].key = k /\ seen[i].stage = s /\ After(k, i)
      BY DEF KeyInv, RecordsSound, RecordsAfter
    <3>2. s \in stages_mask_
      BY DEF KeyInv, TypeOK, Records
    <3> HIDE DEF i
    <3> QED BY <3>1, <3>2 DEF After
  <2>3. ASSUME NEW k \in DOMAIN records_
        PROVE  records_[k].filled # {} /\ records_[k].filled # stages_mask_
    BY DEF KeyInv, RecordsSound
  <2> HIDE DEF Since
  <2>4. ASSUME NEW k
        PROVE  /\ k \in DOMAIN records_ <=> StagesSince(k) # {}
               /\ k \in DOMAIN records_ =>
                    /\ records_[k].filled = StagesSince(k)
                    /\ records_[k].filled # stages_mask_
    <3>1. k \in DOMAIN records_ => records_[k].filled = StagesSince(k)
      BY <2>1, <2>2
    <3>2. StagesSince(k) # {} => k \in DOMAIN records_
      BY <2>1
    <3> QED BY <2>3, <3>1, <3>2
  <2> QED BY <2>4 DEF RecordsInFlight, Since
<1> QED BY <1>1, KeyInvariant, PTL
-----------------------------------------------------------------------------
(***************************************************************************)
(* Refinement.                                                             *)
(***************************************************************************)

\* What the abstract matcher collects of e's request is e's record.
LEMMA CollectedIsRec ==
  ASSUME TypeOK, NEW e \in Events, e.stage \in stages_mask_
  PROVE  /\ Abs!Collected(e.key, e.stage, e.ts) = [s \in Rec(e).filled |-> Rec(e).ts[s]]
         /\ Rec(e).filled \subseteq stages_mask_
         /\ Rec(e).ts \in [stages_mask_ -> 0 .. MaxTs]
<1> DEFINE old == At(e.key)
<1>1. /\ Rec(e) \in Records
      /\ Rec(e).ts = [old.ts EXCEPT ![e.stage] = e.ts]
      /\ Rec(e).filled = old.filled \cup {e.stage}
      /\ old \in Records /\ e.key \in Keys
  BY RecFields, AtType DEF Events
<1>2. OpenOf(e.key) = [s \in old.filled |-> old.ts[s]]
  BY DEF OpenOf
<1>3. Abs!Collected(e.key, e.stage, e.ts)
        = [s \in old.filled \cup {e.stage} |->
             IF s = e.stage THEN e.ts ELSE OpenOf(e.key)[s]]
  BY <1>1, <1>2 DEF Abs!Collected
<1> HIDE DEF old
<1>4. ASSUME NEW s \in old.filled \cup {e.stage}
      PROVE  (IF s = e.stage THEN e.ts ELSE OpenOf(e.key)[s]) = Rec(e).ts[s]
  BY <1>1, <1>2 DEF Records
<1> QED BY <1>1, <1>3, <1>4 DEF Records

\* A key matcher groups the events of every request as though it had a matcher
\* of its own, whatever threads they come from: there are no collisions
\* (matcher.h:74).
THEOREM KeyRefines == Spec => AbsSpec
<1>1. Init => Abs!Init
  <2> SUFFICES ASSUME Init PROVE Abs!Init
    OBVIOUS
  <2>1. ASSUME NEW k \in Keys PROVE OpenOf(k) = Abs!Nothing
    <3>1. At(k).filled = {}
      BY DEF Init, At, ZeroRecord
    <3> QED BY <3>1 DEF OpenOf, Abs!Nothing
  <2>2. Groups = <<>>
    BY DEF Init, Groups
  <2>3. [g \in DOMAIN Groups |-> GroupOf(g)] = <<>>
    BY <2>2
  <2> QED BY <2>1, <2>3 DEF Abs!Init
<1>2. KeyInv /\ [Next]_vars => [Abs!Next]_(Abs!vars)
  <2> SUFFICES ASSUME KeyInv, [Next]_vars PROVE [Abs!Next]_(Abs!vars)
    OBVIOUS
  <2>t. TypeOK /\ Groups \in Seq(Snapshots) /\ DOMAIN Groups = DOMAIN keyOf
    BY GroupsStep DEF KeyInv, GroupsSound, TypeOK
  <2>1. ASSUME Groups' = Groups, keyOf' = keyOf
        PROVE  [g \in DOMAIN Groups |-> GroupOf(g)]' = [g \in DOMAIN Groups |-> GroupOf(g)]
    BY <2>1 DEF GroupOf
  <2>2. ASSUME UNCHANGED <<records_, keyOf>>, Groups' = Groups PROVE UNCHANGED Abs!vars
    <3>1. [k \in Keys |-> OpenOf(k)]' = [k \in Keys |-> OpenOf(k)]
      BY <2>2 DEF OpenOf, At
    <3> QED BY <2>1, <2>2, <3>1 DEF Abs!vars
  <2>3. ASSUME NEW e \in Events, FeedCollect(e) PROVE Abs!Collect(e.key, e.stage, e.ts)
    <3> DEFINE got == Abs!Collected(e.key, e.stage, e.ts)
    <3>1. /\ got = [s \in Rec(e).filled |-> Rec(e).ts[s]]
          /\ e.key \in Keys
      BY <2>3, <2>t, CollectedIsRec DEF FeedCollect, Events
    <3>2. stages_mask_ \ DOMAIN got # {}
      BY <2>3, <3>1 DEF FeedCollect, Complete
    <3>3. At(e.key)' = Rec(e) /\ \A k \in Keys : k # e.key => At(k)' = At(k)
      <4>1. records_' = With(e.key, Rec(e))
        BY <2>3 DEF FeedCollect
      <4>2. /\ DOMAIN records_' = DOMAIN records_ \cup {e.key}
            /\ records_'[e.key] = Rec(e)
            /\ \A k \in DOMAIN records_ : k # e.key => records_'[k] = records_[k]
        BY <4>1 DEF With
      <4> QED BY <4>2 DEF At
    <3>4. OpenOf(e.key)' = got /\ \A k \in Keys : k # e.key => OpenOf(k)' = OpenOf(k)
      BY <3>1, <3>3 DEF OpenOf
    <3> HIDE DEF got
    <3>5. [k \in Keys |-> OpenOf(k)]' = [[k \in Keys |-> OpenOf(k)] EXCEPT ![e.key] = got]
      BY <3>1, <3>4
    <3>6. [g \in DOMAIN Groups |-> GroupOf(g)]' = [g \in DOMAIN Groups |-> GroupOf(g)]
      BY <2>1, <2>3, <2>t, GroupsStep DEF FeedCollect
    <3> QED BY <3>2, <3>5, <3>6 DEF Abs!Collect, got
  <2>4. ASSUME NEW e \in Events, FeedComplete(e) PROVE Abs!HandOn(e.key, e.stage, e.ts)
    <3> DEFINE got == Abs!Collected(e.key, e.stage, e.ts)
               snap == Snapshot(Rec(e), stages_mask_)
               grp == [g \in DOMAIN Groups |-> GroupOf(g)]
    <3>1. /\ got = [s \in Rec(e).filled |-> Rec(e).ts[s]]
          /\ Rec(e).filled \subseteq stages_mask_
          /\ Rec(e).ts \in [stages_mask_ -> 0 .. MaxTs]
          /\ e.key \in Keys
      BY <2>4, <2>t, CollectedIsRec DEF FeedComplete, Events
    <3>2. Rec(e).filled = stages_mask_
      BY <2>4, <3>1 DEF FeedComplete, Complete
    <3>3. got = Rec(e).ts /\ stages_mask_ \ DOMAIN got = {}
      BY <3>1, <3>2
    <3>4. snap.ts = got
      BY <3>3 DEF Snapshot
    <3>5. [k \in Keys |-> OpenOf(k)]'
            = [[k \in Keys |-> OpenOf(k)] EXCEPT ![e.key] = Abs!Nothing]
      <4>1. records_' = Erase(e.key)
        BY <2>4 DEF FeedComplete
      <4>2. At(e.key)'.filled = {} /\ \A k \in Keys : k # e.key => At(k)' = At(k)
        BY <4>1 DEF Erase, At, ZeroRecord
      <4>3. /\ OpenOf(e.key)' = Abs!Nothing
            /\ \A k \in Keys : k # e.key => OpenOf(k)' = OpenOf(k)
        BY <4>2 DEF OpenOf, Abs!Nothing
      <4> QED BY <3>1, <4>3
    <3>6. grp' = Append(grp, [id |-> e.key, ts |-> got])
      <4>1. Groups' = Append(Groups, snap) /\ keyOf' = Append(keyOf, e.key)
        BY <2>4, <2>t, GroupsStep DEF FeedComplete
      <4>2. PICK n \in Nat : n = Len(Groups)
        BY <2>t
      <4>3. keyOf \in Seq(Keys) /\ Len(keyOf) = n
        BY <2>t, <4>2 DEF KeyInv, GroupsSound, TypeOK
      <4> HIDE DEF snap, got
      <4>4. /\ DOMAIN Groups = 1 .. n /\ DOMAIN Groups' = 1 .. n + 1
            /\ Groups'[n + 1] = snap /\ keyOf'[n + 1] = e.key
            /\ \A g \in 1 .. n : Groups'[g] = Groups[g] /\ keyOf'[g] = keyOf[g]
        BY <2>t, <3>1, <4>1, <4>2, <4>3
      <4>5. grp' = [g \in 1 .. n + 1 |-> [id |-> keyOf'[g], ts |-> Groups'[g].ts]]
        BY <4>4 DEF GroupOf
      <4>6. grp = [g \in 1 .. n |-> [id |-> keyOf[g], ts |-> Groups[g].ts]]
        BY <4>4 DEF GroupOf
      <4>7. PICK x : x = [id |-> e.key, ts |-> got]
        OBVIOUS
      <4>8. Append(grp, x) = [g \in 1 .. n + 1 |-> IF g = n + 1 THEN x ELSE grp[g]]
        <5>1. Len(grp) = n
          BY <4>6
        <5> QED BY <4>6, <5>1
      <4>9. ASSUME NEW g \in 1 .. n + 1
            PROVE  [id |-> keyOf'[g], ts |-> Groups'[g].ts] = IF g = n + 1 THEN x ELSE grp[g]
        BY <3>4, <4>4, <4>6, <4>7
      <4> QED BY <4>5, <4>7, <4>8, <4>9
    <3> HIDE DEF got, snap, grp
    <3> QED BY <3>3, <3>5, <3>6 DEF Abs!HandOn, got, grp
  <2>5. ASSUME NEW e \in Events, FeedIgnored(e) PROVE UNCHANGED Abs!vars
    BY <2>2, <2>5, <2>t, GroupsStep DEF FeedIgnored
  <2>6. ASSUME NEW e \in Events, FeedCollect(e) \/ FeedComplete(e) PROVE Abs!Next
    <3>1. e.key \in Keys /\ e.stage \in stages_mask_ /\ e.ts \in 1 .. MaxTs
      BY <2>6 DEF Events, FeedCollect, FeedComplete
    <3> QED BY <2>3, <2>4, <2>6, <3>1 DEF Abs!Next
  <2>7. CASE Drain
    BY <2>2, <2>7, <2>t, GroupsStep DEF Drain
  <2>8. CASE UNCHANGED vars
    BY <2>2, <2>8, <2>t, GroupsStep DEF vars
  <2> QED BY <2>5, <2>6, <2>7, <2>8, <2>t, KeyNextCases DEF TypeOK
<1> QED BY <1>1, <1>2, KeyInvariant, PTL DEF Spec, AbsSpec, Abs!Spec
=============================================================================
