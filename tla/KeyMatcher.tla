----------------------------- MODULE KeyMatcher -----------------------------
(***************************************************************************)
(* class KeyMatcher (src/matcher.h, src/matcher.cpp): pairs the events of  *)
(* one request, whatever thread they come from.  records_ has a record for *)
(* the keys of which some stage has been seen, created by the first event  *)
(* and erased when the group is complete.                                  *)
(*                                                                         *)
(* pending_ is kept as the sequence of complete groups, as in SeqMatcher.  *)
(* keyOf is a history: a Delta does not say which request it measures.     *)
(*                                                                         *)
(* The events come from the probes (external): any thread, any stage, any  *)
(* key, in any order, each with a timestamp of its own.                    *)
(***************************************************************************)
EXTENDS Matchers

CONSTANTS
  stages_,      \* the list of stages of this matcher
  AllStages,    \* the stages of all probes
  Tids,         \* the threads
  Keys,         \* the request IDs
  MaxTs         \* bound: the number of events

ASSUME StagesAssumption ==
  stages_ \in Seq(AllStages) /\ AllStages \subseteq 0 .. 63
ASSUME TidsAssumption  == Tids \subseteq Nat \ {0}
ASSUME MaxTsAssumption == MaxTs \in Nat

VARIABLES
  records_,     \* key -> record, for the keys that have one
  pending_,     \* complete groups not yet drained
  drained,      \* what the calls of drain() returned
  seen,         \* history: the events fed, in order
  keyOf         \* history: the key of every complete group, in order

vars == <<records_, pending_, drained, seen, keyOf>>

stages_mask_ == Mask(stages_)
first_stage_ == FirstStage(stages_)

Init ==
  /\ records_ = [k \in {} |-> ZeroRecord(stages_mask_)]
  /\ pending_ = <<>>
  /\ drained = <<>>
  /\ seen = <<>>
  /\ keyOf = <<>>

\* records_[e.key]: a new key gets a zeroed record
At(key) ==
  IF key \in DOMAIN records_ THEN records_[key] ELSE ZeroRecord(stages_mask_)

\* The record of e's request once e is in.
Rec(e) == KeyRecord(At(e.key), e, first_stage_)

With(key, rec) ==
  [k \in DOMAIN records_ \cup {key} |-> IF k = key THEN rec ELSE records_[k]]

\* records_.erase(key)
Erase(key) == [k \in DOMAIN records_ \ {key} |-> records_[k]]

\* An event of another matcher's stage: no record is made for its key.
FeedIgnored(e) ==
  /\ e.stage \notin stages_mask_
  /\ seen' = Append(seen, e)
  /\ UNCHANGED <<records_, pending_, drained, keyOf>>

FeedCollect(e) ==
  /\ e.stage \in stages_mask_
  /\ ~ Complete(Rec(e), stages_mask_)
  /\ records_' = With(e.key, Rec(e))
  /\ seen' = Append(seen, e)
  /\ UNCHANGED <<pending_, drained, keyOf>>

\* Mutant: the completed record stays in the map.
FeedCompleteKeeps(e) ==
  /\ e.stage \in stages_mask_
  /\ Complete(Rec(e), stages_mask_)
  /\ records_' = With(e.key, Rec(e))
  /\ pending_' = Append(pending_, Snapshot(Rec(e), stages_mask_))
  /\ keyOf' = Append(keyOf, e.key)
  /\ seen' = Append(seen, e)
  /\ UNCHANGED drained

\* The group is complete: its deltas go to pending_, its record is erased.
FeedComplete(e) ==
  /\ e.stage \in stages_mask_
  /\ Complete(Rec(e), stages_mask_)
  /\ records_' = Erase(e.key)
  /\ pending_' = Append(pending_, Snapshot(Rec(e), stages_mask_))
  /\ keyOf' = Append(keyOf, e.key)
  /\ seen' = Append(seen, e)
  /\ UNCHANGED drained

\* drain() hands pending_ over and leaves it empty.
Drain ==
  /\ drained' = drained \o pending_
  /\ pending_' = <<>>
  /\ UNCHANGED <<records_, seen, keyOf>>

Next ==
  \/ \E tid \in Tids, stage \in AllStages, key \in Keys :
       LET e == RawEvent(Len(seen) + 1, tid, stage, key)
       IN  /\ Len(seen) < MaxTs
           /\ FeedIgnored(e) \/ FeedCollect(e) \/ FeedComplete(e)
  \/ Drain

Spec == Init /\ [][Next]_vars
-----------------------------------------------------------------------------
(***************************************************************************)
(* Invariants.                                                             *)
(***************************************************************************)
Records ==
  [ts : [stages_mask_ -> 0 .. MaxTs], filled : SUBSET stages_mask_,
   tid : Tids \cup {0}]

Snapshots ==
  [stages : {stages_mask_}, ts : [stages_mask_ -> 1 .. MaxTs], tid : Tids]

Events == [ts : 1 .. MaxTs, tid : Tids, stage : AllStages, key : Keys]

\* Every variable has its type; a complete group has the timestamp of an event
\* for each of its stages and the tid of a thread (matcher.cpp:91-98).
TypeOK ==
  /\ DOMAIN records_ \subseteq Keys
  /\ records_ \in [DOMAIN records_ -> Records]
  /\ pending_ \in Seq(Snapshots)
  /\ drained \in Seq(Snapshots)
  /\ seen \in Seq(Events)
  /\ keyOf \in Seq(Keys)

\* All complete groups, in the order in which they were completed.
Groups == drained \o pending_

\* A key has a record exactly while some of its stages, but not all, have been
\* seen since its last group, and the record has the stages seen: the map holds
\* the requests in flight and nothing else (matcher.cpp:85-99).
RecordsInFlight ==
  LET Since(k) ==
        {i \in DOMAIN seen :
           /\ seen[i].key = k
           /\ seen[i].stage \in stages_mask_
           /\ \A g \in DOMAIN keyOf : keyOf[g] = k =>
                \A s \in stages_mask_ : Groups[g].ts[s] < i}
      StagesSince(k) == {seen[i].stage : i \in Since(k)}
  IN  \A k \in Keys :
        /\ k \in DOMAIN records_ <=> StagesSince(k) # {}
        /\ k \in DOMAIN records_ =>
             /\ records_[k].filled = StagesSince(k)
             /\ records_[k].filled # stages_mask_

\* drain() has returned every complete group, or will, and none twice.  Every
\* timestamp of a group is that of an event of the group's request and of that
\* stage, and its tid is the thread of its first stage's event: the requests of
\* different threads never mix (matcher.cpp:85-98, 103-108).
GroupsAreOfOneRequest ==
  /\ DOMAIN Groups = DOMAIN keyOf
  /\ \A g \in DOMAIN Groups :
       /\ \A s \in stages_mask_ :
            LET e == seen[Groups[g].ts[s]] IN e.key = keyOf[g] /\ e.stage = s
       /\ stages_mask_ # {} => Groups[g].tid = seen[Groups[g].ts[first_stage_]].tid
-----------------------------------------------------------------------------
(***************************************************************************)
(* Refinement: a key matcher collects by request.                          *)
(***************************************************************************)
OpenOf(k) == [s \in At(k).filled |-> At(k).ts[s]]

GroupOf(g) == [id |-> keyOf[g], ts |-> Groups[g].ts]

Abs == INSTANCE StageGroups WITH
         Id <- Keys, Stage <- stages_mask_, First <- first_stage_, Restart <- FALSE,
         Time <- 1 .. MaxTs,
         open <- [k \in Keys |-> OpenOf(k)],
         groups <- [g \in DOMAIN Groups |-> GroupOf(g)]

\* The events of a request are grouped as though it had a matcher of its own:
\* "不依赖线程或顺序，按请求 ID 分组" (matcher.h:74).
AbsSpec == Abs!Spec
=============================================================================
