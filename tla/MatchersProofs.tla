--------------------------- MODULE MatchersProofs ---------------------------
(* Lemmas about the operators of module Matchers. *)
EXTENDS Matchers, TLAPS, WellFoundedInduction

\* A set of natural numbers that is not empty has a smallest element.
LEMMA SmallestExists ==
  ASSUME NEW S, S \subseteq Nat, S # {}
  PROVE  \E s \in S : \A t \in S : s <= t
<1> DEFINE R == OpToRel(<, Nat)
<1>1. \E s \in S : \A t \in S : ~ (<<t, s>> \in R)
  <2>1. IsWellFoundedOn(R, Nat)
    BY NatLessThanWellFounded
  <2> HIDE DEF R
  <2> QED BY <2>1, WFMin
<1>2. PICK s \in S : \A t \in S : ~ (<<t, s>> \in R)
  BY <1>1
<1>3. ASSUME NEW t \in S PROVE s <= t
  <2>1. s \in Nat /\ t \in Nat
    OBVIOUS
  <2>2. <<t, s>> \in Nat \X Nat
    BY <2>1
  <2>3. ~ (t < s)
    BY <1>2, <2>2 DEF OpToRel
  <2> QED BY <2>1, <2>3
<1> QED BY <1>3

\* first_stage_ is one of the stages of a list that is not empty, and the
\* smallest (matcher.cpp:11-16).
LEMMA FirstStageIsSmallest ==
  ASSUME NEW stages, stages \in Seq(Nat), Mask(stages) # {}
  PROVE  /\ FirstStage(stages) \in Mask(stages)
         /\ \A s \in Mask(stages) : FirstStage(stages) <= s
<1>1. stages # <<>>
  BY DEF Mask
<1>2. Mask(stages) \subseteq Nat
  BY DEF Mask
<1>3. \E s \in Mask(stages) : \A t \in Mask(stages) : s <= t
  BY <1>2, SmallestExists
<1> QED BY <1>1, <1>3 DEF FirstStage
=============================================================================
