----------------------------- MODULE Lifecycle -----------------------------
(***************************************************************************)
(* What a run of the tool is to the target: probes are dealt with one      *)
(* after the other, each is attached or passed over, then the loop runs    *)
(* until it is told to stop; the program may give up before the loop.      *)
(* Whatever happens, no probe stays attached when it is over, and where it *)
(* was is forgotten.                                                       *)
(***************************************************************************)
EXTENDS Naturals

VARIABLES
  phase,      \* "attach", "loop", "done" or "aborted"
  total,      \* the number of probes
  attached,   \* how many of them have been dealt with
  links       \* the probes that are attached

vars == <<phase, total, attached, links>>

Init ==
  /\ phase = "attach"
  /\ total \in Nat
  /\ attached = 0
  /\ links = {}

Attach ==
  /\ phase = "attach"
  /\ attached < total
  /\ attached' = attached + 1
  /\ links' = links \cup {attached + 1}
  /\ UNCHANGED <<phase, total>>

PassOver ==
  /\ phase = "attach"
  /\ attached < total
  /\ attached' = attached + 1
  /\ UNCHANGED <<phase, total, links>>

Abort ==
  /\ phase = "attach"
  /\ phase' = "aborted"
  /\ attached' = 0
  /\ links' = {}
  /\ UNCHANGED total

Start ==
  /\ phase = "attach"
  /\ attached = total
  /\ phase' = "loop"
  /\ UNCHANGED <<total, attached, links>>

Stop ==
  /\ phase = "loop"
  /\ phase' = "done"
  /\ attached' = 0
  /\ links' = {}
  /\ UNCHANGED total

Next == Attach \/ PassOver \/ Abort \/ Start \/ Stop

Spec == Init /\ [][Next]_vars
=============================================================================
