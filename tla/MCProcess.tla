----------------------------- MODULE MCProcess -----------------------------
(***************************************************************************)
(* Instances of Process for TLC: configurations with every type of probe,  *)
(* with and without a CSV file, and ones that are refused at each check.   *)
(***************************************************************************)
EXTENDS Process

MP(type, symbol, event) ==
  [name |-> TRUE, stage |-> TRUE, type |-> type, symbol |-> symbol, event |-> event]
MConfig(process, csv, ps) ==
  [process |-> process, csv |-> csv, lists_sound |-> TRUE, probes |-> ps]

Uprobe     == MP("uprobe", TRUE, FALSE)
Kprobe     == MP("kprobe", TRUE, FALSE)
Tracepoint == MP("tracepoint", FALSE, TRUE)

MCConfigs ==
  {MConfig(TRUE, TRUE, <<Uprobe, Kprobe>>),
   MConfig(FALSE, FALSE, <<Kprobe, Tracepoint, Uprobe>>),
   MConfig(TRUE, FALSE, <<MP("kretprobe", FALSE, FALSE), MP("usdt", TRUE, TRUE)>>),
   MConfig(TRUE, FALSE, <<>>),
   MConfig(TRUE, FALSE, <<MP("tracepoint", TRUE, FALSE)>>),
   MConfig(TRUE, FALSE, <<Uprobe, MP("kprobe", FALSE, TRUE)>>),
   MConfig(TRUE, FALSE, <<[Uprobe EXCEPT !.stage = FALSE]>>)}

\* What TLC tells states apart by.  Once clang has read the header, or the run
\* has failed, no step and no property reads more of it than that it is there.
MCReads == {"args", "config", "pid", "mkstemp", "tmp_close", "tmp_unlink"} \cup BeforeCompiled
MCView  ==
  <<libVars, cfg, TmpFiles, loopVars>> \o
  IF pc \in MCReads THEN <<override_pid, headerVars>> ELSE <<>>
=============================================================================
