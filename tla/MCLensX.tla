------------------------------ MODULE MCLensX ------------------------------
(***************************************************************************)
(* Instances of LensX for TLC.                                             *)
(*                                                                         *)
(* Pipeline: two threads joined by a channel, as in test/nebulaX.yaml with *)
(* fewer stages.  Requests: a key matcher over two threads, as in          *)
(* test/c_test_key.yaml.                                                   *)
(***************************************************************************)
EXTENDS LensX

MC(id, mode, stages, size) ==
  [id |-> id, mode |-> mode, stages |-> stages, queue_size |-> size]
MR(name, from, to) == [name |-> name, from |-> from, to |-> to]

PipelineMatchers ==
  <<MC("io", "seq", <<0, 1>>, 0), MC("send", "seq", <<2, 3>>, 0),
    MC("ring", "fifo", <<1, 2>>, 2)>>
\* The same with a queue of a single entry.
TightMatchers == [PipelineMatchers EXCEPT ![3].queue_size = 1]
PipelineReports ==
  <<MR("dispatch", 0, 1), MR("ring", 1, 2), MR("e2e", 0, 3)>>
PipelineOrder  == <<2, 1>>
PipelineProbes == <<0, 1, 2, 3>>
PipelineLanes  ==
  <<[tid |-> 11, stages |-> <<0, 1>>], [tid |-> 12, stages |-> <<2, 3>>]>>

RequestMatchers == <<MC("req", "key", <<0, 1, 2>>, 0)>>
RequestReports  == <<MR("queued", 0, 1), MR("total", 0, 2)>>
RequestOrder    == <<>>
RequestProbes   == <<0, 1, 2>>
RequestLanes    ==
  <<[tid |-> 11, stages |-> <<0>>], [tid |-> 12, stages |-> <<1, 2>>]>>

\* No key: the events of seq matchers carry 0.
NoKeys       == [i \in 1 .. Items |-> 0]
\* The third item has the key of the first.
ReusedKeys   == [i \in 1 .. Items |-> IF i = 3 THEN 1 ELSE i]

\* The instances are configurations and targets the theorems about requests
\* speak of.
ASSUME RequestsAssumption ==
  KeyReportsApart /\ ReportsApart /\ (KeyMs # {} => RequestsPassOnce)

\* And those the theorems about pairing speak of.
ASSUME PipelineAssumption == (Seqs # {} => Pipeline) /\ ReportsCovered

\* What PairsSameItem, QuietFifosEmpty and EveryItemReported assume; a
\* behaviour that has lost an event has nothing more to say about them.
Lossless == lost = {}
=============================================================================
