--------------------------- MODULE ProcessProofs ---------------------------
(***************************************************************************)
(* Theorems about Process and Libbpf, for any number of probes and         *)
(* descriptors and every set of configurations: what a run holds at every  *)
(* step, whatever has failed, and what it leaves behind.                   *)
(***************************************************************************)
EXTENDS Process, TLAPS

(***************************************************************************)
(* The inductive invariant has three parts.  Control: which loops are how  *)
(* far at which label, and what there is of files, pages and the header.   *)
(***************************************************************************)
Ending == {"results", "ring_free", "destroy", "remove_event", "unlink_c", "unlink_o",
           "fclose", "return0", "ended0"}

LoopsWithin ==
  /\ cfg \in Configs
  /\ pc \in {"args", "config"} => probes = <<>>
  /\ probes \in {<<>>, cfg.probes}
  /\ pc \notin {"args", "config", "return1", "ended1"} => probes = cfg.probes
  /\ i \in 1 .. Len(probes) + 1
  /\ pc \in (Attaching \ {"attach"}) \cup {"remove_event"} => i <= Len(probes)
  /\ pc \in Attached \cup Looping => i = Len(probes) + 1
  /\ pc \in (Attached \ {"build", "signals"}) \cup Looping \cup Ending => handling
  /\ tries \in 0 .. Doublings + 1

BeforeSource == {"args", "config", "pid", "mkstemp", "tmp_close", "tmp_unlink"}

FilesAt ==
  /\ files \subseteq {"base", "c", "o"}
  /\ "base" \in files => pc \in {"tmp_close", "tmp_unlink", "ended1"}
  /\ "c" \in files => pc \notin {"unlink_o", "fclose", "return0"}
  /\ "o" \in files => pc \notin {"fclose", "return0"}
  /\ mapped \subseteq {"consumer", "producer"}
  /\ mapped # {} => pc \in {"map_producer", "epoll_add", "results", "ring_free"} \cup Looping
  /\ header \subseteq Whole
  /\ header = {} => pc \in BeforeSource \cup BeforeCompiled \cup {"return1", "ended1"}
  /\ copying \in [OtherRuns -> {"none", "front", "back"}]
  /\ newest \in Runs \cup {"nobody"}
  /\ cut \subseteq Runs

Flags ==
  /\ override_pid \in BOOLEAN /\ vmlinux_src \in BOOLEAN
  /\ handling \in BOOLEAN /\ exiting \in BOOLEAN /\ records \in BOOLEAN

\* What the copy that truncated the header last has written is still there.
HeaderAt ==
  /\ newest # "nobody" => "name" \in header /\ pc \notin BeforeSource
  /\ newest \in OtherRuns /\ copying[newest] = "back" => "front" \in header
  /\ newest = "this" /\ pc = "copy_back" => "front" \in header
  /\ HeaderMended

Control == LoopsWithin /\ FilesAt /\ Flags /\ HeaderAt

(***************************************************************************)
(* Descriptors: at which labels each holder may hold one.                  *)
(***************************************************************************)
Running == Attached \cup Looping \cup {"results", "ring_free"}
Loaded  == Attaching \cup Running \cup {"destroy", "remove_event", "return1"}

SinglesAt ==
  /\ fd[<<"tmp", 0>>] # -1 => pc \in {"tmp_close", "probe_close"}
  /\ fd[<<"elf", 0>>] # -1 => pc = "parse"
  /\ fd[<<"btf", 0>>] # -1 => pc \in {"map", "relocate", "prog", "unload"} \cup Loaded
  /\ fd[<<"map", 0>>] # -1 => pc \in {"relocate", "prog", "unload"} \cup Loaded
  /\ fd[<<"csv", 0>>] # -1 =>
       pc \in (Running \ {"build"}) \cup
              {"destroy", "remove_event", "unlink_c", "unlink_o", "fclose", "return1"}
  /\ fd[<<"epoll", 0>>] # -1 => pc \in Running \ {"build", "signals", "ring_new"}

ProgramsAt ==
  \A k \in Indices : fd[<<"prog", k>>] # -1 =>
    pc \in {"unload"} \cup Loaded \/ (pc = "prog" /\ k < i)

\* Probe k, or the one main() is at if pc is in during.
LinkAt(k, during) ==
  \/ pc = "return1"
  \/ pc \in Attaching \cup Running /\ k < i
  \/ pc \in during /\ k = i
  \/ pc = "destroy" /\ i <= k /\ k <= Len(probes)
  \/ pc = "remove_event" /\ i < k /\ k <= Len(probes)

LinksAt ==
  \A k \in Indices :
    /\ fd[<<"pfd", k>>] # -1 => LinkAt(k, {"link", "enable", "linked", "close_pfd"})
    /\ fd[<<"link", k>>] # -1 => LinkAt(k, {"enable", "linked"})

\* A link that is being made has its descriptors; where there is no perf link
\* of the kernel's its two descriptors are one; and there is no perf event
\* without a link but that of a link being made.
LinksHold ==
  /\ pc \in {"link", "enable", "linked", "close_pfd"} => fd[<<"pfd", i>>] # -1
  /\ pc \in {"enable", "linked"} => fd[<<"link", i>>] # -1
  /\ \A k \in Indices : ~ kernel.perf_link /\ fd[<<"link", k>>] # -1 =>
       fd[<<"pfd", k>>] = fd[<<"link", k>>]
  /\ \A k \in Indices : pc # "return1" /\ fd[<<"pfd", k>>] # -1 =>
       fd[<<"link", k>>] # -1 \/ (k = i /\ pc \in {"link", "close_pfd"})

Held ==
  /\ kernel \in [legacy : BOOLEAN, perf_link : BOOLEAN]
  /\ open \in [FdNumbers -> Holders \cup {Free}]
  /\ fd \in [Holders -> FdNumbers \cup {-1}]
  /\ misclosed = FALSE
  /\ FdsHeld

Descriptors == Held /\ SinglesAt /\ ProgramsAt /\ LinksAt /\ LinksHold

(***************************************************************************)
(* Events in tracefs: those of the links, and that of the probe main() is  *)
(* at while its event exists without a link.                               *)
(***************************************************************************)
LinkEvents == {k \in Indices : fd[<<"link", k>>] # -1 /\ NeedsEvent(k)}

WithEvent == {"event_id", "perf_open", "link", "enable", "close_pfd", "clean_legacy",
              "remove_event"}

Halfway == {k \in Indices : k = i /\ pc \in WithEvent /\ NeedsEvent(k)}

EventsAt ==
  /\ stuck \subseteq events /\ events \subseteq Indices
  /\ pc \notin {"return1", "ended0", "ended1"} =>
       events = LinkEvents \cup Halfway \cup stuck
  /\ pc \in {"add_event", "event_id"} => NeedsEvent(i)

ProcessInv == Control /\ Descriptors /\ EventsAt
-----------------------------------------------------------------------------
(***************************************************************************)
(* Control.                                                                *)
(***************************************************************************)
\* The probes of a run are a sequence of at most MaxProbes probes.
LEMMA ProbesBounded ==
  ASSUME LoopsWithin
  PROVE  /\ Len(probes) \in Nat /\ Len(probes) <= MaxProbes
         /\ Len(cfg.probes) \in Nat /\ Len(cfg.probes) <= MaxProbes
  BY ConfigsAssumption, ProbesAssumption DEF LoopsWithin

LEMMA ControlInit == Init => Control
<1> SUFFICES ASSUME Init PROVE Control
  OBVIOUS
<1>1. LoopsWithin
  BY DoublingAssumption DEF Init, LibInit, LoopsWithin, Ending, Attaching, Attached, Looping
<1>2. FilesAt
  BY DEF Init, LibInit, FilesAt, BeforeSource, Whole
<1>4. HeaderAt
  BY OtherRunsAssumption DEF Init, HeaderAt, HeaderMended, Runs
<1>3. Flags
  BY DEF Init, Flags
<1> QED
  BY <1>1, <1>2, <1>3, <1>4 DEF Control

\* The steps of a run: those that open and close nothing,
Prepare ==
  \/ ArgsOk \/ ArgsBad \/ ParseConfig \/ ConfigRejected \/ PidFound \/ PidNotFound
  \/ MkstempFails \/ TmpUnlink \/ Generate \/ GenerateFails \/ CopyBegins \/ CopyFront
  \/ CopyBack \/ CopyCutShort \/ CopyNotBegun \/ Compile \/ CompileFails

Measure ==
  \/ AttachBegins \/ ResolveFails \/ AttachUnknown \/ PushLink \/ NoLink
  \/ AttachEnds \/ NoCsv \/ InstallHandlers \/ PollBegins \/ PollReads \/ PollReturns
  \/ LoopEnds \/ Results \/ UnlinkC \/ UnlinkO

Load ==
  \/ OpenElfFails \/ LoadFailsEarly \/ LoadBtfFails \/ Relocate
  \/ CreateMapOrRelocateFails \/ TryAgain \/ LoadProgFails \/ LoadEnds

AttachOne ==
  \/ AddEvent \/ AddEventFails \/ EventId \/ EventIdFails \/ PerfOpenFails
  \/ LinkFails \/ Enable \/ CleanLegacy

RingAndLinks == MapConsumer \/ MapProducer \/ EpollAdd \/ RemoveLegacy \/ DetachNothing

Outside == SigHandler \/ RecordsCome \/ \E r \in OtherRuns : OtherRun(r)

\* those that open descriptors or let a second member hold one,
ObtainMain == Mkstemp \/ OpenCsv

ObtainLib ==
  \/ OpenElf \/ ProbeLoading \/ LoadBtf \/ CreateMap \/ LoadProg \/ PerfOpen
  \/ LinkCreate \/ EpollCreate \/ SetBpf

\* those that close some, and the ends of a run.
CloseMain == TmpClose \/ Fclose

CloseLib ==
  \/ Parse \/ ParseFails \/ ElfBeginFails \/ ProbeClose \/ Unload \/ EnableFails
  \/ ClosePfd \/ RingFails \/ RingFree \/ Detach \/ ObjectClose

Ends == Return \/ Killed

LEMMA NextGroups ==
  ASSUME Next
  PROVE  \/ Prepare \/ Measure \/ Outside \/ ObtainMain \/ CloseMain \/ Ends
         \/ /\ Load \/ AttachOne \/ RingAndLinks \/ ObtainLib \/ CloseLib
            /\ UNCHANGED mainVars
  BY DEF Next, MainStep, LibStep, Prepare, Measure, Outside, Load, AttachOne, RingAndLinks,
         ObtainMain, ObtainLib, CloseMain, CloseLib, Ends

\* A step that does not copy, and does not lead to where a copy matters.
LEMMA HeaderKept ==
  ASSUME HeaderAt, UNCHANGED <<header, copying, newest, cut>>,
         pc' \notin BeforeCompiled \/ pc' = pc,
         pc' \in BeforeSource => pc \in BeforeSource
  PROVE  HeaderAt'
  BY DEF HeaderAt, HeaderMended, Copying, BeforeCompiled

\* This run's own copy, and the steps around it.
LEMMA HeaderPrepare ==
  ASSUME HeaderAt, FilesAt, Prepare
  PROVE  HeaderAt'
<1> USE DEF headerVars, mainVars, Goto, Unlink
<1>1. "this" \notin OtherRuns /\ "nobody" \notin Runs
  BY OtherRunsAssumption DEF Runs
<1>2. CASE CopyBegins
  BY <1>1, <1>2 DEF CopyBegins, HeaderAt, HeaderMended, Copying, BeforeSource
<1>3. CASE CopyFront \/ CopyBack
  BY <1>1, <1>3 DEF CopyFront, CopyBack, CopyWrites, HeaderAt, HeaderMended, Copying,
                    BeforeSource, BeforeCompiled, FilesAt, Whole
<1>4. CASE CopyCutShort
  BY <1>1, <1>4 DEF CopyCutShort, HeaderAt, HeaderMended, Copying, BeforeSource,
                    BeforeCompiled
<1>5. CASE Generate \/ CopyNotBegun
  BY <1>1, <1>5 DEF Generate, CopyNotBegun, HeaderAt, HeaderMended, Copying, BeforeSource,
                    BeforeCompiled
<1>6. CASE MkstempFails \/ TmpUnlink
  BY <1>1, <1>6 DEF MkstempFails, TmpUnlink, HeaderAt, HeaderMended, BeforeSource
<1>7. CASE \/ ArgsOk \/ ArgsBad \/ ParseConfig \/ ConfigRejected \/ PidFound \/ PidNotFound
           \/ GenerateFails \/ Compile \/ CompileFails
  BY <1>7, HeaderKept
  DEF ArgsOk, ArgsBad, ParseConfig, ConfigRejected, PidFound, PidNotFound, GenerateFails,
      Compile, CompileFails, BeforeSource, BeforeCompiled
<1> QED
  BY <1>2, <1>3, <1>4, <1>5, <1>6, <1>7 DEF Prepare

\* Copies of other runs.
LEMMA HeaderOutside ==
  ASSUME HeaderAt, FilesAt, Outside
  PROVE  HeaderAt'
<1> USE DEF headerVars, loopVars, libVars
<1>1. "this" \notin OtherRuns /\ "nobody" \notin Runs
  BY OtherRunsAssumption DEF Runs
<1>2. CASE SigHandler \/ RecordsCome
  BY <1>2, HeaderKept DEF SigHandler, RecordsCome
<1>3. ASSUME NEW r \in OtherRuns, OtherRun(r) PROVE HeaderAt'
  <2>1. CASE OtherCopyBegins(r)
    BY <1>1, <2>1 DEF OtherCopyBegins, HeaderAt, HeaderMended, Copying, FilesAt,
                      BeforeCompiled, BeforeSource
  <2>2. CASE OtherCopyWrites(r)
    BY <1>1, <2>2 DEF OtherCopyWrites, HeaderAt, HeaderMended, Copying, FilesAt, Runs, Whole
  <2>3. CASE OtherCopyCutShort(r)
    BY <1>1, <2>3 DEF OtherCopyCutShort, HeaderAt, HeaderMended, Copying, FilesAt, Runs
  <2> QED
    BY <1>3, <2>1, <2>2, <2>3 DEF OtherRun
<1> QED
  BY <1>2, <1>3 DEF Outside

\* The loops stay within the probes; files, pages and the header are where the
\* labels say.
LEMMA ControlStep == Control /\ [Next]_vars => Control'
<1> SUFFICES ASSUME Control, [Next]_vars PROVE Control'
  OBVIOUS
<1> USE DEF resources, tracefs, libVars, headerVars, loopVars, mainVars, Goto, Unlink
<1>0. LoopsWithin /\ FilesAt /\ Flags /\ HeaderAt
  BY DEF Control
<1>1. CASE Prepare
  <2> USE <1>1 DEF Prepare, ArgsOk, ArgsBad, ParseConfig, ConfigRejected, PidFound,
                   PidNotFound, MkstempFails, TmpUnlink, Generate, GenerateFails,
                   CopyBegins, CopyWrites, CopyFront, CopyBack, CopyCutShort,
                   CopyNotBegun, Compile, CompileFails
  <2>1. LoopsWithin'
    BY <1>0, ProbesBounded, DoublingAssumption
    DEF LoopsWithin, Attaching, Attached, Looping, Ending
  <2>2. FilesAt'
    BY <1>0 DEF FilesAt, BeforeSource, BeforeCompiled, Looping, Whole, Runs
  <2>3. Flags'
    BY <1>0 DEF Flags
  <2>4. HeaderAt'
    BY <1>0, <1>1, HeaderPrepare
  <2> QED
    BY <2>1, <2>2, <2>3, <2>4 DEF Control
<1>2. CASE Measure
  <2> USE <1>2 DEF Measure, AttachBegins, ResolveFails, AttachUnknown, PushLink, NoLink,
                   AttachEnds, NoCsv, InstallHandlers, PollBegins, PollReads,
                   PollReturns, LoopEnds, Results, UnlinkC, UnlinkO
  <2>1. LoopsWithin'
    BY <1>0, ProbesBounded, DoublingAssumption
    DEF LoopsWithin, Attaching, Attached, Looping, Ending
  <2>2. FilesAt'
    BY <1>0 DEF FilesAt, BeforeSource, BeforeCompiled, Looping, Whole, Runs
  <2>3. Flags'
    BY <1>0 DEF Flags
  <2>4. HeaderAt'
    BY <1>0, HeaderKept DEF BeforeSource, BeforeCompiled
  <2> QED
    BY <2>1, <2>2, <2>3, <2>4 DEF Control
<1>3. CASE Outside
  <2> USE <1>3 DEF Outside, SigHandler, RecordsCome, OtherRun, OtherCopyBegins,
        OtherCopyWrites, OtherCopyCutShort, libVars
  <2>1. LoopsWithin'
    BY <1>0, ProbesBounded, DoublingAssumption
    DEF LoopsWithin, Attaching, Attached, Looping, Ending
  <2>2. FilesAt'
    <3>1. CASE SigHandler \/ RecordsCome
      BY <1>0, <3>1 DEF FilesAt
    <3>2. ASSUME NEW r \in OtherRuns, OtherRun(r) PROVE FilesAt'
      <4>1. /\ UNCHANGED <<pc, mapped, files>>
            /\ header \subseteq header' \/ header' = {"name"}
            /\ header' \subseteq Whole
            /\ newest' \in Runs \cup {"nobody"} /\ cut' \subseteq Runs
        <5>1. copying[r] \in {"none", "front", "back"}
          BY <1>0, <3>2 DEF FilesAt
        <5>2. CASE OtherCopyBegins(r)
          BY <1>0, <3>2, <5>2 DEF FilesAt, Whole, Runs
        <5>3. CASE OtherCopyWrites(r)
          BY <1>0, <3>2, <5>1, <5>3 DEF FilesAt, Whole, Runs
        <5>4. CASE OtherCopyCutShort(r)
          BY <1>0, <3>2, <5>4 DEF FilesAt, Whole, Runs
        <5> QED
          BY <3>2, <5>2, <5>3, <5>4
      <4>2. copying' \in [OtherRuns -> {"none", "front", "back"}]
        BY <1>0, <3>2 DEF FilesAt
      <4> QED
        BY <1>0, <4>1, <4>2 DEF FilesAt
    <3> QED
      BY <1>3, <3>1, <3>2 DEF Outside
  <2>3. Flags'
    BY <1>0 DEF Flags
  <2>4. HeaderAt'
    BY <1>0, <1>3, HeaderOutside
  <2> QED
    BY <2>1, <2>2, <2>3, <2>4 DEF Control
<1>4. CASE ObtainMain
  <2> USE <1>4 DEF ObtainMain, Mkstemp, OpenCsv
  <2>1. LoopsWithin'
    BY <1>0, ProbesBounded, DoublingAssumption
    DEF LoopsWithin, Attaching, Attached, Looping, Ending
  <2>2. FilesAt'
    BY <1>0 DEF FilesAt, BeforeSource, BeforeCompiled, Looping, Whole, Runs
  <2>3. Flags'
    BY <1>0 DEF Flags
  <2>4. HeaderAt'
    BY <1>0, HeaderKept DEF BeforeSource, BeforeCompiled
  <2> QED
    BY <2>1, <2>2, <2>3, <2>4 DEF Control
<1>5. CASE CloseMain
  <2> USE <1>5 DEF CloseMain, TmpClose, Fclose
  <2>1. LoopsWithin'
    BY <1>0, ProbesBounded, DoublingAssumption
    DEF LoopsWithin, Attaching, Attached, Looping, Ending
  <2>2. FilesAt'
    BY <1>0 DEF FilesAt, BeforeSource, BeforeCompiled, Looping, Whole, Runs
  <2>3. Flags'
    BY <1>0 DEF Flags
  <2>4. HeaderAt'
    BY <1>0, HeaderKept DEF BeforeSource, BeforeCompiled
  <2> QED
    BY <2>1, <2>2, <2>3, <2>4 DEF Control
<1>6. CASE Ends
  <2> USE <1>6 DEF Ends, Return, Killed, KernelTakesBack
  <2>1. LoopsWithin'
    BY <1>0, ProbesBounded, DoublingAssumption
    DEF LoopsWithin, Attaching, Attached, Looping, Ending
  <2>2. FilesAt'
    BY <1>0 DEF FilesAt, BeforeSource, BeforeCompiled, Looping, Whole, Runs
  <2>3. Flags'
    BY <1>0 DEF Flags
  <2>4. HeaderAt'
    BY <1>0, HeaderKept DEF BeforeSource, BeforeCompiled
  <2> QED
    BY <2>1, <2>2, <2>3, <2>4 DEF Control
<1>7. CASE Load /\ UNCHANGED mainVars
  <2> USE <1>7 DEF Load, OpenElfFails, LoadFailsEarly, LoadBtfFails, Relocate,
                   CreateMapOrRelocateFails, TryAgain, LoadProgFails, LoadEnds,
                   MayTryAgain, LogSize
  <2>1. LoopsWithin'
    BY <1>0, ProbesBounded, DoublingAssumption
    DEF LoopsWithin, Attaching, Attached, Looping, Ending
  <2>2. FilesAt'
    BY <1>0 DEF FilesAt, BeforeSource, BeforeCompiled, Looping, Whole, Runs
  <2>3. Flags'
    BY <1>0 DEF Flags
  <2>4. HeaderAt'
    BY <1>0, HeaderKept DEF BeforeSource, BeforeCompiled
  <2> QED
    BY <2>1, <2>2, <2>3, <2>4 DEF Control
<1>8. CASE AttachOne /\ UNCHANGED mainVars
  <2> USE <1>8 DEF AttachOne, AddEvent, AddEventFails, EventId, EventIdFails,
                   PerfOpenFails, LinkFails, Enable, CleanLegacy
  <2>1. LoopsWithin'
    BY <1>0, ProbesBounded, DoublingAssumption
    DEF LoopsWithin, Attaching, Attached, Looping, Ending
  <2>2. FilesAt'
    BY <1>0 DEF FilesAt, BeforeSource, BeforeCompiled, Looping, Whole, Runs
  <2>3. Flags'
    BY <1>0 DEF Flags
  <2>4. HeaderAt'
    BY <1>0, HeaderKept DEF BeforeSource, BeforeCompiled
  <2> QED
    BY <2>1, <2>2, <2>3, <2>4 DEF Control
<1>9. CASE RingAndLinks /\ UNCHANGED mainVars
  <2> USE <1>9 DEF RingAndLinks, MapConsumer, MapProducer, EpollAdd, RemoveLegacy,
                   DetachNothing
  <2>1. LoopsWithin'
    BY <1>0, ProbesBounded, DoublingAssumption
    DEF LoopsWithin, Attaching, Attached, Looping, Ending
  <2>2. FilesAt'
    BY <1>0 DEF FilesAt, BeforeSource, BeforeCompiled, Looping, Whole, Runs
  <2>3. Flags'
    BY <1>0 DEF Flags
  <2>4. HeaderAt'
    BY <1>0, HeaderKept DEF BeforeSource, BeforeCompiled
  <2> QED
    BY <2>1, <2>2, <2>3, <2>4 DEF Control
<1>10. CASE ObtainLib /\ UNCHANGED mainVars
  <2> USE <1>10 DEF ObtainLib, OpenElf, ProbeLoading, LoadBtf, CreateMap, LoadProg,
                    PerfOpen, LinkCreate, EpollCreate, SetBpf
  <2>1. LoopsWithin'
    BY <1>0, ProbesBounded, DoublingAssumption
    DEF LoopsWithin, Attaching, Attached, Looping, Ending
  <2>2. FilesAt'
    BY <1>0 DEF FilesAt, BeforeSource, BeforeCompiled, Looping, Whole, Runs
  <2>3. Flags'
    BY <1>0 DEF Flags
  <2>4. HeaderAt'
    BY <1>0, HeaderKept DEF BeforeSource, BeforeCompiled
  <2> QED
    BY <2>1, <2>2, <2>3, <2>4 DEF Control
<1>11. CASE CloseLib /\ UNCHANGED mainVars
  <2> USE <1>11 DEF CloseLib, Parse, ParseFails, ElfBeginFails, ProbeClose, Unload,
                    EnableFails, ClosePfd, RingFails, RingFree, Detach, ObjectClose
  <2>1. LoopsWithin'
    BY <1>0, ProbesBounded, DoublingAssumption
    DEF LoopsWithin, Attaching, Attached, Looping, Ending
  <2>2. FilesAt'
    BY <1>0 DEF FilesAt, BeforeSource, BeforeCompiled, Looping, Whole, Runs
  <2>3. Flags'
    BY <1>0 DEF Flags
  <2>4. HeaderAt'
    BY <1>0, HeaderKept DEF BeforeSource, BeforeCompiled
  <2> QED
    BY <2>1, <2>2, <2>3, <2>4 DEF Control
<1>12. CASE UNCHANGED vars
  BY <1>0, <1>12 DEF vars, Control, LoopsWithin, FilesAt, Flags, HeaderAt, HeaderMended, Copying
<1> QED
  BY <1>1, <1>2, <1>3, <1>4, <1>5, <1>6, <1>7, <1>8, <1>9, <1>10, <1>11, <1>12, NextGroups
-----------------------------------------------------------------------------
(***************************************************************************)
(* Descriptors: what opening and closing do to what is held.               *)
(***************************************************************************)
LEMMA HoldersAre ==
  /\ \A w \in {"tmp", "elf", "btf", "map", "epoll", "csv"} : <<w, 0>> \in Holders
  /\ \A w \in {"prog", "pfd", "link"} : \A k \in Indices : <<w, k>> \in Holders
  /\ \A h \in Holders :
       /\ h = <<h[1], h[2]>>
       /\ h[1] \in {"prog", "pfd", "link"} => h[2] \in Indices
  /\ Free \notin Holders
  /\ -1 \notin FdNumbers
  BY DEF Holders, Free, FdNumbers

\* What is opened as the same thing is one holder, or the two members of a link
\* on a kernel without perf links.
LEMMA SameOpened ==
  ASSUME NEW h \in Holders, NEW g \in Holders, OpenedAs(h) = OpenedAs(g), h # g
  PROVE  /\ ~ kernel.perf_link
         /\ \E k \in Indices :
              \/ h = <<"pfd", k>> /\ g = <<"link", k>>
              \/ g = <<"pfd", k>> /\ h = <<"link", k>>
<1>1. h = <<h[1], h[2]>> /\ g = <<g[1], g[2]>>
  BY HoldersAre
<1>2. CASE h[1] = "link" /\ ~ kernel.perf_link
  <2>1. g = <<"pfd", h[2]>>
    BY <1>1, <1>2 DEF OpenedAs
  <2> QED
    BY <1>1, <1>2, <2>1, HoldersAre
<1>3. CASE g[1] = "link" /\ ~ kernel.perf_link
  <2>1. h = <<"pfd", g[2]>>
    BY <1>1, <1>3 DEF OpenedAs
  <2> QED
    BY <1>1, <1>3, <2>1, HoldersAre
<1> QED
  BY <1>2, <1>3 DEF OpenedAs

LEMMA OpenedAsHolder ==
  ASSUME NEW h \in Holders
  PROVE  OpenedAs(h) \in Holders /\ OpenedAs(h) # Free
<1>1. h = <<h[1], h[2]>>
  BY HoldersAre
<1> QED
  BY <1>1, HoldersAre DEF OpenedAs

\* A descriptor obtained is the holder's, and nobody else's.
LEMMA ObtainHolds ==
  ASSUME Held, UNCHANGED kernel, pc # "refused",
         NEW h \in Holders, fd[h] = -1, h[1] = "link" => kernel.perf_link, Obtain(h)
  PROVE  /\ Held'
         /\ fd'[h] # -1
         /\ \A g \in Holders \ {h} : fd'[g] = fd[g]
<1>1. PICK n \in FdNumbers :
        /\ open[n] = Free
        /\ open' = [open EXCEPT ![n] = h]
        /\ fd' = [fd EXCEPT ![h] = n]
        /\ UNCHANGED misclosed
  BY DEF Obtain, FreeFds
<1>2. n # -1
  BY HoldersAre
<1>3. \A g \in Holders : OpenedAs(g)' = OpenedAs(g)
  BY DEF OpenedAs
<1>4. OpenedAs(h) = h
  BY DEF OpenedAs
<1>5. \A g \in Holders : fd[g] # -1 => fd[g] \in FdNumbers /\ fd[g] # n
  BY <1>1, OpenedAsHolder DEF Held, FdsHeld
<1>6. \A g \in Holders : fd'[g] # -1 => open'[fd'[g]] = OpenedAs(g)
  BY <1>1, <1>2, <1>4, <1>5 DEF Held, FdsHeld
<1>7. \A m \in FdNumbers : open'[m] # Free => \E g \in Holders : fd'[g] = m
  <2> SUFFICES ASSUME NEW m \in FdNumbers, open'[m] # Free, m # n
               PROVE  \E g \in Holders : fd'[g] = m
    BY <1>1 DEF Held
  <2>1. PICK g \in Holders : fd[g] = m
    BY <1>1 DEF Held, FdsHeld
  <2>2. g # h
    BY <2>1, HoldersAre
  <2> QED
    BY <1>1, <2>1, <2>2 DEF Held
<1>8. FdsHeld'
  BY <1>3, <1>6, <1>7 DEF FdsHeld
<1> QED
  BY <1>1, <1>2, <1>8 DEF Held

\* Closing what nobody else holds, or what all holders give up, closes nothing
\* twice and leaves nothing dangling.
LEMMA CloseHolds ==
  ASSUME Held, UNCHANGED kernel, pc # "refused",
         NEW closed \in SUBSET Holders, NEW gone \in SUBSET Holders, Close(closed, gone),
         \A h \in closed : \A g \in Holders \ {h} : fd[h] # -1 /\ fd[g] = fd[h] =>
           g \in gone /\ g \notin closed,
         \A h \in gone \ closed : fd[h] # -1 =>
           \/ \E g \in (Holders \ gone) \cup closed : fd[g] = fd[h]
           \/ pc' = "refused" /\ h = <<"elf", 0>>
  PROVE  /\ Held'
         /\ \A h \in Holders : fd'[h] = IF h \in closed \cup gone THEN -1 ELSE fd[h]
<1> DEFINE numbers == {fd[h] : h \in closed} \ {-1}
<1>1. /\ open' = [n \in FdNumbers |-> IF n \in numbers THEN Free ELSE open[n]]
      /\ fd' = [h \in Holders |-> IF h \in closed \cup gone THEN -1 ELSE fd[h]]
  BY DEF Close
<1>2. misclosed' = FALSE
  <2>1. ~ \E h \in closed : /\ fd[h] # -1
                           /\ \/ open[fd[h]] = Free
                              \/ \E k \in closed \ {h} : fd[k] = fd[h]
    BY OpenedAsHolder DEF Held, FdsHeld
  <2> QED
    BY <2>1 DEF Close, Held
<1>3. \A g \in Holders : OpenedAs(g)' = OpenedAs(g)
  BY DEF OpenedAs
<1>4. \A g \in Holders : fd'[g] # -1 => open'[fd'[g]] = OpenedAs(g)
  <2> SUFFICES ASSUME NEW g \in Holders, fd'[g] # -1 PROVE open'[fd'[g]] = OpenedAs(g)
    OBVIOUS
  <2>1. g \notin closed \cup gone /\ fd'[g] = fd[g] /\ fd[g] # -1
    BY <1>1
  <2>2. fd[g] \in FdNumbers /\ open[fd[g]] = OpenedAs(g)
    BY <2>1 DEF Held, FdsHeld
  <2>3. fd[g] \notin numbers
    BY <2>1
  <2> QED
    BY <1>1, <2>1, <2>2, <2>3
<1>5. ASSUME NEW n \in FdNumbers, open'[n] # Free
      PROVE  (\E h \in Holders : fd'[h] = n) \/ (pc' = "refused" /\ open'[n] = <<"elf", 0>>)
  <2>1. n \notin numbers /\ open[n] # Free
    BY <1>1, <1>5
  <2>2. PICK h \in Holders : fd[h] = n
    BY <2>1 DEF Held, FdsHeld
  <2>3. h \notin closed /\ n # -1
    BY <2>1, <2>2, HoldersAre
  <2>4. CASE pc' = "refused" /\ h = <<"elf", 0>>
    <3>1. open[n] = OpenedAs(<<"elf", 0>>)
      BY <2>2, <2>3, <2>4 DEF Held, FdsHeld
    <3> QED
      BY <1>1, <2>1, <2>4, <3>1 DEF OpenedAs
  <2>5. CASE \E g \in Holders : fd[g] = n /\ g \notin gone \cup closed
    BY <1>1, <2>5
  <2> QED
    BY <2>1, <2>2, <2>3, <2>4, <2>5
<1>6. FdsHeld'
  BY <1>3, <1>4, <1>5 DEF FdsHeld, Single
<1>7. open' \in [FdNumbers -> Holders \cup {Free}]
  BY <1>1 DEF Held
<1>8. fd' \in [Holders -> FdNumbers \cup {-1}]
  BY <1>1 DEF Held
<1> QED
  BY <1>1, <1>2, <1>6, <1>7, <1>8 DEF Held

\* A descriptor has one holder, or is that of a link without a perf link.
LEMMA SoleHolder ==
  ASSUME Held, NEW h \in Holders, NEW g \in Holders, h # g, fd[h] # -1, fd[g] = fd[h]
  PROVE  /\ ~ kernel.perf_link
         /\ \E k \in Indices :
              \/ h = <<"pfd", k>> /\ g = <<"link", k>>
              \/ g = <<"pfd", k>> /\ h = <<"link", k>>
  BY SameOpened DEF Held, FdsHeld

\* Closing any descriptors but those of links.
LEMMA ClosePlain ==
  ASSUME Held, UNCHANGED kernel, pc # "refused", NEW closed \in SUBSET Holders,
         \A h \in closed : h[1] \notin {"pfd", "link"}, Close(closed, {})
  PROVE  /\ Held'
         /\ \A h \in Holders : fd'[h] = IF h \in closed THEN -1 ELSE fd[h]
<1>1. \A h \in closed : \A g \in Holders \ {h} : fd[h] # -1 => fd[g] # fd[h]
  BY SoleHolder
<1> QED
  BY <1>1, CloseHolds

\* A step that opens and closes nothing.
LEMMA PlainHeld ==
  ASSUME Held, UNCHANGED <<kernel, open, fd, misclosed>>, pc = "refused" => pc' = "refused"
  PROVE  Held'
  BY DEF Held, FdsHeld, OpenedAs
-----------------------------------------------------------------------------
(***************************************************************************)
(* The same, step by step.                                                 *)
(***************************************************************************)
\* The steps that open and close nothing.
LEMMA PlainStep ==
  ASSUME LoopsWithin, Descriptors,
         Prepare \/ Measure \/ Outside \/ Load \/ AttachOne \/ RingAndLinks
  PROVE  Descriptors'
<1>1. Held /\ SinglesAt /\ ProgramsAt /\ LinksAt /\ LinksHold
  BY DEF Descriptors
<1> DEFINE LinkKept(k) ==
      /\ fd[<<"pfd", k>>] # -1 => LinkAt(k, {"link", "enable", "linked", "close_pfd"})'
      /\ fd[<<"link", k>>] # -1 => LinkAt(k, {"enable", "linked"})'
<1>2. ASSUME NEW k \in Indices
      PROVE  /\ k \in Int /\ i \in Int /\ Len(probes) \in Int
             /\ fd[<<"pfd", k>>] # -1 => LinkAt(k, {"link", "enable", "linked", "close_pfd"})
             /\ fd[<<"link", k>>] # -1 => LinkAt(k, {"enable", "linked"})
             /\ pc # "return1" /\ fd[<<"pfd", k>>] # -1 =>
                  fd[<<"link", k>>] # -1 \/ (k = i /\ pc \in {"link", "close_pfd"})
  BY <1>1, ProbesBounded, ProbesAssumption DEF LinksAt, LinksHold, Indices, LoopsWithin
<1> USE ProbesBounded
     DEF resources, tracefs, libVars, Goto, Unlink, Attaching, Attached, Looping, Running,
         Loaded
<1>3. CASE Prepare
  <2> USE <1>3 DEF Prepare, ArgsOk, ArgsBad, ParseConfig, ConfigRejected, PidFound,
                   PidNotFound, MkstempFails, TmpUnlink, Generate, GenerateFails,
                   CopyBegins, CopyWrites, CopyFront, CopyBack, CopyCutShort,
                   CopyNotBegun, Compile, CompileFails
  <2>1. UNCHANGED <<kernel, open, fd, misclosed>> /\ (pc = "refused" => pc' = "refused")
    OBVIOUS
  <2>2. SinglesAt' /\ ProgramsAt'
    BY <1>1, <2>1 DEF SinglesAt, ProgramsAt
  <2>3. ASSUME NEW k \in Indices PROVE LinkKept(k)
    BY <1>2 DEF LinkAt, LoopsWithin
  <2>4. LinksHold'
    BY <1>1, <2>1 DEF LinksHold, LinksAt, LinkAt, LoopsWithin
  <2> QED
    BY <1>1, <2>1, <2>2, <2>3, <2>4, PlainHeld DEF Descriptors, LinksAt
<1>4. CASE Measure
  <2> USE <1>4 DEF Measure, AttachBegins, ResolveFails, AttachUnknown, PushLink, NoLink,
                   AttachEnds, NoCsv, InstallHandlers, PollBegins, PollReads,
                   PollReturns, LoopEnds, Results, UnlinkC, UnlinkO
  <2>1. UNCHANGED <<kernel, open, fd, misclosed>> /\ (pc = "refused" => pc' = "refused")
    OBVIOUS
  <2>2. SinglesAt' /\ ProgramsAt'
    BY <1>1, <2>1 DEF SinglesAt, ProgramsAt
  <2>3. ASSUME NEW k \in Indices PROVE LinkKept(k)
    BY <1>2 DEF LinkAt, LoopsWithin
  <2>4. LinksHold'
    BY <1>1, <2>1 DEF LinksHold, LinksAt, LinkAt, LoopsWithin
  <2> QED
    BY <1>1, <2>1, <2>2, <2>3, <2>4, PlainHeld DEF Descriptors, LinksAt
<1>5. CASE Outside
  <2> USE <1>5 DEF Outside, SigHandler, RecordsCome, OtherRun, OtherCopyBegins,
        OtherCopyWrites, OtherCopyCutShort, libVars
  <2>1. UNCHANGED <<kernel, open, fd, misclosed>> /\ (pc = "refused" => pc' = "refused")
    OBVIOUS
  <2>2. SinglesAt' /\ ProgramsAt'
    BY <1>1, <2>1 DEF SinglesAt, ProgramsAt
  <2>3. ASSUME NEW k \in Indices PROVE LinkKept(k)
    BY <1>2 DEF LinkAt, LoopsWithin
  <2>4. LinksHold'
    BY <1>1, <2>1 DEF LinksHold, LinksAt, LinkAt, LoopsWithin
  <2> QED
    BY <1>1, <2>1, <2>2, <2>3, <2>4, PlainHeld DEF Descriptors, LinksAt
<1>6. CASE Load
  <2> USE <1>6 DEF Load, OpenElfFails, LoadFailsEarly, LoadBtfFails, Relocate,
                   CreateMapOrRelocateFails, TryAgain, LoadProgFails, LoadEnds,
                   MayTryAgain, LogSize
  <2>1. UNCHANGED <<kernel, open, fd, misclosed>> /\ (pc = "refused" => pc' = "refused")
    OBVIOUS
  <2>2. SinglesAt' /\ ProgramsAt'
    BY <1>1, <2>1 DEF SinglesAt, ProgramsAt
  <2>3. ASSUME NEW k \in Indices PROVE LinkKept(k)
    BY <1>2 DEF LinkAt, LoopsWithin
  <2>4. LinksHold'
    BY <1>1, <2>1 DEF LinksHold, LinksAt, LinkAt, LoopsWithin
  <2> QED
    BY <1>1, <2>1, <2>2, <2>3, <2>4, PlainHeld DEF Descriptors, LinksAt
<1>7. CASE AttachOne
  <2> USE <1>7 DEF AttachOne, AddEvent, AddEventFails, EventId, EventIdFails,
                   PerfOpenFails, LinkFails, Enable, CleanLegacy
  <2>1. UNCHANGED <<kernel, open, fd, misclosed>> /\ (pc = "refused" => pc' = "refused")
    OBVIOUS
  <2>2. SinglesAt' /\ ProgramsAt'
    BY <1>1, <2>1 DEF SinglesAt, ProgramsAt
  <2>3. ASSUME NEW k \in Indices PROVE LinkKept(k)
    BY <1>2 DEF LinkAt, LoopsWithin
  <2>4. LinksHold'
    BY <1>1, <2>1 DEF LinksHold, LinksAt, LinkAt, LoopsWithin
  <2> QED
    BY <1>1, <2>1, <2>2, <2>3, <2>4, PlainHeld DEF Descriptors, LinksAt
<1>8. CASE RingAndLinks
  <2> USE <1>8 DEF RingAndLinks, MapConsumer, MapProducer, EpollAdd, RemoveLegacy,
                   DetachNothing
  <2>1. UNCHANGED <<kernel, open, fd, misclosed>> /\ (pc = "refused" => pc' = "refused")
    OBVIOUS
  <2>2. SinglesAt' /\ ProgramsAt'
    BY <1>1, <2>1 DEF SinglesAt, ProgramsAt
  <2>3. ASSUME NEW k \in Indices PROVE LinkKept(k)
    BY <1>2 DEF LinkAt, LoopsWithin
  <2>4. LinksHold'
    BY <1>1, <2>1 DEF LinksHold, LinksAt, LinkAt, LoopsWithin
  <2> QED
    BY <1>1, <2>1, <2>2, <2>3, <2>4, PlainHeld DEF Descriptors, LinksAt
<1> QED
  BY <1>3, <1>4, <1>5, <1>6, <1>7, <1>8

\* The steps that open a descriptor, or let a link hold that of its perf event.
LEMMA ObtainStep ==
  ASSUME LoopsWithin, Descriptors, ObtainMain \/ ObtainLib
  PROVE  Descriptors'
<1>1. Held /\ SinglesAt /\ ProgramsAt /\ LinksAt /\ LinksHold
  BY DEF Descriptors
<1>2. i \in Int /\ (i <= Len(probes) => i \in Indices)
  BY ProbesBounded, ProbesAssumption DEF LoopsWithin, Indices
<1> USE DEF Attaching, Attached, Looping, Running, Loaded
<1>3. CASE \/ Mkstemp \/ OpenCsv \/ OpenElf \/ ProbeLoading \/ LoadBtf \/ CreateMap
           \/ EpollCreate
  <2> DEFINE Kinds == {"tmp", "elf", "btf", "map", "epoll", "csv"}
  <2>1. PICK w \in Kinds :
          /\ Obtain(<<w, 0>>) /\ UNCHANGED <<i, kernel, probes>>
          /\ \/ w = "tmp" /\ pc = "mkstemp" /\ pc' = "tmp_close"
             \/ w = "csv" /\ pc = "build" /\ pc' = "signals"
             \/ w = "elf" /\ pc = "open" /\ pc' = "parse"
             \/ w = "tmp" /\ pc = "load" /\ pc' = "probe_close"
             \/ w = "btf" /\ pc = "btf" /\ pc' = "map"
             \/ w = "map" /\ pc = "map" /\ pc' = "relocate"
             \/ w = "epoll" /\ pc = "ring_new" /\ pc' = "map_consumer"
    BY <1>3 DEF Mkstemp, OpenCsv, OpenElf, ProbeLoading, LoadBtf, CreateMap, EpollCreate,
                Single
  <2>2. fd[<<w, 0>>] = -1
    BY <1>1, <2>1 DEF SinglesAt
  <2>3. /\ Held'
        /\ \A v \in Kinds \ {w} : fd'[<<v, 0>>] = fd[<<v, 0>>]
        /\ \A v \in {"prog", "pfd", "link"} : \A k \in Indices : fd'[<<v, k>>] = fd[<<v, k>>]
    BY <1>1, <2>1, <2>2, ObtainHolds, HoldersAre
  <2>4. SinglesAt'
    BY <1>1, <2>1, <2>3 DEF SinglesAt
  <2>5. ProgramsAt'
    BY <1>1, <2>1, <2>3 DEF ProgramsAt
  <2>6. LinksAt'
    BY <1>1, <2>1, <2>3 DEF LinksAt, LinkAt
  <2>7. LinksHold'
    BY <1>1, <2>1, <2>3 DEF LinksHold
  <2> QED
    BY <2>3, <2>4, <2>5, <2>6, <2>7 DEF Descriptors
<1>4. CASE LoadProg
  <2> USE <1>4 DEF LoadProg
  <2>1. i \in Indices /\ fd[<<"prog", i>>] = -1
    BY <1>1, <1>2 DEF ProgramsAt
  <2>2. /\ Held'
        /\ \A h \in Holders \ {<<"prog", i>>} : fd'[h] = fd[h]
    BY <1>1, <2>1, ObtainHolds, HoldersAre
  <2>3. /\ \A v \in {"tmp", "elf", "btf", "map", "epoll", "csv"} : fd'[<<v, 0>>] = fd[<<v, 0>>]
        /\ \A v \in {"pfd", "link"} : \A k \in Indices : fd'[<<v, k>>] = fd[<<v, k>>]
        /\ \A k \in Indices \ {i} : fd'[<<"prog", k>>] = fd[<<"prog", k>>]
    BY <2>2, HoldersAre
  <2>4. SinglesAt'
    BY <1>1, <2>3 DEF SinglesAt
  <2>5. ProgramsAt'
    BY <1>1, <1>2, <2>3, ProbesAssumption DEF ProgramsAt, Indices
  <2>6. LinksAt' /\ LinksHold'
    BY <1>1, <2>3 DEF LinksAt, LinkAt, LinksHold
  <2> QED
    BY <2>2, <2>4, <2>5, <2>6 DEF Descriptors
<1>5. CASE PerfOpen \/ LinkCreate
  <2>1. PICK w \in {"pfd", "link"} :
          /\ Obtain(<<w, i>>) /\ UNCHANGED <<i, kernel, probes>>
          /\ \/ w = "pfd" /\ pc = "perf_open" /\ pc' = "link"
             \/ w = "link" /\ pc = "link" /\ pc' = "enable" /\ kernel.perf_link
    BY <1>5 DEF PerfOpen, LinkCreate
  <2>2. i \in Indices /\ fd[<<w, i>>] = -1
    <3>1. i \in Indices
      BY <1>2, <2>1 DEF LoopsWithin
    <3>2. ASSUME NEW k \in Indices, k = i
          PROVE  (w = "pfd" => fd[<<"pfd", k>>] = -1) /\ (w = "link" => fd[<<"link", k>>] = -1)
      BY <1>1, <1>2, <2>1, <3>2 DEF LinksAt, LinkAt
    <3> QED
      BY <3>1, <3>2
  <2>3. /\ Held'
        /\ fd'[<<w, i>>] # -1
        /\ \A h \in Holders \ {<<w, i>>} : fd'[h] = fd[h]
    BY <1>1, <2>1, <2>2, ObtainHolds, HoldersAre
  <2>4. /\ \A v \in {"tmp", "elf", "btf", "map", "epoll", "csv"} : fd'[<<v, 0>>] = fd[<<v, 0>>]
        /\ \A k \in Indices : fd'[<<"prog", k>>] = fd[<<"prog", k>>]
        /\ \A v \in {"pfd", "link"} : \A k \in Indices :
             v # w \/ k # i => fd'[<<v, k>>] = fd[<<v, k>>]
    BY <2>1, <2>3, HoldersAre
  <2>5. SinglesAt' /\ ProgramsAt'
    BY <1>1, <2>1, <2>4 DEF SinglesAt, ProgramsAt
  <2>6. LinksAt'
    BY <1>1, <2>1, <2>2, <2>3, <2>4 DEF LinksAt, LinkAt
  <2>7. LinksHold'
    BY <1>1, <2>1, <2>2, <2>3, <2>4 DEF LinksHold
  <2> QED
    BY <2>3, <2>5, <2>6, <2>7 DEF Descriptors
<1>6. CASE SetBpf
  <2> USE <1>6 DEF SetBpf
  <2>1. i \in Indices /\ <<"pfd", i>> \in Holders /\ <<"link", i>> \in Holders
    BY <1>2, HoldersAre DEF LoopsWithin
  <2>2. fd[<<"pfd", i>>] # -1 /\ fd[<<"pfd", i>>] \in FdNumbers
    BY <1>1, <2>1 DEF LinksHold, Held
  <2>3. /\ fd'[<<"link", i>>] = fd[<<"pfd", i>>]
        /\ \A h \in Holders \ {<<"link", i>>} : fd'[h] = fd[h]
        /\ fd' \in [Holders -> FdNumbers \cup {-1}]
    BY <1>1, <2>1, <2>2 DEF Held
  <2>4. /\ \A v \in {"tmp", "elf", "btf", "map", "epoll", "csv"} : fd'[<<v, 0>>] = fd[<<v, 0>>]
        /\ \A v \in {"prog", "pfd"} : \A k \in Indices : fd'[<<v, k>>] = fd[<<v, k>>]
        /\ \A k \in Indices \ {i} : fd'[<<"link", k>>] = fd[<<"link", k>>]
    BY <2>3, HoldersAre
  <2>5. fd[<<"link", i>>] = -1
    <3>1. ASSUME NEW k \in Indices, k = i PROVE fd[<<"link", k>>] = -1
      BY <1>1, <1>2, <3>1 DEF LinksAt, LinkAt
    <3> QED
      BY <2>1, <3>1
  <2>6. Held'
    <3>1. \A h \in Holders : OpenedAs(h)' = OpenedAs(h)
      BY DEF OpenedAs
    <3>2. OpenedAs(<<"link", i>>) = <<"pfd", i>> /\ OpenedAs(<<"pfd", i>>) = <<"pfd", i>>
      BY DEF OpenedAs
    <3>3. \A h \in Holders : fd'[h] # -1 => open[fd'[h]] = OpenedAs(h)
      BY <1>1, <2>1, <2>2, <2>3, <3>2 DEF Held, FdsHeld
    <3>4. \A n \in FdNumbers : open[n] # Free => \E h \in Holders : fd'[h] = n
      BY <1>1, <2>3, <2>5, HoldersAre DEF Held, FdsHeld
    <3>5. FdsHeld'
      BY <3>1, <3>3, <3>4 DEF FdsHeld
    <3> QED
      BY <1>1, <2>3, <3>5 DEF Held
  <2>7. SinglesAt' /\ ProgramsAt'
    BY <1>1, <2>4 DEF SinglesAt, ProgramsAt
  <2>8. LinksAt'
    BY <1>1, <2>1, <2>3, <2>4 DEF LinksAt, LinkAt
  <2>9. LinksHold'
    BY <1>1, <2>1, <2>2, <2>3, <2>4 DEF LinksHold
  <2> QED
    BY <2>6, <2>7, <2>8, <2>9 DEF Descriptors
<1> QED
  BY <1>3, <1>4, <1>5, <1>6 DEF ObtainMain, ObtainLib

\* The steps that close descriptors.
LEMMA CloseStep ==
  ASSUME LoopsWithin, Descriptors, CloseMain \/ CloseLib
  PROVE  Descriptors'
<1>1. Held /\ SinglesAt /\ ProgramsAt /\ LinksAt /\ LinksHold
  BY DEF Descriptors
<1>2. i \in Int /\ Len(probes) \in Int /\ (i <= Len(probes) => i \in Indices)
  BY ProbesBounded, ProbesAssumption DEF LoopsWithin, Indices
<1>8. ASSUME NEW k \in Indices
      PROVE  /\ k \in Int /\ k >= 1
             /\ fd[<<"pfd", k>>] # -1 => LinkAt(k, {"link", "enable", "linked", "close_pfd"})
             /\ fd[<<"link", k>>] # -1 => LinkAt(k, {"enable", "linked"})
             /\ pc # "return1" /\ fd[<<"pfd", k>>] # -1 =>
                  fd[<<"link", k>>] # -1 \/ (k = i /\ pc \in {"link", "close_pfd"})
  BY <1>1, ProbesAssumption DEF LinksAt, LinksHold, Indices
<1> USE DEF Attaching, Attached, Looping, Running, Loaded
<1>3. CASE \/ TmpClose \/ Fclose \/ Parse \/ ParseFails \/ ElfBeginFails \/ ProbeClose
           \/ RingFails \/ RingFree
  <2> DEFINE Kinds == {"tmp", "elf", "btf", "map", "epoll", "csv"}
  <2>1. PICK w \in Kinds :
          /\ \/ Close({<<w, 0>>}, {})
             \/ Close({}, {<<w, 0>>}) /\ pc' = "refused" /\ w = "elf"
          /\ UNCHANGED <<kernel, probes>> /\ pc # "refused"
          /\ \/ w = "tmp" /\ pc = "tmp_close" /\ pc' = "tmp_unlink" /\ i' = i
             \/ w = "csv" /\ pc = "fclose" /\ pc' = "return0" /\ i' = i
             \/ w = "elf" /\ pc = "parse" /\ pc' \in {"load", "return1", "refused"} /\ i' = i
             \/ w = "tmp" /\ pc = "probe_close" /\ pc' = "btf" /\ i' = i
             \/ /\ w = "epoll" /\ pc' = "return1" /\ i' = i
                /\ pc \in {"ring_new", "map_consumer", "map_producer", "epoll_add"}
             \/ w = "epoll" /\ pc = "ring_free" /\ pc' = "destroy" /\ i' = 1
    BY <1>3 DEF TmpClose, Fclose, Parse, ParseFails, ElfBeginFails, ProbeClose, RingFails,
                RingFree, Single
  <2>2. /\ Held'
        /\ \A h \in Holders : fd'[h] = IF h = <<w, 0>> THEN -1 ELSE fd[h]
    <3>1. CASE Close({<<w, 0>>}, {})
      BY <1>1, <2>1, <3>1, ClosePlain, HoldersAre
    <3>2. CASE Close({}, {<<w, 0>>}) /\ pc' = "refused" /\ w = "elf"
      <4>1. {} \in SUBSET Holders /\ {<<w, 0>>} \in SUBSET Holders
        BY HoldersAre
      <4>2. /\ Held'
            /\ \A h \in Holders : fd'[h] = IF h \in {} \cup {<<w, 0>>} THEN -1 ELSE fd[h]
        BY <1>1, <2>1, <3>2, <4>1, CloseHolds
      <4> QED
        BY <4>2
    <3> QED
      BY <2>1, <3>1, <3>2
  <2>3. /\ fd'[<<w, 0>>] = -1
        /\ \A v \in Kinds \ {w} : fd'[<<v, 0>>] = fd[<<v, 0>>]
        /\ \A v \in {"prog", "pfd", "link"} : \A k \in Indices : fd'[<<v, k>>] = fd[<<v, k>>]
    BY <2>2, HoldersAre
  <2>4. SinglesAt'
    BY <1>1, <2>1, <2>3 DEF SinglesAt
  <2>5. ProgramsAt'
    BY <1>1, <2>1, <2>3 DEF ProgramsAt
  <2>6. ASSUME NEW k \in Indices
        PROVE  /\ fd'[<<"pfd", k>>] # -1 =>
                    LinkAt(k, {"link", "enable", "linked", "close_pfd"})'
               /\ fd'[<<"link", k>>] # -1 => LinkAt(k, {"enable", "linked"})'
    BY <1>2, <1>8, <2>1, <2>3 DEF LinkAt, LoopsWithin
  <2>7. LinksHold'
    BY <1>1, <2>1, <2>3 DEF LinksHold
  <2> QED
    BY <2>2, <2>4, <2>5, <2>6, <2>7 DEF Descriptors, LinksAt
<1>4. CASE Unload \/ ObjectClose
  <2>1. PICK closed \in SUBSET Holders :
          /\ Close(closed, {}) /\ UNCHANGED <<i, kernel, probes>>
          /\ Programs \subseteq closed /\ <<"map", 0>> \in closed
          /\ closed \subseteq {<<"map", 0>>, <<"btf", 0>>} \cup Programs
          /\ \/ pc = "unload" /\ pc' = "return1"
             \/ /\ pc = "destroy" /\ pc' = "unlink_c" /\ <<"btf", 0>> \in closed
                /\ i > Len(probes)
    <3>1. {<<"map", 0>>} \cup Programs \in SUBSET Holders
      BY HoldersAre DEF Programs
    <3>2. {<<"map", 0>>, <<"btf", 0>>} \cup Programs \in SUBSET Holders
      BY <3>1, HoldersAre
    <3> QED
      BY <1>4, <3>1, <3>2 DEF Unload, ObjectClose, Single
  <2>2. \A h \in closed : h[1] \notin {"pfd", "link"}
    BY <2>1 DEF Programs
  <2>3. /\ Held'
        /\ \A h \in Holders : fd'[h] = IF h \in closed THEN -1 ELSE fd[h]
    BY <1>1, <2>1, <2>2, ClosePlain
  <2>4. /\ \A v \in {"tmp", "elf", "epoll", "csv"} : fd'[<<v, 0>>] = fd[<<v, 0>>]
        /\ \A v \in {"pfd", "link"} : \A k \in Indices : fd'[<<v, k>>] = fd[<<v, k>>]
    BY <2>1, <2>3, HoldersAre DEF Programs
  <2>5. /\ fd'[<<"map", 0>>] = -1
        /\ \A k \in Indices : fd'[<<"prog", k>>] = -1
        /\ pc = "destroy" => fd'[<<"btf", 0>>] = -1
    BY <2>1, <2>3, HoldersAre DEF Programs
  <2>6. SinglesAt' /\ ProgramsAt'
    BY <1>1, <2>1, <2>4, <2>5 DEF SinglesAt, ProgramsAt
  <2>7. ASSUME NEW k \in Indices
        PROVE  /\ fd'[<<"pfd", k>>] # -1 =>
                    LinkAt(k, {"link", "enable", "linked", "close_pfd"})'
               /\ fd'[<<"link", k>>] # -1 => LinkAt(k, {"enable", "linked"})'
    BY <1>2, <1>8, <2>1, <2>4 DEF LinkAt, LoopsWithin
  <2>8. LinksHold'
    BY <1>1, <2>1, <2>4 DEF LinksHold
  <2> QED
    BY <2>3, <2>6, <2>7, <2>8 DEF Descriptors, LinksAt
<1>5. CASE EnableFails
  <2> USE <1>5 DEF EnableFails
  <2>1. i \in Indices /\ <<"link", i>> \in Holders /\ <<"pfd", i>> \in Holders
    BY <1>2, HoldersAre DEF LoopsWithin
  <2>2. PICK closed \in SUBSET Holders, gone \in SUBSET Holders :
          /\ closed = IF kernel.perf_link THEN {<<"link", i>>} ELSE {}
          /\ gone = {<<"link", i>>}
          /\ Close(closed, gone)
    BY <2>1
  <2>3. /\ \A h \in closed : \A g \in Holders \ {h} : fd[h] # -1 /\ fd[g] = fd[h] =>
             g \in gone /\ g \notin closed
        /\ \A h \in gone \ closed : fd[h] # -1 =>
             \E g \in (Holders \ gone) \cup closed : fd[g] = fd[h]
    <3>1. CASE kernel.perf_link
      BY <1>1, <2>1, <2>2, <3>1, SoleHolder
    <3>2. CASE ~ kernel.perf_link
      <4>1. fd[<<"link", i>>] # -1 => fd[<<"pfd", i>>] = fd[<<"link", i>>]
        BY <1>1, <2>1, <3>2 DEF LinksHold
      <4> QED
        BY <2>1, <2>2, <3>2, <4>1
    <3> QED
      BY <3>1, <3>2
  <2>4. /\ Held'
        /\ \A h \in Holders : fd'[h] = IF h = <<"link", i>> THEN -1 ELSE fd[h]
    <3>1. Close(closed, gone) /\ UNCHANGED kernel /\ pc # "refused"
      BY <2>2
    <3>2. /\ Held'
          /\ \A h \in Holders : fd'[h] = IF h \in closed \cup gone THEN -1 ELSE fd[h]
      BY <1>1, <2>3, <3>1, CloseHolds
    <3> QED
      BY <2>2, <3>2
  <2>5. /\ \A v \in {"tmp", "elf", "btf", "map", "epoll", "csv"} : fd'[<<v, 0>>] = fd[<<v, 0>>]
        /\ \A k \in Indices : fd'[<<"prog", k>>] = fd[<<"prog", k>>]
        /\ \A k \in Indices : fd'[<<"link", k>>] = IF k = i THEN -1 ELSE fd[<<"link", k>>]
        /\ \A k \in Indices : fd'[<<"pfd", k>>] = fd[<<"pfd", k>>]
    BY <2>1, <2>4, HoldersAre
  <2>6. SinglesAt' /\ ProgramsAt'
    BY <1>1, <2>5 DEF SinglesAt, ProgramsAt
  <2>7. ASSUME NEW k \in Indices
        PROVE  /\ fd'[<<"pfd", k>>] # -1 =>
                    LinkAt(k, {"link", "enable", "linked", "close_pfd"})'
               /\ fd'[<<"link", k>>] # -1 => LinkAt(k, {"enable", "linked"})'
    BY <1>2, <1>8, <2>1, <2>5 DEF LinkAt, LoopsWithin
  <2>8. LinksHold'
    BY <1>1, <2>1, <2>5 DEF LinksHold
  <2> QED
    BY <2>4, <2>6, <2>7, <2>8 DEF Descriptors, LinksAt
<1>6. CASE ClosePfd
  <2> USE <1>6 DEF ClosePfd
  <2>1. i \in Indices /\ <<"link", i>> \in Holders /\ <<"pfd", i>> \in Holders
    BY <1>2, HoldersAre DEF LoopsWithin
  <2>2. ASSUME NEW k \in Indices, k = i PROVE fd[<<"link", k>>] = -1
    <3>1. ~ LinkAt(k, {"enable", "linked"})
      BY <1>2, <2>2 DEF LinkAt
    <3> QED
      BY <1>8, <3>1
  <2>3. \A g \in Holders \ {<<"pfd", i>>} :
          fd[<<"pfd", i>>] # -1 => fd[g] # fd[<<"pfd", i>>]
    BY <1>1, <2>1, <2>2, SoleHolder
  <2>4. /\ Held'
        /\ \A h \in Holders : fd'[h] = IF h = <<"pfd", i>> THEN -1 ELSE fd[h]
    <3>1. {} \in SUBSET Holders /\ {<<"pfd", i>>} \in SUBSET Holders
      BY <2>1
    <3>2. /\ Held'
          /\ \A h \in Holders : fd'[h] = IF h \in {<<"pfd", i>>} \cup {} THEN -1 ELSE fd[h]
      BY <1>1, <2>3, <3>1, CloseHolds
    <3> QED
      BY <3>2
  <2>5. /\ \A v \in {"tmp", "elf", "btf", "map", "epoll", "csv"} : fd'[<<v, 0>>] = fd[<<v, 0>>]
        /\ \A k \in Indices : fd'[<<"prog", k>>] = fd[<<"prog", k>>]
        /\ \A k \in Indices : fd'[<<"pfd", k>>] = IF k = i THEN -1 ELSE fd[<<"pfd", k>>]
        /\ \A k \in Indices : fd'[<<"link", k>>] = fd[<<"link", k>>]
    BY <2>1, <2>4, HoldersAre
  <2>6. SinglesAt' /\ ProgramsAt'
    BY <1>1, <2>5 DEF SinglesAt, ProgramsAt
  <2>7. ASSUME NEW k \in Indices
        PROVE  /\ fd'[<<"pfd", k>>] # -1 =>
                    LinkAt(k, {"link", "enable", "linked", "close_pfd"})'
               /\ fd'[<<"link", k>>] # -1 => LinkAt(k, {"enable", "linked"})'
    BY <1>2, <1>8, <2>1, <2>5 DEF LinkAt, LoopsWithin
  <2>8. LinksHold'
    BY <1>1, <2>1, <2>2, <2>5 DEF LinksHold
  <2> QED
    BY <2>4, <2>6, <2>7, <2>8 DEF Descriptors, LinksAt
<1>7. CASE Detach
  <2> USE <1>7 DEF Detach
  <2>1. i \in Indices /\ <<"link", i>> \in Holders /\ <<"pfd", i>> \in Holders
    BY <1>2, HoldersAre
  <2>2. PICK closed \in SUBSET Holders :
          /\ closed = DetachCloses(i)
          /\ closed \subseteq LinkFds(i) /\ LinkFds(i) \in SUBSET Holders
          /\ <<"link", i>> \in closed
          /\ Close(closed, LinkFds(i))
    BY <2>1 DEF DetachCloses, LinkFds
  <2>3. /\ \A h \in closed : \A g \in Holders \ {h} : fd[h] # -1 /\ fd[g] = fd[h] =>
             g \in LinkFds(i) /\ g \notin closed
        /\ \A h \in LinkFds(i) \ closed : fd[<<"link", i>>] = fd[h]
    BY <1>1, <2>1, <2>2, SoleHolder DEF LinkFds, DetachCloses
  <2>4. /\ Held'
        /\ \A h \in Holders : fd'[h] = IF h \in LinkFds(i) THEN -1 ELSE fd[h]
    <3>1. /\ Held'
          /\ \A h \in Holders : fd'[h] = IF h \in closed \cup LinkFds(i) THEN -1 ELSE fd[h]
      BY <1>1, <2>2, <2>3, CloseHolds
    <3> QED
      BY <2>2, <3>1
  <2>5. /\ \A v \in {"tmp", "elf", "btf", "map", "epoll", "csv"} : fd'[<<v, 0>>] = fd[<<v, 0>>]
        /\ \A k \in Indices : fd'[<<"prog", k>>] = fd[<<"prog", k>>]
        /\ \A v \in {"pfd", "link"} : \A k \in Indices :
             fd'[<<v, k>>] = IF k = i THEN -1 ELSE fd[<<v, k>>]
    BY <2>1, <2>4, HoldersAre DEF LinkFds
  <2>6. SinglesAt' /\ ProgramsAt'
    BY <1>1, <2>5 DEF SinglesAt, ProgramsAt
  <2>7. ASSUME NEW k \in Indices
        PROVE  /\ fd'[<<"pfd", k>>] # -1 =>
                    LinkAt(k, {"link", "enable", "linked", "close_pfd"})'
               /\ fd'[<<"link", k>>] # -1 => LinkAt(k, {"enable", "linked"})'
    BY <1>2, <1>8, <2>1, <2>5 DEF LinkAt, LoopsWithin
  <2>8. LinksHold'
    BY <1>1, <2>1, <2>5 DEF LinksHold
  <2> QED
    BY <2>4, <2>6, <2>7, <2>8 DEF Descriptors, LinksAt
<1> QED
  BY <1>3, <1>4, <1>5, <1>6, <1>7 DEF CloseMain, CloseLib

LEMMA DescriptorsInit == Init => Descriptors
<1> SUFFICES ASSUME Init PROVE Descriptors
  OBVIOUS
<1>1. \A h \in Holders : fd[h] = -1
  BY DEF Init, LibInit
<1>2. /\ \A w \in {"tmp", "elf", "btf", "map", "epoll", "csv"} : fd[<<w, 0>>] = -1
      /\ \A w \in {"prog", "pfd", "link"} : \A k \in Indices : fd[<<w, k>>] = -1
  BY <1>1, HoldersAre
<1>3. Held
  BY <1>1 DEF Init, LibInit, Held, FdsHeld
<1>4. SinglesAt /\ ProgramsAt /\ LinksAt /\ LinksHold
  BY <1>2 DEF Init, SinglesAt, ProgramsAt, LinksAt, LinksHold
<1> QED
  BY <1>3, <1>4 DEF Descriptors

\* Nothing is held after the kernel took it back.
LEMMA EndsStep ==
  ASSUME Descriptors, Ends
  PROVE  Descriptors'
<1>1. /\ open' = [n \in FdNumbers |-> Free] /\ fd' = [h \in Holders |-> -1]
      /\ kernel' \in [legacy : BOOLEAN, perf_link : BOOLEAN] /\ misclosed' = FALSE
      /\ pc' \notin {"link", "enable", "linked", "close_pfd"}
  BY DEF Descriptors, Held, Ends, Return, Killed, KernelTakesBack
<1>2. \A h \in Holders : fd'[h] = -1
  BY <1>1
<1>3. /\ \A w \in {"tmp", "elf", "btf", "map", "epoll", "csv"} : fd'[<<w, 0>>] = -1
      /\ \A w \in {"prog", "pfd", "link"} : \A k \in Indices : fd'[<<w, k>>] = -1
  BY <1>2, HoldersAre
<1>4. Held'
  BY <1>1, <1>2 DEF Held, FdsHeld
<1>5. (SinglesAt /\ ProgramsAt /\ LinksAt /\ LinksHold)'
  BY <1>1, <1>3 DEF SinglesAt, ProgramsAt, LinksAt, LinksHold
<1> QED
  BY <1>4, <1>5 DEF Descriptors

LEMMA DescriptorsStep == LoopsWithin /\ Descriptors /\ [Next]_vars => Descriptors'
<1> SUFFICES ASSUME LoopsWithin, Descriptors, [Next]_vars PROVE Descriptors'
  OBVIOUS
<1>1. CASE UNCHANGED vars
  BY <1>1 DEF vars, libVars, resources, Descriptors, Held, FdsHeld, OpenedAs, SinglesAt,
              ProgramsAt, LinksAt, LinkAt, LinksHold
<1>2. CASE Next
  BY <1>2, NextGroups, PlainStep, ObtainStep, CloseStep, EndsStep
<1> QED
  BY <1>1, <1>2
-----------------------------------------------------------------------------
(***************************************************************************)
(* Events.                                                                 *)
(***************************************************************************)
\* An event whose probe has no descriptor can be removed.
LEMMA NotBusy ==
  ASSUME Held, pc # "refused", NEW k \in Indices,
         fd[<<"pfd", k>>] = -1, fd[<<"link", k>>] = -1
  PROVE  ~ EventBusy(k)
<1> SUFFICES ASSUME NEW n \in FdNumbers, open[n] \in {<<"pfd", k>>, <<"link", k>>}
             PROVE  FALSE
  BY DEF EventBusy
<1>1. open[n] # Free
  BY DEF Free
<1>2. PICK h \in Holders : fd[h] = n
  BY <1>1 DEF Held, FdsHeld
<1>3. n # -1 /\ open[n] = OpenedAs(h) /\ h = <<h[1], h[2]>>
  BY <1>2, HoldersAre DEF Held, FdsHeld
<1>4. h = <<"pfd", k>> \/ h = <<"link", k>>
  BY <1>3 DEF OpenedAs
<1> QED
  BY <1>2, <1>3, <1>4

\* The steps that are not about a link leave all links alone.
LEMMA LinksUntouched ==
  ASSUME Held, NEW k \in Indices,
         \/ Prepare \/ Measure \/ Outside \/ Load \/ AttachOne \/ RingAndLinks
         \/ ObtainMain \/ CloseMain
         \/ ObtainLib /\ ~ LinkCreate /\ ~ SetBpf
         \/ CloseLib /\ ~ EnableFails /\ ~ Detach
  PROVE  fd'[<<"link", k>>] = fd[<<"link", k>>]
<1>1. <<"link", k>> \in Holders
  BY HoldersAre
<1>2. ASSUME NEW h, Obtain(h), h # <<"link", k>> PROVE fd'[<<"link", k>>] = fd[<<"link", k>>]
  <2>1. PICK n : fd' = [fd EXCEPT ![h] = n]
    BY <1>2 DEF Obtain
  <2> QED
    BY <1>1, <1>2, <2>1 DEF Held
<1>3. ASSUME NEW closed, NEW gone, Close(closed, gone), <<"link", k>> \notin closed \cup gone
      PROVE  fd'[<<"link", k>>] = fd[<<"link", k>>]
  BY <1>1, <1>3 DEF Close
<1>4. CASE Prepare \/ Measure \/ Outside \/ Load \/ AttachOne \/ RingAndLinks
  <2>1. UNCHANGED fd
    BY <1>4
    DEF Prepare, ArgsOk, ArgsBad, ParseConfig, ConfigRejected, PidFound, PidNotFound,
        MkstempFails, TmpUnlink, Generate, GenerateFails, CopyBegins, CopyWrites,
        CopyFront, CopyBack, CopyCutShort, CopyNotBegun, Compile, CompileFails, Measure,
        AttachBegins, ResolveFails, AttachUnknown, PushLink, NoLink, AttachEnds, NoCsv,
        InstallHandlers, PollBegins, PollReads, PollReturns, LoopEnds, Results, UnlinkC,
        UnlinkO, Outside, SigHandler, RecordsCome, OtherRun, OtherCopyBegins,
        OtherCopyWrites, OtherCopyCutShort, Load, OpenElfFails, LoadFailsEarly,
        LoadBtfFails, Relocate, CreateMapOrRelocateFails, TryAgain, LoadProgFails,
        LoadEnds, AttachOne, AddEvent, AddEventFails, EventId, EventIdFails,
        PerfOpenFails, LinkFails, Enable, CleanLegacy, RingAndLinks, MapConsumer,
        MapProducer, EpollAdd, RemoveLegacy, DetachNothing, Goto, Unlink, resources,
        libVars
  <2> QED
    BY <2>1
<1>5. CASE ObtainMain \/ (ObtainLib /\ ~ LinkCreate /\ ~ SetBpf)
  <2>1. \E h : Obtain(h) /\ h # <<"link", k>>
    BY <1>5 DEF ObtainMain, Mkstemp, OpenCsv, ObtainLib, OpenElf, ProbeLoading, LoadBtf,
                CreateMap, LoadProg, PerfOpen, EpollCreate, Single
  <2> QED
    BY <1>2, <2>1
<1>6. CASE CloseMain \/ (CloseLib /\ ~ EnableFails /\ ~ Detach)
  <2>1. \E closed, gone : Close(closed, gone) /\ <<"link", k>> \notin closed \cup gone
    BY <1>6 DEF CloseMain, TmpClose, Fclose, CloseLib, Parse, ParseFails, ElfBeginFails,
                ProbeClose, Unload, ClosePfd, RingFails, RingFree, ObjectClose, Single,
                Programs
  <2> QED
    BY <1>3, <2>1
<1> QED
  BY <1>4, <1>5, <1>6

\* A step that changes neither links nor events, nor which event is without a
\* link, keeps the events those of the links.
LEMMA EventsKept ==
  ASSUME EventsAt, UNCHANGED <<kernel, probes, events, stuck>>,
         \A k \in Indices : fd'[<<"link", k>>] = fd[<<"link", k>>],
         pc' \notin {"return1", "ended0", "ended1"} =>
           /\ pc \notin {"return1", "ended0", "ended1"}
           /\ pc \in WithEvent <=> pc' \in WithEvent
           /\ pc \in WithEvent => i' = i,
         pc' \in {"add_event", "event_id"} => NeedsEvent(i)'
  PROVE  EventsAt'
<1>1. LinkEvents' = LinkEvents
  BY DEF LinkEvents, NeedsEvent
<1>2. pc' \notin {"return1", "ended0", "ended1"} => Halfway' = Halfway
  BY DEF Halfway, NeedsEvent
<1> QED
  BY <1>1, <1>2 DEF EventsAt

LEMMA EventsStep ==
  ASSUME LoopsWithin, Descriptors, EventsAt, Next
  PROVE  EventsAt'
<1> USE DEF tracefs, libVars
<1>1. Held /\ SinglesAt /\ ProgramsAt /\ LinksAt /\ LinksHold
  BY DEF Descriptors
<1>2. i \in Int /\ Len(probes) \in Int /\ (i <= Len(probes) => i \in Indices)
  BY ProbesBounded, ProbesAssumption DEF LoopsWithin, Indices
<1>3. CASE (Prepare /\ ~ ParseConfig) \/ (Measure /\ ~ AttachBegins)
  <2>1. \A k \in Indices : fd'[<<"link", k>>] = fd[<<"link", k>>]
    BY <1>1, <1>3, LinksUntouched
  <2>2. /\ UNCHANGED <<kernel, probes, events, stuck>>
        /\ pc' \notin {"ended0", "ended1"} /\ pc \notin {"return1", "ended0", "ended1"}
        /\ pc \notin WithEvent /\ pc' \notin WithEvent \cup {"add_event"}
    BY <1>3
    DEF Prepare, ArgsOk, ArgsBad, ParseConfig, ConfigRejected, PidFound, PidNotFound,
        MkstempFails, TmpUnlink, Generate, GenerateFails, CopyBegins, CopyWrites,
        CopyFront, CopyBack, CopyCutShort, CopyNotBegun, Compile, CompileFails, Measure,
        AttachBegins, ResolveFails, AttachUnknown, PushLink, NoLink, AttachEnds, NoCsv,
        InstallHandlers, PollBegins, PollReads, PollReturns, LoopEnds, Results, UnlinkC,
        UnlinkO, Goto, Unlink, WithEvent
  <2> QED
    BY <2>1, <2>2, EventsKept DEF WithEvent
<1>4. CASE Load \/ ObtainMain \/ CloseMain
  <2>1. \A k \in Indices : fd'[<<"link", k>>] = fd[<<"link", k>>]
    BY <1>1, <1>4, LinksUntouched
  <2>2. /\ UNCHANGED <<kernel, probes, events, stuck>>
        /\ pc' \notin {"ended0", "ended1"} /\ pc \notin {"return1", "ended0", "ended1"}
        /\ pc \notin WithEvent /\ pc' \notin WithEvent \cup {"add_event"}
    BY <1>4
    DEF Load, OpenElfFails, LoadFailsEarly, LoadBtfFails, Relocate,
        CreateMapOrRelocateFails, TryAgain, LoadProgFails, LoadEnds, ObtainMain, Mkstemp,
        OpenCsv, CloseMain, TmpClose, Fclose, WithEvent
  <2> QED
    BY <2>1, <2>2, EventsKept DEF WithEvent
<1>5. CASE \/ AddEventFails \/ EventId \/ LinkFails
           \/ MapConsumer \/ MapProducer \/ EpollAdd \/ DetachNothing
  <2>1. \A k \in Indices : fd'[<<"link", k>>] = fd[<<"link", k>>]
    BY <1>1, <1>5, LinksUntouched DEF AttachOne, RingAndLinks
  <2>2. /\ UNCHANGED <<kernel, probes, events, stuck>>
        /\ pc' \notin {"return1", "ended0", "ended1", "add_event", "event_id"}
        /\ pc \notin {"return1", "ended0", "ended1"}
        /\ pc \in WithEvent <=> pc' \in WithEvent
        /\ pc \in WithEvent => i' = i
    BY <1>5
    DEF AddEventFails, EventId, LinkFails, MapConsumer, MapProducer, EpollAdd,
        DetachNothing, WithEvent
  <2> QED
    BY <2>1, <2>2, EventsKept
<1>6. CASE (ObtainLib /\ ~ LinkCreate /\ ~ SetBpf) \/ (CloseLib /\ ~ EnableFails /\ ~ Detach)
  <2>1. \A k \in Indices : fd'[<<"link", k>>] = fd[<<"link", k>>]
    BY <1>1, <1>6, LinksUntouched
  <2>2. /\ UNCHANGED <<kernel, probes, events, stuck>>
        /\ pc' \notin {"ended0", "ended1", "add_event", "event_id"}
        /\ pc \notin {"return1", "ended0", "ended1"}
        /\ pc' # "return1" => (pc \in WithEvent <=> pc' \in WithEvent)
        /\ pc \in WithEvent => i' = i
    BY <1>6
    DEF ObtainLib, OpenElf, ProbeLoading, LoadBtf, CreateMap, LoadProg, PerfOpen,
        EpollCreate, CloseLib, Parse, ParseFails, ElfBeginFails, ProbeClose, Unload,
        ClosePfd, RingFails, RingFree, ObjectClose, WithEvent
  <2> QED
    BY <2>1, <2>2, EventsKept
<1>7. CASE Outside
  <2>1. UNCHANGED <<pc, i, kernel, probes, events, stuck, fd>>
    BY <1>7 DEF Outside, SigHandler, RecordsCome, OtherRun, OtherCopyBegins,
        OtherCopyWrites, OtherCopyCutShort, libVars, resources
  <2> QED
    BY <2>1 DEF EventsAt, LinkEvents, Halfway, NeedsEvent
<1>8. CASE Ends
  BY <1>8 DEF EventsAt, Ends, Return, Killed, KernelTakesBack
<1>9. CASE ParseConfig
  <2>1. pc = "config" /\ pc' = "pid" /\ UNCHANGED <<kernel, events, stuck, fd>>
    BY <1>9 DEF ParseConfig, resources
  <2>2. \A k \in Indices : fd[<<"link", k>>] = -1
    BY <1>1, <2>1 DEF LinksAt, LinkAt, Attaching, Attached, Looping, Running
  <2>3. events = stuck
    BY <2>1, <2>2 DEF EventsAt, LinkEvents, Halfway, WithEvent
  <2> QED
    BY <2>1, <2>2, <2>3 DEF EventsAt, LinkEvents, Halfway, WithEvent
<1>10. CASE AttachBegins
  <2>1. /\ pc = "attach" /\ UNCHANGED <<i, kernel, probes, events, stuck, fd>>
        /\ pc' = IF NeedsEvent(i) THEN "add_event" ELSE "perf_open"
    BY <1>10 DEF AttachBegins, resources
  <2>2. LinkEvents' = LinkEvents
    BY <2>1 DEF LinkEvents, NeedsEvent
  <2>3. Halfway = {} /\ Halfway' = {}
    BY <2>1 DEF Halfway, NeedsEvent, WithEvent
  <2>4. pc' = "add_event" => NeedsEvent(i)'
    BY <2>1 DEF NeedsEvent
  <2> QED
    BY <2>1, <2>2, <2>3, <2>4 DEF EventsAt
<1>11. CASE AddEvent
  <2>1. /\ pc = "add_event" /\ pc' = "event_id" /\ UNCHANGED <<i, kernel, probes, stuck, fd>>
        /\ events' = events \cup {i} /\ NeedsEvent(i) /\ i \in Indices
    BY <1>2, <1>11 DEF AddEvent, resources, EventsAt, LoopsWithin, Attaching
  <2>2. LinkEvents' = LinkEvents /\ NeedsEvent(i)'
    BY <2>1 DEF LinkEvents, NeedsEvent
  <2>3. Halfway = {} /\ Halfway' = {i}
    BY <2>1 DEF Halfway, NeedsEvent, WithEvent
  <2> QED
    BY <2>1, <2>2, <2>3 DEF EventsAt
<1>12. CASE EventIdFails \/ PerfOpenFails \/ CleanLegacy \/ RemoveLegacy
  <2>1. /\ pc \in {"event_id", "perf_open", "clean_legacy", "remove_event"}
        /\ pc' \in {"no_link", "destroy"}
        /\ UNCHANGED <<kernel, probes, fd>> /\ RemoveEvent(i) /\ i \in Indices
    BY <1>2, <1>12 DEF EventIdFails, PerfOpenFails, CleanLegacy, RemoveLegacy, resources,
                       LoopsWithin, Attaching
  <2>2. ASSUME NEW k \in Indices, k = i
        PROVE  fd[<<"pfd", k>>] = -1 /\ fd[<<"link", k>>] = -1
    <3>1. /\ ~ LinkAt(k, {"link", "enable", "linked", "close_pfd"})
          /\ ~ LinkAt(k, {"enable", "linked"})
      BY <1>2, <2>1, <2>2 DEF LinkAt
    <3> QED
      BY <1>1, <3>1 DEF LinksAt
  <2>3. \/ events' = events \ {i} /\ stuck' = stuck \cap events'
        \/ events' = events /\ stuck' = stuck \cup (events \cap {i})
    BY <1>1, <2>1, <2>2, NotBusy DEF RemoveEvent
  <2>4. LinkEvents' = LinkEvents /\ i \notin LinkEvents
    BY <2>1, <2>2 DEF LinkEvents, NeedsEvent
  <2>5. Halfway \subseteq {i} /\ Halfway' = {}
    BY <2>1 DEF Halfway, WithEvent
  <2> QED
    BY <2>1, <2>3, <2>4, <2>5 DEF EventsAt
<1>13. CASE Enable
  <2>1. /\ pc = "enable" /\ pc' = "linked" /\ UNCHANGED <<i, kernel, probes, fd, events, stuck>>
        /\ i \in Indices
    BY <1>2, <1>13 DEF Enable, resources, LoopsWithin, Attaching
  <2>2. fd[<<"link", i>>] # -1
    BY <1>1, <2>1 DEF LinksHold
  <2>3. LinkEvents' = LinkEvents /\ Halfway \subseteq LinkEvents /\ Halfway' = {}
    BY <2>1, <2>2 DEF LinkEvents, Halfway, NeedsEvent, WithEvent
  <2> QED
    BY <2>1, <2>3 DEF EventsAt
<1>14. CASE LinkCreate \/ SetBpf
  <2>1. /\ pc = "link" /\ pc' = "enable" /\ UNCHANGED <<i, kernel, probes, events, stuck>>
        /\ i \in Indices
    BY <1>2, <1>14 DEF LinkCreate, SetBpf, LoopsWithin, Attaching
  <2>2. ASSUME NEW k \in Indices, k # i PROVE fd'[<<"link", k>>] = fd[<<"link", k>>]
    <3>1. <<"link", k>> \in Holders /\ <<"link", k>> # <<"link", i>>
      BY <2>2, HoldersAre
    <3>2. PICK n : fd' = [fd EXCEPT ![<<"link", i>>] = n]
      BY <1>14 DEF LinkCreate, SetBpf, Obtain
    <3> QED
      BY <1>1, <3>1, <3>2 DEF Held
  <2>3. LinkEvents' \cup Halfway' = LinkEvents \cup Halfway
    BY <2>1, <2>2 DEF LinkEvents, Halfway, NeedsEvent, WithEvent
  <2> QED
    BY <2>1, <2>3 DEF EventsAt
<1>15. CASE EnableFails \/ Detach
  <2>1. /\ \/ pc = "enable" /\ pc' = "close_pfd"
           \/ pc = "destroy" /\ pc' = "remove_event"
        /\ UNCHANGED <<i, kernel, probes, events, stuck>>
        /\ i \in Indices
    BY <1>2, <1>15 DEF EnableFails, Detach, LoopsWithin, Attaching
  <2>2. fd[<<"link", i>>] # -1
    BY <1>1, <1>15 DEF LinksHold, EnableFails, Detach
  <2>3. ASSUME NEW k \in Indices, k # i PROVE fd'[<<"link", k>>] = fd[<<"link", k>>]
    <3>1. <<"link", k>> \in Holders /\ <<"link", k>> \notin LinkFds(i)
      BY <2>3, HoldersAre DEF LinkFds
    <3>2. \E closed, gone : /\ Close(closed, gone)
                            /\ closed \subseteq LinkFds(i) /\ gone \subseteq LinkFds(i)
      <4>1. CASE EnableFails
        BY <4>1 DEF EnableFails, LinkFds
      <4>2. CASE Detach
        BY <4>2 DEF Detach, DetachCloses, LinkFds
      <4> QED
        BY <1>15, <4>1, <4>2
    <3> QED
      BY <3>1, <3>2 DEF Close
  <2>4. LinkEvents' \cup Halfway' = LinkEvents \cup Halfway
    BY <2>1, <2>2, <2>3 DEF LinkEvents, Halfway, NeedsEvent, WithEvent
  <2> QED
    BY <2>1, <2>4 DEF EventsAt
<1> QED
  BY <1>3, <1>4, <1>5, <1>6, <1>7, <1>8, <1>9, <1>10, <1>11, <1>12, <1>13, <1>14, <1>15,
     NextGroups
  DEF AttachOne, RingAndLinks
-----------------------------------------------------------------------------
(***************************************************************************)
(* Theorems.                                                               *)
(***************************************************************************)
LEMMA EventsInit == Init /\ Descriptors => EventsAt
<1> SUFFICES ASSUME Init, Descriptors PROVE EventsAt
  OBVIOUS
<1>1. \A k \in Indices : fd[<<"link", k>>] = -1
  BY HoldersAre DEF Init, LibInit
<1> QED
  BY <1>1 DEF Init, LibInit, EventsAt, LinkEvents, Halfway, WithEvent

\* The inductive invariant holds at every step of every run.
THEOREM ProcessInvariant == Spec => []ProcessInv
<1>1. Init => ProcessInv
  BY ControlInit, DescriptorsInit, EventsInit DEF ProcessInv
<1>2. ProcessInv /\ [Next]_vars => ProcessInv'
  <2> SUFFICES ASSUME ProcessInv, [Next]_vars PROVE ProcessInv'
    OBVIOUS
  <2>1. Control /\ LoopsWithin /\ Descriptors /\ EventsAt
    BY DEF ProcessInv, Control
  <2>2. Control' /\ Descriptors'
    BY <2>1, ControlStep, DescriptorsStep
  <2>3. EventsAt'
    <3>1. CASE UNCHANGED vars
      BY <2>1, <3>1
      DEF vars, libVars, resources, tracefs, EventsAt, LinkEvents, Halfway, NeedsEvent
    <3>2. CASE Next
      BY <2>1, <3>2, EventsStep
    <3> QED
      BY <3>1, <3>2
  <2> QED
    BY <2>2, <2>3 DEF ProcessInv
<1> QED
  BY <1>1, <1>2, PTL DEF Spec

\* Every variable has its type, and the log is only doubled while its size fits
\* (libbpf.c:6832): TypeOK of Process.
THEOREM ProcessTypeCorrect == Spec => []TypeOK
<1>1. ProcessInv => TypeOK
  <2> SUFFICES ASSUME ProcessInv PROVE TypeOK
    OBVIOUS
  <2>1. LoopsWithin /\ FilesAt /\ Flags /\ Held
        /\ stuck \subseteq events /\ events \subseteq Indices
    BY DEF ProcessInv, Control, Descriptors, EventsAt
  <2>2. i \in 1 .. MaxProbes + 1 /\ Len(probes) <= MaxProbes
    BY <2>1, ProbesBounded, ProbesAssumption DEF LoopsWithin
  <2>3. {override_pid, vmlinux_src, handling, exiting, records, misclosed} \subseteq BOOLEAN
    BY <2>1 DEF Flags, Held
  <2> QED
    BY <2>1, <2>2, <2>3 DEF TypeOK, LoopsWithin, FilesAt, Held
<1> QED
  BY <1>1, ProcessInvariant, PTL

\* Whatever has failed, also where main() then returns, the descriptors that are
\* open are those somebody holds, and nobody holds one that was closed or is
\* another's; the one exception is that of an object file elf_begin refuses
\* (libbpf.c:1294, 1337, 5254, 7696, 9766, 10121, ringbuf.c:143): FdsHeld of
\* Process.
THEOREM ProcessFdsHeld == Spec => []FdsHeld
<1>1. ProcessInv => FdsHeld
  BY DEF ProcessInv, Descriptors, Held
<1> QED
  BY <1>1, ProcessInvariant, PTL

\* No descriptor is closed twice, also where the two of a link are one
\* (libbpf.c:9671-9673): ClosesOwn of Process.
THEOREM ProcessClosesOwn == Spec => []ClosesOwn
<1>1. ProcessInv => ClosesOwn
  BY DEF ProcessInv, Descriptors, Held, ClosesOwn
<1> QED
  BY <1>1, ProcessInvariant, PTL

\* Between two calls of the library the events in tracefs are those of the
\* links and those whose removal failed, whichever attempts to attach failed
\* before (libbpf.c:10010, 10140, 10833): EventsAreLinks of Process.
THEOREM ProcessEventsAreLinks == Spec => []EventsAreLinks
<1>1. ProcessInv => EventsAreLinks
  <2> SUFFICES ASSUME ProcessInv, pc \in BetweenCalls PROVE events = LinkEvents \cup stuck
    BY DEF EventsAreLinks, LinkEvents
  <2>1. Halfway = {}
    BY DEF BetweenCalls, Halfway, WithEvent
  <2> QED
    BY <2>1 DEF ProcessInv, EventsAt, BetweenCalls
<1> QED
  BY <1>1, ProcessInvariant, PTL

\* A run that comes to its end has given back, before the kernel does, all
\* descriptors, pages and files but the shared copy of vmlinux.h, and all events
\* but those whose removal failed (lensx.cpp:378-389, bpf_gen.cpp:95-98,
\* libbpf.c:9671-9684): CleanReturn of Process.
THEOREM ProcessCleanReturn == Spec => []CleanReturn
<1>1. ProcessInv => CleanReturn
  <2> SUFFICES ASSUME ProcessInv, pc = "return0" PROVE CleanReturn
    BY DEF CleanReturn
  <2>1. FilesAt /\ Held /\ SinglesAt /\ ProgramsAt /\ LinksAt /\ EventsAt
    BY DEF ProcessInv, Control, Descriptors
  <2>2. /\ \A w \in {"tmp", "elf", "btf", "map", "epoll", "csv"} : fd[<<w, 0>>] = -1
        /\ \A w \in {"prog", "pfd", "link"} : \A k \in Indices : fd[<<w, k>>] = -1
    BY <2>1
    DEF SinglesAt, ProgramsAt, LinksAt, LinkAt, Attaching, Attached, Looping, Running,
        Loaded
  <2>3. \A h \in Holders : fd[h] = -1
    BY <2>2 DEF Holders
  <2>4. \A n \in FdNumbers : open[n] = Free
    BY <2>1, <2>3, HoldersAre DEF Held, FdsHeld
  <2>5. events = stuck
    BY <2>1, <2>2 DEF EventsAt, LinkEvents, Halfway, WithEvent
  <2>6. mapped = {} /\ files = {} /\ header # {}
    BY <2>1 DEF FilesAt, BeforeSource, BeforeCompiled, Looping
  <2> QED
    BY <2>4, <2>5, <2>6 DEF CleanReturn, TmpFiles
<1> QED
  BY <1>1, ProcessInvariant, PTL

\* For any number of runs that share the header, however their copies overlap:
\* once the copy that truncated it last is written to its end, it is whole
\* (bpf_gen.cpp:93-98): HeaderMended of Process.
THEOREM ProcessHeaderMended == Spec => []HeaderMended
<1>1. ProcessInv => HeaderMended
  BY DEF ProcessInv, Control, HeaderAt
<1> QED
  BY <1>1, ProcessInvariant, PTL
-----------------------------------------------------------------------------
(***************************************************************************)
(* Process implements Lifecycle.                                           *)
(***************************************************************************)
Early == {"args", "config", "pid", "mkstemp", "tmp_close", "tmp_unlink", "generate", "copy",
          "copy_front", "copy_back", "compile", "open", "parse", "load", "probe_close", "btf",
          "map", "relocate", "prog", "unload"}

\* A step that ends in failure.
LEMMA LifeAborts ==
  ASSUME LoopsWithin, pc \notin Ending \cup Looping,
         pc' \in {"return1", "refused", "ended1"}, UNCHANGED cfg
  PROVE  [Life!Next]_Life!vars
<1>1. Phase \in {"attach", "aborted"} /\ Phase' = "aborted" /\ Dealt' = 0 /\ Linked' = {}
  BY DEF Phase, Dealt, Linked, Ending, Attaching, Attached, Looping
<1>2. CASE Phase = "attach"
  BY <1>1, <1>2 DEF Life!Next, Life!Abort
<1>3. CASE Phase = "aborted"
  <2>1. Dealt = 0 /\ Linked = {}
    BY <1>3 DEF Phase, Dealt, Linked, Attaching, Attached, Looping
  <2> QED
    BY <1>1, <1>3, <2>1 DEF Life!vars
<1> QED
  BY <1>1, <1>2, <1>3

\* A step before the first probe, or after the loop.
LEMMA LifeIdle ==
  ASSUME UNCHANGED cfg,
         \/ pc \in Early /\ pc' \in Early
         \/ pc \in Ending /\ pc' \in Ending
  PROVE  UNCHANGED Life!vars
  BY DEF Life!vars, Phase, Dealt, Linked, Early, Ending, Attaching, Attached, Looping

\* A step within an attempt, or between the last probe and the loop.
LEMMA LifeStays ==
  ASSUME UNCHANGED <<i, cfg>>,
         LET Within == (Attaching \ {"linked", "no_link"}) \cup Attached
         IN  pc \in Within /\ pc' \in Within,
         \A k \in Indices : k < i => fd'[<<"link", k>>] = fd[<<"link", k>>]
  PROVE  UNCHANGED Life!vars
<1>1. Linked' = Linked
  BY DEF Linked, Attaching, Attached, Looping
<1>2. Phase' = Phase /\ Dealt' = Dealt
  BY DEF Phase, Dealt, Attaching, Attached, Looping
<1> QED
  BY <1>1, <1>2 DEF Life!vars

\* Every step of a run is one of Lifecycle, or none.
LEMMA LifeStep ==
  ASSUME ProcessInv, Next
  PROVE  [Life!Next]_Life!vars
<1>1. LoopsWithin /\ Held /\ LinksAt /\ LinksHold
  BY DEF ProcessInv, Control, Descriptors
<1>2. /\ i \in Int /\ (i <= Len(probes) => i \in Indices)
      /\ \A k \in Indices : k \in Int /\ k >= 1
  BY <1>1, ProbesBounded, ProbesAssumption DEF LoopsWithin, Indices
<1>3. CASE \/ Prepare \/ Mkstemp \/ TmpClose
           \/ Load /\ UNCHANGED mainVars /\ ~ LoadEnds
  <2>1. pc \in Early /\ pc' \in Early \cup {"return1"} /\ UNCHANGED cfg
    BY <1>3
    DEF Prepare, ArgsOk, ArgsBad, ParseConfig, ConfigRejected, PidFound, PidNotFound,
        MkstempFails, TmpUnlink, Generate, GenerateFails, CopyBegins, CopyWrites,
        CopyFront, CopyBack, CopyCutShort, CopyNotBegun, Compile, CompileFails, Mkstemp,
        TmpClose, Load, OpenElfFails, LoadFailsEarly, LoadBtfFails, Relocate,
        CreateMapOrRelocateFails, TryAgain, LoadProgFails, Goto, Unlink, mainVars, Early
  <2>2. pc \notin Ending \cup Looping
    BY <2>1 DEF Early, Ending, Looping
  <2> QED
    BY <1>1, <2>1, <2>2, LifeAborts, LifeIdle
<1>4. CASE LoadEnds /\ UNCHANGED mainVars
  <2>1. Linked = {} /\ Linked' = {}
    BY <1>2, <1>4 DEF LoadEnds, Linked, Attaching, Attached, Looping
  <2>2. Phase' = Phase /\ Dealt' = Dealt /\ UNCHANGED cfg
    BY <1>4 DEF LoadEnds, Phase, Dealt, Attaching, Attached, Looping, mainVars
  <2> QED
    BY <2>1, <2>2 DEF Life!vars
<1>5. CASE Outside
  <2>1. UNCHANGED <<pc, i, fd, cfg>>
    BY <1>5 DEF Outside, SigHandler, RecordsCome, OtherRun, OtherCopyBegins,
        OtherCopyWrites, OtherCopyCutShort, libVars, resources
  <2> QED
    BY <2>1 DEF Life!vars, Phase, Dealt, Linked
<1>6. CASE Ends
  <2>1. UNCHANGED cfg
    BY <1>6 DEF Ends, Return, Killed, KernelTakesBack, mainVars
  <2>2. CASE pc = "return0" /\ pc' = "ended0"
    BY <2>1, <2>2, LifeIdle DEF Ending
  <2>3. CASE pc \notin Ending \cup Looping /\ pc' = "ended1"
    BY <1>1, <2>1, <2>3, LifeAborts
  <2> QED
    BY <1>1, <1>6, <2>2, <2>3 DEF Ends, Return, Killed, LoopsWithin, Ending, Ended, Looping
<1>7. CASE \/ Results \/ UnlinkC \/ UnlinkO \/ Fclose
           \/ /\ RemoveLegacy \/ DetachNothing \/ RingFree \/ Detach \/ ObjectClose
              /\ UNCHANGED mainVars
  <2>1. pc \in Ending /\ pc' \in Ending /\ UNCHANGED cfg
    BY <1>7 DEF Results, UnlinkC, UnlinkO, Fclose, RemoveLegacy, DetachNothing, RingFree,
                Detach, ObjectClose, Goto, Unlink, mainVars, Ending
  <2> QED
    BY <2>1, LifeIdle
<1>8. CASE \/ ResolveFails
           \/ (ParseFails \/ ElfBeginFails \/ Unload \/ RingFails) /\ UNCHANGED mainVars
  <2>1. pc \notin Ending \cup Looping /\ pc' \in {"return1", "refused"} /\ UNCHANGED cfg
    BY <1>8 DEF ResolveFails, ParseFails, ElfBeginFails, Unload, RingFails, Goto, mainVars,
                Ending, Looping
  <2> QED
    BY <1>1, <2>1, LifeAborts
<1>9. CASE /\ OpenElf \/ ProbeLoading \/ LoadBtf \/ CreateMap \/ LoadProg \/ Parse \/ ProbeClose
           /\ UNCHANGED mainVars
  <2>1. pc \in Early /\ pc' \in Early /\ UNCHANGED cfg
    BY <1>9 DEF OpenElf, ProbeLoading, LoadBtf, CreateMap, LoadProg, Parse, ProbeClose,
                mainVars, Early
  <2> QED
    BY <2>1, LifeIdle
<1>10. CASE \/ AttachBegins \/ AttachEnds \/ NoCsv \/ InstallHandlers \/ OpenCsv
            \/ /\ \/ AddEvent \/ EventId \/ LinkFails \/ MapConsumer \/ MapProducer
                  \/ PerfOpen \/ EpollCreate \/ ClosePfd
               /\ UNCHANGED mainVars
  <2>1. \A k \in Indices : fd'[<<"link", k>>] = fd[<<"link", k>>]
    BY <1>1, <1>10, LinksUntouched
    DEF Measure, AttachOne, RingAndLinks, ObtainMain, ObtainLib, CloseLib, PerfOpen,
        EpollCreate, ClosePfd, LinkCreate, SetBpf, EnableFails, Detach
  <2>2. UNCHANGED <<i, cfg>>
    BY <1>10
    DEF AttachBegins, AttachEnds, NoCsv, InstallHandlers, OpenCsv, AddEvent, EventId,
        LinkFails, MapConsumer, MapProducer, PerfOpen, EpollCreate, ClosePfd, Goto, mainVars
  <2>3. LET Within == (Attaching \ {"linked", "no_link"}) \cup Attached
        IN  pc \in Within /\ pc' \in Within
    BY <1>10
    DEF AttachBegins, AttachEnds, NoCsv, InstallHandlers, OpenCsv, AddEvent, EventId,
        LinkFails, MapConsumer, MapProducer, PerfOpen, EpollCreate, ClosePfd, Goto,
        Attaching, Attached, Looping
  <2> QED
    BY <2>1, <2>2, <2>3, LifeStays
<1>11. CASE (LinkCreate \/ SetBpf \/ EnableFails) /\ UNCHANGED mainVars
  <2>1. UNCHANGED <<i, cfg>>
    BY <1>11 DEF LinkCreate, SetBpf, EnableFails, mainVars
  <2>2. LET Within == (Attaching \ {"linked", "no_link"}) \cup Attached
        IN  pc \in Within /\ pc' \in Within
    BY <1>11 DEF LinkCreate, SetBpf, EnableFails, Attaching
  <2>3. ASSUME NEW k \in Indices, k < i PROVE fd'[<<"link", k>>] = fd[<<"link", k>>]
    <3>1. <<"link", k>> \in Holders /\ <<"link", k>> # <<"link", i>>
      BY <1>2, <2>3, HoldersAre
    <3>2. CASE LinkCreate \/ SetBpf
      <4>1. PICK n : fd' = [fd EXCEPT ![<<"link", i>>] = n]
        BY <3>2 DEF LinkCreate, SetBpf, Obtain
      <4> QED
        BY <1>1, <3>1, <4>1 DEF Held
    <3>3. CASE EnableFails
      BY <3>1, <3>3 DEF EnableFails, Close
    <3> QED
      BY <1>11, <3>2, <3>3
  <2> QED
    BY <2>1, <2>2, <2>3, LifeStays
<1>12. CASE PushLink \/ NoLink
  <2>1. /\ pc \in {"linked", "no_link"} /\ pc' = "attach" /\ i' = i + 1
        /\ UNCHANGED <<fd, cfg>>
    BY <1>12 DEF PushLink, NoLink, resources, mainVars
  <2>2. Phase' = Phase /\ Dealt' = Dealt
    BY <1>2, <2>1 DEF Phase, Dealt, Attaching, Attached, Looping
  <2>3. ASSUME NEW k \in Indices, fd[<<"link", k>>] # -1
        PROVE  (k < i \/ pc = "linked") <=> k < i + 1
    <3>1. LinkAt(k, {"enable", "linked"})
      BY <1>1, <2>3 DEF LinksAt
    <3>2. k < i \/ (k = i /\ pc = "linked")
      BY <2>1, <3>1 DEF LinkAt
    <3> QED
      BY <1>2, <2>1, <3>2
  <2>4. Linked' = Linked
    BY <2>1, <2>3 DEF Linked, Attaching, Looping
  <2> QED
    BY <2>1, <2>2, <2>4 DEF Life!vars
<1>13. CASE \/ AttachUnknown
            \/ /\ AddEventFails \/ EventIdFails \/ PerfOpenFails \/ CleanLegacy
               /\ UNCHANGED mainVars
  <2>1. /\ pc \in Attaching \ {"linked", "no_link"} /\ pc' = "no_link"
        /\ i <= Len(probes) /\ UNCHANGED <<i, fd, cfg>>
    BY <1>1, <1>13 DEF AttachUnknown, AddEventFails, EventIdFails, PerfOpenFails, CleanLegacy,
                       Goto, resources, mainVars, LoopsWithin, Attaching
  <2>2. probes = cfg.probes
    BY <1>1, <2>1 DEF LoopsWithin, Attaching
  <2>3. Phase = "attach" /\ Phase' = "attach" /\ Dealt = i - 1 /\ Dealt' = i
    BY <2>1 DEF Phase, Dealt, Attaching, Looping
  <2>4. Linked' = Linked
    BY <2>1 DEF Linked, Attaching, Looping
  <2>5. Dealt < Len(cfg.probes) /\ Dealt' = Dealt + 1
    BY <1>1, <1>2, <2>1, <2>2, <2>3, ProbesBounded
  <2> QED
    BY <2>1, <2>3, <2>4, <2>5 DEF Life!Next, Life!PassOver
<1>14. CASE Enable /\ UNCHANGED mainVars
  <2>1. /\ pc = "enable" /\ pc' = "linked" /\ UNCHANGED <<i, fd, cfg>>
        /\ i <= Len(probes) /\ i \in Indices /\ probes = cfg.probes
    BY <1>1, <1>2, <1>14 DEF Enable, resources, mainVars, LoopsWithin, Attaching
  <2>2. Phase = "attach" /\ Phase' = "attach" /\ Dealt = i - 1 /\ Dealt' = i
    BY <2>1 DEF Phase, Dealt, Attaching, Looping
  <2>3. fd[<<"link", i>>] # -1
    BY <1>1, <2>1 DEF LinksHold
  <2>4. ASSUME NEW k \in Indices, fd[<<"link", k>>] # -1 PROVE k < i \/ k = i
    <3>1. LinkAt(k, {"enable", "linked"})
      BY <1>1, <2>4 DEF LinksAt
    <3> QED
      BY <2>1, <3>1 DEF LinkAt
  <2>5. Linked' = Linked \cup {i}
    BY <2>1, <2>3, <2>4 DEF Linked, Attaching, Looping
  <2>6. /\ Dealt < Len(cfg.probes) /\ Dealt' = Dealt + 1 /\ Linked' = Linked \cup {Dealt + 1}
    BY <1>1, <1>2, <2>1, <2>2, <2>5, ProbesBounded
  <2> QED
    BY <2>1, <2>2, <2>6 DEF Life!Next, Life!Attach
<1>15. CASE EpollAdd /\ UNCHANGED mainVars
  <2>1. /\ pc = "epoll_add" /\ pc' = "loop" /\ UNCHANGED <<i, fd, cfg>>
        /\ i = Len(probes) + 1 /\ probes = cfg.probes
    BY <1>1, <1>15 DEF EpollAdd, resources, mainVars, LoopsWithin, Attached
  <2>2. Phase = "attach" /\ Phase' = "loop" /\ Dealt = i - 1 /\ Dealt' = i - 1
    BY <2>1 DEF Phase, Dealt, Attaching, Attached, Looping
  <2>3. Linked' = Linked
    BY <2>1 DEF Linked, Attaching, Attached, Looping
  <2>4. Dealt = Len(cfg.probes)
    BY <1>1, <2>1, <2>2, ProbesBounded
  <2> QED
    BY <2>1, <2>2, <2>3, <2>4 DEF Life!Next, Life!Start
<1>16. CASE LoopEnds
  <2>1. Phase = "loop" /\ Phase' = "done" /\ Dealt' = 0 /\ Linked' = {} /\ UNCHANGED cfg
    BY <1>16 DEF LoopEnds, Goto, Phase, Dealt, Linked, Attaching, Attached, Looping, mainVars
  <2> QED
    BY <2>1 DEF Life!Next, Life!Stop
<1>17. CASE PollBegins \/ PollReads \/ PollReturns
  <2>1. pc \in Looping /\ pc' \in Looping /\ UNCHANGED <<i, fd, cfg>>
    BY <1>17 DEF PollBegins, PollReads, PollReturns, Goto, libVars, resources, mainVars,
                 Looping
  <2> QED
    BY <2>1 DEF Life!vars, Phase, Dealt, Linked, Looping, Attaching, Attached
<1> QED
  BY <1>3, <1>4, <1>5, <1>6, <1>7, <1>8, <1>9, <1>10, <1>11, <1>12, <1>13, <1>14, <1>15,
     <1>16, <1>17, NextGroups
  DEF Measure, AttachOne, RingAndLinks, ObtainMain, ObtainLib, CloseMain, CloseLib

\* To the target a run is a Lifecycle: each probe is dealt with once and in
\* order, a failure of one does not keep the others from being attached, and
\* the loop only starts after the last (lensx.cpp:190-229, 349-390).
THEOREM ProcessRefines == Spec => LifeSpec
<1>1. Init => Life!Init
  <2> SUFFICES ASSUME Init PROVE Life!Init
    OBVIOUS
  <2>1. Phase = "attach" /\ Dealt = 0 /\ Linked = {}
    BY DEF Init, Phase, Dealt, Linked, Attaching, Attached, Looping
  <2>2. Len(cfg.probes) \in Nat
    BY ConfigsAssumption DEF Init
  <2> QED
    BY <2>1, <2>2 DEF Life!Init
<1>2. ProcessInv /\ [Next]_vars => [Life!Next]_Life!vars
  <2>1. UNCHANGED vars => UNCHANGED Life!vars
    BY DEF vars, libVars, mainVars, resources, Life!vars, Phase, Dealt, Linked
  <2> QED
    BY <2>1, LifeStep
<1> QED
  BY <1>1, <1>2, ProcessInvariant, PTL DEF Spec, LifeSpec, Life!Spec
=============================================================================
