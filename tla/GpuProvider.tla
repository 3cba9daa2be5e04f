---------------------------- MODULE GpuProvider ----------------------------
(***************************************************************************)
(* The GPU telemetry providers (monitor/gpu_provider.rs): none, a sysfs    *)
(* file read at every poll, or, on a Jetson, a `tegrastats' child process  *)
(* whose lines a reader thread turns into a shared percentage.             *)
(***************************************************************************)
EXTENDS Integers, Sequences

CONSTANTS
    Loads,       \* GPU loads a sysfs file or a tegrastats line may show, in percent
    Candidates,  \* sysfs files tried, in order: 1..Candidates
    MaxPipe,     \* bound: lines of tegrastats not yet read
    MaxUnseen    \* bound: stores of the reader that other threads do not see yet

ASSUME GpuAssumption ==
    Loads \subseteq 0..255 /\ Candidates \in Nat /\ MaxPipe \in Nat /\ MaxUnseen \in Nat \ {0}

NoReading == -1          \* None
OtherLine == -2          \* a line of tegrastats without GR3D_FREQ

VARIABLES
    provider,      \* "null", "sysfs", "jetson" or "freq_only"
    child,         \* tegrastats: "printing", "silent" (alive, printing no more) or "exited"
    pipe,          \* what it has printed and nobody has read
    reader,        \* the reader thread: "none", "top" of its loop, "in_line" or "ended"
    util_percent, util_seen,   \* the atomics the reader stores to
    unseen,        \* samples stored in util_percent that other threads do not see yet
    newest,        \* the latest sample the reader stored, or NoReading
    samples,       \* history: the samples the reader has stored
    dropped        \* Drop for JetsonGpuProvider has set `shutdown'

gpuVars == <<provider, child, pipe, reader, util_percent, util_seen, unseen, newest, samples, dropped>>
storeVars == <<util_percent, util_seen, unseen, newest, samples>>

-----------------------------------------------------------------------------
(* Detection and construction.                                             *)

GpuBackends == {"Auto", "Null", "Sysfs", "CustomSysfs", "Jetson", "JetsonExplicit"}

\* detect_backend: what /sys holds decides, a Jetson first.
detect_backend(hasDevfreq, hasSysfs) ==
    IF hasDevfreq THEN "Jetson" ELSE IF hasSysfs THEN "Sysfs" ELSE "Null"

\* build_provider: a Jetson whose tegrastats cannot be started knows its frequency, if even
\* that, and no load.
build_provider(backend, hasDevfreq, hasSysfs, spawns) ==
    LET resolved == IF backend = "Auto" THEN detect_backend(hasDevfreq, hasSysfs) ELSE backend
    IN  CASE resolved = "Null" -> "null"
          [] resolved \in {"Sysfs", "CustomSysfs"} -> "sysfs"
          [] resolved \in {"Jetson", "JetsonExplicit"} ->
                IF spawns THEN "jetson"
                ELSE IF hasDevfreq \/ resolved = "JetsonExplicit" THEN "freq_only" ELSE "null"

\* resolve_backend: a gpu_sysfs_path in the configuration is used where nothing is named.
resolve_backend(backend, hasPath) ==
    IF backend = "Auto" /\ hasPath THEN "CustomSysfs" ELSE backend

GpuInit ==
    /\ \E backend \in GpuBackends, hasPath, hasDevfreq, hasSysfs, spawns \in BOOLEAN :
          provider = build_provider(resolve_backend(backend, hasPath), hasDevfreq, hasSysfs, spawns)
    /\ child = IF provider = "jetson" THEN "printing" ELSE "exited"
    /\ pipe = <<>>
    /\ reader = IF provider = "jetson" THEN "top" ELSE "none"
    /\ util_percent = 0 /\ util_seen = FALSE /\ unseen = <<>>
    /\ newest = NoReading /\ samples = {}
    /\ dropped = FALSE

\* No monitor uses the provider.
GpuAbsent ==
    /\ provider = "null" /\ child = "exited" /\ pipe = <<>> /\ reader = "none"
    /\ util_percent = 0 /\ util_seen = FALSE /\ unseen = <<>>
    /\ newest = NoReading /\ samples = {} /\ dropped = FALSE

-----------------------------------------------------------------------------
(* The tegrastats process: external to the repository.                     *)

ChildPrints ==
    /\ child = "printing" /\ Len(pipe) < MaxPipe
    /\ \E line \in Loads \cup {OtherLine} : pipe' = Append(pipe, line)
    /\ UNCHANGED <<provider, child, reader, storeVars, dropped>>

ChildFails ==
    /\ child # "exited"
    /\ child' \in {"silent", "exited"} \ {child}
    /\ UNCHANGED <<provider, pipe, reader, storeVars, dropped>>

-----------------------------------------------------------------------------
(* The reader thread.                                                      *)

\* Faulty variants of parse_gr3d_freq and KeepsReading.
Mut_not_capped(line) == IF line = OtherLine THEN NoReading ELSE line
Mut_reads_on == TRUE

parse_gr3d_freq(line) ==
    IF line = OtherLine THEN NoReading ELSE IF line > 100 THEN 100 ELSE line

\* while !shutdown
KeepsReading == ~dropped

\* The end of the thread drops the TegrastatsChild, which kills the process.
ReaderEnds == reader' = "ended" /\ child' = "exited"

ReaderTop ==
    /\ reader = "top"
    /\ IF KeepsReading THEN reader' = "in_line" /\ UNCHANGED child ELSE ReaderEnds
    /\ UNCHANGED <<provider, pipe, storeVars, dropped>>

\* next_line() returns a line; a sample is published by two relaxed stores, which the reader
\* does not wait for.
ReaderLine ==
    /\ reader = "in_line" /\ pipe # <<>> /\ Len(unseen) < MaxUnseen
    /\ reader' = "top"
    /\ pipe' = Tail(pipe)
    /\ LET pct == parse_gr3d_freq(Head(pipe))
       IN  IF pct = NoReading THEN UNCHANGED <<newest, samples, unseen>>
           ELSE /\ newest' = pct
                /\ samples' = samples \cup {pct}
                /\ unseen' = Append(unseen, pct)
    /\ UNCHANGED <<provider, child, util_percent, util_seen, dropped>>

\* EOF or an I/O error.
ReaderEof ==
    /\ reader = "in_line" /\ pipe = <<>> /\ child = "exited"
    /\ ReaderEnds
    /\ UNCHANGED <<provider, pipe, storeVars, dropped>>

\* Relaxed stores to one atomic are seen in order, to the two in any order.
PercentVisible ==
    /\ unseen # <<>>
    /\ util_percent' = Head(unseen) /\ unseen' = Tail(unseen)
    /\ UNCHANGED <<provider, child, pipe, reader, util_seen, newest, samples, dropped>>

SeenVisible ==
    /\ newest # NoReading /\ ~util_seen
    /\ util_seen' = TRUE
    /\ UNCHANGED <<provider, child, pipe, reader, util_percent, unseen, newest, samples, dropped>>

\* Every store of the reader is seen.
AllVisible == unseen = <<>> /\ (newest # NoReading => util_seen)

GpuReader == ReaderTop \/ ReaderLine \/ ReaderEof \/ PercentVisible \/ SeenVisible

\* Drop for JetsonGpuProvider: the flag, then a join of the reader.
DropProvider ==
    /\ ~dropped
    /\ dropped' = TRUE
    /\ UNCHANGED <<provider, child, pipe, reader, storeVars>>

-----------------------------------------------------------------------------
(* What a poll of the provider returns.                                    *)

\* The first candidate that can be read and parsed.
SysfsUtil(content) ==
    LET readable == {i \in 1..Candidates : content[i] # NoReading}
    IN  IF readable = {} THEN NoReading
        ELSE LET v == content[CHOOSE i \in readable : \A j \in readable : i <= j]
             IN  IF v > 100 THEN 100 ELSE v

\* The set of values util_pct() may return; a reading outlives the thread that took it.
util_pct ==
    CASE provider = "sysfs"  -> {SysfsUtil(c) : c \in [1..Candidates -> Loads \cup {NoReading}]}
      [] provider = "jetson" -> {IF util_seen THEN util_percent ELSE NoReading}
      [] OTHER               -> {NoReading}

\* ComputeMonitor::read_gpu: no telemetry counts as an idle GPU.
read_gpu == {IF v = NoReading THEN 0 ELSE v : v \in util_pct}

-----------------------------------------------------------------------------
GpuTypeOK ==
    /\ provider \in {"null", "sysfs", "jetson", "freq_only"}
    /\ child \in {"printing", "silent", "exited"}
    /\ pipe \in Seq(Loads \cup {OtherLine})
    /\ reader \in {"none", "top", "in_line", "ended"}
    /\ util_percent \in 0..255 /\ util_seen \in BOOLEAN
    /\ unseen \in Seq(0..255) /\ samples \in SUBSET (0..255)
    /\ newest \in 0..255 \cup {NoReading}
    /\ dropped \in BOOLEAN

\* The reader is inside a read that only tegrastats can end.
ReaderBlocked == reader = "in_line" /\ pipe = <<>> /\ child = "silent"

(***************************************************************************)
(* Dropping the provider sets the flag and joins the reader, which owns    *)
(* the child and may be blocked on it: the join returns, and the child is  *)
(* gone, unless tegrastats lives on without printing ("다음 line을         *)
(* 기다리며 blocking 중일 수 있다").                                       *)
(***************************************************************************)
DropJoins == dropped ~> (reader \in {"none", "ended"} /\ child = "exited") \/ ReaderBlocked

=============================================================================
