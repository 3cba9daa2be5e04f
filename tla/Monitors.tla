------------------------------ MODULE Monitors ------------------------------
(***************************************************************************)
(* One monitor thread (the files of monitor/) from its start to the        *)
(* shutdown main() asks for: memory, thermal, compute or energy, each a    *)
(* loop that reads its sensors, runs the worst reading through a           *)
(* ThresholdEvaluator and sends a signal, or the external monitor.         *)
(*                                                                         *)
(* Which monitor it is, and with which thresholds, is chosen once.         *)
(***************************************************************************)
EXTENDS ThresholdEvaluator, ExternalMonitor, GpuProvider

CONSTANTS
    ConfigsOf,   \* the thresholds each kind of sensor monitor may be given
    Readings,    \* what the sensors of the memory, thermal and energy monitors may show
    Zones,       \* thermal zones
    Filtered,    \* those the configured zone_types name
    Growths,     \* how far [total, idle] of /proc/stat may move between two polls, on a machine
                 \* with each provider of GPU telemetry
    MaxGrowth,   \* bound: their growth over polls whose reads fail
    WRAPPED      \* the usage computed when total_delta - idle_delta wraps around

ASSUME MonitorsAssumption ==
    /\ DOMAIN ConfigsOf = {"memory", "thermal", "compute", "energy"}
    /\ \A k \in DOMAIN ConfigsOf : ConfigsOf[k] \subseteq Configs
    /\ DOMAIN Readings = {"memory", "thermal", "energy"}
    /\ \A k \in DOMAIN Readings : Readings[k] \subseteq Values
    /\ Filtered \subseteq Zones
    /\ DOMAIN Growths = {"null", "sysfs", "jetson", "freq_only"}
    /\ \A p \in DOMAIN Growths : Growths[p] \subseteq [total : Int, idle : Int]
    /\ MaxGrowth \in Nat
    /\ 0..100 \subseteq Values /\ WRAPPED \in Values

\* i32::MAX
MAX_I32 == 2147483647

\* The direction each monitor creates its evaluator with, and the i32 a temperature is.
ASSUME SensorAssumption ==
    /\ \A k \in {"thermal", "compute"}, t \in Configs :
          t \in ConfigsOf[k] => t.direction = "Ascending"
    /\ \A k \in {"memory", "energy"}, t \in Configs :
          t \in ConfigsOf[k] => t.direction = "Descending"
    /\ \A temp \in Readings["thermal"] : temp <= MAX_I32

Kinds == DOMAIN ConfigsOf \cup {"external"}
Unreadable == -1

VARIABLES
    kind,                         \* which monitor this is
    thread,                       \* "running", "returned" or "panicked"
    sent,                         \* the latest signal, or NoSignal
    zones_discovered, zone_indices,   \* ThermalMonitor
    snapshot,                     \* ComputeMonitor: prev_snapshot is Some
    since,                        \* how far the counters have moved since prev_snapshot
    last_cpu, last_gpu,           \* ComputeMonitor
    ignore_when_charging,         \* EnergyMonitor
    interval, glitched            \* history: how far the counters have moved since the
                                  \* latest read that succeeded; whether idle time had
                                  \* outgrown the total at that read

sensorVars == <<zones_discovered, zone_indices, snapshot, since, last_cpu, last_gpu, interval,
                glitched>>
fixedVars == <<kind, ignore_when_charging>>
otherVars == <<fixedVars, gpuVars>>
monVars == <<vars, extVars, otherVars, thread, sent, sensorVars>>

\* A signal: the level, the readings it was computed from, whether the battery charges,
\* and the recommended backend of a compute signal.
Backends == {"Any", "Cpu", "Gpu"}
NoSignal == [level |-> Normal, from |-> {}, charging |-> FALSE, backend |-> "Any"]

NoGrowth == [total |-> 0, idle |-> 0]

MonInit ==
    /\ kind \in Kinds
    /\ Init /\ value = 0
    /\ kind # "external" => thresholds \in ConfigsOf[kind]
    /\ kind = "external" => thresholds = CHOOSE t \in Configs : TRUE
    /\ ExtInit /\ (kind # "external" => transport = "socket")
    /\ IF kind = "compute" THEN GpuInit ELSE GpuAbsent
    /\ thread = "running"
    /\ sent = NoSignal
    /\ zones_discovered = FALSE /\ zone_indices = {}
    /\ snapshot = FALSE /\ since = NoGrowth /\ last_cpu = 0 /\ last_gpu = 0
    /\ ignore_when_charging \in BOOLEAN /\ (kind # "energy" => ignore_when_charging)
    /\ interval = NoGrowth /\ glitched = FALSE

-----------------------------------------------------------------------------
(* Every turn of a sensor monitor's loop.                                  *)

Polls(k) == kind = k /\ thread = "running" /\ ~shutdown

\* tx.send(self.build_signal()); the receiver outlives the threads.
Send(from, charging, backend) ==
    sent' = [level |-> current', from |-> from, charging |-> charging, backend |-> backend]

\* A faulty variant of Stop.
Mut_stop_after_signal ==
    /\ kind # "external" /\ thread = "running" /\ shutdown /\ sent # NoSignal
    /\ thread' = "returned"
    /\ UNCHANGED <<vars, extVars, otherVars, sent, sensorVars>>

\* The turn that finds the flag set.
Stop ==
    /\ kind # "external" /\ thread = "running" /\ shutdown
    /\ thread' = "returned"
    /\ UNCHANGED <<vars, extVars, otherVars, sent, sensorVars>>

\* A read that fails is logged and changes nothing: the loop goes on.
MemoryPoll ==
    /\ Polls("memory")
    /\ \E pct \in Readings["memory"] : Evaluate(pct) /\ Send({pct}, FALSE, "Any")
    /\ UNCHANGED <<extVars, otherVars, thread, sensorVars>>

\* A faulty variant of Worst.
Mut_mildest(S) == Lowest(S)

\* The worst of several readings of a kind where higher is worse.
Worst(S) == Highest(S)

\* discover_zones: the configured zones among those present, all of them if none match.
DiscoverZones(present) ==
    IF present \cap Filtered = {} THEN present ELSE present \cap Filtered

\* read_once: zones are discovered by the first read and never again; the reading is the
\* hottest of the zones that can be read.
ThermalPoll ==
    /\ Polls("thermal")
    /\ zones_discovered' = TRUE
    /\ IF zones_discovered THEN UNCHANGED zone_indices
       ELSE \E present \in SUBSET Zones : zone_indices' = DiscoverZones(present)
    /\ \E temp \in [Zones -> Readings["thermal"] \cup {Unreadable}] :
          LET read == {temp[z] : z \in zone_indices'} \ {Unreadable}
          IN  IF read = {} THEN UNCHANGED <<vars, sent>>
              ELSE Evaluate(Worst(read)) /\ Send(read, FALSE, "Any")
    /\ UNCHANGED <<extVars, otherVars, thread, snapshot, since, last_cpu, last_gpu, interval,
                   glitched>>

-----------------------------------------------------------------------------
(* The compute monitor.                                                    *)

saturating(n) == IF n < 0 THEN 0 ELSE n

\* A faulty variant of KeepSnapshot.
Mut_first_snapshot_kept(grown) == since' = IF snapshot THEN grown ELSE NoGrowth

\* compute_recommendation: away from the hot device; when neither is hot, to the one with
\* at least ten points more to spare.
compute_recommendation(cpu, gpu, warning) ==
    IF cpu >= warning /\ gpu >= warning THEN "Any"
    ELSE IF cpu >= warning THEN "Gpu"
    ELSE IF gpu >= warning THEN "Cpu"
    ELSE IF cpu - gpu \in -9..9 THEN "Any"
    ELSE IF cpu < gpu THEN "Cpu" ELSE "Gpu"

\* prev_snapshot = Some(snap)
KeepSnapshot(grown) == since' = NoGrowth

\* last_cpu from the saturated differences; their subtraction may go below zero.
CpuUsage(total, idle) ==
    IF total = 0 THEN 0 ELSE IF idle > total THEN WRAPPED ELSE (100 * (total - idle)) \div total

ComputeReport(total, idle, gpu) ==
    LET cpu == CpuUsage(total, idle)
    IN  /\ last_cpu' = cpu /\ last_gpu' = gpu
        /\ Evaluate(Worst({cpu, gpu}))
        /\ Send({cpu, gpu}, FALSE, compute_recommendation(cpu, gpu, thresholds.at[1]))

\* Two movements of the counters, one after the other.
Plus(g, h) == [total |-> g.total + h.total, idle |-> g.idle + h.idle]

\* read_once: the first snapshot yields no signal.  A subtraction below zero wraps around
\* in a release build and ends the thread in a debug build.
ComputePoll ==
    /\ Polls("compute")
    /\ \E g \in Growths[provider], gpu \in read_gpu :
          LET total == saturating(Plus(since, g).total)
              idle  == saturating(Plus(since, g).idle)
          IN  \/ /\ KeepSnapshot(Plus(since, g))
                 /\ interval' = NoGrowth
                 /\ glitched' = (Plus(interval, g).idle > Plus(interval, g).total)
                 /\ IF snapshot THEN ComputeReport(total, idle, gpu)
                                ELSE UNCHANGED <<vars, last_cpu, last_gpu, sent>>
                 /\ UNCHANGED thread
              \/ /\ snapshot /\ total # 0 /\ idle > total
                 /\ thread' = "panicked"
                 /\ UNCHANGED <<vars, since, last_cpu, last_gpu, sent, interval, glitched>>
    /\ snapshot' = TRUE
    /\ UNCHANGED <<extVars, otherVars, zones_discovered, zone_indices>>

\* /proc/stat cannot be read: the counters move on, prev_snapshot stays.
ComputeReadFails ==
    /\ Polls("compute") /\ snapshot
    /\ \E g \in Growths[provider] :
          /\ {Plus(since, g).total, Plus(since, g).idle} \subseteq (-MaxGrowth)..MaxGrowth
          /\ since' = Plus(since, g)
          /\ interval' = Plus(interval, g)
    /\ UNCHANGED <<vars, extVars, otherVars, thread, sent, zones_discovered, zone_indices,
                   snapshot, last_cpu, last_gpu, glitched>>

-----------------------------------------------------------------------------
(* The energy monitor.                                                     *)

\* evaluate_energy while charging: "Reset evaluator by evaluating a very high value".
ChargingReset == IF current # Normal THEN Evaluate(100) ELSE UNCHANGED vars

\* The battery may be absent or its capacity unreadable; without a status it does not
\* charge.
EnergyPoll ==
    /\ Polls("energy")
    /\ \E pct \in Readings["energy"] \cup {Unreadable}, charging \in BOOLEAN :
          LET from == {pct} \ {Unreadable}
          IN  IF charging /\ ignore_when_charging
              THEN ChargingReset /\ Send({}, TRUE, "Any")
              ELSE /\ IF from # {} THEN Evaluate(pct) ELSE UNCHANGED vars
                   /\ Send(from, charging, "Any")
    /\ UNCHANGED <<extVars, otherVars, thread, sensorVars>>

-----------------------------------------------------------------------------
External ==
    /\ kind = "external" /\ thread = "running"
    /\ ExternalThread
    /\ thread' = IF at' = "returned" THEN "returned" ELSE thread
    /\ UNCHANGED <<vars, otherVars, sent, sensorVars>>

Client ==
    /\ kind = "external"
    /\ ClientActs
    /\ UNCHANGED <<vars, otherVars, thread, sent, sensorVars>>

\* main(): shutdown.store(true)
Shutdown ==
    /\ ~shutdown
    /\ shutdown' = TRUE
    /\ UNCHANGED <<vars, otherVars, thread, sent, sensorVars, transport, at, client, clientVars,
                   forwarded>>

Thread ==
    \/ Stop \/ MemoryPoll \/ ThermalPoll \/ ComputePoll \/ ComputeReadFails \/ EnergyPoll
    \/ External

notGpuVars == <<vars, extVars, fixedVars, thread, sent, sensorVars>>

Reader == GpuReader /\ UNCHANGED notGpuVars
Prints == ChildPrints /\ UNCHANGED notGpuVars
Fails == ChildFails /\ UNCHANGED notGpuVars

\* The end of main() drops the shared provider, after the monitors.
Drop == kind = "compute" /\ thread # "running" /\ DropProvider /\ UNCHANGED notGpuVars

MonNext == Thread \/ Client \/ Shutdown \/ Reader \/ Prints \/ Fails \/ Drop

\* Threads are scheduled and sleeps are finite, and `tegrastats --interval 300' prints until
\* it fails; nothing is assumed of the clients.
MonSpec ==
    MonInit /\ [][MonNext]_monVars /\ WF_monVars(Thread) /\ WF_monVars(Reader) /\ WF_monVars(Prints)

-----------------------------------------------------------------------------
MonTypeOK ==
    /\ ExtTypeOK /\ GpuTypeOK
    /\ kind \in Kinds
    /\ thread \in {"running", "returned", "panicked"}
    /\ sent \in [level : Level, from : SUBSET Values, charging : BOOLEAN, backend : Backends]
    /\ zones_discovered \in BOOLEAN /\ zone_indices \in SUBSET Zones
    /\ snapshot \in BOOLEAN
    /\ since \in [total : Int, idle : Int] /\ interval \in [total : Int, idle : Int]
    /\ last_cpu \in Values /\ last_gpu \in Values
    /\ ignore_when_charging \in BOOLEAN /\ glitched \in BOOLEAN

\* No signal plays a sensor down: its level is at least the level of every reading it was
\* computed from, the hottest zone and the busier of CPU and GPU included.
SignalNeverUnderstates ==
    \A v \in sent.from, l \in 1..3 : Reached(v, l, thresholds) => sent.level >= l

\* "Force Normal when charging": whatever the battery's charge and the level before.
ChargingForcesNormal == sent.charging /\ ignore_when_charging => sent.level = Normal

\* A backend is recommended only if it is the less loaded one.
RecommendsTheCooler ==
    /\ sent.backend = "Cpu" => last_cpu < last_gpu
    /\ sent.backend = "Gpu" => last_gpu < last_cpu

(***************************************************************************)
(* What a signal says is justified by the readings it was computed from,   *)
(* after any history of readings, failures and charging: it plays no       *)
(* sensor down, is Normal while charging is to be ignored, and recommends  *)
(* only the cooler backend.                                                *)
(***************************************************************************)
SignalJustified == MonTypeOK /\ SignalNeverUnderstates /\ ChargingForcesNormal /\ RecommendsTheCooler

(***************************************************************************)
(* A glitch of the kernel's counters is forgotten: the CPU usage reported  *)
(* is a percentage unless idle time outgrew the total in the very interval *)
(* it was measured over, also when reads failed in between.                *)
(***************************************************************************)
GlitchForgotten == ~glitched => last_cpu \in 0..100

(***************************************************************************)
(* The GPU load a compute signal reports on a Jetson is a percentage that  *)
(* tegrastats printed: the last one once the reader's relaxed stores are   *)
(* seen, an earlier one or 0 only while some are on their way, and 0 where *)
(* none was printed; never a mixture or an invented value.                 *)
(***************************************************************************)
GpuReadingGenuine ==
    [][kind = "compute" /\ provider = "jetson" /\ sent' # sent =>
          /\ last_gpu' \in 0..100
          /\ last_gpu' \in (IF newest = NoReading THEN {0}
                             ELSE IF AllVisible THEN {newest} ELSE samples \cup {0})]_monVars

(***************************************************************************)
(* "return Ok(()) when `shutdown` becomes true": every monitor does, the   *)
(* external one unless it is blocked in a read that only its client can    *)
(* end.                                                                    *)
(***************************************************************************)
ReturnsOnShutdown ==
    shutdown ~> (thread # "running" \/ (kind = "external" /\ Blocked))

=============================================================================
