------------------------------ MODULE Manager ------------------------------
(***************************************************************************)
(* The manager process: main() of main.rs around the policy (LuaPolicy),   *)
(* the deduplicator (Dedup) and the engine channel (Channel), with the     *)
(* monitor threads feeding it and POSIX signals interrupting it.           *)
(*                                                                         *)
(* The main thread is a program counter:                                   *)
(*    "wait"      create_transport, waiting for the engine                 *)
(*    "init"      the initial signals, "emitInit" a directive for one      *)
(*    "top"       the loop head: SHUTDOWN, SIGHUP_RELOAD                   *)
(*    "reload"    reload_script                                            *)
(*    "drain"     while let Some(msg) = try_recv_engine_message()          *)
(*    "recv"      rx.recv_timeout, then process_signal                     *)
(*    "emit"      dedup.process and emit_directive                         *)
(*    "join"      joining the monitors, "stopped" at the end               *)
(***************************************************************************)
EXTENDS Channel, LuaPolicy

CONSTANTS
    Monitors,       \* the monitor threads
    SignalsOf,      \* what each of them may report
    InitialSignals, \* initial_signal() of the monitors, in order
    MaxQueue,       \* bound: signals waiting in rx
    Cooldown,       \* dedup_cooldown_secs
    VmMayFail,      \* whether the Lua VM may fail
    MayReload,      \* whether SIGHUP may arrive
    EngineMayFail   \* whether the engine may exit or send a frame that does not parse

ASSUME ManagerAssumption ==
    /\ SignalsOf \in [Monitors -> SUBSET Signal]
    /\ InitialSignals \in Seq(Signal)
    /\ MaxQueue \in Nat /\ Cooldown \in Nat
    /\ VmMayFail \in BOOLEAN /\ MayReload \in BOOLEAN /\ EngineMayFail \in BOOLEAN
    /\ Directives = Actions \ {NoAction}

VARIABLES
    pc,             \* where the main thread is
    todo,           \* initial signals not yet processed
    rx,             \* the monitors' channel
    running,        \* the monitor threads that have not returned
    SHUTDOWN,       \* set by SIGINT and SIGTERM
    SIGHUP_RELOAD,  \* set by SIGHUP
    unread,         \* history: a SIGHUP arrived and no reload has begun since
    shutdown,       \* the flag the monitors poll
    last_commands, age,   \* DirectiveDeduplicator
    inForce         \* the engine's KV budget, NoBudget for its defaults

sighupVars == <<SIGHUP_RELOAD, unread>>
loopVars == <<pc, todo, rx, running, SHUTDOWN, sighupVars, shutdown>>
dedupVars == <<last_commands, age>>
vars == <<chanVars, policyVars, loopVars, dedupVars, inForce>>

Dedup == INSTANCE Dedup WITH Commands <- Directives, NoCommands <- NoAction

Init ==
    /\ ChanInit
    /\ PolicyInit
    /\ Dedup!Init
    /\ pc = "wait"
    /\ todo = InitialSignals
    /\ rx = <<>>
    /\ running = Monitors
    /\ SHUTDOWN = FALSE /\ SIGHUP_RELOAD = FALSE /\ unread = FALSE /\ shutdown = FALSE
    /\ inForce = NoBudget

-----------------------------------------------------------------------------
(* The main thread.                                                        *)

Goto(l) == pc' = l

CreateTransport ==
    /\ pc = "wait"
    /\ Wait
    /\ Goto(IF phase' = "running" THEN "init" ELSE "stopped")
    /\ UNCHANGED <<policyVars, todo, rx, running, SHUTDOWN, sighupVars, shutdown,
                   dedupVars, inForce>>

MayFail == IF VmMayFail THEN BOOLEAN ELSE {FALSE}

\* policy.process_signal for an initial signal; its directive bypasses the deduplicator.
InitialSignal ==
    /\ pc = "init" /\ todo # <<>>
    /\ \E f \in MayFail : ProcessSignal(Head(todo), f)
    /\ todo' = Tail(todo)
    /\ Goto(IF commands' = NoAction THEN "init" ELSE "emitInit")
    /\ UNCHANGED <<chanVars, rx, running, SHUTDOWN, sighupVars, shutdown, dedupVars, inForce>>

EmitInitial ==
    /\ pc = "emitInit"
    /\ EmitDirective(commands)
    /\ Goto("init")
    /\ UNCHANGED <<policyVars, todo, rx, running, SHUTDOWN, sighupVars, shutdown,
                   dedupVars, inForce>>

EnterLoop ==
    /\ pc = "init" /\ todo = <<>>
    /\ Goto("top")
    /\ UNCHANGED <<chanVars, policyVars, todo, rx, running, SHUTDOWN, sighupVars,
                   shutdown, dedupVars, inForce>>

\* Faulty variants of ReloadDone and StopsPolling.
Mut_flag_cleared_after == SIGHUP_RELOAD' = FALSE
Mut_polls_on == FALSE

\* SIGHUP_RELOAD.swap(false), ahead of the reload
SwapReload == SIGHUP_RELOAD' = FALSE /\ unread' = FALSE

\* The reload leaves the flag as it is: a SIGHUP that comes meanwhile is for the next turn.
ReloadDone == UNCHANGED SIGHUP_RELOAD

\* The check at the head of every monitor's loop.
StopsPolling == shutdown

\* The loop head: stop, or reload the script if SIGHUP arrived.
LoopHead ==
    /\ pc = "top"
    /\ IF SHUTDOWN
       THEN shutdown' = TRUE /\ Goto("join") /\ UNCHANGED sighupVars
       ELSE /\ IF SIGHUP_RELOAD THEN SwapReload /\ Goto("reload")
                                ELSE UNCHANGED sighupVars /\ Goto("drain")
            /\ UNCHANGED shutdown
    /\ UNCHANGED <<chanVars, policyVars, todo, rx, running, SHUTDOWN, dedupVars, inForce>>

Reload ==
    /\ pc = "reload"
    /\ \E loads \in BOOLEAN : ReloadScript(loads)
    /\ ReloadDone
    /\ Goto("drain")
    /\ UNCHANGED <<chanVars, todo, rx, running, SHUTDOWN, unread, shutdown, dedupVars, inForce>>

\* One pass of the drain loop; every frame is a heartbeat (a response changes nothing).
Drain ==
    /\ pc = "drain"
    /\ \/ TryRecvMessage /\ UpdateEngineState(0) /\ UNCHANGED pc
       \/ (TryRecvLost \/ TryRecvNone) /\ UNCHANGED policyVars /\ Goto("recv")
    /\ UNCHANGED <<todo, rx, running, SHUTDOWN, sighupVars, shutdown, dedupVars, inForce>>

\* recv_timeout returns a signal, times out, or finds every monitor gone.
RecvSignal ==
    /\ pc = "recv" /\ rx # <<>>
    /\ \E f \in MayFail : ProcessSignal(Head(rx), f)
    /\ rx' = Tail(rx)
    /\ Goto(IF commands' = NoAction THEN "top" ELSE "emit")
    /\ UNCHANGED <<chanVars, todo, running, SHUTDOWN, sighupVars, shutdown, dedupVars, inForce>>

RecvNothing ==
    /\ pc = "recv" /\ rx = <<>>
    /\ IF running # {} THEN Goto("top") /\ UNCHANGED shutdown
                       ELSE Goto("join") /\ shutdown' = TRUE
    /\ UNCHANGED <<chanVars, policyVars, todo, rx, running, SHUTDOWN, sighupVars,
                   dedupVars, inForce>>

\* dedup.process records the batch before emit_directive is called.
Emitting ==
    /\ pc = "emit"
    /\ \/ Dedup!Pass(commands) /\ EmitDirective(commands)
       \/ Dedup!Suppress(commands) /\ UNCHANGED chanVars
    /\ Goto("top")
    /\ UNCHANGED <<policyVars, todo, rx, running, SHUTDOWN, sighupVars, shutdown, inForce>>

Join ==
    /\ pc = "join" /\ running = {}
    /\ Goto("stopped")
    /\ UNCHANGED <<chanVars, policyVars, todo, rx, running, SHUTDOWN, sighupVars,
                   shutdown, dedupVars, inForce>>

Main ==
    \/ CreateTransport \/ InitialSignal \/ EmitInitial \/ EnterLoop \/ LoopHead
    \/ Reload \/ Drain \/ RecvSignal \/ RecvNothing \/ Emitting \/ Join

-----------------------------------------------------------------------------
(* Everyone else: the monitors, the operator, the clock, the reader        *)
(* threads and the engine.                                                 *)

\* One turn of a monitor's loop.  The threads are spawned once the transport exists.
Poll(m) ==
    /\ pc \notin {"wait", "stopped"} /\ m \in running
    /\ \/ /\ StopsPolling
          /\ running' = running \ {m}
          /\ UNCHANGED rx
       \/ /\ ~StopsPolling /\ Len(rx) < MaxQueue
          /\ \E sig \in SignalsOf[m] : rx' = Append(rx, sig)
          /\ UNCHANGED running
    /\ UNCHANGED <<chanVars, policyVars, pc, todo, SHUTDOWN, sighupVars, shutdown,
                   dedupVars, inForce>>

handle_signal ==
    /\ pc # "stopped" /\ ~SHUTDOWN
    /\ SHUTDOWN' = TRUE
    /\ UNCHANGED <<chanVars, policyVars, pc, todo, rx, running, sighupVars, shutdown,
                   dedupVars, inForce>>

handle_sighup ==
    /\ MayReload /\ pc # "stopped" /\ ~SIGHUP_RELOAD
    /\ SIGHUP_RELOAD' = TRUE /\ unread' = TRUE
    /\ UNCHANGED <<chanVars, policyVars, pc, todo, rx, running, SHUTDOWN, shutdown,
                   dedupVars, inForce>>

Tick ==
    /\ last_commands # NoAction /\ age < Cooldown
    /\ Dedup!Tick
    /\ UNCHANGED <<chanVars, policyVars, loopVars, inForce>>

ReaderThread(c) == Reader(c) /\ UNCHANGED <<policyVars, loopVars, dedupVars, inForce>>

\* The engine obeys the directives it reads; a new process starts at its defaults.
EngineConnects(c) ==
    /\ pc # "stopped"
    /\ EngineConnect(c)
    /\ UNCHANGED <<policyVars, loopVars, dedupVars, inForce>>

EngineSends(c) == EngineSend(c) /\ UNCHANGED <<policyVars, loopVars, dedupVars, inForce>>

EngineObeys(c) ==
    /\ EngineRead(c)
    /\ inForce' = Obeyed(Head(toEngine[c]), inForce)
    /\ UNCHANGED <<policyVars, loopVars, dedupVars>>

EngineFails(c) ==
    /\ EngineMayFail
    /\ \/ EngineClose(c) /\ inForce' = NoBudget
       \/ EngineSendGarbled(c) /\ UNCHANGED inForce
    /\ UNCHANGED <<policyVars, loopVars, dedupVars>>

Next ==
    \/ Main
    \/ \E m \in Monitors : Poll(m)
    \/ handle_signal \/ handle_sighup \/ Tick
    \/ \E c \in Conns : \/ ReaderThread(c)
                        \/ EngineConnects(c) \/ EngineSends(c) \/ EngineObeys(c) \/ EngineFails(c)

(***************************************************************************)
(* The threads are scheduled, time passes, the monitors' sources can be    *)
(* read, and the engine sends its heartbeats and reads its socket.  No     *)
(* signal is assumed to arrive, no engine to connect or to fail.           *)
(***************************************************************************)
Fairness ==
    /\ WF_vars(Main)
    /\ WF_vars(Tick)
    /\ \A m \in Monitors : WF_vars(Poll(m))
    /\ \A c \in Conns : WF_vars(ReaderThread(c)) /\ WF_vars(EngineSends(c)) /\ WF_vars(EngineObeys(c))

Spec == Init /\ [][Next]_vars /\ Fairness

-----------------------------------------------------------------------------
(***************************************************************************)
(* Termination: after SIGINT or SIGTERM, wherever the main thread then is, *)
(* the monitors return and the process ends, as long as the engine reads   *)
(* what was written to it.                                                 *)
(***************************************************************************)
ShutdownCompletes == SHUTDOWN ~> (pc = "stopped")

(***************************************************************************)
(* A SIGHUP is not lost, one that arrives while an earlier one is being    *)
(* handled included: a reload begins after it unless the process ends      *)
(* first.                                                                  *)
(***************************************************************************)
ReloadHandled == unread ~> (~unread \/ SHUTDOWN \/ pc = "stopped")

(***************************************************************************)
(* The engine never sees a KV budget loosen: through the queue, the        *)
(* ratchet, the deduplicator, reconnects and dropped directives, a budget  *)
(* only gives way to a tighter one or to restore_defaults.                 *)
(***************************************************************************)
NoLooseningOnWire ==
    [][inForce # NoBudget /\ inForce' # NoBudget => inForce' <= inForce]_vars

\* From some point on memory is past its threshold, the main loop runs, and the engine
\* of connection c stays and has sent a heartbeat.
PressedForGood(c) ==
    /\ <>[](reading["memory"] >= ENTER["memory"])
    /\ <>[](pc \notin {"wait", "join", "stopped"} /\ ~SHUTDOWN)
    /\ <>[](peer[c] = "open" /\ c \notin garbled /\ frames[c] > 0)

(***************************************************************************)
(* Memory pressure that stays reaches the engine the manager started with: *)
(* if that engine stays too it runs compressed in the end, whatever was    *)
(* dropped or suppressed on the way; the manager is not one that would     *)
(* "run forever, log a healthy monitor loop, and never emit a directive".  *)
(***************************************************************************)
PressureReachesEngine == <>(conn = 1) /\ PressedForGood(1) => <>[](inForce # NoBudget)

(***************************************************************************)
(* The same for every engine that stays, the ones that replace an engine   *)
(* that left included.                                                     *)
(***************************************************************************)
PressureReachesEveryEngine ==
    \A c \in Conns : PressedForGood(c) => <>[](inForce # NoBudget)

(***************************************************************************)
(* wait_for_client returns false on shutdown and create_transport then     *)
(* bails with "Shutdown during client wait": a SIGINT taken while waiting  *)
(* ends the process when the wait ends.                                    *)
(***************************************************************************)
ShutdownEndsWait == [][CreateTransport /\ SHUTDOWN => pc' = "stopped"]_vars

=============================================================================
