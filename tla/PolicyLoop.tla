----------------------------- MODULE PolicyLoop -----------------------------
(***************************************************************************)
(* The policy host closed over an engine that receives and obeys every     *)
(* command: what is left to go wrong is the agreement between the script's *)
(* locals, the built-in fallback and the engine.                           *)
(***************************************************************************)
EXTENDS LuaPolicy

CONSTANTS
    Signals,     \* the signals the monitors may send
    Ratios,      \* the latency ratios a heartbeat may lead to
    VmMayFail    \* whether a call of decide() may raise an error

ASSUME PolicyLoopAssumption ==
    Signals \subseteq Signal /\ Ratios \subseteq Int /\ VmMayFail \in BOOLEAN

VARIABLES
    inForce,    \* the engine's KV budget, NoBudget for its defaults
    outcomes,   \* history: the outcomes of the last calls since the script was loaded
    faulted,    \* history: a call has failed since the script was loaded
    orphaned    \* history: the script was loaded while the engine was compressed

vars == <<relieving, applied, reading, engine_seen, consecutive_errors,
          permanent_fallback, commands, inForce, outcomes, faulted, orphaned>>

\* The last FALLBACK_ERROR_THRESHOLD outcomes, the latest one first.
Remember(o) == SubSeq(<<o>> \o outcomes, 1,
                      IF Len(outcomes) < FALLBACK_ERROR_THRESHOLD
                      THEN Len(outcomes) + 1 ELSE FALLBACK_ERROR_THRESHOLD)

Init ==
    /\ PolicyInit
    /\ inForce = NoBudget
    /\ outcomes = <<>>
    /\ faulted = FALSE /\ orphaned = FALSE

OnSignal(sig, vmFails) ==
    /\ ProcessSignal(sig, vmFails)
    /\ inForce' = Obeyed(commands', inForce)
    /\ outcomes' = IF permanent_fallback THEN outcomes
                   ELSE Remember(IF vmFails THEN "failed" ELSE "ok")
    /\ faulted' = (faulted \/ vmFails)
    /\ UNCHANGED orphaned

OnHeartbeat(r) ==
    /\ UpdateEngineState(r)
    /\ UNCHANGED <<inForce, outcomes, faulted, orphaned>>

OnReload(loads) ==
    /\ ReloadScript(loads)
    /\ IF loads THEN /\ outcomes' = <<>>
                     /\ faulted' = FALSE
                     /\ orphaned' = (inForce # NoBudget)
                ELSE UNCHANGED <<outcomes, faulted, orphaned>>
    /\ UNCHANGED inForce

\* Whether a call of decide() may come back as an error.
VmOutcomes == IF VmMayFail THEN BOOLEAN ELSE {FALSE}

Next ==
    \/ \E sig \in Signals, vmFails \in VmOutcomes : OnSignal(sig, vmFails)
    \/ \E r \in Ratios : OnHeartbeat(r)
    \/ \E loads \in BOOLEAN : OnReload(loads)

Spec == Init /\ [][Next]_vars

-----------------------------------------------------------------------------
TypeOK ==
    /\ PolicyTypeOK
    /\ inForce \in Budgets \cup {NoBudget}
    /\ outcomes \in Seq({"ok", "failed"})
    /\ faulted \in BOOLEAN /\ orphaned \in BOOLEAN

(***************************************************************************)
(* `applied' is "the budget already in force": while the script holds a    *)
(* budget, the engine runs under one at least as tight.  The ratchet       *)
(* withholds directives on the strength of it ("Already at least this      *)
(* tight").  It holds across heartbeats and reloads until a call fails and *)
(* the fallback answers in the script's stead, and again once a script has *)
(* been loaded.                                                            *)
(***************************************************************************)
AppliedInForce ==
    ~faulted /\ applied # NoBudget => inForce # NoBudget /\ inForce <= applied

\* A signal was processed and every axis was under its EXIT threshold.
CalmSignal ==
    /\ \E sig \in Signals, f \in BOOLEAN : OnSignal(sig, f)
    /\ engine_seen /\ ~faulted'
    /\ \A a \in Axes : reading'[a] < EXIT[a]

(***************************************************************************)
(* Calm frees the engine: a signal that finds every axis under its EXIT    *)
(* threshold leaves the engine at its defaults, whichever windows were     *)
(* opened before, provided the script has seen them open.                  *)
(***************************************************************************)
CalmFreesEngine == [][CalmSignal /\ ~orphaned => inForce' = NoBudget]_vars

(***************************************************************************)
(* No spike may "pin the cache at that budget forever", a reload in the    *)
(* middle of it included.                                                  *)
(***************************************************************************)
SpikeNeverPins == [][CalmSignal => inForce' = NoBudget]_vars

(***************************************************************************)
(* The fallback is latched exactly when the last three calls of the script *)
(* failed: a success in between, or a fresh script, starts the count anew, *)
(* and two failures never disable a working script.                        *)
(***************************************************************************)
LatchedAfterThree ==
    permanent_fallback <=>
        /\ Len(outcomes) = FALLBACK_ERROR_THRESHOLD
        /\ \A i \in DOMAIN outcomes : outcomes[i] = "failed"

(***************************************************************************)
(* Memory pressure does not go unanswered: a signal that finds memory at   *)
(* or past its ENTER threshold leaves the engine compressed unless it was  *)
(* answered by closing a window, whatever was withheld, restored or        *)
(* reloaded before.                                                        *)
(***************************************************************************)
PressureAnswered ==
    [][(\E sig \in Signals, f \in BOOLEAN : OnSignal(sig, f))
          /\ engine_seen /\ ~faulted'
          /\ reading'["memory"] >= ENTER["memory"]
          /\ commands' # RestoreDefaults
          => inForce' # NoBudget]_vars

=============================================================================
