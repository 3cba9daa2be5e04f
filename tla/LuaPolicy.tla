----------------------------- MODULE LuaPolicy -----------------------------
(***************************************************************************)
(* LuaPolicy (lua_policy.rs): the host of the policy script.  It folds     *)
(* signals and heartbeats into the readings the script sees, calls         *)
(* decide(), falls back to a built-in decider when the VM fails, latches   *)
(* that fallback after three failures in a row, and swaps the script on    *)
(* reload.  The script is policy_default.lua (module PolicyDefault).       *)
(***************************************************************************)
EXTENDS PolicyDefault

CONSTANTS
    FALLBACK_ERROR_THRESHOLD,
    FALLBACK_BUDGET   \* fallback budgets per level Warning, Critical, Emergency

ASSUME LuaPolicyAssumption ==
    /\ FALLBACK_ERROR_THRESHOLD \in Nat \ {0}
    /\ FALLBACK_BUDGET \in [1..3 -> Budgets]

VARIABLES
    relieving, applied,   \* the locals of the script in the current VM
    reading,              \* SignalState and the latency ratio, as pressures
    engine_seen,          \* engine_state is Some
    consecutive_errors,
    permanent_fallback,
    commands              \* what the latest process_signal returned

policyVars == <<relieving, applied, reading, engine_seen, consecutive_errors,
                permanent_fallback, commands>>

\* SystemSignal: the axis it reports on, the pressure it carries and its level.
Signal == [axis : Axes \cup {"energy"}, pressure : Int, level : 0..3]

PolicyInit ==
    /\ relieving = {}
    /\ applied = NoBudget
    /\ reading = [a \in Axes |-> 0]
    /\ engine_seen = FALSE
    /\ consecutive_errors = 0
    /\ permanent_fallback = FALSE
    /\ commands = NoAction

\* fallback_decide (lua/fallback.rs): only the memory axis acts.
fallback_decide(sig) ==
    IF sig.axis # "memory" THEN NoAction
    ELSE IF sig.level = 0 THEN RestoreDefaults
    ELSE KvCompress(FALLBACK_BUDGET[sig.level])

\* signal_state.update_*: a signal replaces the reading of its own axis.
Updated(sig) == IF sig.axis \in Axes THEN [reading EXCEPT ![sig.axis] = sig.pressure] ELSE reading

Decisions(p) ==
    IF engine_seen
    THEN {decide(relieving, applied, p, a) : a \in {b \in Axes : IsMostStressed(p, b)}}
    ELSE {[relieving |-> relieving, applied |-> applied, action |-> NoAction]}

\* A faulty variant of ErrorsAfterSuccess.
Mut_errors_kept == consecutive_errors

ErrorsAfterSuccess == 0
ErrorsAfterReload == 0
LatchedAfter(errors) == errors >= FALLBACK_ERROR_THRESHOLD

\* process_signal when decide() returns.
DecideOk(sig) ==
    /\ ~permanent_fallback
    /\ \E d \in Decisions(Updated(sig)) :
          /\ relieving' = d.relieving
          /\ applied' = d.applied
          /\ commands' = d.action
    /\ consecutive_errors' = ErrorsAfterSuccess
    /\ UNCHANGED permanent_fallback

\* process_signal when the VM fails, before the script has run (its context could not
\* be built) or after it changed its locals (its result could not be allocated).
DecideFails(sig) ==
    /\ ~permanent_fallback
    /\ \/ UNCHANGED <<relieving, applied>>
       \/ \E d \in Decisions(Updated(sig)) : relieving' = d.relieving /\ applied' = d.applied
    /\ consecutive_errors' = consecutive_errors + 1
    /\ permanent_fallback' = LatchedAfter(consecutive_errors')
    /\ commands' = fallback_decide(sig)

\* process_signal once the fallback is latched.
DecideLatched(sig) ==
    /\ permanent_fallback
    /\ commands' = fallback_decide(sig)
    /\ UNCHANGED <<relieving, applied, consecutive_errors, permanent_fallback>>

ProcessSignal(sig, vmFails) ==
    /\ reading' = Updated(sig)
    /\ IF permanent_fallback THEN DecideLatched(sig)
       ELSE IF vmFails THEN DecideFails(sig)
       ELSE DecideOk(sig)
    /\ UNCHANGED engine_seen

\* update_engine_state on a heartbeat that brings the latency ratio to r; responses
\* change nothing.
UpdateEngineState(r) ==
    /\ engine_seen' = TRUE
    /\ reading' = IF "latency" \in Axes THEN [reading EXCEPT !["latency"] = r] ELSE reading
    /\ UNCHANGED <<relieving, applied, consecutive_errors, permanent_fallback, commands>>

\* reload_script: a fresh VM on success, no change at all on failure.
ReloadScript(loads) ==
    IF loads
    THEN /\ relieving' = {}
         /\ applied' = NoBudget
         /\ consecutive_errors' = ErrorsAfterReload
         /\ permanent_fallback' = FALSE
         /\ UNCHANGED <<reading, engine_seen, commands>>
    ELSE UNCHANGED policyVars

\* What a command does to the engine's budget.
Obeyed(cmd, budget) ==
    IF cmd.type = "kv.compress" THEN cmd.budget
    ELSE IF cmd.type = "restore_defaults" THEN NoBudget
    ELSE budget

PolicyTypeOK ==
    /\ relieving \in SUBSET Axes
    /\ applied \in Budgets \cup {NoBudget}
    /\ reading \in Pressures
    /\ engine_seen \in BOOLEAN
    /\ consecutive_errors \in 0..FALLBACK_ERROR_THRESHOLD
    /\ permanent_fallback \in BOOLEAN
    /\ commands \in Actions

=============================================================================
