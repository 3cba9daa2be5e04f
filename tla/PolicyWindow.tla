---------------------------- MODULE PolicyWindow ----------------------------
(***************************************************************************)
(* The relief windows of policy_default.lua: the script driven by an       *)
(* arbitrary sequence of pressure readings, before and after the engine's  *)
(* first heartbeat.                                                        *)
(***************************************************************************)
EXTENDS PolicyDefault

CONSTANT Readings    \* the pressure vectors the sensors may produce

\* SignalState::default and a latency tracker without a baseline: no pressure.
NoPressure == [a \in Axes |-> 0]

ASSUME ReadingsAssumption == Readings \subseteq Pressures /\ NoPressure \in Readings

VARIABLES
    seen,       \* ctx.engine.seen: a heartbeat has arrived
    relieving,  \* script local: the axes being relieved
    applied,    \* script local: the budget in force, NoBudget outside a window
    p,          \* the pressures of the latest decide() call
    action,     \* what that call returned
    sent        \* history: directives sent in the open window

vars == <<seen, relieving, applied, p, action, sent>>

Init ==
    /\ seen = FALSE
    /\ relieving = {}
    /\ applied = NoBudget
    /\ p = NoPressure
    /\ action = NoAction
    /\ sent = 0

\* The engine's first heartbeat (LuaPolicy::update_engine_state).
Heartbeat ==
    /\ ~seen
    /\ seen' = TRUE
    /\ UNCHANGED <<relieving, applied, p, action, sent>>

\* decide() runs once per signal and a signal updates one axis (LuaPolicy::process_signal);
\* latency follows the heartbeats instead and may have moved as well.
OneSignal(q) == \E a \in Axes : \A b \in Axes \ {a, "latency"} : q[b] = p[b]

\* decide(ctx) with pressures q.
Decide(q) ==
    /\ OneSignal(q)
    /\ p' = q
    /\ UNCHANGED seen
    /\ \/ /\ ~seen
          /\ action' = NoAction
          /\ UNCHANGED <<relieving, applied, sent>>
       \/ /\ seen
          /\ \E a \in Axes :
                LET d == decide(relieving, applied, q, a)
                IN  /\ IsMostStressed(q, a)
                    /\ relieving' = d.relieving
                    /\ applied' = d.applied
                    /\ action' = d.action
                    /\ sent' = CASE d.applied = NoBudget -> 0
                                 [] d.applied # NoBudget /\ d.action = NoAction -> sent
                                 [] OTHER -> sent + 1

Next == Heartbeat \/ \E q \in Readings : Decide(q)

Spec == Init /\ [][Next]_vars

-----------------------------------------------------------------------------
TypeOK ==
    /\ seen \in BOOLEAN
    /\ relieving \in SUBSET Axes
    /\ applied \in Budgets \cup {NoBudget}
    /\ p \in Readings
    /\ action \in Actions
    /\ sent \in Nat

(***************************************************************************)
(* A budget is in force exactly while some axis is being relieved.  Were   *)
(* the two locals to part, a budget would stay with no axis left to end    *)
(* its window (the latch the comment in decide() describes), or an axis    *)
(* would be relieved with nothing in force.                                *)
(***************************************************************************)
WindowConsistent == applied = NoBudget <=> relieving = {}

(***************************************************************************)
(* "one window can now emit at most 14 directives no matter how long it    *)
(* lasts or how badly the signal dithers": the length of the ramp bounds   *)
(* the directives of a window.                                             *)
(***************************************************************************)
WindowBounded == sent <= B_MAX - B_MIN + 1

(***************************************************************************)
(* "A window only ever TIGHTENS": within one window the budget in force    *)
(* never grows, and every budget sent is strictly below the one in force.  *)
(***************************************************************************)
WindowTightens ==
    [][applied # NoBudget /\ applied' # NoBudget
          => /\ applied' <= applied
             /\ sent' # sent => applied' < applied]_vars

(***************************************************************************)
(* No lost window: once a call of decide() has seen every axis under its   *)
(* EXIT threshold, no budget is in force, whichever axes opened windows    *)
(* and in which order they cooled.                                         *)
(***************************************************************************)
CalmReleases == (\A a \in Axes : p[a] < EXIT[a]) => applied = NoBudget

(***************************************************************************)
(* Unless a call closes the window, it leaves a budget in force that is at *)
(* least as tight as the ramp asks for on the most stressed axis.  The     *)
(* ratchet withholds a directive only when nothing is lost by it.          *)
(***************************************************************************)
WorstAxisCovered ==
    [][seen /\ action' # RestoreDefaults
          => \A a \in Axes : IsMostStressed(p', a) /\ p'[a] >= ENTER[a]
                => applied' # NoBudget /\ applied' <= B_kv(p'[a], a)]_vars

(***************************************************************************)
(* The cache is given back only with headroom on every axis: "Headroom on  *)
(* the worst axis means headroom everywhere: run at full accuracy".  The   *)
(* script breaks this: only the most stressed axis is ever entered into    *)
(* `relieving', so when that axis cools while another one is past its own  *)
(* ENTER threshold, the sweep finds no window left and restores.           *)
(***************************************************************************)
ReleasesOnlyWithHeadroom ==
    action = RestoreDefaults => \A a \in Axes : p[a] < ENTER[a]

=============================================================================
