--------------------------- MODULE MCPolicyWindow ---------------------------
(***************************************************************************)
(* An instance of PolicyWindow with the axes and thresholds of             *)
(* policy_default.lua, in percent: B_STEP = 0.05, B_MAX = 0.90 (18 steps), *)
(* B_MIN = 0.25 (5).                                                       *)
(***************************************************************************)
EXTENDS PolicyWindow

MCAxes  == <<"memory", "gpu", "thermal", "latency">>
MCENTER == [memory |-> 80, gpu |-> 85, thermal |-> 75, latency |-> 30]
MCEXIT  == [memory |-> 80, gpu |-> 60, thermal |-> 55, latency |-> 10]

\* Memory walks its whole ramp of 14 budgets percent by percent; the other axes are below
\* EXIT, inside the hysteresis gap or past ENTER.  Latency is a ratio and may
\* exceed 1.0.
MCReadings ==
    {[memory |-> m, gpu |-> g, thermal |-> t, latency |-> l] :
        m \in {0} \cup 80..100, g \in {0, 92}, t \in {0, 60, 88}, l \in {0, 130}}

=============================================================================
