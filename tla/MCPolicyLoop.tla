---------------------------- MODULE MCPolicyLoop ----------------------------
(***************************************************************************)
(* Instances of PolicyLoop: memory and thermal with the thresholds of      *)
(* policy_default.lua in percent.  The level of a memory signal is the one *)
(* MemoryMonitor computes from 100 - pressure against 40/20/10.            *)
(***************************************************************************)
EXTENDS PolicyLoop

MCAxes == <<"memory", "thermal", "latency">>
MCENTER == [memory |-> 80, thermal |-> 75, latency |-> 30]
MCEXIT  == [memory |-> 80, thermal |-> 55, latency |-> 10]

\* 0.85, 0.50 and 0.25 in steps of 0.05.
MCFALLBACK == <<17, 10, 5>>

MCSignals ==
    {[axis |-> "memory", pressure |-> 20, level |-> 0],
     [axis |-> "memory", pressure |-> 70, level |-> 1],
     [axis |-> "memory", pressure |-> 85, level |-> 2],
     [axis |-> "memory", pressure |-> 92, level |-> 3],
     [axis |-> "thermal", pressure |-> 40, level |-> 0],
     [axis |-> "thermal", pressure |-> 60, level |-> 0],
     [axis |-> "thermal", pressure |-> 100, level |-> 1],
     [axis |-> "energy", pressure |-> 0, level |-> 0]}

MCRatios == {0, 40}

=============================================================================
