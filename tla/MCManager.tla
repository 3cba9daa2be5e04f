----------------------------- MODULE MCManager -----------------------------
(* The manager with the memory axis alone, at the script's thresholds.     *)
EXTENDS Manager

MCAxes == <<"memory">>
MCENTER == [a \in {"memory"} |-> 80]
MCEXIT == [a \in {"memory"} |-> 80]
MCFALLBACK == <<17, 10, 5>>

Sig(p, l) == [axis |-> "memory", pressure |-> p, level |-> l]

\* Calm, at the threshold, and in an emergency.
MCSignalsOf == [m \in Monitors |-> {Sig(30, 0), Sig(80, 1), Sig(95, 3)}]
MCPressing == [m \in Monitors |-> {Sig(80, 1)}]
MCInitialSignals == <<Sig(0, 0)>>
MCDirectives == Actions \ {NoAction}

=============================================================================
