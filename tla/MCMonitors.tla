----------------------------- MODULE MCMonitors -----------------------------
(* Monitors with the defaults of config.rs, for TLC. *)
EXTENDS Monitors

\* Available memory and battery in percent, temperature in units of 1000 mC, compute load
\* (no Emergency level), and a memory monitor whose thresholds are closer together than
\* its hysteresis.
Memory  == [direction |-> "Descending", at |-> <<40, 20, 10>>,    hysteresis |-> 5]
Narrow  == [direction |-> "Descending", at |-> <<20, 16, 15>>,    hysteresis |-> 5]
Battery == [direction |-> "Descending", at |-> <<30, 15, 5>>,     hysteresis |-> 2]
Thermal == [direction |-> "Ascending",  at |-> <<60, 75, 85>>,    hysteresis |-> 5]
Compute == [direction |-> "Ascending",  at |-> <<70, 90, 100000>>, hysteresis |-> 5]

MCConfigs == {Memory, Narrow, Battery, Thermal, Compute}
MCConfigsOf ==
    [memory |-> {Memory, Narrow}, thermal |-> {Thermal}, compute |-> {Compute}, energy |-> {Battery}]

\* The edges of every band, and beyond.
MCReadings ==
    [memory  |-> {0, 10, 11, 15, 16, 20, 21, 22, 25, 26, 40, 41, 45, 46, 100},
     thermal |-> {54, 55, 60, 69, 70, 75, 79, 80, 85},
     energy  |-> {0, 5, 6, 7, 8, 15, 16, 17, 18, 30, 31, 32, 33, 100}]

MCValues == 0..100 \cup {1000}

\* Idle, busy, standing still, idle time outgrowing the total (iowait went down), and a
\* total that went down; the threads of a Jetson are explored with the second.
AllGrowths ==
    {[total |-> 10, idle |-> 10], [total |-> 10, idle |-> 3], [total |-> 0, idle |-> 0],
     [total |-> 5, idle |-> 10], [total |-> -10, idle |-> 0]}

MCGrowths ==
    [jetson |-> {[total |-> 10, idle |-> 3]},
     null |-> AllGrowths, sysfs |-> AllGrowths, freq_only |-> AllGrowths]

=============================================================================
