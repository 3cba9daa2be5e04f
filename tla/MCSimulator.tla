---------------------------- MODULE MCSimulator -----------------------------
(***************************************************************************)
(* The scenarios of the model of the simulator.  Time is in half seconds.  *)
(***************************************************************************)
EXTENDS Simulator

Compress50 == <<[type |-> "KvCompress", budget |-> 50]>>
Compress30 == <<[type |-> "Suspend"], [type |-> "KvCompress", budget |-> 30]>>
Restore == <<[type |-> "RestoreDefaults"]>>
MCCommands == {Compress50, Compress30, Restore}

MCLag == [d \in {0, 4} \X (0..3) |-> IF d[1] = 0 THEN 100 ELSE 20 + 10 * d[2]]

Literal(op, v, tau) == [op |-> op, expr |-> "literal", value |-> v, tau |-> tau]
OfRatio(op) == [op |-> op, expr |-> "target_ratio", value |-> 0, tau |-> 0]
Failing(op) == [op |-> op, expr |-> "fails", value |-> 0, tau |-> 0]

Actions ==
    [Evict   |-> [when |-> "evicting", effects |-> [kv_cache_bytes |-> OfRatio("scale")]],
     Slow    |-> [when |-> "always", effects |-> [engine_gpu_pct |-> Literal("set", 30, 4),
                                                   engine_cpu_pct |-> Literal("scale", 50, 0)]],
     Slower  |-> [when |-> "always", effects |-> [engine_gpu_pct |-> Literal("set", 20, 4),
                                                   engine_cpu_pct |-> Literal("scale", 40, 0)]],
     Spread  |-> [when |-> "always", effects |-> [engine_gpu_pct |-> Literal("add", 5, 0),
                                                   engine_cpu_pct |-> Failing("set")]],
     Never   |-> [when |-> "fails", effects |-> [engine_gpu_pct |-> Literal("set", 99, 0)]]]

Interactions ==
    <<[actions |-> {"Slow", "Slower"}, effects |-> [engine_gpu_pct |-> Literal("set", 25, 0),
                                                   memory_bw_utilization_pct |-> Literal("set_tau", 4, 0)]],
      [actions |-> {"Slow", "Spread"}, effects |-> [engine_cpu_pct |-> OfRatio("set")]]>>

Throughput == [expr |-> "throughput", tau |-> 0]
TimeBetweenTokens == [expr |-> "1000 / throughput_tps", tau |-> 0]

InitialState ==
    [kv_cache_bytes |-> 100, kv_cache_tokens |-> 10, kv_cache_capacity_bytes |-> 160,
     device_memory_total_mb |-> 100, device_memory_used_mb |-> 50,
     engine_cpu_pct |-> 40, external_cpu_pct |-> 10, engine_gpu_pct |-> 60, external_gpu_pct |-> 0,
     cpu_freq_mhz |-> 2000, cpu_min_freq_mhz |-> 500, cpu_max_freq_mhz |-> 2000,
     gpu_freq_mhz |-> 800, gpu_min_freq_mhz |-> 400, gpu_max_freq_mhz |-> 800,
     thermal_c |-> 500, cpu_cluster_thermal_c |-> 500, gpu_cluster_thermal_c |-> 500,
     memory_bw_utilization_pct |-> 20,
     base_tps_decode_gpu |-> 20, base_tps_decode_partition |-> 30, base_tps_decode_cpu |-> 8, base_tps_prefill_gpu |-> 40]

run_for(n) == [op |-> "run_for", for |-> n]
run_until(n) == [op |-> "run_until", for |-> n]

Base ==
    [tick |-> 2, init |-> InitialState, active |-> <<>>, partition |-> 40, delay |-> 2, tbt_target |-> 150,
     dvfs |-> [cpu |-> [soft |-> 700, hard |-> 900, k |-> 50, tau |-> 4],
               gpu |-> [soft |-> 650, hard |-> 850, k |-> 50, tau |-> 0]],
     thermal |-> [cpu |-> [baseline |-> 300, coeff |-> 500, tau |-> 4],
                  gpu |-> [baseline |-> 300, coeff |-> 400, tau |-> 0]],
     coupling |-> 20, growth |-> 3, phase |-> "idle", device |-> "cpu",
     injections |-> <<>>, actions |-> Actions, interactions |-> Interactions,
     per_dimension |-> [engine_gpu_pct |-> "min"], default |-> "max",
     derived |-> [throughput_tps |-> Throughput, tbt_ms |-> TimeBetweenTokens,
                 latency_degradation |-> [expr |-> "degradation", tau |-> 0], label |-> [expr |-> "string", tau |-> 0]],
     order |-> <<"throughput_tps", "label", "tbt_ms", "latency_degradation">>,
     period |-> [Heartbeat |-> 4, memory |-> 2, compute |-> 0, thermal |-> 0, energy |-> 0],
     noise |-> {0}, answers |-> {}, calls |-> <<run_for(4)>>]

Inject(var, op, delta, tau, start, for) ==
    [var |-> var, op |-> op, delta |-> delta, tau |-> tau, t_start |-> start, duration |-> for]

\* A policy that may answer anything to the memory signal, while memory gets short and the
\* engine's compression takes effect.
Deciding ==
    [Base EXCEPT !.answers = MCCommands, !.active = <<"Evict">>, !.phase = "decode", !.device = "partition",
                 !.injections = <<Inject("device_memory_used_mb", "set", 85, 0, 2, 4),
                                  Inject("device_memory_used_mb", "set", 95, 4, 6, 4)>>,
                 !.calls = <<run_for(6), run_for(8)>>]

\* All signals, and runs that end early, late or beyond the horizon.
AllPeriods == [Heartbeat |-> 2, memory |-> 2, compute |-> 3, thermal |-> 4, energy |-> 5]
Polling ==
    {[Base EXCEPT !.tick = t, !.period = AllPeriods, !.calls = c,
                  !.injections = <<Inject("external_cpu_pct", "add", 15, 0, s, 3),
                                   Inject("fan_rpm", "set", 1, 0, s, 2)>>] :
        t \in 1..3, s \in {0, 2},
        c \in {<<run_for(6), run_for(6)>>, <<run_until(4), run_for(6)>>, <<run_for(5), run_until(6)>>,
               <<run_until(10), run_for(3)>>}}

\* Noise moves the levels to and fro.
Noisy ==
    [Base EXCEPT !.noise = {-40, 0, 40}, !.tick = 1, !.calls = <<run_for(6)>>,
                 !.init["thermal_c"] = 770, !.init["external_cpu_pct"] = 40,
                 !.period = [AllPeriods EXCEPT !["Heartbeat"] = 0]]

\* The physics, hot and cold, throttled more or less, in every phase and on every device.
Heating ==
    {[Base EXCEPT !.tick = t, !.phase = w[1], !.device = w[2], !.order = o,
                  !.dvfs["cpu"].k = k, !.dvfs["gpu"].k = k,
                  !.init["cpu_cluster_thermal_c"] = temp[1], !.init["gpu_cluster_thermal_c"] = temp[2],
                  !.init["memory_bw_utilization_pct"] = 90, !.init["engine_cpu_pct"] = 90,
                  !.calls = <<run_for(9)>>] :
        t \in {1, 3}, k \in {50, 150}, temp \in {<<300, 880>>, <<840, 840>>},
        w \in {<<"decode", "cpu">>, <<"decode", "opencl">>, <<"decode", "partition">>, <<"decode", "none">>, <<"prefill", "cpu">>},
        o \in {<<"throughput_tps", "tbt_ms">>, <<"tbt_ms", "throughput_tps">>}}

\* Several actions on one dimension.
Composing ==
    {[Base EXCEPT !.active = a, !.calls = <<run_for(4)>>,
                  !.derived["throughput_tps"] = [expr |-> "throughput", tau |-> 4]] :
        a \in {<<"Slow", "Slower">>, <<"Slower", "Slow">>, <<"Slow", "Spread">>, <<"Spread", "Slower">>,
               <<"Slow", "Spread", "Slower">>, <<"Spread", "Slow", "Never", "Unknown">>}}

MCScenarios == {Deciding, Noisy} \cup Polling \cup Heating \cup Composing

\* The files of a scenario: a parent whose memory does not fit, children that repair it.
Doc(init, derived) == [s \in {"initial_state", "derived"} |-> IF s = "derived" THEN derived ELSE init]
State(used, total) == Map([k \in {"used", "total"} |-> IF k = "used" THEN used ELSE total])
MCDocuments ==
    {Doc(State(5, 4), Plain("number")), Doc(State(3, 0), Absent), Doc(State(0, 6), Plain("boolean")),
     Doc(Plain(0), Absent), Doc(State(1, 0), Plain("fails"))}

\* The scenario a loaded document describes; before that, an idle one.
MCScenarioOf(doc) ==
    LET value(k) == IF doc["initial_state"].is = "map" THEN doc["initial_state"].m[k] ELSE 1
        expr     == IF doc["derived"].is = "plain" THEN doc["derived"].v ELSE "string"
    IN  [Base EXCEPT !.init["device_memory_used_mb"] = value("used"),
                     !.init["device_memory_total_mb"] = value("total"),
                     !.derived["label"].expr = IF expr = "boolean" THEN "boolean" ELSE "string",
                     !.calls = <<run_for(2)>>]

=============================================================================
