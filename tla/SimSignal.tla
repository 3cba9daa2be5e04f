----------------------------- MODULE SimSignal ------------------------------
(***************************************************************************)
(* The signals the simulator derives from its physical state               *)
(* (sim/signal.rs), with the stateless levels of monitor/memory.rs,        *)
(* thermal.rs and compute.rs under their default thresholds.               *)
(***************************************************************************)
EXTENDS SimPhysics

Normal == 0
Warning == 1
Critical == 2
Emergency == 3

SignalKinds == {"memory", "compute", "thermal", "energy"}

memory_level_from_available_pct(pct) ==
    IF pct <= 10 THEN Emergency ELSE IF pct <= 20 THEN Critical ELSE IF pct <= 40 THEN Warning ELSE Normal

thermal_level_from_temp_c(temp) ==
    IF temp >= 850 THEN Emergency ELSE IF temp >= 750 THEN Critical ELSE IF temp >= 600 THEN Warning ELSE Normal

\* A compute signal has no Emergency level.
compute_level_from_pcts(cpu, gpu) ==
    LET worst == Max({cpu, gpu})
    IN  IF worst >= 90 THEN Critical ELSE IF worst >= 70 THEN Warning ELSE Normal

\* noise moves what is available, which never falls below 0.
derive_memory_signal(s, noise) ==
    LET total     == s["device_memory_total_mb"]
        available == Max({0, total - s["device_memory_used_mb"] + noise})
        level     == memory_level_from_available_pct(IF total > 0 THEN (100 * available) \div total ELSE 100)
    IN  [kind |-> "memory", level |-> level, available |-> available, total |-> total,
         reclaim_target |-> (total * <<0, 5, 10, 20>>[level + 1]) \div 100]

\* compute_recommendation: away from the hot device; when neither is hot, to the one with
\* clearly less load.
compute_recommendation(cpu, gpu, warning) ==
    IF cpu >= warning /\ gpu >= warning THEN "Any"
    ELSE IF cpu >= warning THEN "Gpu"
    ELSE IF gpu >= warning THEN "Cpu"
    ELSE IF cpu - gpu \in -9..9 THEN "Any"
    ELSE IF cpu < gpu THEN "Cpu" ELSE "Gpu"

\* A GPU that is critically hot is avoided whatever the load.
sim_compute_recommendation(cpu, gpu, gpu_thermal) ==
    IF thermal_level_from_temp_c(gpu_thermal) >= Critical THEN "Cpu"
    ELSE compute_recommendation(cpu, gpu, 70)

\* Engine and external load together, at most 100, with the noise of the CPU.
derive_compute_signal(s, noise) ==
    LET load(c) == Min({100, s[EngineOf[c]] + s[ExternalOf[c]]})
        cpu     == clamp(load("cpu") + noise, 0, 100)
    IN  [kind |-> "compute", level |-> compute_level_from_pcts(cpu, load("gpu")),
         cpu_usage_pct |-> cpu, gpu_usage_pct |-> load("gpu"),
         recommended_backend |-> sim_compute_recommendation(cpu, load("gpu"), s["gpu_cluster_thermal_c"])]

\* Whether throttling is active is told without the noise, and by the threshold of the CPU.
derive_thermal_signal(s, noise, cfg) ==
    [kind |-> "thermal", level |-> thermal_level_from_temp_c(s["thermal_c"] + noise),
     temperature |-> s["thermal_c"] + noise, throttling_active |-> s["thermal_c"] >= cfg.dvfs["cpu"].soft]

\* No battery is simulated: only heat constrains energy, from Critical on, and the power
\* budget does not follow it.
derive_energy_signal(s, noise) ==
    LET level == thermal_level_from_temp_c(s["thermal_c"])
    IN  [kind |-> "energy", level |-> IF level >= Critical THEN level ELSE Normal,
         reason |-> IF level >= Critical THEN "ThermalPower" ELSE "None",
         power_budget_mw |-> Max({0, 5000 + noise})]

derive_signal(kind, s, noise, cfg) ==
    CASE kind = "memory"  -> derive_memory_signal(s, noise)
      [] kind = "compute" -> derive_compute_signal(s, noise)
      [] kind = "thermal" -> derive_thermal_signal(s, noise, cfg)
      [] kind = "energy"  -> derive_energy_signal(s, noise)

\* What derive_heartbeat computes from the state it drops: every heartbeat is the same.
derive_heartbeat(s, engine) ==
    [kv_cache_bytes |-> 1024, kv_cache_budget_bytes |-> 4096, kv_cache_tokens |-> 32,
     phase |-> "Decode", state |-> "Running"]

=============================================================================
