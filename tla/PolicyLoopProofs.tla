-------------------------- MODULE PolicyLoopProofs --------------------------
(***************************************************************************)
(* LuaPolicy closed over an obedient engine: its fields stay well typed    *)
(* whatever fails, and while the script alone decides it and the engine    *)
(* agree on the budget, across reloads, for every script configuration.    *)
(***************************************************************************)
EXTENDS PolicyLoop, PolicyDefaultProofs, SequenceTheorems, TLAPS

Consistent == applied = NoBudget <=> relieving = {}

CountBelow == ~permanent_fallback => consecutive_errors < FALLBACK_ERROR_THRESHOLD

IInv == TypeOK /\ Consistent /\ CountBelow

\* The fallback answers every signal with an action the script could return.
LEMMA FallbackIsAction ==
    ASSUME NEW sig \in Signal
    PROVE  fallback_decide(sig) \in Actions
<1>1. CASE sig.axis # "memory" \/ sig.level = 0
    BY <1>1 DEF fallback_decide, Actions, NoAction, RestoreDefaults
<1>2. CASE sig.axis = "memory" /\ sig.level # 0
    <2>1. sig.level \in 1..3
        BY <1>2 DEF Signal
    <2>2. FALLBACK_BUDGET[sig.level] \in Budgets
        BY <2>1, LuaPolicyAssumption
    <2> QED
        BY <1>2, <2>2 DEF fallback_decide, Actions, KvCompress
<1> QED
    BY <1>1, <1>2

\* process_signal keeps one reading per axis.
LEMMA UpdatedIsPressures ==
    ASSUME reading \in Pressures, NEW sig \in Signal
    PROVE  Updated(sig) \in Pressures
BY DEF Updated, Pressures, Signal

\* An obeyed action leaves the engine with a budget or with none.
LEMMA ObeyedIsBudget ==
    ASSUME NEW cmd \in Actions, NEW b \in Budgets \cup {NoBudget}
    PROVE  Obeyed(cmd, b) \in Budgets \cup {NoBudget}
BY DEF Obeyed, Actions

\* A decision the script may take is well typed and keeps windows and budget in step.
LEMMA DecisionTyped ==
    ASSUME IInv, NEW q \in Pressures, NEW d \in Decisions(q)
    PROVE  /\ d.relieving \in SUBSET Axes
           /\ d.applied \in Budgets \cup {NoBudget}
           /\ d.action \in Actions
           /\ d.applied = NoBudget <=> d.relieving = {}
<1>1. CASE engine_seen
    <2>1. PICK a \in Axes : d = decide(relieving, applied, q, a)
        BY <1>1 DEF Decisions
    <2>2. /\ relieving \in SUBSET Axes /\ applied \in Budgets \cup {NoBudget}
          /\ applied = NoBudget <=> relieving = {}
        BY DEF IInv, TypeOK, PolicyTypeOK, Consistent
    <2> DEFINE e == decide(relieving, applied, q, a)
    <2>3. /\ e.relieving \in SUBSET Axes
          /\ e.applied \in Budgets \cup {NoBudget}
          /\ e.action \in Actions
          /\ e.applied = NoBudget <=> e.relieving = {}
        BY <2>2, DecideStep
    <2> QED
        BY <2>1, <2>3
<1>2. CASE ~engine_seen
    <2>1. d = [relieving |-> relieving, applied |-> applied, action |-> NoAction]
        BY <1>2 DEF Decisions
    <2> QED
        BY <2>1 DEF IInv, TypeOK, PolicyTypeOK, Consistent, Actions, NoAction
<1> QED
    BY <1>1, <1>2

\* The history of outcomes stays a sequence of outcomes.
LEMMA RememberTyped ==
    ASSUME outcomes \in Seq({"ok", "failed"}), NEW o \in {"ok", "failed"}
    PROVE  Remember(o) \in Seq({"ok", "failed"})
<1> DEFINE s == <<o>> \o outcomes
           n == IF Len(outcomes) < FALLBACK_ERROR_THRESHOLD
                THEN Len(outcomes) + 1 ELSE FALLBACK_ERROR_THRESHOLD
<1>1. s \in Seq({"ok", "failed"}) /\ Len(s) = Len(outcomes) + 1 /\ Len(outcomes) \in Nat
    OBVIOUS
<1>2. n \in Nat /\ n <= Len(s)
    BY <1>1, LuaPolicyAssumption
<1>3. \A i \in 1..n : s[i] \in {"ok", "failed"}
    BY <1>1, <1>2
<1> HIDE DEF s, n
<1>4. SubSeq(s, 1, n) \in Seq({"ok", "failed"})
    BY <1>1, <1>2, <1>3, SubSeqProperties
<1> QED
    BY <1>4 DEF Remember, s, n

\* The newest outcome is put in front; the others move up by one, the oldest may drop out.
LEMMA RememberShifts ==
    ASSUME outcomes \in Seq({"ok", "failed"}), NEW o \in {"ok", "failed"},
           Len(outcomes) <= FALLBACK_ERROR_THRESHOLD
    PROVE  /\ Len(Remember(o)) = IF Len(outcomes) < FALLBACK_ERROR_THRESHOLD
                                 THEN Len(outcomes) + 1 ELSE FALLBACK_ERROR_THRESHOLD
           /\ \A i \in 1..Len(Remember(o)) :
                 Remember(o)[i] = IF i = 1 THEN o ELSE outcomes[i - 1]
<1> DEFINE s == <<o>> \o outcomes
           n == IF Len(outcomes) < FALLBACK_ERROR_THRESHOLD
                THEN Len(outcomes) + 1 ELSE FALLBACK_ERROR_THRESHOLD
<1>1. /\ s \in Seq({"ok", "failed"}) /\ Len(s) = Len(outcomes) + 1 /\ Len(outcomes) \in Nat
      /\ \A i \in 1..Len(s) : s[i] = IF i = 1 THEN o ELSE outcomes[i - 1]
    OBVIOUS
<1>2. n \in Nat /\ n <= Len(s)
    BY <1>1, LuaPolicyAssumption
<1>3. \A i \in 1..n : s[i] \in {"ok", "failed"}
    BY <1>1, <1>2
<1> HIDE DEF s, n
<1>4. Len(SubSeq(s, 1, n)) = n /\ \A i \in 1..n : SubSeq(s, 1, n)[i] = s[i]
    BY <1>1, <1>2, <1>3, SubSeqProperties
<1>5. \A i \in 1..n : SubSeq(s, 1, n)[i] = IF i = 1 THEN o ELSE outcomes[i - 1]
    BY <1>1, <1>2, <1>4
<1> QED
    BY <1>4, <1>5 DEF Remember, s, n

-----------------------------------------------------------------------------
\* A host that has decided nothing satisfies the inductive invariant.
LEMMA InitIInv == Init => IInv
<1> SUFFICES ASSUME Init PROVE IInv
    OBVIOUS
<1>1. PolicyTypeOK
    <2>1. NoAction \in Actions /\ [a \in Axes |-> 0] \in Pressures
        BY DEF NoAction, Actions, Pressures
    <2>2. 0 \in 0..FALLBACK_ERROR_THRESHOLD
        BY LuaPolicyAssumption
    <2> QED
        BY <2>1, <2>2 DEF Init, PolicyInit, PolicyTypeOK
<1>2. TypeOK
    <2>1. <<>> \in Seq({"ok", "failed"})
        OBVIOUS
    <2>2. inForce = NoBudget /\ outcomes = <<>> /\ faulted = FALSE /\ orphaned = FALSE
        BY DEF Init
    <2> QED
        BY <1>1, <2>1, <2>2, Zenon DEF TypeOK
<1>3. CountBelow
    BY LuaPolicyAssumption DEF Init, PolicyInit, CountBelow
<1>4. Consistent
    BY DEF Init, PolicyInit, Consistent
<1> QED
    BY <1>2, <1>3, <1>4 DEF IInv

\* So does one that has processed a signal, whichever way call_decide took.
LEMMA SignalIInv ==
    ASSUME IInv, NEW sig \in Signals, NEW f \in BOOLEAN, OnSignal(sig, f)
    PROVE  IInv'
<1>1. sig \in Signal /\ reading \in Pressures
    BY PolicyLoopAssumption DEF IInv, TypeOK, PolicyTypeOK
<1>2. reading' = Updated(sig) /\ reading' \in Pressures /\ engine_seen' = engine_seen
    BY <1>1, UpdatedIsPressures DEF OnSignal, ProcessSignal
<1>3. consecutive_errors \in 0..FALLBACK_ERROR_THRESHOLD /\ FALLBACK_ERROR_THRESHOLD \in Nat \ {0}
    BY LuaPolicyAssumption DEF IInv, TypeOK, PolicyTypeOK
<1>4. /\ relieving' \in SUBSET Axes
      /\ applied' \in Budgets \cup {NoBudget}
      /\ Consistent'
      /\ commands' \in Actions
    <2>1. CASE permanent_fallback
        BY <2>1, <1>1, FallbackIsAction
           DEF OnSignal, ProcessSignal, DecideLatched, IInv, TypeOK, PolicyTypeOK, Consistent
    <2>2. CASE ~permanent_fallback /\ f
        <3>1. commands' = fallback_decide(sig)
            BY <2>2 DEF OnSignal, ProcessSignal, DecideFails
        <3>2. \/ UNCHANGED <<relieving, applied>>
              \/ \E d \in Decisions(Updated(sig)) : relieving' = d.relieving /\ applied' = d.applied
            BY <2>2 DEF OnSignal, ProcessSignal, DecideFails
        <3> QED
            BY <3>1, <3>2, <1>1, <1>2, FallbackIsAction, DecisionTyped
               DEF IInv, TypeOK, PolicyTypeOK, Consistent
    <2>3. CASE ~permanent_fallback /\ ~f
        <3>1. PICK d \in Decisions(Updated(sig)) :
                relieving' = d.relieving /\ applied' = d.applied /\ commands' = d.action
            BY <2>3 DEF OnSignal, ProcessSignal, DecideOk
        <3> QED
            BY <3>1, <1>2, DecisionTyped DEF Consistent
    <2> QED
        BY <2>1, <2>2, <2>3
<1>5. /\ consecutive_errors' \in 0..FALLBACK_ERROR_THRESHOLD
      /\ permanent_fallback' \in BOOLEAN
      /\ CountBelow'
    <2>1. CASE permanent_fallback
        BY <2>1, <1>3 DEF OnSignal, ProcessSignal, DecideLatched, IInv, TypeOK, PolicyTypeOK, CountBelow
    <2>2. CASE ~permanent_fallback /\ f
        <3>1. /\ consecutive_errors' = consecutive_errors + 1
              /\ permanent_fallback' = (consecutive_errors' >= FALLBACK_ERROR_THRESHOLD)
            BY <2>2 DEF OnSignal, ProcessSignal, DecideFails, LatchedAfter
        <3>2. consecutive_errors < FALLBACK_ERROR_THRESHOLD
            BY <2>2 DEF IInv, CountBelow
        <3>3. consecutive_errors' \in 0..FALLBACK_ERROR_THRESHOLD
            BY <3>1, <3>2, <1>3
        <3>4. CASE consecutive_errors' >= FALLBACK_ERROR_THRESHOLD
            BY <3>1, <3>3, <3>4 DEF CountBelow
        <3>5. CASE ~(consecutive_errors' >= FALLBACK_ERROR_THRESHOLD)
            BY <3>1, <3>3, <3>5, <1>3 DEF CountBelow
        <3> QED
            BY <3>4, <3>5
    <2>3. CASE ~permanent_fallback /\ ~f
        <3>1. consecutive_errors' = 0 /\ permanent_fallback' = permanent_fallback
            BY <2>3 DEF OnSignal, ProcessSignal, DecideOk, ErrorsAfterSuccess
        <3> QED
            BY <3>1, <1>3 DEF CountBelow, IInv, TypeOK, PolicyTypeOK
    <2> QED
        BY <2>1, <2>2, <2>3
<1>6. inForce' \in Budgets \cup {NoBudget}
    BY <1>4, ObeyedIsBudget DEF OnSignal, IInv, TypeOK
<1>7. outcomes' \in Seq({"ok", "failed"})
    <2>1. Remember(IF f THEN "failed" ELSE "ok") \in Seq({"ok", "failed"})
        BY RememberTyped DEF IInv, TypeOK
    <2> QED
        BY <2>1 DEF OnSignal, IInv, TypeOK
<1>8. faulted' \in BOOLEAN /\ orphaned' \in BOOLEAN
    BY DEF OnSignal, IInv, TypeOK
<1> QED
    BY <1>2, <1>4, <1>5, <1>6, <1>7, <1>8 DEF IInv, TypeOK, PolicyTypeOK

\* A heartbeat touches only the engine state.
LEMMA HeartbeatIInv ==
    ASSUME IInv, NEW r \in Ratios, OnHeartbeat(r)
    PROVE  IInv'
<1>1. r \in Int
    BY PolicyLoopAssumption
<1>2. reading' \in Pressures
    BY <1>1 DEF OnHeartbeat, UpdateEngineState, IInv, TypeOK, PolicyTypeOK, Pressures
<1> QED
    BY <1>2 DEF OnHeartbeat, UpdateEngineState, IInv, TypeOK, PolicyTypeOK, Consistent, CountBelow

\* A reload replaces the locals of the script by fresh ones, or nothing.
LEMMA ReloadIInv ==
    ASSUME IInv, NEW loads \in BOOLEAN, OnReload(loads)
    PROVE  IInv'
<1>1. CASE loads
    <2>1. /\ relieving' = {} /\ applied' = NoBudget /\ consecutive_errors' = 0
          /\ permanent_fallback' = FALSE /\ outcomes' = <<>>
          /\ faulted' = FALSE /\ orphaned' = (inForce # NoBudget)
          /\ UNCHANGED <<reading, engine_seen, commands, inForce>>
        BY <1>1 DEF OnReload, ReloadScript, ErrorsAfterReload
    <2>2. 0 \in 0..FALLBACK_ERROR_THRESHOLD /\ 0 < FALLBACK_ERROR_THRESHOLD
        BY LuaPolicyAssumption
    <2>3. <<>> \in Seq({"ok", "failed"}) /\ {} \in SUBSET Axes
        OBVIOUS
    <2>4. TypeOK'
        BY <2>1, <2>2, <2>3 DEF IInv, TypeOK, PolicyTypeOK
    <2>5. Consistent' /\ CountBelow'
        BY <2>1, <2>2 DEF Consistent, CountBelow
    <2> QED
        BY <2>4, <2>5 DEF IInv
<1>2. CASE ~loads
    BY <1>2 DEF OnReload, ReloadScript, policyVars, IInv, TypeOK, PolicyTypeOK, Consistent, CountBelow
<1> QED
    BY <1>1, <1>2

\* The invariant is inductive.
LEMMA NextIInv == IInv /\ [Next]_vars => IInv'
<1> SUFFICES ASSUME IInv, [Next]_vars PROVE IInv'
    OBVIOUS
<1>1. CASE UNCHANGED vars
    BY <1>1 DEF vars, IInv, TypeOK, PolicyTypeOK, Consistent, CountBelow
<1> QED
    BY <1>1, SignalIInv, HeartbeatIInv, ReloadIInv DEF Next, VmOutcomes

\* It holds in every reachable state.
LEMMA Invariance == Spec => []IInv
BY InitIInv, NextIInv, PTL DEF Spec

(***************************************************************************)
(* The fields of LuaPolicy stay well typed whatever the VM, the script     *)
(* file and the monitors do; the failure count never passes the threshold. *)
(***************************************************************************)
THEOREM LoopTypeCorrect == Spec => []TypeOK
BY Invariance, PTL DEF IInv

-----------------------------------------------------------------------------
(* The agreement of script and engine.  A latched fallback has seen a      *)
(* failure, so while no call has failed it is the script that answers; a   *)
(* compressed engine then belongs to a window the script knows, unless it  *)
(* was compressed when the script was loaded.                              *)

LatchMeansFault == permanent_fallback => faulted

NoOrphan == ~faulted /\ ~orphaned /\ applied = NoBudget => inForce = NoBudget

Agreement == LatchMeansFault /\ AppliedInForce /\ NoOrphan

\* What a call that does not fail does, while none has failed before.
LEMMA SoundCall ==
    ASSUME IInv, LatchMeansFault, NEW sig \in Signals, NEW f \in BOOLEAN,
           OnSignal(sig, f), ~faulted'
    PROVE  /\ ~faulted /\ ~permanent_fallback /\ ~permanent_fallback'
           /\ reading' = Updated(sig) /\ reading' \in Pressures
           /\ orphaned' = orphaned
           /\ inForce' = Obeyed(commands', inForce)
           /\ \E d \in Decisions(reading') :
                 relieving' = d.relieving /\ applied' = d.applied /\ commands' = d.action
<1>1. ~faulted /\ f = FALSE /\ ~permanent_fallback
    BY DEF OnSignal, LatchMeansFault
<1>2. DecideOk(sig) /\ reading' = Updated(sig)
    BY <1>1 DEF OnSignal, ProcessSignal
<1>3. reading' \in Pressures
    BY <1>2, PolicyLoopAssumption, UpdatedIsPressures DEF IInv, TypeOK, PolicyTypeOK
<1> QED
    BY <1>1, <1>2, <1>3 DEF OnSignal, DecideOk

\* A signal keeps script and engine in agreement: both follow the same action.
LEMMA SignalAgreement ==
    ASSUME IInv, Agreement, NEW sig \in Signals, NEW f \in BOOLEAN, OnSignal(sig, f)
    PROVE  Agreement'
<1>1. CASE faulted'
    BY <1>1 DEF Agreement, LatchMeansFault, AppliedInForce, NoOrphan
<1>2. CASE ~faulted'
    <2>1. /\ ~faulted /\ ~permanent_fallback'
          /\ reading' \in Pressures /\ orphaned' = orphaned
          /\ inForce' = Obeyed(commands', inForce)
        BY <1>2, SoundCall DEF Agreement
    <2>2. PICK d \in Decisions(reading') : applied' = d.applied /\ commands' = d.action
        BY <1>2, SoundCall DEF Agreement
    <2>3. applied' \in Budgets \cup {NoBudget} /\ (applied' # NoBudget => applied' \in Int)
        BY <2>1, <2>2, DecisionTyped, PolicyAssumption DEF Budgets
    <2>4. \/ d.action = NoAction /\ d.applied = applied
          \/ d.action = RestoreDefaults /\ d.applied = NoBudget
          \/ d.action = KvCompress(d.applied)
        <3>1. CASE engine_seen
            BY <3>1, DecideAction DEF Decisions
        <3>2. CASE ~engine_seen
            BY <3>2 DEF Decisions
        <3> QED
            BY <3>1, <3>2
    <2>5. CASE d.action = NoAction /\ d.applied = applied
        BY <2>5, <2>1, <2>2
           DEF Obeyed, NoAction, Agreement, LatchMeansFault, AppliedInForce, NoOrphan
    <2>6. CASE d.action = RestoreDefaults /\ d.applied = NoBudget
        BY <2>6, <2>1, <2>2
           DEF Obeyed, RestoreDefaults, Agreement, LatchMeansFault, AppliedInForce, NoOrphan
    <2>7. CASE d.action = KvCompress(d.applied)
        BY <2>7, <2>1, <2>2, <2>3
           DEF Obeyed, KvCompress, Agreement, LatchMeansFault, AppliedInForce, NoOrphan
    <2> QED
        BY <2>4, <2>5, <2>6, <2>7
<1> QED
    BY <1>1, <1>2

\* So does every other step.
LEMMA AgreementStep == IInv /\ Agreement /\ [Next]_vars => Agreement'
<1> SUFFICES ASSUME IInv, Agreement, [Next]_vars PROVE Agreement'
    OBVIOUS
<1>1. ASSUME NEW r \in Ratios, OnHeartbeat(r) PROVE Agreement'
    BY <1>1 DEF OnHeartbeat, UpdateEngineState, Agreement, LatchMeansFault, AppliedInForce, NoOrphan
<1>2. ASSUME NEW loads \in BOOLEAN, OnReload(loads) PROVE Agreement'
    <2>1. CASE loads
        BY <1>2, <2>1 DEF OnReload, ReloadScript, Agreement, LatchMeansFault, AppliedInForce, NoOrphan
    <2>2. CASE ~loads
        BY <1>2, <2>2
           DEF OnReload, ReloadScript, policyVars, Agreement, LatchMeansFault, AppliedInForce, NoOrphan
    <2> QED
        BY <2>1, <2>2
<1>3. CASE UNCHANGED vars
    BY <1>3 DEF vars, Agreement, LatchMeansFault, AppliedInForce, NoOrphan
<1> QED
    BY <1>1, <1>2, <1>3, SignalAgreement DEF Next, VmOutcomes

\* Script and engine agree in every reachable state.
LEMMA AgreementInvariant == Spec => []Agreement
<1>1. Init => Agreement
    BY DEF Init, PolicyInit, Agreement, LatchMeansFault, AppliedInForce, NoOrphan
<1> QED
    BY <1>1, AgreementStep, Invariance, PTL DEF Spec

(***************************************************************************)
(* `applied' is "the budget already in force": until a call fails, the     *)
(* engine runs under a budget at least as tight as the one the script      *)
(* holds, whatever the signals, the heartbeats and the reloads.            *)
(***************************************************************************)
THEOREM AppliedAlwaysInForce == Spec => []AppliedInForce
BY AgreementInvariant, PTL DEF Agreement

(***************************************************************************)
(* Calm frees the engine: a signal that finds every axis under its EXIT    *)
(* threshold leaves the engine at its defaults, unless the engine was      *)
(* compressed when the script was loaded.                                  *)
(***************************************************************************)
THEOREM CalmAlwaysFreesEngine == Spec => CalmFreesEngine
<1>1. IInv /\ Agreement /\ [Next]_vars
          => [CalmSignal /\ ~orphaned => inForce' = NoBudget]_vars
    <2> SUFFICES ASSUME IInv, Agreement, [Next]_vars, CalmSignal, ~orphaned
                 PROVE  inForce' = NoBudget
        OBVIOUS
    <2>1. PICK sig \in Signals, f \in BOOLEAN : OnSignal(sig, f)
        BY DEF CalmSignal
    <2>2. ~faulted' /\ engine_seen /\ \A a \in Axes : reading'[a] < EXIT[a]
        BY DEF CalmSignal
    <2>3. reading' \in Pressures /\ orphaned' = orphaned
        BY <2>1, <2>2, SoundCall DEF Agreement
    <2>4. PICK d \in Decisions(reading') : applied' = d.applied
        BY <2>1, <2>2, SoundCall DEF Agreement
    <2>5. PICK a \in Axes : d = decide(relieving, applied, reading', a)
        BY <2>2, <2>4 DEF Decisions
    <2>6. /\ relieving \in SUBSET Axes /\ applied \in Budgets \cup {NoBudget}
          /\ applied = NoBudget <=> relieving = {}
        BY DEF IInv, TypeOK, PolicyTypeOK, Consistent
    <2>7. d.applied = NoBudget
        BY <2>2, <2>3, <2>5, <2>6, DecideStep
    <2> QED
        BY <2>1, <2>2, <2>3, <2>4, <2>7, SignalAgreement DEF Agreement, NoOrphan
<1> QED
    BY <1>1, Invariance, AgreementInvariant, PTL DEF Spec, CalmFreesEngine

(***************************************************************************)
(* Memory pressure does not go unanswered: a signal that finds memory at   *)
(* or past its ENTER threshold and is not answered by closing a window     *)
(* leaves the engine compressed.                                           *)
(***************************************************************************)
THEOREM PressureAlwaysAnswered ==
    ASSUME "memory" \in Axes
    PROVE  Spec => PressureAnswered
<1> DEFINE Pressed == /\ \E sig \in Signals, f \in BOOLEAN : OnSignal(sig, f)
                      /\ engine_seen /\ ~faulted'
                      /\ reading'["memory"] >= ENTER["memory"]
                      /\ commands' # RestoreDefaults
<1>1. IInv /\ Agreement /\ [Next]_vars => [Pressed => inForce' # NoBudget]_vars
    <2> SUFFICES ASSUME IInv, Agreement, [Next]_vars, Pressed
                 PROVE  inForce' # NoBudget
        OBVIOUS
    <2>1. PICK sig \in Signals, f \in BOOLEAN : OnSignal(sig, f)
        OBVIOUS
    <2>2. reading' \in Pressures
        BY <2>1, SoundCall DEF Agreement
    <2>3. PICK d \in Decisions(reading') : applied' = d.applied /\ commands' = d.action
        BY <2>1, SoundCall DEF Agreement
    <2>4. PICK a \in Axes : IsMostStressed(reading', a) /\ d = decide(relieving, applied, reading', a)
        BY <2>3 DEF Decisions
    <2>5. reading'[a] >= ENTER[a]
        BY <2>2, <2>4, WorstPastEnter
    <2>6. relieving \in SUBSET Axes /\ applied \in Budgets \cup {NoBudget}
        BY DEF IInv, TypeOK, PolicyTypeOK
    <2>7. applied' # NoBudget
        BY <2>2, <2>3, <2>4, <2>5, <2>6, DecideCovers
    <2>8. AppliedInForce'
        BY <2>1, SignalAgreement DEF Agreement
    <2> QED
        BY <2>7, <2>8 DEF AppliedInForce
<1> QED
    BY <1>1, Invariance, AgreementInvariant, PTL DEF Spec, PressureAnswered

-----------------------------------------------------------------------------
(* The latch.  The failure count is the number of failures since the last  *)
(* success or reload: the outcomes it counts lead the history, and the one *)
(* behind them, if there is one, is a success.                             *)

CountsLeadingFailures ==
    /\ consecutive_errors <= Len(outcomes) /\ Len(outcomes) <= FALLBACK_ERROR_THRESHOLD
    /\ \A i \in 1..consecutive_errors : outcomes[i] = "failed"
    /\ consecutive_errors < Len(outcomes) => outcomes[consecutive_errors + 1] = "ok"
    /\ permanent_fallback => consecutive_errors = FALLBACK_ERROR_THRESHOLD

\* A call either is answered by the latched fallback and not counted, or is counted.
LEMMA SignalCounts ==
    ASSUME IInv, CountsLeadingFailures, NEW sig \in Signals, NEW f \in BOOLEAN, OnSignal(sig, f)
    PROVE  CountsLeadingFailures'
<1> DEFINE T == FALLBACK_ERROR_THRESHOLD
           o == IF f THEN "failed" ELSE "ok"
<1>1. /\ consecutive_errors \in 0..T /\ T \in Nat \ {0}
      /\ outcomes \in Seq({"ok", "failed"}) /\ Len(outcomes) \in Nat /\ o \in {"ok", "failed"}
    BY LuaPolicyAssumption DEF IInv, TypeOK, PolicyTypeOK
<1>2. CASE permanent_fallback
    BY <1>2 DEF OnSignal, ProcessSignal, DecideLatched, CountsLeadingFailures
<1>3. CASE ~permanent_fallback
    <2>1. outcomes' = Remember(o) /\ consecutive_errors < T
        BY <1>3 DEF OnSignal, IInv, CountBelow
    <2>2. /\ Len(outcomes') = IF Len(outcomes) < T THEN Len(outcomes) + 1 ELSE T
          /\ \A i \in 1..Len(outcomes') : outcomes'[i] = IF i = 1 THEN o ELSE outcomes[i - 1]
        BY <1>1, <2>1, RememberShifts DEF CountsLeadingFailures
    <2>3. CASE f
        <3>1. /\ consecutive_errors' = consecutive_errors + 1
              /\ permanent_fallback' = (consecutive_errors' >= T)
            BY <1>3, <2>3 DEF OnSignal, ProcessSignal, DecideFails, LatchedAfter
        <3>2. consecutive_errors' <= Len(outcomes') /\ Len(outcomes') <= T
            BY <1>1, <2>1, <2>2, <3>1 DEF CountsLeadingFailures
        <3>3. \A i \in 1..consecutive_errors' : outcomes'[i] = "failed"
            <4> SUFFICES ASSUME NEW i \in 1..consecutive_errors' PROVE outcomes'[i] = "failed"
                OBVIOUS
            <4>1. i \in 1..Len(outcomes')
                BY <1>1, <2>2, <3>1, <3>2
            <4>2. i = 1 \/ i - 1 \in 1..consecutive_errors
                BY <1>1, <3>1
            <4> QED
                BY <2>2, <2>3, <4>1, <4>2 DEF CountsLeadingFailures
        <3>4. consecutive_errors' < Len(outcomes') => outcomes'[consecutive_errors' + 1] = "ok"
            BY <1>1, <2>1, <2>2, <3>1 DEF CountsLeadingFailures
        <3>5. permanent_fallback' => consecutive_errors' >= T
            BY <3>1, Zenon
        <3>6. permanent_fallback' => consecutive_errors' = T
            BY <1>1, <2>1, <3>1, <3>5
        <3> QED
            BY <3>2, <3>3, <3>4, <3>6 DEF CountsLeadingFailures
    <2>4. CASE ~f
        <3>1. consecutive_errors' = 0 /\ permanent_fallback' = permanent_fallback
            BY <1>3, <2>4 DEF OnSignal, ProcessSignal, DecideOk, ErrorsAfterSuccess
        <3>2. 1 \in 1..Len(outcomes') /\ Len(outcomes') <= T
            BY <1>1, <2>2 DEF CountsLeadingFailures
        <3>3. outcomes'[1] = "ok"
            BY <2>2, <2>4, <3>2
        <3> QED
            BY <1>3, <3>1, <3>2, <3>3 DEF CountsLeadingFailures
    <2> QED
        BY <2>3, <2>4
<1> QED
    BY <1>2, <1>3

\* The count and the history agree in every reachable state.
LEMMA CountInvariant == Spec => []CountsLeadingFailures
<1>1. Init => CountsLeadingFailures
    BY LuaPolicyAssumption DEF Init, PolicyInit, CountsLeadingFailures
<1>2. IInv /\ CountsLeadingFailures /\ [Next]_vars => CountsLeadingFailures'
    <2> SUFFICES ASSUME IInv, CountsLeadingFailures, [Next]_vars PROVE CountsLeadingFailures'
        OBVIOUS
    <2>1. ASSUME NEW r \in Ratios, OnHeartbeat(r) PROVE CountsLeadingFailures'
        BY <2>1 DEF OnHeartbeat, UpdateEngineState, CountsLeadingFailures
    <2>2. ASSUME NEW loads \in BOOLEAN, OnReload(loads) PROVE CountsLeadingFailures'
        <3>1. CASE loads
            BY <2>2, <3>1, LuaPolicyAssumption
               DEF OnReload, ReloadScript, ErrorsAfterReload, CountsLeadingFailures
        <3>2. CASE ~loads
            BY <2>2, <3>2 DEF OnReload, ReloadScript, policyVars, CountsLeadingFailures
        <3> QED
            BY <3>1, <3>2
    <2>3. CASE UNCHANGED vars
        BY <2>3 DEF vars, CountsLeadingFailures
    <2> QED
        BY <2>1, <2>2, <2>3, SignalCounts DEF Next, VmOutcomes
<1> QED
    BY <1>1, <1>2, Invariance, PTL DEF Spec

(***************************************************************************)
(* The fallback is latched exactly when the last three calls of the script *)
(* failed, whatever FALLBACK_ERROR_THRESHOLD "three" is: a success or a    *)
(* fresh script starts the count anew.                                     *)
(***************************************************************************)
THEOREM LatchedExactlyAfterThree == Spec => []LatchedAfterThree
<1>1. IInv /\ CountsLeadingFailures => LatchedAfterThree
    <2> SUFFICES ASSUME IInv, CountsLeadingFailures PROVE LatchedAfterThree
        OBVIOUS
    <2> DEFINE T == FALLBACK_ERROR_THRESHOLD
    <2>1. /\ consecutive_errors \in 0..T /\ T \in Nat \ {0}
          /\ outcomes \in Seq({"ok", "failed"}) /\ Len(outcomes) \in Nat
        BY LuaPolicyAssumption DEF IInv, TypeOK, PolicyTypeOK
    <2>2. /\ consecutive_errors <= Len(outcomes) /\ Len(outcomes) <= T
          /\ \A i \in 1..consecutive_errors : outcomes[i] = "failed"
          /\ consecutive_errors < Len(outcomes) => outcomes[consecutive_errors + 1] = "ok"
        BY Zenon DEF CountsLeadingFailures
    <2>3. permanent_fallback => consecutive_errors = T
        BY Zenon DEF CountsLeadingFailures
    <2>4. ~permanent_fallback => consecutive_errors < T
        BY Zenon DEF IInv, CountBelow
    <2>5. ASSUME consecutive_errors = T
          PROVE  Len(outcomes) = T /\ \A i \in DOMAIN outcomes : outcomes[i] = "failed"
        <3>1. Len(outcomes) = T
            BY <2>1, <2>2, <2>5
        <3>2. DOMAIN outcomes = 1..consecutive_errors
            BY <2>1, <2>5, <3>1
        <3> QED
            BY <2>2, <3>1, <3>2, Zenon
    <2>6. consecutive_errors < T /\ Len(outcomes) = T
             => ~ \A i \in DOMAIN outcomes : outcomes[i] = "failed"
        <3>1. consecutive_errors < T /\ Len(outcomes) = T
                 => consecutive_errors + 1 \in DOMAIN outcomes
            BY <2>1
        <3> QED
            BY <2>2, <3>1
    <2> QED
        BY <2>3, <2>4, <2>5, <2>6, Zenon DEF LatchedAfterThree
<1> QED
    BY <1>1, Invariance, CountInvariant, PTL

=============================================================================
