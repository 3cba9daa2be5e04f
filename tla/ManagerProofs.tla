--------------------------- MODULE ManagerProofs ---------------------------
(***************************************************************************)
(* The manager process.  Whatever the monitors, the VM, the operator and   *)
(* the engine do, main() uses the channel as the channel expects to be     *)
(* used, so what ChannelProofs shows of the channel holds of the process;  *)
(* and while the script alone decides, no engine sees its budget loosen.   *)
(***************************************************************************)
EXTENDS Manager, ChannelProofs, PolicyDefaultProofs, TLAPS

\* Where the main thread is, and what create_transport has done by then.
Placed ==
    /\ pc \in {"wait", "init", "emitInit", "top", "reload", "drain", "recv", "emit", "join", "stopped"}
    /\ pc = "wait" => phase = "waiting"
    /\ pc \notin {"wait", "stopped"} => phase = "running"

\* The script's locals are in step and a directive is emitted only when there is one.
Scripted ==
    /\ relieving \in SUBSET Axes
    /\ applied \in Budgets \cup {NoBudget}
    /\ applied = NoBudget <=> relieving = {}
    /\ reading \in Pressures
    /\ commands \in Actions
    /\ pc \in {"emit", "emitInit"} => commands # NoAction

LoopIInv ==
    /\ Placed
    /\ Scripted
    /\ todo \in Seq(Signal)
    /\ rx \in Seq(Signal)

-----------------------------------------------------------------------------
(* One call of process_signal.                                             *)

\* The directives the script gives, and what they leave the engine with.
Orders == {RestoreDefaults} \cup {KvCompress(b) : b \in Budgets}

\* Going from budget a to budget b loosens nothing.
Tighter(a, b) == a = NoBudget \/ b = NoBudget \/ b <= a

\* The fallback answers every signal with an action the script could return.
LEMMA FallbackAnswers ==
    ASSUME NEW sig \in Signal
    PROVE  fallback_decide(sig) \in Actions
<1>1. CASE sig.axis # "memory" \/ sig.level = 0
    BY <1>1 DEF fallback_decide, Actions, NoAction, RestoreDefaults
<1>2. CASE sig.axis = "memory" /\ sig.level # 0
    <2>1. FALLBACK_BUDGET[sig.level] \in Budgets
        BY <1>2, LuaPolicyAssumption DEF Signal
    <2> QED
        BY <1>2, <2>1 DEF fallback_decide, Actions, KvCompress
<1> QED
    BY <1>1, <1>2

\* A decision the script may take keeps its locals in step; before the first heartbeat
\* there is none, and what is sent tightens the budget or releases it.
LEMMA DecisionInStep ==
    ASSUME Scripted, NEW q \in Pressures, NEW d \in Decisions(q)
    PROVE  /\ d.relieving \in SUBSET Axes
           /\ d.applied \in Budgets \cup {NoBudget}
           /\ d.action \in Actions
           /\ d.applied = NoBudget <=> d.relieving = {}
           /\ ~engine_seen => d.action = NoAction
           /\ \/ d.action = NoAction /\ d.applied = applied
              \/ /\ d.action \in Orders /\ d.action.budget = d.applied
                 /\ Tighter(applied, d.applied)
<1>1. /\ relieving \in SUBSET Axes /\ applied \in Budgets \cup {NoBudget}
      /\ applied = NoBudget <=> relieving = {}
    BY DEF Scripted
<1>2. CASE engine_seen
    <2>1. PICK a \in Axes : d = decide(relieving, applied, q, a)
        BY <1>2 DEF Decisions
    <2>2. /\ d.relieving \in SUBSET Axes
          /\ d.applied \in Budgets \cup {NoBudget}
          /\ d.action \in Actions
          /\ d.applied = NoBudget <=> d.relieving = {}
          /\ d.applied # NoBudget /\ d.action # NoAction => applied = NoBudget \/ d.applied < applied
        <3> DEFINE e == decide(relieving, applied, q, a)
        <3>1. /\ e.relieving \in SUBSET Axes
              /\ e.applied \in Budgets \cup {NoBudget}
              /\ e.action \in Actions
              /\ e.applied = NoBudget <=> e.relieving = {}
              /\ e.applied # NoBudget /\ e.action # NoAction => applied = NoBudget \/ e.applied < applied
            BY <1>1, DecideStep
        <3> QED
            BY <2>1, <3>1
    <2>3. \/ d.action = NoAction /\ d.applied = applied
          \/ d.action = RestoreDefaults /\ d.applied = NoBudget
          \/ d.action = KvCompress(d.applied)
        BY <2>1, DecideAction
    <2>4. CASE d.action = KvCompress(d.applied)
        <3>1. d.action # NoAction
            BY <2>4 DEF KvCompress, NoAction
        <3>2. d.applied # NoBudget
            <4>1. decide(relieving, applied, q, a).action = KvCompress(decide(relieving, applied, q, a).applied)
                  => decide(relieving, applied, q, a).applied = B_kv(q[a], a)
                BY DEF decide, Released, KvCompress, RestoreDefaults, NoAction
            <4>2. B_kv(q[a], a) \in Budgets
                BY BudgetOnRamp DEF Pressures
            <4> QED
                BY <2>1, <2>4, <4>1, <4>2, PolicyAssumption DEF Budgets, NoBudget
        <3>3. d.applied \in Budgets
            BY <2>2, <3>2
        <3>4. applied = NoBudget \/ d.applied <= applied
            BY <1>1, <2>2, <3>1, <3>2, PolicyAssumption DEF Budgets, NoBudget
        <3> QED
            BY <1>2, <2>2, <2>4, <3>3, <3>4 DEF Orders, KvCompress, Tighter
    <2>5. CASE d.action = RestoreDefaults /\ d.applied = NoBudget
        BY <1>2, <2>2, <2>5 DEF Orders, RestoreDefaults, Tighter
    <2>6. CASE d.action = NoAction /\ d.applied = applied
        BY <1>2, <2>2, <2>6
    <2> QED
        BY <2>3, <2>4, <2>5, <2>6
<1>3. CASE ~engine_seen
    <2>1. d = [relieving |-> relieving, applied |-> applied, action |-> NoAction]
        BY <1>3 DEF Decisions
    <2>2. NoAction \in Actions
        BY DEF NoAction, Actions
    <2> QED
        BY <1>1, <1>3, <2>1, <2>2
<1> QED
    BY <1>2, <1>3

\* process_signal keeps the locals in step whichever way call_decide took.
LEMMA SignalInStep ==
    ASSUME Scripted, NEW sig \in Signal, NEW f \in BOOLEAN, ProcessSignal(sig, f)
    PROVE  /\ relieving' \in SUBSET Axes
           /\ applied' \in Budgets \cup {NoBudget}
           /\ applied' = NoBudget <=> relieving' = {}
           /\ reading' \in Pressures
           /\ commands' \in Actions
<1>1. reading' = Updated(sig) /\ reading' \in Pressures
    BY DEF ProcessSignal, Scripted, Updated, Pressures, Signal
<1>2. /\ relieving \in SUBSET Axes /\ applied \in Budgets \cup {NoBudget}
      /\ applied = NoBudget <=> relieving = {}
    BY DEF Scripted
<1>3. CASE permanent_fallback
    BY <1>1, <1>2, <1>3, FallbackAnswers DEF ProcessSignal, DecideLatched
<1>4. CASE ~permanent_fallback /\ f
    <2>1. commands' = fallback_decide(sig)
        BY <1>4 DEF ProcessSignal, DecideFails
    <2>2. \/ UNCHANGED <<relieving, applied>>
          \/ \E d \in Decisions(Updated(sig)) : relieving' = d.relieving /\ applied' = d.applied
        BY <1>4 DEF ProcessSignal, DecideFails
    <2> QED
        BY <1>1, <1>2, <2>1, <2>2, FallbackAnswers, DecisionInStep
<1>5. CASE ~permanent_fallback /\ ~f
    <2>1. PICK d \in Decisions(Updated(sig)) :
            relieving' = d.relieving /\ applied' = d.applied /\ commands' = d.action
        BY <1>5 DEF ProcessSignal, DecideOk
    <2> QED
        BY <1>1, <2>1, DecisionInStep
<1> QED
    BY <1>3, <1>4, <1>5

-----------------------------------------------------------------------------
(* The main thread and everyone else.                                      *)

\* The first and the remaining elements of a queue of signals.
LEMMA SignalQueue ==
    ASSUME NEW s \in Seq(Signal), s # <<>>
    PROVE  Head(s) \in Signal /\ Tail(s) \in Seq(Signal)
OBVIOUS

\* Nothing but create_transport moves the channel out of its waiting phase.
LEMMA PhaseKept ==
    ASSUME NEW c \in Conns,
           \/ EngineConnect(c) \/ EngineSend(c) \/ EngineSendGarbled(c) \/ EngineRead(c)
           \/ EngineClose(c) \/ Reader(c)
    PROVE  phase' = phase
BY DEF EngineConnect, EngineSend, EngineSendGarbled, EngineRead, EngineClose, Reader,
       ReaderDelivers, ReaderStops, mainVars

\* A step that leaves the main thread, the policy and the queues alone.
LEMMA AsideIInv ==
    ASSUME LoopIInv, phase' = phase, UNCHANGED <<policyVars, pc, todo, rx>>
    PROVE  LoopIInv'
BY DEF LoopIInv, Placed, Scripted, policyVars

LEMMA LoopInitIInv == Init => LoopIInv
<1> SUFFICES ASSUME Init PROVE LoopIInv
    OBVIOUS
<1>1. NoAction \in Actions /\ [a \in Axes |-> 0] \in Pressures
    BY DEF NoAction, Actions, Pressures
<1>2. <<>> \in Seq(Signal) /\ InitialSignals \in Seq(Signal)
    BY ManagerAssumption
<1>3. Scripted
    BY <1>1 DEF Init, PolicyInit, Scripted
<1>4. Placed
    BY DEF Init, ChanInit, Placed
<1> QED
    BY <1>2, <1>3, <1>4 DEF Init, LoopIInv

\* The steps of the main thread.
LEMMA MainIInv == ASSUME LoopIInv, Main PROVE LoopIInv'
<1>1. CASE CreateTransport
    <2>1. /\ pc = "wait" /\ Wait
          /\ pc' = IF phase' = "running" THEN "init" ELSE "stopped"
          /\ UNCHANGED <<policyVars, todo, rx>>
        BY <1>1 DEF CreateTransport, Goto
    <2>2. Placed'
        BY <2>1 DEF Placed
    <2>3. Scripted'
        BY <2>1 DEF LoopIInv, Scripted, policyVars
    <2> QED
        BY <2>1, <2>2, <2>3 DEF LoopIInv
<1>2. CASE InitialSignal
    <2>1. PICK f \in BOOLEAN : ProcessSignal(Head(todo), f)
        BY <1>2 DEF InitialSignal, MayFail
    <2>2. /\ pc = "init" /\ todo # <<>> /\ todo' = Tail(todo) /\ rx' = rx /\ phase' = phase
          /\ pc' = IF commands' = NoAction THEN "init" ELSE "emitInit"
        BY <1>2 DEF InitialSignal, Goto, chanVars
    <2>3. Head(todo) \in Signal /\ Tail(todo) \in Seq(Signal)
        BY <2>2, SignalQueue DEF LoopIInv
    <2>4. Scripted'
        BY <2>1, <2>2, <2>3, SignalInStep DEF LoopIInv, Scripted
    <2>5. Placed'
        BY <2>2 DEF LoopIInv, Placed
    <2> QED
        BY <2>2, <2>3, <2>4, <2>5 DEF LoopIInv
<1>3. CASE EmitInitial
    <2>1. /\ pc = "emitInit" /\ pc' = "init" /\ phase' = phase
          /\ UNCHANGED <<policyVars, todo, rx>>
        BY <1>3 DEF EmitInitial, Goto, EmitDirective
    <2> QED
        BY <2>1 DEF LoopIInv, Placed, Scripted, policyVars
<1>4. CASE EnterLoop
    <2>1. /\ pc = "init" /\ pc' = "top" /\ phase' = phase
          /\ UNCHANGED <<policyVars, todo, rx>>
        BY <1>4 DEF EnterLoop, Goto, chanVars
    <2> QED
        BY <2>1 DEF LoopIInv, Placed, Scripted, policyVars
<1>5. CASE LoopHead
    <2>1. /\ pc = "top" /\ pc' \in {"join", "reload", "drain"} /\ phase' = phase
          /\ UNCHANGED <<policyVars, todo, rx>>
        BY <1>5 DEF LoopHead, Goto, chanVars
    <2> QED
        BY <2>1 DEF LoopIInv, Placed, Scripted, policyVars
<1>11. CASE Reload
    <2>1. /\ pc = "reload" /\ pc' = "drain" /\ phase' = phase
          /\ UNCHANGED <<todo, rx>>
        BY <1>11 DEF Reload, Goto, chanVars
    <2>2. \E loads \in BOOLEAN : ReloadScript(loads)
        BY <1>11 DEF Reload
    <2>3. CASE UNCHANGED policyVars
        BY <2>1, <2>3 DEF LoopIInv, Placed, Scripted, policyVars
    <2>4. CASE relieving' = {} /\ applied' = NoBudget /\ UNCHANGED <<reading, commands>>
        BY <2>1, <2>4 DEF LoopIInv, Placed, Scripted
    <2> QED
        BY <2>2, <2>3, <2>4 DEF ReloadScript
<1>6. CASE Drain
    <2>1. pc = "drain" /\ UNCHANGED <<todo, rx>>
        BY <1>6 DEF Drain
    <2>2. /\ phase' = phase /\ pc' \in {"drain", "recv"}
          /\ UNCHANGED policyVars \/ UpdateEngineState(0)
        BY <1>6 DEF Drain, Goto, TryRecvMessage, TryRecvLost, TryRecvNone, chanVars
    <2>3. Placed'
        BY <2>1, <2>2 DEF LoopIInv, Placed
    <2>4. reading' \in Pressures
        BY <2>2 DEF UpdateEngineState, policyVars, LoopIInv, Scripted, Pressures
    <2>5. UNCHANGED <<relieving, applied, commands>>
        BY <2>2 DEF UpdateEngineState, policyVars
    <2> QED
        BY <2>1, <2>2, <2>3, <2>4, <2>5 DEF LoopIInv, Scripted
<1>7. CASE RecvSignal
    <2>1. PICK f \in BOOLEAN : ProcessSignal(Head(rx), f)
        BY <1>7 DEF RecvSignal, MayFail
    <2>2. /\ pc = "recv" /\ rx # <<>> /\ rx' = Tail(rx) /\ todo' = todo /\ phase' = phase
          /\ pc' = IF commands' = NoAction THEN "top" ELSE "emit"
        BY <1>7 DEF RecvSignal, Goto, chanVars
    <2>3. Head(rx) \in Signal /\ Tail(rx) \in Seq(Signal)
        BY <2>2, SignalQueue DEF LoopIInv
    <2>4. Scripted'
        BY <2>1, <2>2, <2>3, SignalInStep DEF LoopIInv, Scripted
    <2>5. Placed'
        BY <2>2 DEF LoopIInv, Placed
    <2> QED
        BY <2>2, <2>3, <2>4, <2>5 DEF LoopIInv
<1>8. CASE RecvNothing
    <2>1. /\ pc = "recv" /\ pc' \in {"top", "join"} /\ phase' = phase
          /\ UNCHANGED <<policyVars, todo, rx>>
        BY <1>8 DEF RecvNothing, Goto, chanVars
    <2> QED
        BY <2>1 DEF LoopIInv, Placed, Scripted, policyVars
<1>9. CASE Emitting
    <2>1. /\ pc = "emit" /\ pc' = "top" /\ phase' = phase
          /\ UNCHANGED <<policyVars, todo, rx>>
        BY <1>9 DEF Emitting, Goto, EmitDirective, chanVars
    <2> QED
        BY <2>1 DEF LoopIInv, Placed, Scripted, policyVars
<1>10. CASE Join
    <2>1. /\ pc = "join" /\ pc' = "stopped" /\ phase' = phase
          /\ UNCHANGED <<policyVars, todo, rx>>
        BY <1>10 DEF Join, Goto, chanVars
    <2> QED
        BY <2>1 DEF LoopIInv, Placed, Scripted, policyVars
<1> QED
    BY <1>1, <1>2, <1>3, <1>4, <1>5, <1>6, <1>7, <1>8, <1>9, <1>10, <1>11 DEF Main

\* A monitor reports or returns.
LEMMA PollIInv == ASSUME LoopIInv, NEW m \in Monitors, Poll(m) PROVE LoopIInv'
<1>1. phase' = phase /\ UNCHANGED <<policyVars, pc, todo>>
    BY DEF Poll, chanVars
<1>2. rx' \in Seq(Signal)
    <2>1. rx \in Seq(Signal) /\ SignalsOf[m] \subseteq Signal
        BY ManagerAssumption DEF LoopIInv
    <2>2. rx' = rx \/ \E sig \in SignalsOf[m] : rx' = Append(rx, sig)
        BY DEF Poll
    <2> QED
        BY <2>1, <2>2
<1> QED
    BY <1>1, <1>2 DEF LoopIInv, Placed, Scripted, policyVars

LEMMA LoopNextIInv == LoopIInv /\ [Next]_vars => LoopIInv'
<1> SUFFICES ASSUME LoopIInv, [Next]_vars PROVE LoopIInv'
    OBVIOUS
<1>1. CASE handle_signal \/ handle_sighup \/ Tick
    <2>1. phase' = phase /\ UNCHANGED <<policyVars, pc, todo, rx>>
        BY <1>1 DEF handle_signal, handle_sighup, Tick, chanVars, loopVars
    <2> QED
        BY <2>1, AsideIInv
<1>2. ASSUME NEW c \in Conns,
             \/ ReaderThread(c) \/ EngineConnects(c) \/ EngineSends(c) \/ EngineObeys(c)
             \/ EngineFails(c)
      PROVE  LoopIInv'
    <2>1. phase' = phase
        BY <1>2, PhaseKept DEF ReaderThread, EngineConnects, EngineSends, EngineObeys, EngineFails
    <2>2. UNCHANGED <<policyVars, pc, todo, rx>>
        BY <1>2 DEF ReaderThread, EngineConnects, EngineSends, EngineObeys, EngineFails, loopVars
    <2> QED
        BY <2>1, <2>2, AsideIInv
<1>3. CASE UNCHANGED vars
    BY <1>3, AsideIInv DEF vars, chanVars, loopVars
<1> QED
    BY <1>1, <1>2, <1>3, MainIInv, PollIInv DEF Next

-----------------------------------------------------------------------------
(* The process uses its channel as the channel expects.                    *)

\* What the process does to its channel is a step of the channel or nothing.
LEMMA ProcessIsChannel == LoopIInv /\ [Next]_vars => [ChanNext]_chanVars
<1> SUFFICES ASSUME LoopIInv, [Next]_vars PROVE ChanNext \/ UNCHANGED chanVars
    OBVIOUS
<1>1. CASE CreateTransport
    BY <1>1 DEF CreateTransport, ChanNext
<1>2. CASE EmitInitial \/ Emitting
    <2>1. phase = "running"
        BY <1>2 DEF EmitInitial, Emitting, LoopIInv, Placed
    <2>2. commands \in Directives
        BY <1>2, ManagerAssumption DEF EmitInitial, Emitting, LoopIInv, Scripted
    <2>3. EmitDirective(commands) \/ UNCHANGED chanVars
        BY <1>2 DEF EmitInitial, Emitting
    <2> QED
        BY <2>1, <2>2, <2>3 DEF Emit, ChanNext
<1>3. CASE Drain
    <2>1. phase = "running"
        BY <1>3 DEF Drain, LoopIInv, Placed
    <2>2. TryRecvMessage \/ TryRecvLost \/ TryRecvNone
        BY <1>3 DEF Drain
    <2> QED
        BY <2>1, <2>2 DEF TryRecvNone, Receive, ChanNext
<1>4. CASE \/ InitialSignal \/ EnterLoop \/ LoopHead \/ Reload \/ RecvSignal \/ RecvNothing \/ Join
           \/ (\E m \in Monitors : Poll(m)) \/ handle_signal \/ handle_sighup \/ Tick
    BY <1>4 DEF InitialSignal, EnterLoop, LoopHead, Reload, RecvSignal, RecvNothing, Join, Poll,
                handle_signal, handle_sighup, Tick
<1>5. ASSUME NEW c \in Conns,
             \/ ReaderThread(c) \/ EngineConnects(c) \/ EngineSends(c) \/ EngineObeys(c)
             \/ EngineFails(c)
      PROVE  ChanNext
    BY <1>5 DEF ReaderThread, EngineConnects, EngineSends, EngineObeys, EngineFails,
                Engine, ChanNext
<1>6. CASE UNCHANGED vars
    BY <1>6 DEF vars
<1> QED
    BY <1>1, <1>2, <1>3, <1>4, <1>5, <1>6 DEF Next, Main

\* Both invariants hold of every behaviour of the process.
LEMMA ProcessInvariance == Spec => []LoopIInv /\ []ChanIInv
<1>1. Init => ChanInit
    BY DEF Init
<1> QED
    BY <1>1, LoopInitIInv, LoopNextIInv, ProcessIsChannel, ChanInitIInv, ChanNextIInv, PTL DEF Spec

(***************************************************************************)
(* The process implements the channel's specification (without its         *)
(* fairness): it emits only once create_transport has returned, and only   *)
(* directives the policy really gave.                                      *)
(***************************************************************************)
THEOREM ManagerUsesChannel == Spec => ChanInit /\ [][ChanNext]_chanVars
<1>1. Init => ChanInit
    BY DEF Init
<1> QED
    BY <1>1, LoopInitIInv, LoopNextIInv, ProcessIsChannel, PTL DEF Spec

(***************************************************************************)
(* What the policy of the running manager receives on a connection is      *)
(* exactly what the engine sent on it, in order, through every reconnect.  *)
(***************************************************************************)
THEOREM ManagerHearsInOrder == Spec => []FramesInOrder
BY ProcessInvariance, OrderedFrames, PTL

(***************************************************************************)
(* The running manager hears an engine's last words: a unix connection is  *)
(* given up by the drain loop only after every frame sent on it was taken. *)
(***************************************************************************)
THEOREM ManagerHearsLastWords == Spec => DrainedBeforeLost
BY ProcessInvariance, LastWordsHeard, PTL DEF DrainedBeforeLost

-----------------------------------------------------------------------------
(***************************************************************************)
(* The engine's budget.  While the VM does not fail and the script is not  *)
(* reloaded, the script's `applied' is what the deduplicator recorded, and *)
(* what is on its way to the engine is a chain of ever tighter budgets,    *)
(* from the one in force to the one recorded.                              *)
(***************************************************************************)
ScriptAlone ==
    /\ ~SIGHUP_RELOAD /\ pc # "reload"
    /\ ~permanent_fallback
    /\ pc # "emitInit"
    /\ pc \in {"wait", "init"} => ~engine_seen

\* What was asked for last, and what is being asked for now.
Ratchet ==
    /\ last_commands \in Orders \cup {NoAction}
    /\ pc # "emit" => last_commands.budget = applied
    /\ pc = "emit" => /\ commands \in Orders /\ commands.budget = applied
                      /\ Tighter(last_commands.budget, applied)

\* One engine at a time, at its defaults until a directive is written to it.
OneEngine ==
    /\ inForce \in Budgets \cup {NoBudget}
    /\ \A c, d \in Conns : peer[c] = "open" /\ peer[d] = "open" => c = d
    /\ (\A c \in Conns : peer[c] # "open") => inForce = NoBudget
    /\ \A c \in Conns : peer[c] # "open" => toEngine[c] = <<>>
    /\ \A c \in Conns : peer[c] = "open" /\ reader[c] = "none"
                            => toEngine[c] = <<>> /\ inForce = NoBudget

\* The engine's budget once it has read i more directives on c.
BudgetAt(c, i) == IF i = 0 THEN inForce ELSE toEngine[c][i].budget

Tightening(c) ==
    \A i \in 1..Len(toEngine[c]) : Tighter(BudgetAt(c, i - 1), BudgetAt(c, i))

Chain(c) ==
    /\ toEngine[c] \in Seq(Orders)
    /\ peer[c] = "open" => Tightening(c)
    /\ peer[c] = "open" /\ conn = c
          => BudgetAt(c, Len(toEngine[c])) \in {NoBudget, last_commands.budget}

Wire == OneEngine /\ \A c \in Conns : Chain(c)

\* What obeying a directive of the script leaves.
LEMMA OrderFacts ==
    ASSUME NEW x \in Orders, NEW b
    PROVE  /\ x # NoAction
           /\ x.budget \in Budgets \cup {NoBudget}
           /\ Obeyed(x, b) = x.budget
<1>1. CASE x = RestoreDefaults
    BY <1>1 DEF NoAction, RestoreDefaults, Obeyed
<1>2. ASSUME NEW k \in Budgets, x = KvCompress(k)
      PROVE  /\ x # NoAction
             /\ x.budget \in Budgets \cup {NoBudget}
             /\ Obeyed(x, b) = x.budget
    BY <1>2 DEF NoAction, KvCompress, Obeyed
<1> QED
    BY <1>1, <1>2 DEF Orders

\* A signal that the script answers: nothing, or a directive that loosens nothing.
LEMMA ScriptAnswers ==
    ASSUME Scripted, ~permanent_fallback, NEW sig \in Signal, ProcessSignal(sig, FALSE)
    PROVE  /\ ~permanent_fallback' /\ engine_seen' = engine_seen
           /\ ~engine_seen => commands' = NoAction
           /\ commands' = NoAction => applied' = applied
           /\ commands' # NoAction => /\ commands' \in Orders /\ commands'.budget = applied'
                                      /\ Tighter(applied, applied')
<1>1. DecideOk(sig) /\ engine_seen' = engine_seen
    BY DEF ProcessSignal
<1>2. Updated(sig) \in Pressures
    BY DEF Scripted, Updated, Pressures, Signal
<1>3. permanent_fallback' = permanent_fallback
    BY <1>1 DEF DecideOk
<1>4. PICK d \in Decisions(Updated(sig)) : applied' = d.applied /\ commands' = d.action
    BY <1>1 DEF DecideOk
<1>5. /\ ~engine_seen => d.action = NoAction
      /\ \/ d.action = NoAction /\ d.applied = applied
         \/ /\ d.action \in Orders /\ d.action.budget = d.applied
            /\ Tighter(applied, d.applied)
    BY <1>2, DecisionInStep
<1> QED
    BY <1>1, <1>3, <1>4, <1>5, OrderFacts

\* The script is alone and what it asked for last is on record: the main thread ...
LEMMA RatchetMain ==
    ASSUME ~VmMayFail, LoopIInv, ScriptAlone, Ratchet, Main
    PROVE  ScriptAlone' /\ Ratchet'
<1>1. CASE \/ CreateTransport \/ EnterLoop \/ RecvNothing \/ Join
    <2>1. /\ UNCHANGED <<policyVars, SIGHUP_RELOAD, last_commands>>
          /\ pc # "emit" /\ pc' \notin {"emit", "emitInit", "reload"}
          /\ pc' \in {"wait", "init"} => pc = "wait"
        BY <1>1 DEF CreateTransport, EnterLoop, RecvNothing, Join, Goto, sighupVars, dedupVars
    <2>2. ScriptAlone'
        BY <2>1 DEF ScriptAlone, policyVars
    <2>3. Ratchet'
        BY <2>1 DEF Ratchet, policyVars
    <2> QED
        BY <2>2, <2>3
<1>2. CASE InitialSignal
    <2>1. pc = "init" /\ todo # <<>> /\ ProcessSignal(Head(todo), FALSE)
        BY <1>2 DEF InitialSignal, MayFail
    <2>2. /\ pc' = IF commands' = NoAction THEN "init" ELSE "emitInit"
          /\ UNCHANGED <<SIGHUP_RELOAD, last_commands>>
        BY <1>2 DEF InitialSignal, Goto, sighupVars, dedupVars
    <2>3. Head(todo) \in Signal
        BY <2>1, SignalQueue DEF LoopIInv
    <2>4. /\ ~permanent_fallback' /\ engine_seen' = engine_seen
          /\ ~engine_seen => commands' = NoAction
          /\ commands' = NoAction => applied' = applied
        BY <2>1, <2>3, ScriptAnswers DEF LoopIInv, ScriptAlone
    <2>5. ~engine_seen
        BY <2>1 DEF ScriptAlone
    <2>6. pc' = "init" /\ applied' = applied
        BY <2>2, <2>4, <2>5
    <2>7. ScriptAlone'
        BY <2>2, <2>4, <2>5, <2>6 DEF ScriptAlone
    <2>8. Ratchet'
        BY <2>1, <2>2, <2>6 DEF Ratchet
    <2> QED
        BY <2>7, <2>8
<1>3. CASE EmitInitial
    BY <1>3 DEF EmitInitial, ScriptAlone
<1>4. CASE LoopHead
    <2>1. /\ pc = "top" /\ pc' \in {"join", "drain"} /\ UNCHANGED last_commands
        BY <1>4 DEF LoopHead, ScriptAlone, Goto, dedupVars
    <2>2. UNCHANGED policyVars /\ ~SIGHUP_RELOAD'
        BY <1>4 DEF LoopHead, ScriptAlone, sighupVars
    <2>3. ScriptAlone'
        BY <2>1, <2>2 DEF ScriptAlone, policyVars
    <2>4. Ratchet'
        BY <2>1, <2>2 DEF Ratchet, policyVars
    <2> QED
        BY <2>3, <2>4
<1>5. CASE Drain
    <2>1. /\ pc = "drain" /\ pc' \in {"drain", "recv"}
          /\ UNCHANGED <<SIGHUP_RELOAD, last_commands, applied, permanent_fallback>>
        BY <1>5 DEF Drain, Goto, sighupVars, dedupVars, UpdateEngineState, policyVars
    <2> QED
        BY <2>1 DEF ScriptAlone, Ratchet
<1>6. CASE RecvSignal
    <2>1. pc = "recv" /\ rx # <<>> /\ ProcessSignal(Head(rx), FALSE)
        BY <1>6 DEF RecvSignal, MayFail
    <2>2. /\ pc' = IF commands' = NoAction THEN "top" ELSE "emit"
          /\ UNCHANGED <<SIGHUP_RELOAD, last_commands>>
        BY <1>6 DEF RecvSignal, Goto, sighupVars, dedupVars
    <2>3. Head(rx) \in Signal
        BY <2>1, SignalQueue DEF LoopIInv
    <2>4. /\ ~permanent_fallback'
          /\ commands' = NoAction => applied' = applied
          /\ commands' # NoAction => /\ commands' \in Orders /\ commands'.budget = applied'
                                     /\ Tighter(applied, applied')
        BY <2>1, <2>3, ScriptAnswers DEF LoopIInv, ScriptAlone
    <2>5. last_commands.budget = applied
        BY <2>1 DEF Ratchet
    <2>6. ScriptAlone'
        BY <2>2, <2>4 DEF ScriptAlone
    <2>7. Ratchet'
        <3>1. CASE commands' = NoAction
            BY <2>2, <2>4, <2>5, <3>1 DEF Ratchet
        <3>2. CASE commands' # NoAction
            BY <2>2, <2>4, <2>5, <3>2 DEF Ratchet
        <3> QED
            BY <3>1, <3>2
    <2> QED
        BY <2>6, <2>7
<1>7. CASE Emitting
    <2>1. pc = "emit" /\ pc' = "top" /\ UNCHANGED <<policyVars, SIGHUP_RELOAD>>
        BY <1>7 DEF Emitting, Goto, sighupVars
    <2>2. last_commands' = commands
        BY <1>7 DEF Emitting, Dedup!Pass, Dedup!Suppress, Dedup!Suppressed, Dedup!vars
    <2>3. commands \in Orders /\ commands.budget = applied
        BY <2>1 DEF Ratchet
    <2>4. ScriptAlone'
        BY <2>1 DEF ScriptAlone, policyVars
    <2>5. Ratchet'
        BY <2>1, <2>2, <2>3 DEF Ratchet, policyVars
    <2> QED
        BY <2>4, <2>5
<1>8. CASE Reload
    BY <1>8 DEF Reload, ScriptAlone
<1> QED
    BY <1>1, <1>2, <1>3, <1>4, <1>5, <1>6, <1>7, <1>8 DEF Main

\* ... and everyone else.
LEMMA RatchetStep ==
    ASSUME ~VmMayFail, ~MayReload, LoopIInv, ScriptAlone, Ratchet, [Next]_vars
    PROVE  ScriptAlone' /\ Ratchet'
<1>1. CASE Main
    BY <1>1, RatchetMain
<1>2. CASE ~Main
    <2>1. UNCHANGED <<policyVars, pc, SIGHUP_RELOAD, last_commands>>
        <3>1. CASE \/ (\E m \in Monitors : Poll(m)) \/ handle_signal \/ handle_sighup \/ Tick
            BY <3>1 DEF Poll, handle_signal, handle_sighup, Tick, loopVars, sighupVars, dedupVars, Dedup!Tick
        <3>2. ASSUME NEW c \in Conns,
                     \/ ReaderThread(c) \/ EngineConnects(c) \/ EngineSends(c) \/ EngineObeys(c)
                     \/ EngineFails(c)
              PROVE  UNCHANGED <<policyVars, pc, SIGHUP_RELOAD, last_commands>>
            BY <3>2 DEF ReaderThread, EngineConnects, EngineSends, EngineObeys, EngineFails,
                        loopVars, sighupVars, dedupVars
        <3>3. CASE UNCHANGED vars
            BY <3>3 DEF vars, loopVars, sighupVars, dedupVars
        <3> QED
            BY <1>2, <3>1, <3>2, <3>3 DEF Next
    <2>2. ScriptAlone'
        BY <2>1 DEF ScriptAlone, policyVars
    <2>3. Ratchet'
        BY <2>1 DEF Ratchet, policyVars
    <2> QED
        BY <2>2, <2>3
<1> QED
    BY <1>1, <1>2

-----------------------------------------------------------------------------
(* The directives on their way.                                            *)

\* Nothing is written or read: connections come and go, a directive is dropped.
LEMMA WireQuiet ==
    ASSUME Wire, UNCHANGED <<toEngine, peer, inForce>>,
           \A c \in Conns : reader'[c] = "none" => reader[c] = "none",
           \A c \in Conns : conn' = c /\ peer[c] = "open"
                               => \/ reader[c] = "none"
                                  \/ conn = c /\ last_commands' = last_commands
    PROVE  Wire'
<1>1. OneEngine'
    BY DEF Wire, OneEngine
<1>2. ASSUME NEW c \in Conns PROVE Chain(c)'
    <2>1. Chain(c) /\ toEngine'[c] = toEngine[c] /\ peer'[c] = peer[c]
        BY DEF Wire
    <2>2. \A i : BudgetAt(c, i)' = BudgetAt(c, i)
        BY DEF BudgetAt
    <2>3. Tightening(c) => Tightening(c)'
        BY <2>1, <2>2 DEF Tightening
    <2>4. ASSUME peer[c] = "open", conn' = c
          PROVE  BudgetAt(c, Len(toEngine[c])) \in {NoBudget, last_commands'.budget}
        <3>1. CASE reader[c] = "none"
            <4>1. toEngine[c] = <<>> /\ inForce = NoBudget
                BY <2>4, <3>1 DEF Wire, OneEngine
            <4> QED
                BY <4>1 DEF BudgetAt
        <3>2. CASE conn = c /\ last_commands' = last_commands
            BY <2>1, <2>4, <3>2 DEF Chain
        <3> QED
            BY <2>4, <3>1, <3>2
    <2>5. BudgetAt(c, Len(toEngine[c]))' = BudgetAt(c, Len(toEngine[c]))
        BY <2>1 DEF BudgetAt
    <2> QED
        BY <2>1, <2>3, <2>4, <2>5 DEF Chain
<1> QED
    BY <1>1, <1>2 DEF Wire

\* A directive is written to an engine, over its connection or one just accepted.
LEMMA WireWrite ==
    ASSUME Wire, Ratchet, pc = "emit", NEW c \in Conns, peer[c] = "open",
           conn = c \/ reader[c] = "none",
           toEngine' = [toEngine EXCEPT ![c] = Append(@, commands)],
           peer' = peer, inForce' = inForce, conn' = c, last_commands' = commands,
           reader'[c] # "none",
           \A d \in Conns : reader'[d] = "none" => reader[d] = "none",
           toEngine \in [Conns -> Seq(Directives)]
    PROVE  Wire'
<1> DEFINE w == toEngine[c]
           n == Len(w)
<1>1. /\ commands \in Orders /\ commands.budget = applied
      /\ Tighter(last_commands.budget, commands.budget)
    BY DEF Ratchet
<1>2. /\ w \in Seq(Orders) /\ n \in Nat /\ toEngine'[c] = Append(w, commands)
      /\ \A d \in Conns : d # c => toEngine'[d] = toEngine[d] /\ peer[d] # "open"
    BY DEF Wire, Chain, OneEngine
<1>3. /\ Append(w, commands) \in Seq(Orders) /\ Len(Append(w, commands)) = n + 1
      /\ \A i \in 1..n : Append(w, commands)[i] = w[i]
      /\ Append(w, commands)[n + 1] = commands
    BY <1>1, <1>2
<1>4. OneEngine'
    BY <1>2 DEF Wire, OneEngine
<1>5. ASSUME NEW d \in Conns, d # c PROVE Chain(d)'
    BY <1>2, <1>5 DEF Wire, Chain
<1>6. Chain(c)'
    <2>1. BudgetAt(c, n) \in {NoBudget, last_commands.budget}
        <3>1. CASE reader[c] = "none"
            <4>1. n = 0 /\ inForce = NoBudget
                BY <3>1 DEF Wire, OneEngine
            <4> QED
                BY <4>1 DEF BudgetAt
        <3>2. CASE conn = c
            BY <3>2 DEF Wire, Chain
        <3> QED
            BY <3>1, <3>2
    <2> DEFINE v == toEngine'[c]
               B(i) == IF i = 0 THEN inForce ELSE v[i].budget
    <2>2. \A i \in 0..n : B(i) = BudgetAt(c, i)
        <3> SUFFICES ASSUME NEW i \in 0..n PROVE B(i) = BudgetAt(c, i)
            OBVIOUS
        <3>1. i = 0 \/ i \in 1..n
            BY <1>2
        <3> QED
            BY <1>2, <1>3, <3>1 DEF BudgetAt
    <2>3. B(n + 1) = commands.budget
        BY <1>2, <1>3
    <2>4. \A i \in 1..n + 1 : Tighter(B(i - 1), B(i))
        <3> SUFFICES ASSUME NEW i \in 1..n + 1 PROVE Tighter(B(i - 1), B(i))
            OBVIOUS
        <3> HIDE DEF B, v, n
        <3>1. CASE i = n + 1
            <4>1. i - 1 = n /\ n \in 0..n
                BY <1>2, <3>1
            <4>2. B(i - 1) \in {NoBudget, last_commands.budget} /\ B(i) = commands.budget
                BY <2>1, <2>2, <2>3, <3>1, <4>1
            <4> QED
                BY <1>1, <4>2 DEF Tighter
        <3>2. CASE i \in 1..n
            <4>1. i - 1 \in 0..n /\ i \in 0..n
                BY <1>2, <3>2
            <4>2. Tighter(BudgetAt(c, i - 1), BudgetAt(c, i))
                BY <3>2 DEF Wire, Chain, Tightening, n, w
            <4> QED
                BY <2>2, <4>1, <4>2
        <3> QED
            BY <1>2, <3>1, <3>2
    <2>5. Len(v) = n + 1 /\ v \in Seq(Orders)
        BY <1>2, <1>3
    <2>6. \A i : BudgetAt(c, i)' = B(i)
        BY DEF BudgetAt
    <2> HIDE DEF B, v, n
    <2>7. Tightening(c)'
        BY <2>4, <2>5, <2>6 DEF Tightening, v
    <2>8. BudgetAt(c, Len(toEngine[c]))' = last_commands'.budget
        <3>1. BudgetAt(c, Len(toEngine[c]))' = B(Len(v))
            BY DEF BudgetAt, B, v
        <3> QED
            BY <2>3, <2>5, <3>1
    <2> QED
        BY <2>5, <2>7, <2>8 DEF Chain, v
<1> QED
    BY <1>4, <1>5, <1>6 DEF Wire

\* A new engine starts at its defaults: the one before has left.
LEMMA WireConnects ==
    ASSUME ChanIInv, Wire, NEW c \in Conns, EngineConnect(c),
           UNCHANGED <<inForce, last_commands>>
    PROVE  Wire'
<1>1. /\ peer[c] = "unused" /\ (\A d \in Conns : peer[d] # "open")
      /\ peer' = [peer EXCEPT ![c] = "open"]
      /\ UNCHANGED <<toEngine, reader, conn>>
    BY DEF EngineConnect, mainVars
<1>2. /\ inForce = NoBudget /\ (\A d \in Conns : toEngine[d] = <<>>)
      /\ \A d \in Conns : d # c => peer'[d] # "open"
      /\ peer'[c] = "open" /\ conn # c
    <2>1. peer \in [Conns -> {"unused", "open", "closed"}]
        BY DEF ChanIInv, ChanTypeOK
    <2>2. reader[c] = "none" /\ (conn # NoConn => reader[conn] # "none") /\ c # NoConn
        BY <1>1, Counts DEF ChanIInv, Lifecycle
    <2> QED
        BY <1>1, <2>1, <2>2 DEF Wire, OneEngine
<1>3. OneEngine'
    BY <1>1, <1>2 DEF Wire, OneEngine
<1>4. ASSUME NEW d \in Conns PROVE Chain(d)'
    <2>1. toEngine'[d] = <<>> /\ <<>> \in Seq(Orders) /\ Len(<<>>) = 0
        BY <1>1, <1>2
    <2>2. Tightening(d)'
        BY <2>1 DEF Tightening
    <2>3. ~(peer'[d] = "open" /\ conn' = d)
        BY <1>1, <1>2
    <2> QED
        BY <2>1, <2>2, <2>3 DEF Chain
<1> QED
    BY <1>3, <1>4 DEF Wire

\* The engine exits with what it has not read.
LEMMA WireCloses ==
    ASSUME ChanIInv, Wire, NEW c \in Conns, EngineClose(c), inForce' = NoBudget
    PROVE  Wire'
<1>1. /\ peer[c] = "open" /\ peer' = [peer EXCEPT ![c] = "closed"]
      /\ toEngine' = [toEngine EXCEPT ![c] = <<>>]
    BY DEF EngineClose
<1>2. /\ \A d \in Conns : peer'[d] # "open" /\ toEngine'[d] = <<>>
    BY <1>1 DEF ChanIInv, ChanTypeOK, Wire, OneEngine
<1>3. OneEngine'
    BY <1>2 DEF OneEngine
<1>4. <<>> \in Seq(Orders)
    OBVIOUS
<1>5. \A d \in Conns : Chain(d)'
    BY <1>2, <1>4 DEF Chain
<1> QED
    BY <1>3, <1>5 DEF Wire

\* The engine obeys the next directive: the chain moves up by one.
LEMMA WireObeys ==
    ASSUME ChanIInv, Wire, NEW c \in Conns, EngineRead(c),
           inForce' = Obeyed(Head(toEngine[c]), inForce), last_commands' = last_commands
    PROVE  Wire' /\ Tighter(inForce, inForce')
<1> DEFINE w == toEngine[c]
           n == Len(w)
           v == Tail(w)
<1>1. /\ peer[c] = "open" /\ w # <<>> /\ toEngine' = [toEngine EXCEPT ![c] = v]
      /\ peer' = peer /\ conn' = conn /\ reader' = reader
    BY DEF EngineRead, mainVars
<1>2. /\ toEngine'[c] = v
      /\ \A d \in Conns : d # c => toEngine'[d] = toEngine[d] /\ peer[d] # "open"
    BY <1>1 DEF ChanIInv, ChanTypeOK, Wire, OneEngine
<1>3. w \in Seq(Orders) /\ Chain(c)
    BY DEF Wire, Chain
<1>4. /\ v \in Seq(Orders) /\ Len(v) = n - 1 /\ n \in Nat \ {0} /\ n - 1 \in Nat
      /\ \A i \in 1..n - 1 : v[i] = w[i + 1]
      /\ Head(w) = w[1] /\ w[1] \in Orders
    BY <1>1, <1>3
<1>5. inForce' = w[1].budget /\ w[1].budget \in Budgets \cup {NoBudget}
    BY <1>4, OrderFacts
<1> DEFINE B(i) == IF i = 0 THEN w[1].budget ELSE v[i].budget
<1>6. \A i \in 0..n - 1 : B(i) = BudgetAt(c, i + 1)
    <2> SUFFICES ASSUME NEW i \in 0..n - 1 PROVE B(i) = BudgetAt(c, i + 1)
        OBVIOUS
    <2>1. CASE i = 0
        BY <2>1 DEF BudgetAt
    <2>2. CASE i \in 1..n - 1
        <3>1. i # 0 /\ i + 1 # 0 /\ v[i] = w[i + 1]
            BY <1>4, <2>2
        <3> QED
            BY <3>1 DEF BudgetAt
    <2> QED
        BY <1>4, <2>1, <2>2
<1>7. \A i \in 1..n : Tighter(BudgetAt(c, i - 1), BudgetAt(c, i))
    BY <1>1, <1>3 DEF Chain, Tightening
<1>8. \A i : BudgetAt(c, i)' = B(i)
    BY <1>2, <1>5 DEF BudgetAt
<1>9. Tighter(inForce, inForce')
    <2>1. Tighter(BudgetAt(c, 1 - 1), BudgetAt(c, 1))
        BY <1>4, <1>7
    <2> QED
        BY <1>5, <2>1 DEF BudgetAt
<1>10. Chain(c)'
    <2> HIDE DEF B, n, v
    <2>1. \A i \in 1..n - 1 : Tighter(B(i - 1), B(i))
        <3> SUFFICES ASSUME NEW i \in 1..n - 1 PROVE Tighter(B(i - 1), B(i))
            OBVIOUS
        <3>1. i - 1 \in 0..n - 1 /\ i \in 0..n - 1 /\ i + 1 \in 1..n /\ i - 1 + 1 = i
              /\ i + 1 - 1 = i
            BY <1>4
        <3>2. B(i - 1) = BudgetAt(c, i) /\ B(i) = BudgetAt(c, i + 1)
            BY <1>6, <3>1
        <3>3. Tighter(BudgetAt(c, i), BudgetAt(c, i + 1))
            BY <1>7, <3>1
        <3> QED
            BY <3>2, <3>3
    <2>2. Tightening(c)'
        BY <1>2, <1>4, <1>8, <2>1 DEF Tightening
    <2>3. ASSUME conn' = c
          PROVE  BudgetAt(c, Len(toEngine[c]))' \in {NoBudget, last_commands'.budget}
        <3>1. BudgetAt(c, Len(toEngine[c]))' = B(n - 1)
            <4>1. BudgetAt(c, Len(toEngine[c]))' = B(Len(v))
                BY <1>2, <1>5 DEF BudgetAt, B
            <4> QED
                BY <1>4, <4>1
        <3>2. B(n - 1) = BudgetAt(c, n)
            <4>1. n - 1 \in 0..n - 1 /\ n - 1 + 1 = n
                BY <1>4
            <4> QED
                BY <1>6, <4>1
        <3>3. BudgetAt(c, n) \in {NoBudget, last_commands.budget}
            BY <1>1, <1>3, <2>3 DEF Chain, n, w
        <3> QED
            BY <3>1, <3>2, <3>3
    <2> QED
        BY <1>2, <1>4, <2>2, <2>3 DEF Chain
<1>11. ASSUME NEW d \in Conns, d # c PROVE Chain(d)'
    BY <1>1, <1>2, <1>11 DEF Wire, Chain
<1>12. OneEngine'
    BY <1>1, <1>2, <1>5 DEF Wire, OneEngine
<1> QED
    BY <1>9, <1>10, <1>11, <1>12 DEF Wire

\* emit_directive, whatever comes of it.
LEMMA WireEmits ==
    ASSUME ChanIInv, Wire, Ratchet, pc = "emit", EmitDirective(commands),
           last_commands' = commands, inForce' = inForce
    PROVE  Wire'
<1>1. /\ toEngine \in [Conns -> Seq(Directives)] /\ conn \in Conns \cup {NoConn}
      /\ reader \in [Conns -> {"none", "running", "exited"}]
      /\ backlog \in Seq(Conns)
      /\ peer' = peer
      /\ state = "Connected" <=> conn # NoConn
      /\ conn # NoConn => reader[conn] # "none"
      /\ NoConn \notin Conns
    BY Counts DEF ChanIInv, ChanTypeOK, Lifecycle, EmitDirective
<1>2. CASE EmitOnCurrent(commands)
    <2>1. reader' = reader /\ conn # NoConn
        BY <1>1, <1>2 DEF EmitOnCurrent
    <2>2. PICK c \in Conns : c = conn
        BY <1>1, <2>1
    <2>3. CASE WriteFails(conn) /\ Disconnect
        <3>1. toEngine' = toEngine /\ conn' = NoConn
            BY <2>3 DEF WriteFails, Disconnect
        <3> QED
            BY <1>1, <2>1, <3>1, WireQuiet
    <2>4. CASE WriteOk(conn, commands) /\ UNCHANGED <<state, conn, inbox>>
        <3>1. CASE peer[c] = "open" /\ toEngine' = [toEngine EXCEPT ![c] = Append(@, commands)]
            BY <1>1, <2>1, <2>2, <2>4, <3>1, WireWrite
        <3>2. CASE peer[c] = "closed" /\ toEngine' = toEngine
            BY <1>1, <2>1, <2>2, <2>4, <3>2, WireQuiet
        <3> QED
            BY <2>2, <2>4, <3>1, <3>2 DEF WriteOk
    <2> QED
        BY <1>2, <2>3, <2>4 DEF EmitOnCurrent
<1>3. CASE EmitOnReconnect(commands)
    <2>1. backlog # <<>>
        BY <1>3 DEF EmitOnReconnect, CanReconnect
    <2>2. PICK c \in Conns : c = Head(backlog) /\ reader[c] = "none"
        <3>1. Head(backlog) \in Conns /\ Head(backlog) = backlog[1] /\ 1 \in 1..Len(backlog)
            BY <1>1, <2>1
        <3> QED
            BY <3>1 DEF ChanIInv, Queued
    <2>3. CASE WriteOk(c, commands) /\ TransitionToConnected(TRUE)
        <3>1. conn' = c /\ reader' = [reader EXCEPT ![c] = "running"]
            BY <2>2, <2>3 DEF TransitionToConnected
        <3>2. reader'[c] # "none" /\ \A d \in Conns : reader'[d] = "none" => reader[d] = "none"
            BY <1>1, <3>1
        <3>3. CASE peer[c] = "open" /\ toEngine' = [toEngine EXCEPT ![c] = Append(@, commands)]
            BY <1>1, <2>2, <3>1, <3>2, <3>3, WireWrite
        <3>4. CASE peer[c] = "closed" /\ toEngine' = toEngine
            BY <1>1, <3>1, <3>2, <3>4, WireQuiet
        <3> QED
            BY <2>3, <3>3, <3>4 DEF WriteOk
    <2>4. CASE /\ WriteFails(c) /\ Disconnect
               /\ reader' = [reader EXCEPT ![c] = "running"]
        <3>1. toEngine' = toEngine /\ conn' = NoConn
            BY <2>4 DEF WriteFails, Disconnect
        <3>2. \A d \in Conns : reader'[d] = "none" => reader[d] = "none"
            BY <1>1, <2>4
        <3> QED
            BY <1>1, <3>1, <3>2, WireQuiet
    <2>5. CASE TransitionToConnected(FALSE) /\ UNCHANGED toEngine
        <3>1. conn' = NoConn /\ reader' = reader
            BY <2>5 DEF TransitionToConnected
        <3> QED
            BY <1>1, <2>5, <3>1, WireQuiet
    <2> QED
        BY <1>3, <2>2, <2>3, <2>4, <2>5 DEF EmitOnReconnect
<1>4. CASE EmitDropped
    <2>1. conn = NoConn /\ UNCHANGED <<conn, reader, toEngine>>
        BY <1>1, <1>4 DEF EmitDropped
    <2> QED
        BY <1>1, <2>1, WireQuiet
<1> QED
    BY <1>2, <1>3, <1>4 DEF EmitDirective

\* Accepting, receiving and reading leave the directives alone.
LEMMA WireAside ==
    ASSUME ChanIInv, Wire, last_commands' = last_commands, inForce' = inForce,
           \/ Wait \/ TryRecvMessage \/ TryRecvLost
           \/ \E c \in Conns : Reader(c) \/ EngineSend(c) \/ EngineSendGarbled(c)
    PROVE  Wire'
<1>1. /\ conn \in Conns \cup {NoConn} /\ backlog \in Seq(Conns) /\ NoConn \notin Conns
      /\ reader \in [Conns -> {"none", "running", "exited"}]
    BY Counts DEF ChanIInv, ChanTypeOK
<1>2. toEngine' = toEngine /\ peer' = peer
    BY DEF Wait, WaitTimeout, WaitAccept, TryRecvMessage, TryRecvLost, Reader, ReaderDelivers,
           ReaderStops, EngineSend, EngineSendGarbled
<1>3. CASE \E ok \in BOOLEAN : WaitAccept(ok)
    <2>1. PICK ok \in BOOLEAN : backlog # <<>> /\ TransitionToConnected(ok)
        BY <1>3 DEF WaitAccept, TransitionToConnected
    <2>2. PICK c \in Conns : c = Head(backlog) /\ reader[c] = "none"
        <3>1. Head(backlog) \in Conns /\ Head(backlog) = backlog[1] /\ 1 \in 1..Len(backlog)
            BY <1>1, <2>1
        <3> QED
            BY <3>1 DEF ChanIInv, Queued
    <2>3. CASE conn' = c /\ reader' = [reader EXCEPT ![c] = "running"]
        <3>1. \A d \in Conns : reader'[d] = "none" => reader[d] = "none"
            BY <1>1, <2>3
        <3> QED
            BY <1>2, <2>2, <2>3, <3>1, WireQuiet
    <2>4. CASE conn' = NoConn /\ reader' = reader
        BY <1>1, <1>2, <2>4, WireQuiet
    <2> QED
        BY <2>1, <2>2, <2>3, <2>4 DEF TransitionToConnected
<1>4. CASE \/ WaitTimeout \/ TryRecvMessage \/ TryRecvLost
           \/ \E c \in Conns : Reader(c) \/ EngineSend(c) \/ EngineSendGarbled(c)
    <2>1. conn' = conn \/ conn' = NoConn
        BY <1>4 DEF WaitTimeout, TryRecvMessage, TryRecvLost, Disconnect, Reader, ReaderDelivers,
                    ReaderStops, EngineSend, EngineSendGarbled, mainVars
    <2>2. reader' = reader \/ \E c \in Conns : reader' = [reader EXCEPT ![c] = "exited"]
        BY <1>4 DEF WaitTimeout, TryRecvMessage, TryRecvLost, Reader, ReaderDelivers,
                    ReaderStops, ReaderExits, EngineSend, EngineSendGarbled
    <2>3. \A d \in Conns : reader'[d] = "none" => reader[d] = "none"
        BY <1>1, <2>2
    <2> QED
        BY <1>1, <1>2, <2>1, <2>3, WireQuiet
<1> QED
    BY <1>3, <1>4 DEF Wait

\* Every step keeps the chain, and the engine moves along it.
LEMMA WireStep ==
    ASSUME ChanIInv, ScriptAlone, Ratchet, Wire, [Next]_vars
    PROVE  Wire' /\ Tighter(inForce, inForce')
<1>1. inForce \in Budgets \cup {NoBudget} /\ Tighter(inForce, inForce) /\ Tighter(inForce, NoBudget)
    <2>1. inForce \in Budgets \cup {NoBudget} /\ inForce \in Int
        BY PolicyAssumption DEF Wire, OneEngine, Budgets, NoBudget
    <2> QED
        BY <2>1 DEF Tighter
<1>2. CASE Emitting
    <2>1. pc = "emit" /\ inForce' = inForce
        BY <1>2 DEF Emitting
    <2>2. CASE Dedup!Pass(commands) /\ EmitDirective(commands)
        <3>1. last_commands' = commands
            BY <2>2 DEF Dedup!Pass
        <3> QED
            BY <1>1, <2>1, <2>2, <3>1, WireEmits
    <2>3. CASE Dedup!Suppress(commands) /\ UNCHANGED chanVars
        <3>1. UNCHANGED <<toEngine, peer, inForce, reader, conn, last_commands>>
            BY <2>1, <2>3 DEF Dedup!Suppress, Dedup!vars, chanVars
        <3> QED
            BY <1>1, <3>1, WireQuiet
    <2> QED
        BY <1>2, <2>2, <2>3 DEF Emitting
<1>3. CASE CreateTransport \/ Drain
    <2>1. /\ UNCHANGED <<last_commands, inForce>>
          /\ Wait \/ TryRecvMessage \/ TryRecvLost \/ TryRecvNone
        BY <1>3 DEF CreateTransport, Drain, dedupVars
    <2>2. CASE TryRecvNone
        BY <1>1, <2>1, <2>2, WireQuiet DEF TryRecvNone, chanVars
    <2> QED
        BY <1>1, <2>1, <2>2, WireAside
<1>4. CASE \/ InitialSignal \/ EnterLoop \/ LoopHead \/ Reload \/ RecvSignal \/ RecvNothing \/ Join
           \/ (\E m \in Monitors : Poll(m)) \/ handle_signal \/ handle_sighup \/ Tick
           \/ UNCHANGED vars
    <2>1. UNCHANGED <<toEngine, peer, inForce, reader, conn, last_commands>>
        BY <1>4 DEF InitialSignal, EnterLoop, LoopHead, Reload, RecvSignal, RecvNothing, Join, Poll,
                    handle_signal, handle_sighup, Tick, Dedup!Tick, chanVars, dedupVars, vars
    <2> QED
        BY <1>1, <2>1, WireQuiet
<1>5. CASE EmitInitial
    BY <1>5 DEF EmitInitial, ScriptAlone
<1>6. ASSUME NEW c \in Conns, ReaderThread(c) \/ EngineSends(c)
      PROVE  Wire' /\ Tighter(inForce, inForce')
    <2>1. UNCHANGED <<last_commands, inForce>> /\ (Reader(c) \/ EngineSend(c))
        BY <1>6 DEF ReaderThread, EngineSends, dedupVars
    <2> QED
        BY <1>1, <2>1, WireAside
<1>7. ASSUME NEW c \in Conns, EngineConnects(c)
      PROVE  Wire' /\ Tighter(inForce, inForce')
    <2>1. UNCHANGED <<last_commands, inForce>> /\ EngineConnect(c)
        BY <1>7 DEF EngineConnects, dedupVars
    <2> QED
        BY <1>1, <2>1, WireConnects
<1>8. ASSUME NEW c \in Conns, EngineObeys(c)
      PROVE  Wire' /\ Tighter(inForce, inForce')
    <2>1. /\ last_commands' = last_commands /\ EngineRead(c)
          /\ inForce' = Obeyed(Head(toEngine[c]), inForce)
        BY <1>8 DEF EngineObeys, dedupVars
    <2> QED
        BY <2>1, WireObeys
<1>9. ASSUME NEW c \in Conns, EngineFails(c)
      PROVE  Wire' /\ Tighter(inForce, inForce')
    <2>1. last_commands' = last_commands
        BY <1>9 DEF EngineFails, dedupVars
    <2>2. CASE EngineClose(c) /\ inForce' = NoBudget
        BY <1>1, <2>2, WireCloses
    <2>3. CASE EngineSendGarbled(c) /\ inForce' = inForce
        BY <1>1, <2>1, <2>3, WireAside
    <2> QED
        BY <1>9, <2>2, <2>3 DEF EngineFails
<1> QED
    BY <1>2, <1>3, <1>4, <1>5, <1>6, <1>7, <1>8, <1>9 DEF Next, Main

\* At the start nothing was asked for and no engine is there.
LEMMA BudgetInit == Init => ScriptAlone /\ Ratchet /\ Wire
<1> SUFFICES ASSUME Init PROVE ScriptAlone /\ Ratchet /\ Wire
    OBVIOUS
<1>1. ScriptAlone
    BY DEF Init, PolicyInit, ScriptAlone
<1>2. Ratchet
    BY DEF Init, PolicyInit, Dedup!Init, Ratchet, NoAction
<1>3. /\ inForce = NoBudget
      /\ \A c \in Conns : peer[c] = "unused" /\ toEngine[c] = <<>>
    BY DEF Init, ChanInit
<1>4. <<>> \in Seq(Orders)
    OBVIOUS
<1>5. Wire
    BY <1>3, <1>4 DEF Wire, OneEngine, Chain
<1> QED
    BY <1>1, <1>2, <1>5

(***************************************************************************)
(* The engine never sees a KV budget loosen: through the monitors' queue,  *)
(* the ratchet, the deduplicator, the socket's buffer, dropped directives  *)
(* and reconnects, for any number of engines one after the other, as long  *)
(* as the script decides (the fallback's budgets and a reloaded script,    *)
(* which has forgotten the window it replaced, know no ratchet).           *)
(***************************************************************************)
THEOREM BudgetNeverLoosens ==
    ASSUME ~VmMayFail, ~MayReload
    PROVE  Spec => NoLooseningOnWire
<1> DEFINE BInv == ScriptAlone /\ Ratchet /\ Wire
<1>1. Init => BInv
    BY BudgetInit
<1>2. LoopIInv /\ ChanIInv /\ BInv /\ [Next]_vars => BInv'
    BY RatchetStep, WireStep
<1>3. LoopIInv /\ ChanIInv /\ BInv /\ [Next]_vars
        => [inForce # NoBudget /\ inForce' # NoBudget => inForce' <= inForce]_vars
    BY WireStep DEF Tighter
<1> HIDE DEF BInv
<1> QED
    BY <1>1, <1>2, <1>3, ProcessInvariance, PTL DEF Spec, NoLooseningOnWire

=============================================================================
