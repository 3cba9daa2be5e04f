------------------------- MODULE PolicyDefaultProofs -------------------------
(***************************************************************************)
(* What one call of the policy script does, for every list of axes, every  *)
(* thresholds with EXIT <= ENTER and every ramp.  PolicyWindowProofs,      *)
(* PolicyLoopProofs and ManagerProofs rest on these lemmas.                *)
(***************************************************************************)
EXTENDS PolicyDefault, TLAPS

\* The clamps of B_kv (math.min, math.max) leave a value between their bounds.
LEMMA ClampInRange ==
    ASSUME NEW x \in Int, NEW lo \in Int, NEW hi \in Int, lo <= hi
    PROVE  Clamp(x, lo, hi) \in lo..hi
BY DEF Clamp

\* B_kv never leaves the ramp, whatever the pressure (a latency ratio may be negative or
\* beyond 1.0) and even for an axis whose ENTER threshold is at or above 1.0.
LEMMA BudgetOnRamp ==
    ASSUME NEW pressure \in Int, NEW axis \in Axes
    PROVE  B_kv(pressure, axis) \in Budgets
<1> DEFINE span == ONE - ENTER[axis]
           over == Clamp(pressure - ENTER[axis], 0, span)
<1>1. span \in Int /\ pressure - ENTER[axis] \in Int
    BY PolicyAssumption
<1>2. B_MIN \in Int /\ B_MAX \in Int /\ B_MIN <= B_MAX
    BY PolicyAssumption
<1>3. CASE span > 0
    <2>1. over \in Int
        BY <1>1, <1>3, ClampInRange
    <2>2. RampStep(over, span) \in Int
        <3> HIDE DEF over, span
        <3>1. /\ 2 * (B_MAX * span - over * (B_MAX - B_MIN)) + span \in Int
              /\ 2 * span \in Int /\ 2 * span > 0
            BY <1>1, <1>2, <1>3, <2>1
        <3> QED
            BY <3>1 DEF RampStep
    <2>3. Clamp(RampStep(over, span), B_MIN, B_MAX) \in Budgets
        BY <2>2, <1>2, ClampInRange DEF Budgets
    <2> QED
        BY <2>3, <1>3 DEF B_kv
<1>4. CASE ~(span > 0)
    BY <1>4, <1>2 DEF B_kv, Budgets
<1> QED
    BY <1>3, <1>4

\* One call of decide() with windows and budget in step.
LEMMA DecideStep ==
    ASSUME NEW rel \in SUBSET Axes, NEW app \in Budgets \cup {NoBudget},
           app = NoBudget <=> rel = {},
           NEW q \in Pressures, NEW a \in Axes,
           NEW d, d = decide(rel, app, q, a)
    PROVE  /\ d.relieving \in SUBSET Axes
           /\ d.applied \in Budgets \cup {NoBudget}
           /\ d.action \in Actions
           /\ d.applied = NoBudget <=> d.relieving = {}
           /\ d.action = NoAction => d.applied = app
           /\ d.applied # NoBudget /\ d.action # NoAction => app = NoBudget \/ d.applied < app
           /\ (\A b \in Axes : q[b] < EXIT[b]) => d.applied = NoBudget
<1> DEFINE still == StillRelieving(rel, q)
           budget == B_kv(q[a], a)
<1>1. still \in SUBSET Axes /\ still \subseteq rel
    BY DEF StillRelieving
<1>2. budget \in Budgets /\ budget # NoBudget /\ budget \in Int
    BY BudgetOnRamp, PolicyAssumption DEF Pressures, Budgets, NoBudget
<1>3. (\A b \in Axes : q[b] < EXIT[b]) => still = {} /\ q[a] < ENTER[a]
    BY PolicyAssumption DEF StillRelieving, Pressures
<1>4. app \in Int
    BY PolicyAssumption DEF Budgets, NoBudget
<1>5. CASE app # NoBudget /\ still = {}
    <2>1. d = [relieving |-> {}, applied |-> NoBudget, action |-> RestoreDefaults]
        BY <1>5 DEF decide, Released
    <2> QED
        BY <2>1 DEF Actions, RestoreDefaults, NoAction
<1>6. CASE ~(app # NoBudget /\ still = {}) /\ a \notin still /\ q[a] < ENTER[a]
    <2>1. d = [relieving |-> still, applied |-> app, action |-> NoAction]
        BY <1>6 DEF decide
    <2> QED
        BY <2>1, <1>6, <1>1, <1>3 DEF Actions, NoAction
<1>7. CASE /\ ~(app # NoBudget /\ still = {}) /\ ~(a \notin still /\ q[a] < ENTER[a])
           /\ Ratcheted(app, budget)
    <2>1. d = [relieving |-> still \cup {a}, applied |-> app, action |-> NoAction]
        BY <1>7 DEF decide
    <2> QED
        BY <2>1, <1>7, <1>1, <1>3 DEF Actions, NoAction, Ratcheted
<1>8. CASE /\ ~(app # NoBudget /\ still = {}) /\ ~(a \notin still /\ q[a] < ENTER[a])
           /\ ~Ratcheted(app, budget)
    <2>1. d = [relieving |-> still \cup {a}, applied |-> budget, action |-> KvCompress(budget)]
        BY <1>8 DEF decide
    <2>2. KvCompress(budget) \in Actions /\ KvCompress(budget) # NoAction
        BY <1>2 DEF Actions, KvCompress, NoAction
    <2>3. app = NoBudget \/ budget < app
        BY <1>8, <1>2, <1>4 DEF Ratcheted
    <2> QED
        BY <2>1, <2>2, <2>3, <1>8, <1>1, <1>2, <1>3
<1> QED
    BY <1>5, <1>6, <1>7, <1>8

\* The action of a call and the budget it leaves agree.
LEMMA DecideAction ==
    ASSUME NEW rel, NEW app, NEW q, NEW a, NEW d, d = decide(rel, app, q, a)
    PROVE  \/ d.action = NoAction /\ d.applied = app
           \/ d.action = RestoreDefaults /\ d.applied = NoBudget
           \/ d.action = KvCompress(d.applied)
BY DEF decide, Released

\* A call that does not restore covers the axis it looks at, if that is past ENTER.
LEMMA DecideCovers ==
    ASSUME NEW rel \in SUBSET Axes, NEW app \in Budgets \cup {NoBudget},
           NEW q \in Pressures, NEW a \in Axes, q[a] >= ENTER[a],
           decide(rel, app, q, a).action # RestoreDefaults
    PROVE  /\ decide(rel, app, q, a).applied # NoBudget
           /\ decide(rel, app, q, a).applied <= B_kv(q[a], a)
<1> DEFINE still == StillRelieving(rel, q)
           budget == B_kv(q[a], a)
<1>1. budget # NoBudget /\ budget \in Int
    BY BudgetOnRamp, PolicyAssumption DEF Pressures, Budgets, NoBudget
<1>2. app \in Int
    BY PolicyAssumption DEF Budgets, NoBudget
<1>3. ~(q[a] < ENTER[a])
    BY PolicyAssumption DEF Pressures
<1>4. ~(app # NoBudget /\ still = {})
    BY DEF decide
<1>5. decide(rel, app, q, a).applied = IF Ratcheted(app, budget) THEN app ELSE budget
    BY <1>3, <1>4 DEF decide
<1> QED
    BY <1>1, <1>2, <1>5 DEF Ratcheted

\* most_stressed names one axis: ties are broken by the order of AXES.
LEMMA OneMostStressed ==
    ASSUME NEW q \in Pressures, NEW a, NEW b, IsMostStressed(q, a), IsMostStressed(q, b)
    PROVE  a = b
<1>1. PICK i \in DOMAIN AXES :
        /\ a = AXES[i]
        /\ \A j \in DOMAIN AXES :
              \/ Excess(q, AXES[j]) < Excess(q, a)
              \/ Excess(q, AXES[j]) = Excess(q, a) /\ i <= j
    BY DEF IsMostStressed
<1>2. PICK k \in DOMAIN AXES :
        /\ b = AXES[k]
        /\ \A j \in DOMAIN AXES :
              \/ Excess(q, AXES[j]) < Excess(q, b)
              \/ Excess(q, AXES[j]) = Excess(q, b) /\ k <= j
    BY DEF IsMostStressed
<1>3. i \in Int /\ k \in Int
    BY PolicyAssumption
<1>4. Excess(q, a) \in Int /\ Excess(q, b) \in Int
    <2>1. a \in Axes /\ b \in Axes
        BY <1>1, <1>2 DEF Axes
    <2> QED
        BY <2>1, PolicyAssumption DEF Excess, Pressures
<1>5. i <= k /\ k <= i
    BY <1>1, <1>2, <1>4
<1> QED
    BY <1>1, <1>2, <1>3, <1>5

\* When some axis is past its ENTER threshold, the most stressed one is.
LEMMA WorstPastEnter ==
    ASSUME NEW q \in Pressures, NEW a \in Axes, IsMostStressed(q, a),
           NEW b \in Axes, q[b] >= ENTER[b]
    PROVE  q[a] >= ENTER[a]
<1>1. PICK j \in DOMAIN AXES : b = AXES[j]
    BY DEF Axes
<1>2. q[a] \in Int /\ q[b] \in Int /\ ENTER[a] \in Int /\ ENTER[b] \in Int
    BY PolicyAssumption DEF Pressures
<1>3. Excess(q, b) < Excess(q, a) \/ Excess(q, b) = Excess(q, a)
    BY <1>1 DEF IsMostStressed
<1> QED
    BY <1>2, <1>3 DEF Excess

=============================================================================
