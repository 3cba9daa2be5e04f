------------------------- MODULE PolicyWindowProofs -------------------------
(***************************************************************************)
(* The relief windows of policy_default.lua hold their promises for every  *)
(* list of axes, every thresholds with EXIT <= ENTER, every ramp and every *)
(* sequence of readings.                                                   *)
(***************************************************************************)
EXTENDS PolicyWindow, PolicyDefaultProofs, TLAPS

(***************************************************************************)
(* The inductive invariant.  WindowBounded alone is not inductive: a       *)
(* window with few steps of the ramp left must have few directives left.   *)
(* CalmReleases needs that no budget is in force before the first          *)
(* heartbeat, when decide() returns early.                                 *)
(***************************************************************************)
StepsUsed ==
    /\ applied = NoBudget => sent = 0
    /\ applied # NoBudget => sent <= B_MAX - applied + 1

IdleUntilSeen == ~seen => applied = NoBudget

IInv == TypeOK /\ WindowConsistent /\ StepsUsed /\ IdleUntilSeen /\ CalmReleases

\* A freshly loaded script satisfies the inductive invariant.
LEMMA InitIInv == Init => IInv
<1> SUFFICES ASSUME Init PROVE IInv
    OBVIOUS
<1>1. TypeOK
    BY ReadingsAssumption DEF Init, TypeOK, Actions, NoAction
<1> QED
    BY <1>1 DEF Init, IInv, WindowConsistent, StepsUsed, IdleUntilSeen, CalmReleases

\* A call of decide() preserves it.
LEMMA DecideIInv ==
    ASSUME IInv, NEW q \in Readings, Decide(q)
    PROVE  IInv' /\ (applied # NoBudget /\ applied' # NoBudget
                        => applied' <= applied /\ (sent' # sent => applied' < applied))
<1>1. q \in Pressures
    BY ReadingsAssumption
<1> USE DEF IInv
<1>2. CASE ~seen
    <2>1. UNCHANGED <<seen, relieving, applied, sent>> /\ p' = q /\ action' = NoAction
        BY <1>2 DEF Decide
    <2> QED
        BY <2>1, <1>2 DEF TypeOK, WindowConsistent, StepsUsed, IdleUntilSeen, CalmReleases,
                          Actions, NoAction
<1>3. CASE seen
    <2>1. PICK a \in Axes :
            LET d == decide(relieving, applied, q, a)
            IN  /\ relieving' = d.relieving
                /\ applied' = d.applied
                /\ action' = d.action
                /\ sent' = CASE d.applied = NoBudget -> 0
                             [] d.applied # NoBudget /\ d.action = NoAction -> sent
                             [] OTHER -> sent + 1
        BY <1>3 DEF Decide
    <2> DEFINE d == decide(relieving, applied, q, a)
    <2>2. /\ relieving' \in SUBSET Axes
          /\ applied' \in Budgets \cup {NoBudget}
          /\ action' \in Actions
          /\ applied' = NoBudget <=> relieving' = {}
          /\ action' = NoAction => applied' = applied
          /\ applied' # NoBudget /\ action' # NoAction => applied = NoBudget \/ applied' < applied
          /\ (\A b \in Axes : q[b] < EXIT[b]) => applied' = NoBudget
        <3>1. /\ d.relieving \in SUBSET Axes
              /\ d.applied \in Budgets \cup {NoBudget}
              /\ d.action \in Actions
              /\ d.applied = NoBudget <=> d.relieving = {}
              /\ d.action = NoAction => d.applied = applied
              /\ d.applied # NoBudget /\ d.action # NoAction
                    => applied = NoBudget \/ d.applied < applied
              /\ (\A b \in Axes : q[b] < EXIT[b]) => d.applied = NoBudget
            BY <1>1, DecideStep DEF TypeOK, WindowConsistent
        <3> QED
            BY <3>1, <2>1
    <2>3. /\ applied' = NoBudget => sent' = 0
          /\ applied' # NoBudget /\ action' = NoAction => sent' = sent
          /\ applied' # NoBudget /\ action' # NoAction => sent' = sent + 1
        BY <2>1
    <2>4. p' = q /\ seen' = seen
        BY DEF Decide
    <2>5. /\ B_MAX \in Int /\ B_MIN \in Int
          /\ applied \in Int /\ applied' \in Int /\ sent \in Nat
          /\ applied' # NoBudget => applied' <= B_MAX
        BY <2>2, PolicyAssumption DEF TypeOK, Budgets, NoBudget
    <2>6. sent' \in Nat /\ StepsUsed'
        BY <2>2, <2>3, <2>5 DEF StepsUsed
    <2>7. TypeOK' /\ WindowConsistent' /\ IdleUntilSeen' /\ CalmReleases'
        BY <1>3, <2>2, <2>4, <2>6 DEF TypeOK, WindowConsistent, IdleUntilSeen, CalmReleases
    <2>8. applied # NoBudget /\ applied' # NoBudget
             => applied' <= applied /\ (sent' # sent => applied' < applied)
        BY <2>2, <2>3, <2>5
    <2> QED
        BY <2>6, <2>7, <2>8
<1> QED
    BY <1>2, <1>3

\* The invariant is inductive.
LEMMA NextIInv == IInv /\ [Next]_vars => IInv'
<1> SUFFICES ASSUME IInv, [Next]_vars PROVE IInv'
    OBVIOUS
<1>1. CASE Heartbeat
    BY <1>1 DEF Heartbeat, IInv, TypeOK, WindowConsistent, StepsUsed, IdleUntilSeen, CalmReleases
<1>2. CASE \E q \in Readings : Decide(q)
    BY <1>2, DecideIInv
<1>3. CASE UNCHANGED vars
    BY <1>3 DEF vars, IInv, TypeOK, WindowConsistent, StepsUsed, IdleUntilSeen, CalmReleases
<1> QED
    BY <1>1, <1>2, <1>3 DEF Next

\* It holds in every reachable state.
LEMMA Invariance == Spec => []IInv
BY InitIInv, NextIInv, PTL DEF Spec

-----------------------------------------------------------------------------
(***************************************************************************)
(* The script's locals stay well typed, whatever readings decide() sees.   *)
(***************************************************************************)
THEOREM WindowTypeCorrect == Spec => []TypeOK
BY Invariance, PTL DEF IInv

(***************************************************************************)
(* `applied' and `relieving' never part: a budget is in force exactly      *)
(* while an axis is being relieved.                                        *)
(***************************************************************************)
THEOREM WindowsConsistent == Spec => []WindowConsistent
BY Invariance, PTL DEF IInv

(***************************************************************************)
(* No spike pins the cache: with every axis under its EXIT threshold no    *)
(* budget stays in force after decide().                                   *)
(***************************************************************************)
THEOREM CalmAlwaysReleases == Spec => []CalmReleases
BY Invariance, PTL DEF IInv

(***************************************************************************)
(* A window emits at most as many directives as the ramp has steps (14 for *)
(* the budgets of the script), for every ramp.                             *)
(***************************************************************************)
THEOREM WindowsBounded == Spec => []WindowBounded
<1>1. IInv => WindowBounded
    BY PolicyAssumption DEF IInv, TypeOK, StepsUsed, WindowBounded, Budgets, NoBudget
<1> QED
    BY <1>1, Invariance, PTL

(***************************************************************************)
(* "A window only ever TIGHTENS", for every ramp and sequence of readings. *)
(***************************************************************************)
THEOREM WindowsTighten == Spec => WindowTightens
<1> DEFINE Tightens == applied # NoBudget /\ applied' # NoBudget
                         => applied' <= applied /\ (sent' # sent => applied' < applied)
<1>1. ASSUME IInv, [Next]_vars PROVE [Tightens]_vars
    <2>1. CASE Heartbeat
        BY <2>1, <1>1, PolicyAssumption DEF Heartbeat, IInv, TypeOK, Budgets, NoBudget
    <2>2. CASE \E q \in Readings : Decide(q)
        BY <2>2, <1>1, DecideIInv
    <2> QED
        BY <2>1, <2>2, <1>1 DEF Next
<1> QED
    BY <1>1, Invariance, PTL DEF Spec, WindowTightens

(***************************************************************************)
(* The ratchet withholds a directive only when nothing is lost by it: a    *)
(* call that does not close the window leaves a budget at least as tight   *)
(* as the ramp asks for on the most stressed axis.                         *)
(***************************************************************************)
THEOREM WorstAxisAlwaysCovered == Spec => WorstAxisCovered
<1> DEFINE Covered == seen /\ action' # RestoreDefaults
                        => \A a \in Axes : IsMostStressed(p', a) /\ p'[a] >= ENTER[a]
                              => applied' # NoBudget /\ applied' <= B_kv(p'[a], a)
<1>1. ASSUME IInv, [Next]_vars PROVE [Covered]_vars
    <2>1. CASE Heartbeat
        <3>1. ~seen
            BY <2>1 DEF Heartbeat
        <3> QED
            BY <3>1
    <2>2. ASSUME NEW q \in Readings, Decide(q) PROVE Covered
        <3> SUFFICES ASSUME seen, action' # RestoreDefaults, NEW a \in Axes,
                            IsMostStressed(q, a), q[a] >= ENTER[a]
                     PROVE  applied' # NoBudget /\ applied' <= B_kv(q[a], a)
            BY <2>2 DEF Decide
        <3>1. q \in Pressures
            BY ReadingsAssumption
        <3>2. PICK b \in Axes :
                LET d == decide(relieving, applied, q, b)
                IN  IsMostStressed(q, b) /\ applied' = d.applied /\ action' = d.action
            BY <2>2 DEF Decide
        <3>3. a = b
            BY <3>1, <3>2, OneMostStressed
        <3> DEFINE d == decide(relieving, applied, q, a)
        <3>4. d.action # RestoreDefaults /\ q[a] >= ENTER[a]
                 => d.applied # NoBudget /\ d.applied <= B_kv(q[a], a)
            BY <1>1, <3>1, DecideCovers DEF IInv, TypeOK
        <3> QED
            BY <3>2, <3>3, <3>4
    <2> QED
        BY <2>1, <2>2, <1>1 DEF Next
<1> QED
    BY <1>1, Invariance, PTL DEF Spec, WorstAxisCovered

=============================================================================
