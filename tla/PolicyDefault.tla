--------------------------- MODULE PolicyDefault ---------------------------
(***************************************************************************)
(* The reference policy scripts/policy_default.lua: per-axis pressure in,  *)
(* at most one command out.  The script's two locals, `relieving' and      *)
(* `applied', are passed as a record so that the modules that hold them    *)
(* (PolicyWindow, LuaPolicy) can use the same operator.                    *)
(*                                                                         *)
(* A pressure of 1.0 is ONE; a budget is counted in steps of B_STEP.       *)
(***************************************************************************)
EXTENDS Integers, Sequences

CONSTANTS
    AXES,           \* the axes in the order the script walks them
    ENTER, EXIT,    \* thresholds, per axis
    ONE,            \* pressure 1.0
    B_MAX, B_MIN    \* the ends of the budget ramp, in steps of B_STEP

Axes == {AXES[i] : i \in DOMAIN AXES}

ASSUME PolicyAssumption ==
    /\ AXES \in Seq(STRING) /\ AXES # <<>>
    /\ ENTER \in [Axes -> Nat] /\ EXIT \in [Axes -> Nat]
    /\ \A a \in Axes : EXIT[a] <= ENTER[a]
    /\ ONE \in Nat
    /\ B_MIN \in Nat \ {0} /\ B_MAX \in Nat /\ B_MIN <= B_MAX

\* `applied' is nil.
NoBudget == 0

Budgets == B_MIN..B_MAX

NoAction == [type |-> "nil", budget |-> NoBudget]
RestoreDefaults == [type |-> "restore_defaults", budget |-> NoBudget]
KvCompress(b) == [type |-> "kv.compress", budget |-> b]
Actions == [type : {"nil", "restore_defaults", "kv.compress"}, budget : Budgets \cup {NoBudget}]

\* Pressure per axis; the latency ratio may lie outside 0..ONE.
Pressures == [Axes -> Int]

-----------------------------------------------------------------------------
Excess(p, a) == p[a] - ENTER[a]

\* most_stressed(p) = a; ties go to the axis that comes first in AXES.
IsMostStressed(p, a) ==
    \E i \in DOMAIN AXES :
        /\ a = AXES[i]
        /\ \A j \in DOMAIN AXES :
              \/ Excess(p, AXES[j]) < Excess(p, a)
              \/ Excess(p, AXES[j]) = Excess(p, a) /\ i <= j

\* The ramp before clamping: B_MAX at ENTER down to B_MIN at ONE, rounded to a step.
RampStep(over, span) ==
    (2 * (B_MAX * span - over * (B_MAX - B_MIN)) + span) \div (2 * span)

Clamp(x, lo, hi) == IF x < lo THEN lo ELSE IF x > hi THEN hi ELSE x

B_kv(pressure, axis) ==
    LET span == ONE - ENTER[axis]
    IN  IF span > 0
        THEN Clamp(RampStep(Clamp(pressure - ENTER[axis], 0, span), span), B_MIN, B_MAX)
        ELSE B_MAX

\* Faulty variants of StillRelieving, Ratcheted and Released.
Mut_sweep_worst_only(relieving, p) ==
    {a \in relieving : p[a] >= EXIT[a] \/ ~IsMostStressed(p, a)}
Mut_ratchet_missing(applied, budget) == applied # NoBudget /\ budget = applied
Mut_first_budget_only(applied, budget) == applied # NoBudget
Mut_ratchet_before_window(applied, budget) == budget >= applied
Mut_budget_kept(applied) == applied

\* The sweep: an axis leaves `relieving' once it is under its own EXIT threshold.
StillRelieving(relieving, p) == {a \in relieving : p[a] >= EXIT[a]}

\* The ratchet: within a window a budget that is not tighter is not sent.
Ratcheted(applied, budget) == applied # NoBudget /\ budget >= applied

\* Closing the last window forgets the budget (applied = nil).
Released(applied) == NoBudget

(***************************************************************************)
(* decide(ctx) after its `seen' test, with a = most_stressed(p): the new   *)
(* script state and the action returned.                                   *)
(***************************************************************************)
decide(relieving, applied, p, a) ==
    LET still  == StillRelieving(relieving, p)
        budget == B_kv(p[a], a)
    IN  IF applied # NoBudget /\ still = {}
        THEN [relieving |-> {}, applied |-> Released(applied), action |-> RestoreDefaults]
        ELSE IF a \notin still /\ p[a] < ENTER[a]
        THEN [relieving |-> still, applied |-> applied, action |-> NoAction]
        ELSE IF Ratcheted(applied, budget)
        THEN [relieving |-> still \cup {a}, applied |-> applied, action |-> NoAction]
        ELSE [relieving |-> still \cup {a}, applied |-> budget, action |-> KvCompress(budget)]

=============================================================================
