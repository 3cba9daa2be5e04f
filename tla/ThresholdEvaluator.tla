------------------------- MODULE ThresholdEvaluator -------------------------
(***************************************************************************)
(* The hysteresis evaluator every sensor monitor runs its readings through *)
(* (evaluator.rs).  Escalation is immediate and may skip levels; recovery  *)
(* needs the reading to cross a threshold by more than the hysteresis.     *)
(*                                                                         *)
(* Readings and thresholds are integers: the evaluator only compares them. *)
(***************************************************************************)
EXTENDS Integers

\* signal.rs: enum Level, ordered by severity.
Level == 0..3
Normal == 0

\* Direction ("Ascending": higher is worse) and Thresholds of an evaluator; at[l] is the
\* threshold of level l.
Thresholds ==
    [direction : {"Ascending", "Descending"}, at : [1..3 -> Int], hysteresis : Nat]

\* Ordered from Warning outwards, as the defaults of config.rs are.
Ordered(t) ==
    IF t.direction = "Ascending" THEN t.at[1] <= t.at[2] /\ t.at[2] <= t.at[3]
                                 ELSE t.at[3] <= t.at[2] /\ t.at[2] <= t.at[1]

CONSTANTS
    Configs,   \* the evaluators the monitors create
    Values     \* the readings a sensor may produce

(***************************************************************************)
(* The evaluator does not validate its thresholds; every property below    *)
(* needs them ordered.                                                     *)
(***************************************************************************)
ASSUME ThresholdsAssumption ==
    /\ Configs \subseteq Thresholds
    /\ \A t \in Configs : Ordered(t)
    /\ Values \subseteq Int

VARIABLES
    thresholds,   \* ThresholdEvaluator.direction and .thresholds
    current,      \* ThresholdEvaluator.current
    value,        \* the reading of the latest evaluate() call
    fresh,        \* TRUE until the first evaluate() call
    mark          \* history: [recovered, extreme]; whether a level has been dropped
                  \* yet, and the mildest reading since the latest drop

vars == <<thresholds, current, value, fresh, mark>>

-----------------------------------------------------------------------------
(***************************************************************************)
(* The two level functions.  `up' are the levels an escalation may jump    *)
(* to, `down' the levels the reading has convincingly left: an escalation  *)
(* takes the highest of the former, a recovery ends below all the latter.  *)
(***************************************************************************)
Highest(S) == CHOOSE l \in S : \A k \in S : k <= l
Lowest(S)  == CHOOSE l \in S : \A k \in S : l <= k

MoveLevel(cur, up, down) ==
    IF up # {} THEN Highest(up)
    ELSE IF cur \in down THEN Lowest(down) - 1
    ELSE cur

\* Faulty variants of level_ascending and level_descending.
Mut_escalate_above(v, cur, t) ==
    MoveLevel(cur, {l \in 1..3 : cur < l /\ v > t.at[l]},
                   {l \in 1..3 : l <= cur /\ v < t.at[l] - t.hysteresis})
Mut_no_hysteresis(v, cur, t) ==
    MoveLevel(cur, {l \in 1..3 : cur < l /\ v <= t.at[l]},
                   {l \in 1..3 : l <= cur /\ v > t.at[l]})
Mut_recover_one_level(v, cur, t) ==
    LET up == {l \in 1..3 : cur < l /\ v <= t.at[l]}
    IN  IF up # {} THEN Highest(up)
        ELSE IF cur > 0 /\ v > t.at[1] + t.hysteresis THEN cur - 1 ELSE cur

level_ascending(v, cur, t) ==
    MoveLevel(cur, {l \in 1..3 : cur < l /\ v >= t.at[l]},
                   {l \in 1..3 : l <= cur /\ v < t.at[l] - t.hysteresis})

level_descending(v, cur, t) ==
    MoveLevel(cur, {l \in 1..3 : cur < l /\ v <= t.at[l]},
                   {l \in 1..3 : l <= cur /\ v > t.at[l] + t.hysteresis})

NewLevel(v, cur, t) ==
    IF t.direction = "Ascending" THEN level_ascending(v, cur, t) ELSE level_descending(v, cur, t)

-----------------------------------------------------------------------------
\* How much milder reading v is than reading w (negative: v is the worse one).
Milder(v, w, t) == IF t.direction = "Ascending" THEN w - v ELSE v - w

Mildest(v, w, t) == IF Milder(v, w, t) > 0 THEN v ELSE w

Init ==
    /\ thresholds \in Configs
    /\ current = Normal
    /\ value \in Values
    /\ fresh = TRUE
    /\ mark = [recovered |-> FALSE, extreme |-> value]

\* ThresholdEvaluator::evaluate; a change is reported exactly when current' # current.
Evaluate(v) ==
    /\ current' = NewLevel(v, current, thresholds)
    /\ value' = v
    /\ fresh' = FALSE
    /\ mark' = IF current' < current THEN [recovered |-> TRUE, extreme |-> v]
               ELSE [mark EXCEPT !.extreme = Mildest(v, @, thresholds)]
    /\ UNCHANGED thresholds

Next == \E v \in Values : Evaluate(v)

Spec == Init /\ [][Next]_vars

-----------------------------------------------------------------------------
TypeOK ==
    /\ thresholds \in Configs
    /\ current \in Level
    /\ value \in Values
    /\ fresh \in BOOLEAN
    /\ mark \in [recovered : BOOLEAN, extreme : Values]

\* Reading v has reached the threshold of level l.
Reached(v, l, t) == IF t.direction = "Ascending" THEN v >= t.at[l] ELSE v <= t.at[l]

\* Reading v is milder than the threshold of level l by more than the hysteresis.
Left(v, l, t) ==
    IF t.direction = "Ascending" THEN v < t.at[l] - t.hysteresis
                                 ELSE v > t.at[l] + t.hysteresis

(***************************************************************************)
(* The level in force never understates the latest reading: whatever the   *)
(* history of escalations and recoveries, a level whose threshold the      *)
(* reading has reached is in force.  (evaluator.rs: "Escalation is         *)
(* immediate and can skip levels", also when it follows a partial          *)
(* recovery.)                                                              *)
(***************************************************************************)
NeverUnderstates ==
    ~fresh => \A l \in 1..3 : Reached(value, l, thresholds) => current >= l

(***************************************************************************)
(* The level in force overstates the reading by at most the hysteresis: a  *)
(* level stays in force only while the reading has not left it.  Recovery  *)
(* may therefore have to drop several levels in one call.                  *)
(***************************************************************************)
OverstatesWithinBand == ~fresh /\ current > Normal => ~Left(value, current, thresholds)

(***************************************************************************)
(* No flapping: once a level has been dropped, an escalation needs a swing *)
(* of more than the hysteresis away from the mildest reading since the     *)
(* drop.  A sensor dithering inside the band cannot move the level up and  *)
(* down.                                                                   *)
(***************************************************************************)
NoFlapping ==
    [][current' > current /\ mark.recovered
          => Milder(mark.extreme, value', thresholds) > thresholds.hysteresis]_vars

=============================================================================
