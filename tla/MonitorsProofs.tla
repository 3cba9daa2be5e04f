--------------------------- MODULE MonitorsProofs ---------------------------
(***************************************************************************)
(* The monitor threads, for every configuration of thresholds, every set   *)
(* of readings and zones, and any number of clients and lines: what a      *)
(* sensor monitor signals is justified by its readings, a Jetson's GPU     *)
(* load is one tegrastats printed, and what is injected arrives in order.  *)
(***************************************************************************)
EXTENDS Monitors, SequenceTheorems, FiniteSetTheorems, WellFoundedInduction, TLAPS

-----------------------------------------------------------------------------
(* The hysteresis evaluator every sensor monitor has: it keeps its         *)
(* promises for every ordered triple of thresholds, every hysteresis, both *)
(* directions and every reading.                                           *)

Levels == 1..3

\* Highest picks the greatest level of a set that has one.
LEMMA HighestIsMember ==
    ASSUME NEW S \in SUBSET Levels, S # {}
    PROVE  Highest(S) \in S /\ \A k \in S : k <= Highest(S)
<1>1. \E l \in S : \A k \in S : k <= l
    <2>1. CASE 3 \in S
        BY <2>1 DEF Levels
    <2>2. CASE 3 \notin S /\ 2 \in S
        BY <2>2 DEF Levels
    <2>3. CASE 3 \notin S /\ 2 \notin S
        <3>1. \A k \in S : k = 1
            BY <2>3 DEF Levels
        <3> QED
            BY <3>1
    <2> QED
        BY <2>1, <2>2, <2>3
<1> QED
    BY <1>1 DEF Highest

\* Lowest picks the least level of a set that has one.
LEMMA LowestIsMember ==
    ASSUME NEW S \in SUBSET Levels, S # {}
    PROVE  Lowest(S) \in S /\ \A k \in S : Lowest(S) <= k
<1>1. \E l \in S : \A k \in S : l <= k
    <2>1. CASE 1 \in S
        BY <2>1 DEF Levels
    <2>2. CASE 1 \notin S /\ 2 \in S
        BY <2>2 DEF Levels
    <2>3. CASE 1 \notin S /\ 2 \notin S
        <3>1. \A k \in S : k = 3
            BY <2>3 DEF Levels
        <3> QED
            BY <3>1
    <2> QED
        BY <2>1, <2>2, <2>3
<1> QED
    BY <1>1 DEF Lowest

\* The thresholds are ordered outwards from Warning.
LEMMA ThresholdsOrdered ==
    ASSUME NEW t \in Configs, NEW k \in Levels, NEW l \in Levels, k <= l
    PROVE  /\ t.at[k] \in Int /\ t.at[l] \in Int /\ t.hysteresis \in Nat
           /\ t.direction = "Ascending" => t.at[k] <= t.at[l]
           /\ t.direction # "Ascending" => t.at[l] <= t.at[k]
<1>1. t \in Thresholds /\ Ordered(t)
    BY ThresholdsAssumption
<1>2. /\ t.at[1] \in Int /\ t.at[2] \in Int /\ t.at[3] \in Int /\ t.hysteresis \in Nat
    BY <1>1 DEF Thresholds
<1> QED
    BY <1>1, <1>2 DEF Ordered, Levels

\* A reading that has left a level has left every higher one; one that has reached a
\* level has left neither it nor a lower one.
LEMMA Bands ==
    ASSUME NEW t \in Configs, NEW v \in Int, NEW k \in Levels, NEW l \in Levels, k <= l
    PROVE  /\ Left(v, k, t) => Left(v, l, t)
           /\ Reached(v, l, t) => ~Left(v, k, t)
BY ThresholdsOrdered DEF Left, Reached

\* The milder of two readings has left every level that one of them has left.
LEMMA MildestLeaves ==
    ASSUME NEW t \in Configs, NEW v \in Int, NEW w \in Int, NEW l \in Levels, Left(w, l, t)
    PROVE  Left(Mildest(v, w, t), l, t)
<1>1. t.at[l] \in Int /\ t.hysteresis \in Nat
    BY ThresholdsOrdered DEF Levels
<1> QED
    BY <1>1 DEF Mildest, Milder, Left

\* From a reading that has left a level to one that reaches it is more than the hysteresis.
LEMMA SwingExceedsHysteresis ==
    ASSUME NEW t \in Configs, NEW v \in Int, NEW w \in Int, NEW l \in Levels, Left(w, l, t), Reached(v, l, t)
    PROVE  Milder(w, v, t) > t.hysteresis
<1>1. t.at[l] \in Int /\ t.hysteresis \in Nat
    BY ThresholdsOrdered DEF Levels
<1> QED
    BY <1>1 DEF Milder, Left, Reached

-----------------------------------------------------------------------------
\* Both level functions, read with Reached and Left.
Up(v, cur, t) == {l \in Levels : cur < l /\ Reached(v, l, t)}
Down(v, cur, t) == {l \in Levels : l <= cur /\ Left(v, l, t)}

\* Both directions are one move, stated with Reached and Left.
LEMMA NewLevelMoves ==
    ASSUME NEW t, NEW v, NEW cur
    PROVE  NewLevel(v, cur, t) = MoveLevel(cur, Up(v, cur, t), Down(v, cur, t))
BY DEF NewLevel, level_ascending, level_descending, Up, Down, Levels, Reached, Left

\* What one call of evaluate() does: it escalates to a level reached, recovers below all
\* levels left, or stays.
LEMMA NewLevelCases ==
    ASSUME NEW t \in Configs, NEW v \in Int, NEW cur \in Level, NEW new, new = NewLevel(v, cur, t)
    PROVE  /\ new \in Level
           /\ \/ /\ new > cur /\ Reached(v, new, t)
                 /\ \A l \in Levels : Reached(v, l, t) => l <= new
              \/ /\ new < cur
                 /\ \A l \in Levels : Reached(v, l, t) => l <= new
                 /\ \A l \in Levels : l > new => Left(v, l, t)
                 /\ new > Normal => ~Left(v, new, t)
              \/ /\ new = cur
                 /\ \A l \in Levels : Reached(v, l, t) => l <= new
                 /\ new > Normal => ~Left(v, new, t)
<1> DEFINE up == Up(v, cur, t)
           down == Down(v, cur, t)
<1>1. new = MoveLevel(cur, up, down)
    BY NewLevelMoves
<1>2. up \in SUBSET Levels /\ down \in SUBSET Levels
    BY DEF Up, Down
<1>3. CASE up # {}
    <2>1. new = Highest(up)
        BY <1>1, <1>3 DEF MoveLevel
    <2>2. new \in up /\ \A k \in up : k <= new
        BY <2>1, <1>2, <1>3, HighestIsMember
    <2>3. new \in Levels /\ new > cur /\ Reached(v, new, t)
        BY <2>2 DEF Up, Level, Levels
    <2>4. ASSUME NEW l \in Levels, Reached(v, l, t) PROVE l <= new
        BY <2>2, <2>3, <2>4 DEF Up, Level, Levels
    <2> QED
        BY <2>3, <2>4 DEF Level, Levels
<1>4. CASE up = {} /\ cur \in down
    <2> DEFINE low == Lowest(down)
    <2>1. new = low - 1
        BY <1>1, <1>4 DEF MoveLevel
    <2>2. low \in down /\ \A k \in down : low <= k
        BY <1>2, <1>4, LowestIsMember
    <2>3. low \in Levels /\ low <= cur /\ Left(v, low, t)
        BY <2>2 DEF Down
    <2> HIDE DEF low
    <2>4. ASSUME NEW l \in Levels, Reached(v, l, t) PROVE l <= new
        <3>1. ~(low <= l)
            BY <2>3, <2>4, Bands
        <3> QED
            BY <3>1, <2>1, <2>3 DEF Levels
    <2>5. ASSUME NEW l \in Levels, l > new PROVE Left(v, l, t)
        <3>1. low <= l
            BY <2>1, <2>3, <2>5 DEF Levels
        <3> QED
            BY <3>1, <2>3, Bands
    <2>6. new > Normal => ~Left(v, new, t)
        <3> SUFFICES ASSUME new > Normal PROVE ~Left(v, new, t)
            OBVIOUS
        <3>1. new \in Levels /\ new <= cur /\ new < low
            BY <2>1, <2>3 DEF Levels, Level, Normal
        <3>2. new \notin down
            BY <3>1, <2>2, <2>3 DEF Levels
        <3> QED
            BY <3>1, <3>2 DEF Down
    <2>7. new \in Level /\ new < cur
        BY <2>1, <2>3 DEF Levels, Level
    <2> QED
        BY <2>4, <2>5, <2>6, <2>7
<1>5. CASE up = {} /\ cur \notin down
    <2>1. new = cur
        BY <1>1, <1>5 DEF MoveLevel
    <2>2. ASSUME NEW l \in Levels, Reached(v, l, t) PROVE l <= new
        BY <2>1, <2>2, <1>5 DEF Up, Level, Levels
    <2>3. new > Normal => ~Left(v, new, t)
        BY <2>1, <1>5 DEF Down, Level, Levels, Normal
    <2> QED
        BY <2>1, <2>2, <2>3
<1> QED
    BY <1>3, <1>4, <1>5

-----------------------------------------------------------------------------
(***************************************************************************)
(* The inductive invariant.  NoFlapping rests on LeftBehind: once a level  *)
(* has been dropped, every level above the current one has been left by    *)
(* the mildest reading since.                                              *)
(***************************************************************************)
LeftBehind == mark.recovered => \A l \in Levels : l > current => Left(mark.extreme, l, thresholds)

IInv == TypeOK /\ NeverUnderstates /\ OverstatesWithinBand /\ LeftBehind

\* A new evaluator satisfies the inductive invariant.
LEMMA InitIInv == Init => IInv
BY DEF Init, IInv, TypeOK, NeverUnderstates, OverstatesWithinBand, LeftBehind, Level, Normal

\* A call of evaluate() preserves it.
LEMMA EvaluateIInv ==
    ASSUME IInv, NEW v \in Values, Evaluate(v)
    PROVE  IInv'
<1>1. v \in Int /\ mark.extreme \in Int /\ current \in Level /\ thresholds \in Configs
    BY ThresholdsAssumption DEF IInv, TypeOK
<1>2. current' = NewLevel(v, current, thresholds) /\ value' = v /\ fresh' = FALSE /\ thresholds' = thresholds
    BY DEF Evaluate
<1>3. /\ current' \in Level
      /\ \/ /\ current' > current /\ Reached(v, current', thresholds)
            /\ \A l \in Levels : Reached(v, l, thresholds) => l <= current'
         \/ /\ current' < current
            /\ \A l \in Levels : Reached(v, l, thresholds) => l <= current'
            /\ \A l \in Levels : l > current' => Left(v, l, thresholds)
            /\ current' > Normal => ~Left(v, current', thresholds)
         \/ /\ current' = current
            /\ \A l \in Levels : Reached(v, l, thresholds) => l <= current'
            /\ current' > Normal => ~Left(v, current', thresholds)
    BY <1>1, <1>2, NewLevelCases
<1>4. /\ current' < current => mark' = [recovered |-> TRUE, extreme |-> v]
      /\ ~(current' < current) => mark' = [mark EXCEPT !.extreme = Mildest(v, mark.extreme, thresholds)]
    BY DEF Evaluate
<1>5. TypeOK'
    <2>1. Mildest(v, mark.extreme, thresholds) \in Values
        BY DEF IInv, TypeOK, Mildest
    <2>2. mark' \in [recovered : BOOLEAN, extreme : Values]
        <3>1. CASE current' < current
            <4>1. mark' = [recovered |-> TRUE, extreme |-> v]
                BY <3>1, <1>4
            <4> QED
                BY <4>1
        <3>2. CASE ~(current' < current)
            <4>1. mark \in [recovered : BOOLEAN, extreme : Values]
                BY DEF IInv, TypeOK
            <4> QED
                BY <3>2, <4>1, <1>4, <2>1, Zenon
        <3> QED
            BY <3>1, <3>2
    <2> QED
        BY <1>1, <1>2, <1>3, <2>2 DEF TypeOK
<1>6. NeverUnderstates'
    BY <1>2, <1>3 DEF NeverUnderstates, Levels, Level, Reached
<1>7. OverstatesWithinBand'
    <2>1. current' > Normal => ~Left(v, current', thresholds)
        <3>1. CASE current' > current /\ Reached(v, current', thresholds)
            <4>1. current' \in Levels
                BY <3>1, <1>1, <1>3 DEF Level, Levels
            <4> QED
                BY <3>1, <4>1, <1>1, Bands DEF Levels
        <3> QED
            BY <3>1, <1>3
    <2> QED
        BY <2>1, <1>2 DEF OverstatesWithinBand, Left
<1>8. LeftBehind'
    <2>1. CASE current' < current
        BY <2>1, <1>1, <1>2, <1>3, <1>4 DEF LeftBehind, Left, Level
    <2>2. CASE ~(current' < current)
        <3> SUFFICES ASSUME mark'.recovered, NEW l \in Levels, l > current'
                     PROVE  Left(mark'.extreme, l, thresholds)
            BY <1>2 DEF LeftBehind, Left
        <3>1. mark.recovered /\ mark'.extreme = Mildest(v, mark.extreme, thresholds)
            BY <2>2, <1>4 DEF IInv, TypeOK
        <3>2. Left(mark.extreme, l, thresholds)
            BY <3>1, <2>2, <1>1, <1>3 DEF IInv, LeftBehind, Level, Levels
        <3> QED
            BY <3>1, <3>2, <1>1, MildestLeaves
    <2> QED
        BY <2>1, <2>2
<1> QED
    BY <1>5, <1>6, <1>7, <1>8 DEF IInv

\* The invariant is inductive.
LEMMA NextIInv == IInv /\ [Next]_vars => IInv'
<1> SUFFICES ASSUME IInv, [Next]_vars PROVE IInv'
    OBVIOUS
<1>1. CASE Next
    BY <1>1, EvaluateIInv DEF Next
<1>2. CASE UNCHANGED vars
    BY <1>2 DEF vars, IInv, TypeOK, NeverUnderstates, OverstatesWithinBand, LeftBehind,
                Reached, Left
<1> QED
    BY <1>1, <1>2

\* It holds in every reachable state.
LEMMA Invariance == Spec => []IInv
BY InitIInv, NextIInv, PTL DEF Spec

-----------------------------------------------------------------------------
(***************************************************************************)
(* The evaluator's level is always one of the four (evaluator.rs never     *)
(* recovers below Normal or escalates past Emergency).                     *)
(***************************************************************************)
THEOREM EvaluatorTypeCorrect == Spec => []TypeOK
BY Invariance, PTL DEF IInv

(***************************************************************************)
(* A level whose threshold the latest reading has reached is in force,     *)
(* for every history of evaluate() calls.                                  *)
(***************************************************************************)
THEOREM NeverUnderstated == Spec => []NeverUnderstates
BY Invariance, PTL DEF IInv

(***************************************************************************)
(* A level stays in force only while the reading is within the hysteresis  *)
(* of its threshold.                                                       *)
(***************************************************************************)
THEOREM OverstatedWithinBand == Spec => []OverstatesWithinBand
BY Invariance, PTL DEF IInv

(***************************************************************************)
(* After a recovery, evaluate() escalates only on a swing of more than the *)
(* hysteresis.                                                             *)
(***************************************************************************)
THEOREM NeverFlaps == Spec => NoFlapping
<1> DEFINE Swing == current' > current /\ mark.recovered
                      => Milder(mark.extreme, value', thresholds) > thresholds.hysteresis
<1>1. ASSUME IInv, NEW v \in Values, Evaluate(v), current' > current, mark.recovered
      PROVE  Milder(mark.extreme, v, thresholds) > thresholds.hysteresis
    <2>1. v \in Int /\ mark.extreme \in Int /\ current \in Level /\ thresholds \in Configs
        BY <1>1, ThresholdsAssumption DEF IInv, TypeOK
    <2>2. current' \in Level /\ Reached(v, current', thresholds)
        <3>1. current' = NewLevel(v, current, thresholds)
            BY <1>1 DEF Evaluate
        <3>2. /\ current' \in Level
              /\ current' > current => ~(current' < current) /\ current' # current
            BY <2>1, <3>1, NewLevelCases DEF Level
        <3> QED
            BY <1>1, <2>1, <3>1, <3>2, NewLevelCases
    <2>3. current' \in Levels
        BY <1>1, <2>1, <2>2 DEF Level, Levels
    <2>4. Left(mark.extreme, current', thresholds)
        BY <1>1, <2>3 DEF IInv, LeftBehind
    <2> QED
        BY <2>1, <2>2, <2>3, <2>4, SwingExceedsHysteresis
<1>2. ASSUME IInv, [Next]_vars PROVE [Swing]_vars
    <2>1. CASE \E v \in Values : Evaluate(v)
        <3>1. PICK v \in Values : Evaluate(v)
            BY <2>1
        <3>2. value' = v
            BY <3>1 DEF Evaluate
        <3> QED
            BY <3>1, <3>2, <1>1, <1>2
    <2> QED
        BY <2>1, <1>2 DEF Next
<1> QED
    BY <1>2, Invariance, PTL DEF Spec, NoFlapping

-----------------------------------------------------------------------------
(* The monitors.                                                           *)

(***************************************************************************)
(* The invariant of the sensor monitors: besides the evaluator's own, that *)
(* prev_snapshot is as old as the latest successful read, and that nothing *)
(* is reported before there is one.                                        *)
(***************************************************************************)
SensorTypeOK ==
    /\ kind \in Kinds
    /\ thread \in {"running", "returned", "panicked"}
    /\ sent \in [level : Level, from : SUBSET Values, charging : BOOLEAN, backend : Backends]
    /\ zones_discovered \in BOOLEAN /\ zone_indices \in SUBSET Zones
    /\ snapshot \in BOOLEAN
    /\ since \in [total : Int, idle : Int] /\ interval \in [total : Int, idle : Int]
    /\ last_cpu \in Values /\ last_gpu \in Values
    /\ ignore_when_charging \in BOOLEAN /\ glitched \in BOOLEAN

Configured == kind # "external" => thresholds \in ConfigsOf[kind]

Measured ==
    /\ since = interval
    /\ ~snapshot => last_cpu = 0
    /\ GlitchForgotten

\* evaluate_energy resets the evaluator with a reading of 100: that leads to Normal if a full
\* battery is above the Warning threshold by more than the hysteresis.  The configuration is
\* not validated; its defaults (30 and 2 percent) satisfy this.
FullBatteryIsNormal == \A t \in ConfigsOf["energy"] : Left(100, 1, t)

Justified ==
    /\ SignalNeverUnderstates /\ RecommendsTheCooler
    /\ FullBatteryIsNormal => ChargingForcesNormal

SensorIInv == SensorTypeOK /\ IInv /\ Configured /\ Measured /\ Justified

(***************************************************************************)
(* The invariant of the GPU providers: what the reader's two stores have   *)
(* made visible so far.                                                    *)
(***************************************************************************)
Published ==
    /\ util_percent \in samples \cup {0} /\ samples \in SUBSET (0..100)
    /\ unseen \in Seq(samples)
    /\ newest \in samples \cup {NoReading}
    /\ newest = NoReading => unseen = <<>> /\ ~util_seen /\ util_percent = 0
    /\ newest # NoReading =>
          newest = IF unseen = <<>> THEN util_percent ELSE unseen[Len(unseen)]

GpuIInv == GpuTypeOK /\ Published

(***************************************************************************)
(* The invariant of the external monitor: lines are numbered as they are   *)
(* written, clients are served in the order they connect, and a client is  *)
(* left only at its end, at an unreadable line or at the shutdown.         *)
(***************************************************************************)
LinesOf(c) == {l \in written : l.client = c}

Numbered ==
    /\ IsFiniteSet(written)
    /\ \A l \in written : l.n <= Cardinality(LinesOf(l.client)) /\ peer[l.client] # "unused"

WireOrdered ==
    \A c \in Clients :
        /\ \A i \in 1..Len(wire[c]) : wire[c][i] \in written /\ wire[c][i].client = c
        /\ \A i, j \in 1..Len(wire[c]) : i < j => wire[c][i].n < wire[c][j].n

ForwardedOrdered ==
    /\ \A i \in 1..Len(forwarded) :
          /\ forwarded[i] \in written /\ forwarded[i].client <= client
          /\ \A j \in 1..Len(wire[forwarded[i].client]) :
                forwarded[i].n < wire[forwarded[i].client][j].n
    /\ \A i, j \in 1..Len(forwarded) :
          i < j => \/ forwarded[i].client < forwarded[j].client
                   \/ forwarded[i].client = forwarded[j].client /\ forwarded[i].n < forwarded[j].n

ServedInTurn ==
    /\ \A c, d \in Clients : peer[c] # "unused" /\ d < c => peer[d] # "unused"
    /\ \A i \in 1..Len(pending) :
          /\ peer[pending[i]] # "unused"
          /\ at = "reading" => client < pending[i]
          /\ \A j \in 1..Len(forwarded) : forwarded[j].client < pending[i]
    /\ \A i, j \in 1..Len(pending) : i < j => pending[i] < pending[j]
    /\ at = "reading" => peer[client] # "unused"
    /\ transport = "stdin" => pending = <<>> /\ at # "accepting"

\* Client c, or the line that was its end, has been left behind for good.
LeftBehindAt(c) == \E m \in written : m.client = c /\ m.kind = "unreadable"

Waits(c) == (at = "reading" /\ client = c) \/ \E i \in 1..Len(pending) : pending[i] = c

ListenerGone == transport = "socket" /\ at = "returned"

AllServed ==
    \A c \in Clients :
        peer[c] # "unused" /\ ~shutdown /\ ~ListenerGone /\ ~Waits(c)
            => LeftBehindAt(c) \/ (peer[c] = "closed" /\ wire[c] = <<>>)

AllKept ==
    \A l \in written :
        l.kind = "signal" /\ ~shutdown /\ ~ListenerGone
            => \/ \E i \in 1..Len(forwarded) : forwarded[i] = l
               \/ (Waits(l.client) /\ \E i \in 1..Len(wire[l.client]) : wire[l.client][i] = l)
               \/ \E m \in written : m.client = l.client /\ m.kind = "unreadable" /\ m.n < l.n

NoneLost == AllServed /\ AllKept

ExtIInv ==
    ExtTypeOK /\ Numbered /\ WireOrdered /\ ForwardedOrdered /\ ServedInTurn /\ NoneLost

-----------------------------------------------------------------------------
(* Numbers and extrema.                                                    *)

\* A set of naturals that is not empty has a least element.
LEMMA LeastNat ==
    ASSUME NEW T \in SUBSET Nat, T # {}
    PROVE  \E x \in T : \A y \in T : x <= y
<1> DEFINE R == OpToRel(<, Nat)
<1>1. IsWellFoundedOn(R, Nat)
    BY NatLessThanWellFounded
<1> HIDE DEF R
<1>2. PICK x \in T : \A y \in T : ~(<<y, x>> \in R)
    BY <1>1, WFMin
<1>3. \A y \in T : ~(y < x)
    BY <1>2 DEF R, OpToRel
<1> QED
    BY <1>3

\* A set of integers that is bounded above and not empty has a highest element.
LEMMA HighestOfBounded ==
    ASSUME NEW S \in SUBSET Int, S # {}, NEW b \in Int, \A v \in S : v <= b
    PROVE  Highest(S) \in S /\ \A v \in S : v <= Highest(S)
<1> DEFINE T == {b - v : v \in S}
<1>1. T \in SUBSET Nat /\ T # {}
    <2>1. \A v \in S : b - v \in Nat
        <3> SUFFICES ASSUME NEW v \in S PROVE b - v \in Nat
            OBVIOUS
        <3>1. v \in Int /\ v <= b
            OBVIOUS
        <3> QED
            BY <3>1
    <2> QED
        BY <2>1, Zenon
<1> HIDE DEF T
<1>2. PICK x \in T : \A y \in T : x <= y
    BY <1>1, LeastNat
<1>3. PICK v \in S : x = b - v
    BY <1>2 DEF T
<1>4. \A w \in S : w <= v
    <2> SUFFICES ASSUME NEW w \in S PROVE w <= v
        OBVIOUS
    <2>1. b - w \in T
        BY DEF T
    <2> QED
        BY <1>2, <1>3, <2>1
<1>5. \E l \in S : \A k \in S : k <= l
    BY <1>4
<1> QED
    BY <1>5 DEF Highest

\* A share of a total is a percentage.
LEMMA Percentage ==
    ASSUME NEW t \in Nat \ {0}, NEW i \in 0..t
    PROVE  (100 * (t - i)) \div t \in 0..100
BY Z3

-----------------------------------------------------------------------------
(* The GPU providers.                                                      *)

\* What a line of tegrastats is parsed to: a percentage, or nothing.
LEMMA ParsedIsPercentage ==
    ASSUME NEW line \in Loads \cup {OtherLine}
    PROVE  /\ parse_gr3d_freq(line) \in 0..100 \cup {NoReading}
           /\ parse_gr3d_freq(line) = NoReading <=> line = OtherLine
BY GpuAssumption DEF parse_gr3d_freq, OtherLine, NoReading

\* What a poll of the provider is read as is a percentage.
LEMMA GpuReadIsPercentage ==
    ASSUME GpuIInv, NEW gpu \in read_gpu
    PROVE  gpu \in 0..100
<1>1. PICK v \in util_pct : gpu = IF v = NoReading THEN 0 ELSE v
    BY DEF read_gpu
<1>2. v \in 0..100 \cup {NoReading}
    <2>1. CASE provider = "sysfs"
        <3>1. PICK c \in [1..Candidates -> Loads \cup {NoReading}] : v = SysfsUtil(c)
            BY <1>1, <2>1 DEF util_pct
        <3> DEFINE readable == {i \in 1..Candidates : c[i] # NoReading}
        <3>2. CASE readable = {}
            BY <3>1, <3>2 DEF SysfsUtil
        <3>3. CASE readable # {}
            <4> DEFINE j == CHOOSE i \in readable : \A k \in readable : i <= k
            <4>1. readable \in SUBSET Nat
                BY GpuAssumption
            <4>2. j \in readable
                <5> HIDE DEF readable
                <5>1. \E i \in readable : \A k \in readable : i <= k
                    BY <3>3, <4>1, LeastNat
                <5> QED
                    BY <5>1
            <4>3. c[j] \in Loads
                BY <4>2
            <4>4. v = IF c[j] > 100 THEN 100 ELSE c[j]
                BY <3>1, <3>3 DEF SysfsUtil
            <4>5. c[j] \in 0..255
                BY <4>3, GpuAssumption
            <4>6. \A n \in 0..255 : (IF n > 100 THEN 100 ELSE n) \in 0..100
                OBVIOUS
            <4> HIDE DEF j
            <4> QED
                BY <4>4, <4>5, <4>6, Zenon
        <3> QED
            BY <3>2, <3>3
    <2>2. CASE provider = "jetson"
        <3>1. v = IF util_seen THEN util_percent ELSE NoReading
            BY <1>1, <2>2 DEF util_pct
        <3>2. v = util_percent \/ v = NoReading
            BY <3>1, Zenon
        <3>3. util_percent \in 0..100
            <4>1. util_percent \in samples \cup {0} /\ samples \in SUBSET (0..100)
                BY Zenon DEF GpuIInv, Published
            <4> QED
                BY <4>1
        <3> QED
            BY <3>2, <3>3, Zenon
    <2>3. CASE provider \notin {"sysfs", "jetson"}
        BY <1>1, <2>3 DEF util_pct
    <2> QED
        BY <2>1, <2>2, <2>3
<1> QED
    BY <1>1, <1>2 DEF NoReading

\* Nothing has been published when the provider is built.
LEMMA GpuInitIInv == GpuInit \/ GpuAbsent => GpuIInv
<1> SUFFICES ASSUME GpuInit \/ GpuAbsent PROVE GpuIInv
    OBVIOUS
<1>1. /\ pipe = <<>> /\ reader \in {"none", "top"} /\ child \in {"printing", "exited"}
      /\ util_percent = 0 /\ util_seen = FALSE /\ unseen = <<>>
      /\ newest = NoReading /\ samples = {} /\ dropped = FALSE
    BY DEF GpuInit, GpuAbsent
<1>2. provider \in {"null", "sysfs", "jetson", "freq_only"}
    <2>1. CASE GpuAbsent
        BY <2>1 DEF GpuAbsent
    <2>2. CASE GpuInit
        <3>1. PICK backend \in GpuBackends, hasPath \in BOOLEAN, hasDevfreq \in BOOLEAN,
                   hasSysfs \in BOOLEAN, spawns \in BOOLEAN :
                provider = build_provider(resolve_backend(backend, hasPath), hasDevfreq, hasSysfs, spawns)
            BY <2>2, Zenon DEF GpuInit
        <3> DEFINE b == resolve_backend(backend, hasPath)
                   r == IF b = "Auto" THEN detect_backend(hasDevfreq, hasSysfs) ELSE b
        <3>2. b \in GpuBackends
            BY DEF resolve_backend, GpuBackends
        <3>3. r \in GpuBackends \ {"Auto"}
            BY <3>2 DEF detect_backend, GpuBackends
        <3>4. build_provider(b, hasDevfreq, hasSysfs, spawns) =
                CASE r = "Null" -> "null"
                  [] r \in {"Sysfs", "CustomSysfs"} -> "sysfs"
                  [] r \in {"Jetson", "JetsonExplicit"} ->
                        IF spawns THEN "jetson"
                        ELSE IF hasDevfreq \/ r = "JetsonExplicit" THEN "freq_only" ELSE "null"
            BY DEF build_provider
        <3> HIDE DEF b, r
        <3>5. provider = build_provider(b, hasDevfreq, hasSysfs, spawns)
            BY <3>1 DEF b
        <3> QED
            BY <3>3, <3>4, <3>5 DEF GpuBackends
    <2> QED
        BY <2>1, <2>2
<1>3. GpuTypeOK
    <2>1. <<>> \in Seq(Loads \cup {OtherLine})
        OBVIOUS
    <2>2. util_seen \in BOOLEAN /\ dropped \in BOOLEAN /\ samples \in SUBSET (0..255)
        BY <1>1, Zenon
    <2>3. util_percent \in 0..255 /\ unseen \in Seq(0..255)
        BY <1>1
    <2> QED
        BY <1>1, <1>2, <2>1, <2>2, <2>3 DEF GpuTypeOK
<1>4. unseen \in Seq(samples)
    BY <1>1
<1> QED
    BY <1>1, <1>3, <1>4, Zenon DEF GpuIInv, Published

\* What has been published depends only on the samples and their stores.
LEMMA PublishedKept ==
    ASSUME GpuIInv, UNCHANGED storeVars, GpuTypeOK'
    PROVE  GpuIInv'
<1>1. /\ util_percent' = util_percent /\ util_seen' = util_seen /\ unseen' = unseen
      /\ newest' = newest /\ samples' = samples
    BY DEF storeVars
<1>2. Published'
    BY <1>1, Zenon DEF GpuIInv, Published
<1> QED
    BY <1>2 DEF GpuIInv

\* The newest sample is the last of the stores on their way, or what is seen.
LEMMA GpuStepIInv ==
    ASSUME GpuIInv, GpuReader \/ ChildPrints \/ ChildFails \/ DropProvider
    PROVE  GpuIInv'
<1> USE DEF storeVars
<1>1. CASE ReaderTop
    <2>1. /\ reader' \in {"in_line", "ended"} /\ child' \in {child, "exited"}
          /\ UNCHANGED <<provider, pipe, storeVars, dropped>>
        BY <1>1 DEF ReaderTop, ReaderEnds
    <2>2. GpuTypeOK'
        BY <2>1 DEF GpuIInv, GpuTypeOK
    <2> QED
        BY <2>1, <2>2, PublishedKept
<1>2. CASE ReaderLine
    <2> DEFINE line == Head(pipe)
               pct == parse_gr3d_freq(line)
    <2>1. line \in Loads \cup {OtherLine} /\ pipe' \in Seq(Loads \cup {OtherLine})
        BY <1>2, HeadTailProperties DEF ReaderLine, GpuIInv, GpuTypeOK
    <2> HIDE DEF line
    <2>2. pct \in 0..100 \cup {NoReading}
        BY <2>1, ParsedIsPercentage
    <2>3. reader' = "top" /\ UNCHANGED <<provider, child, util_percent, util_seen, dropped>>
        BY <1>2, Zenon DEF ReaderLine
    <2>4. CASE pct = NoReading
        <3>1. UNCHANGED <<newest, samples, unseen>>
            BY <1>2, <2>4 DEF ReaderLine, line
        <3>2. GpuTypeOK'
            BY <2>1, <2>3, <3>1 DEF GpuIInv, GpuTypeOK
        <3> QED
            BY <2>3, <3>1, <3>2, PublishedKept
    <2>5. CASE pct # NoReading
        <3>1. newest' = pct /\ samples' = samples \cup {pct} /\ unseen' = Append(unseen, pct)
            BY <1>2, <2>5 DEF ReaderLine, line
        <3> HIDE DEF pct
        <3>2. pct \in 0..100 /\ pct \in 0..255
            BY <2>2, <2>5
        <3>3. unseen \in Seq(samples')
            BY <3>1 DEF GpuIInv, Published
        <3>4. /\ unseen' \in Seq(samples') /\ Len(unseen') = Len(unseen) + 1
              /\ unseen'[Len(unseen) + 1] = pct
            BY <3>1, <3>3, AppendProperties
        <3>5. unseen' # <<>> /\ unseen'[Len(unseen')] = pct
            BY <3>1, <3>4
        <3>6. samples' \in SUBSET (0..100) /\ samples' \in SUBSET (0..255)
            BY <3>1, <3>2 DEF GpuIInv, GpuTypeOK, Published
        <3>7. unseen' \in Seq(0..255)
            BY <3>1, <3>2, AppendProperties DEF GpuIInv, GpuTypeOK
        <3>8. newest' \in 0..255 \cup {NoReading}
            BY <3>1, <3>2
        <3>9. GpuTypeOK'
            BY <2>1, <2>3, <3>6, <3>7, <3>8, Zenon DEF GpuIInv, GpuTypeOK
        <3>10. newest' \in samples' /\ newest' # NoReading /\ util_percent' \in samples' \cup {0}
            BY <2>3, <2>5, <3>1, Zenon DEF GpuIInv, Published
        <3>11. Published'
            BY <3>1, <3>4, <3>5, <3>6, <3>10, Zenon DEF Published
        <3> QED
            BY <3>9, <3>11 DEF GpuIInv
    <2> QED
        BY <2>4, <2>5
<1>3. CASE ReaderEof
    <2>1. reader' = "ended" /\ child' = "exited" /\ UNCHANGED <<provider, pipe, storeVars, dropped>>
        BY <1>3 DEF ReaderEof, ReaderEnds
    <2>2. GpuTypeOK'
        BY <2>1, Zenon DEF GpuIInv, GpuTypeOK
    <2> QED
        BY <2>1, <2>2, PublishedKept
<1>4. CASE PercentVisible
    <2>1. /\ unseen # <<>> /\ util_percent' = Head(unseen) /\ unseen' = Tail(unseen)
          /\ UNCHANGED <<provider, child, pipe, reader, util_seen, newest, samples, dropped>>
        BY <1>4 DEF PercentVisible
    <2>2. unseen \in Seq(samples) /\ samples \in SUBSET (0..100) /\ newest # NoReading
        BY <2>1, Zenon DEF GpuIInv, Published
    <2>3. newest = unseen[Len(unseen)]
        BY <2>1, <2>2, Zenon DEF GpuIInv, Published
    <2>4. /\ Head(unseen) \in samples /\ Tail(unseen) \in Seq(samples)
          /\ Len(unseen) \in Nat \ {0} /\ Len(Tail(unseen)) = Len(unseen) - 1
          /\ \A i \in 1..Len(Tail(unseen)) : Tail(unseen)[i] = unseen[i + 1]
          /\ Head(unseen) = unseen[1]
        BY <2>1, <2>2, HeadTailProperties
    <2>5. newest = IF unseen' = <<>> THEN util_percent' ELSE unseen'[Len(unseen')]
        <3>1. CASE Len(unseen) = 1
            <4>1. unseen' = <<>>
                BY <2>1, <2>4, <3>1, EmptySeq
            <4> QED
                BY <2>1, <2>3, <2>4, <3>1, <4>1
        <3>2. CASE Len(unseen) # 1
            <4>1. Len(unseen') \in 1..Len(Tail(unseen)) /\ Len(unseen') + 1 = Len(unseen)
                BY <2>1, <2>4, <3>2
            <4>2. unseen'[Len(unseen')] = unseen[Len(unseen)]
                BY <2>1, <2>4, <4>1
            <4>3. unseen' # <<>>
                BY <4>1
            <4> QED
                BY <2>3, <4>2, <4>3
        <3> QED
            BY <3>1, <3>2
    <2>6. util_percent' \in 0..255 /\ unseen' \in Seq(0..255)
        BY <2>1, HeadTailProperties DEF GpuIInv, GpuTypeOK
    <2>7. GpuTypeOK'
        BY <2>1, <2>6 DEF GpuIInv, GpuTypeOK
    <2>8. util_percent' \in samples' \cup {0} /\ unseen' \in Seq(samples')
        BY <2>1, <2>4
    <2>9. newest' \in samples' \cup {NoReading} /\ newest' # NoReading /\ samples' \in SUBSET (0..100)
        BY <2>1, <2>2, Zenon DEF GpuIInv, Published
    <2>10. newest' = IF unseen' = <<>> THEN util_percent' ELSE unseen'[Len(unseen')]
        BY <2>1, <2>5
    <2>11. Published'
        BY <2>8, <2>9, <2>10, Zenon DEF Published
    <2> QED
        BY <2>7, <2>11 DEF GpuIInv
<1>8. CASE SeenVisible
    <2>1. /\ newest # NoReading /\ util_seen' = TRUE
          /\ UNCHANGED <<provider, child, pipe, reader, util_percent, unseen, newest, samples, dropped>>
        BY <1>8 DEF SeenVisible
    <2>2. GpuTypeOK'
        BY <2>1 DEF GpuIInv, GpuTypeOK
    <2>3. Published'
        BY <2>1, Zenon DEF GpuIInv, Published
    <2> QED
        BY <2>2, <2>3 DEF GpuIInv
<1>5. CASE ChildPrints
    <2>1. pipe' \in Seq(Loads \cup {OtherLine})
        BY <1>5, AppendProperties DEF ChildPrints, GpuIInv, GpuTypeOK
    <2>2. UNCHANGED <<provider, child, reader, storeVars, dropped>>
        BY <1>5 DEF ChildPrints
    <2>3. GpuTypeOK'
        BY <2>1, <2>2 DEF GpuIInv, GpuTypeOK, Published
    <2> QED
        BY <2>2, <2>3, PublishedKept
<1>6. CASE ChildFails
    <2>1. child' \in {"silent", "exited"} /\ UNCHANGED <<provider, pipe, reader, storeVars, dropped>>
        BY <1>6 DEF ChildFails
    <2>2. GpuTypeOK'
        BY <2>1 DEF GpuIInv, GpuTypeOK, Published
    <2> QED
        BY <2>1, <2>2, PublishedKept
<1>7. CASE DropProvider
    <2>1. dropped' = TRUE /\ UNCHANGED <<provider, child, pipe, reader, storeVars>>
        BY <1>7 DEF DropProvider
    <2>2. GpuTypeOK'
        BY <2>1 DEF GpuIInv, GpuTypeOK, Published
    <2> QED
        BY <2>1, <2>2, PublishedKept
<1> QED
    BY <1>1, <1>2, <1>3, <1>4, <1>5, <1>6, <1>7, <1>8 DEF GpuReader

\* Where the provider is left alone nothing changes.
LEMMA GpuUnchanged == GpuIInv /\ UNCHANGED gpuVars => GpuIInv'
<1> SUFFICES ASSUME GpuIInv, UNCHANGED gpuVars PROVE GpuIInv'
    OBVIOUS
<1>1. UNCHANGED <<provider, child, pipe, reader, storeVars, dropped>>
    BY DEF gpuVars, storeVars
<1>2. GpuTypeOK'
    BY <1>1 DEF GpuIInv, GpuTypeOK, Published, storeVars
<1> QED
    BY <1>1, <1>2, PublishedKept

\* What a compute monitor on a Jetson reads is the newest sample or an earlier one.
LEMMA GpuReadIsGenuine ==
    ASSUME GpuIInv, provider = "jetson", NEW gpu \in read_gpu
    PROVE  gpu \in (IF newest = NoReading THEN {0}
                    ELSE IF AllVisible THEN {newest} ELSE samples \cup {0})
<1>1. gpu = IF util_seen /\ util_percent # NoReading THEN util_percent ELSE 0
    <2>1. gpu \in {IF v = NoReading THEN 0 ELSE v : v \in {IF util_seen THEN util_percent ELSE NoReading}}
        BY DEF read_gpu, util_pct
    <2> QED
        BY <2>1, Zenon
<1>2. util_percent # NoReading
    <2>1. util_percent \in 0..255
        BY Zenon DEF GpuIInv, GpuTypeOK
    <2> QED
        BY <2>1 DEF NoReading
<1>3. CASE newest = NoReading
    BY <1>1, <1>3, Zenon DEF GpuIInv, Published
<1>4. CASE newest # NoReading
    <2>1. util_seen => gpu = util_percent
        BY <1>1, <1>2, Zenon
    <2>2. ~util_seen => gpu = 0 /\ ~AllVisible
        BY <1>1, <1>4, Zenon DEF AllVisible
    <2>3. AllVisible => util_percent = newest
        BY <1>4, Zenon DEF GpuIInv, Published, AllVisible
    <2>4. gpu \in samples \cup {0} /\ (AllVisible => gpu = newest)
        BY <2>1, <2>2, <2>3, Zenon DEF GpuIInv, Published
    <2> QED
        BY <1>4, <2>4, Zenon
<1> QED
    BY <1>3, <1>4

-----------------------------------------------------------------------------
(* The sensor monitors.                                                    *)

\* An evaluator that is not called stays as it is.
LEMMA EvaluatorKept == IInv /\ UNCHANGED vars => IInv'
BY NextIInv

\* A signal stays justified while nothing it is judged by changes.
LEMMA JustifiedKept ==
    ASSUME Justified, UNCHANGED <<sent, thresholds, ignore_when_charging, last_cpu, last_gpu>>
    PROVE  Justified'
<1>1. SignalNeverUnderstates'
    BY DEF Justified, SignalNeverUnderstates, Reached
<1>2. RecommendsTheCooler'
    BY DEF Justified, RecommendsTheCooler
<1>3. FullBatteryIsNormal => ChargingForcesNormal'
    BY Zenon DEF Justified, ChargingForcesNormal
<1> QED
    BY <1>1, <1>2, <1>3 DEF Justified

\* A signal that is sent right after an evaluation of the worst of its readings is
\* well-formed and plays none of them down.
LEMMA ReportNeverUnderstates ==
    ASSUME IInv, NEW v \in Values, Evaluate(v),
           NEW S \in SUBSET Values, NEW ch \in BOOLEAN, NEW b \in Backends, Send(S, ch, b),
           \A w \in S, l \in Levels : Reached(w, l, thresholds) => Reached(v, l, thresholds)
    PROVE  /\ SignalNeverUnderstates'
           /\ sent' \in [level : Level, from : SUBSET Values, charging : BOOLEAN, backend : Backends]
<1>1. IInv'
    BY EvaluateIInv
<1>2. sent' = [level |-> current', from |-> S, charging |-> ch, backend |-> b]
    BY DEF Send
<1>3. current' \in Level
    BY <1>1 DEF IInv, TypeOK
<1>4. value' = v /\ fresh' = FALSE /\ thresholds' = thresholds
    BY DEF Evaluate
<1>5. \A l \in Levels : Reached(v, l, thresholds) => current' >= l
    BY <1>1, <1>4 DEF IInv, NeverUnderstates, Levels, Reached
<1>6. SignalNeverUnderstates'
    <2> SUFFICES ASSUME NEW w \in sent'.from, NEW l \in 1..3, Reached(w, l, thresholds)
                 PROVE  sent'.level >= l
        BY <1>4 DEF SignalNeverUnderstates, Reached
    <2>1. w \in S /\ l \in Levels
        BY <1>2 DEF Levels
    <2> QED
        BY <2>1, <1>2, <1>5
<1>7. sent' \in [level : Level, from : SUBSET Values, charging : BOOLEAN, backend : Backends]
    BY <1>2, <1>3
<1> QED
    BY <1>6, <1>7

\* A signal without readings, or with the one just evaluated.
LEMMA OwnReading ==
    ASSUME NEW v, NEW S \in SUBSET {v}
    PROVE  \A w \in S, l \in Levels : Reached(w, l, thresholds) => Reached(v, l, thresholds)
OBVIOUS

\* A monitor that does not measure the CPU does not touch what the compute monitor keeps.
LEMMA MeasuredKept ==
    ASSUME Measured, UNCHANGED <<snapshot, since, last_cpu, interval, glitched>>
    PROVE  Measured'
<1>1. since' = interval' /\ (~snapshot' => last_cpu' = 0)
    BY Zenon DEF Measured
<1>2. GlitchForgotten'
    BY Zenon DEF Measured, GlitchForgotten
<1> QED
    BY <1>1, <1>2 DEF Measured

\* Its new signal is justified if it plays nothing down, is Normal while charging is
\* ignored, and recommends nothing.
LEMMA PlainReport ==
    ASSUME SignalNeverUnderstates', UNCHANGED ignore_when_charging,
           NEW S, NEW ch, Send(S, ch, "Any"),
           FullBatteryIsNormal /\ ch /\ ignore_when_charging => current' = Normal
    PROVE  Justified'
<1>1. sent'.backend = "Any" /\ sent'.charging = ch /\ sent'.level = current'
    BY DEF Send
<1>2. RecommendsTheCooler'
    BY <1>1 DEF RecommendsTheCooler
<1>3. FullBatteryIsNormal => ChargingForcesNormal'
    BY <1>1, Zenon DEF ChargingForcesNormal
<1> QED
    BY <1>2, <1>3 DEF Justified

\* MemoryMonitor's loop.
LEMMA MemoryPollIInv ==
    ASSUME SensorIInv, MemoryPoll
    PROVE  SensorIInv' /\ [Next]_vars
<1>1. PICK pct \in Readings["memory"] : Evaluate(pct) /\ Send({pct}, FALSE, "Any")
    BY DEF MemoryPoll
<1>2. pct \in Values
    BY MonitorsAssumption
<1>3. UNCHANGED <<kind, ignore_when_charging, thread, sensorVars>> /\ thresholds' = thresholds
    BY <1>1 DEF MemoryPoll, Evaluate, otherVars, fixedVars
<1>4. IInv'
    BY <1>1, <1>2, EvaluateIInv DEF SensorIInv
<1>5. /\ SignalNeverUnderstates'
      /\ sent' \in [level : Level, from : SUBSET Values, charging : BOOLEAN, backend : Backends]
    <2>1. {pct} \in SUBSET Values /\ "Any" \in Backends
        BY <1>2 DEF Backends
    <2> QED
        BY <1>1, <1>2, <2>1, OwnReading, ReportNeverUnderstates DEF SensorIInv
<1>6. SensorTypeOK' /\ Configured'
    BY <1>3, <1>5 DEF SensorIInv, SensorTypeOK, Configured, sensorVars
<1>7. Measured'
    BY <1>3, MeasuredKept DEF SensorIInv, sensorVars
<1>8. Justified'
    BY <1>1, <1>3, <1>5, PlainReport
<1>9. [Next]_vars
    BY <1>1, <1>2 DEF Next
<1> QED
    BY <1>4, <1>6, <1>7, <1>8, <1>9 DEF SensorIInv

\* ThermalMonitor's loop: the hottest zone read speaks for all of them.
LEMMA ThermalPollIInv ==
    ASSUME SensorIInv, ThermalPoll
    PROVE  SensorIInv' /\ [Next]_vars
<1>1. PICK temp \in [Zones -> Readings["thermal"] \cup {Unreadable}] :
        LET read == {temp[z] : z \in zone_indices'} \ {Unreadable}
        IN  IF read = {} THEN UNCHANGED <<vars, sent>>
            ELSE Evaluate(Worst(read)) /\ Send(read, FALSE, "Any")
    BY DEF ThermalPoll
<1> DEFINE read == {temp[z] : z \in zone_indices'} \ {Unreadable}
<1>2. /\ UNCHANGED <<kind, ignore_when_charging, thread, snapshot, since, last_cpu, last_gpu,
                      interval, glitched>>
      /\ zones_discovered' \in BOOLEAN
    BY DEF ThermalPoll, otherVars, fixedVars
<1>3. zone_indices' \in SUBSET Zones
    BY DEF ThermalPoll, DiscoverZones, SensorIInv, SensorTypeOK
<1>4. read \in SUBSET Readings["thermal"]
    BY <1>3
<1>5. Measured'
    BY <1>2, MeasuredKept DEF SensorIInv
<1>6. CASE read = {}
    <2>1. UNCHANGED <<vars, sent>>
        BY <1>1, <1>6
    <2>2. IInv' /\ thresholds' = thresholds
        BY <2>1, EvaluatorKept DEF SensorIInv, vars
    <2>3. SensorTypeOK' /\ Configured'
        BY <1>2, <1>3, <2>1, <2>2 DEF SensorIInv, SensorTypeOK, Configured
    <2>4. Justified'
        BY <1>2, <2>1, <2>2, JustifiedKept DEF SensorIInv
    <2> QED
        BY <1>5, <2>1, <2>2, <2>3, <2>4 DEF SensorIInv
<1>7. CASE read # {}
    <2> DEFINE worst == Worst(read)
    <2>1. Evaluate(worst) /\ Send(read, FALSE, "Any")
        BY <1>1, <1>7
    <2>2. worst \in read /\ \A w \in read : w <= worst
        <3>1. read \in SUBSET Int /\ \A w \in read : w <= MAX_I32
            BY <1>4, MonitorsAssumption, SensorAssumption, ThresholdsAssumption
        <3>2. MAX_I32 \in Int
            BY SMT DEF MAX_I32
        <3> HIDE DEF read
        <3> QED
            BY <1>7, <3>1, <3>2, HighestOfBounded DEF Worst
    <2>3. worst \in Values /\ read \in SUBSET Values
        BY <1>4, <2>2, MonitorsAssumption
    <2> HIDE DEF worst, read
    <2>4. IInv' /\ thresholds' = thresholds
        BY <2>1, <2>3, EvaluateIInv DEF SensorIInv, Evaluate
    <2>5. \A w \in read, l \in Levels : Reached(w, l, thresholds) => Reached(worst, l, thresholds)
        <3> SUFFICES ASSUME NEW w \in read, NEW l \in Levels, Reached(w, l, thresholds)
                     PROVE  Reached(worst, l, thresholds)
            OBVIOUS
        <3>1. thresholds \in Configs /\ kind = "thermal"
            BY DEF SensorIInv, IInv, TypeOK, ThermalPoll, Polls
        <3>2. thresholds.direction = "Ascending"
            BY <3>1, SensorAssumption DEF SensorIInv, Configured
        <3>3. thresholds.at[l] \in Int
            BY <3>1, ThresholdsOrdered DEF Levels
        <3>4. w \in Int /\ worst \in Int /\ w <= worst
            BY <2>2, <2>3, ThresholdsAssumption
        <3> QED
            BY <3>2, <3>3, <3>4 DEF Reached
    <2>6. /\ SignalNeverUnderstates'
          /\ sent' \in [level : Level, from : SUBSET Values, charging : BOOLEAN, backend : Backends]
        <3>1. "Any" \in Backends
            BY DEF Backends
        <3> QED
            BY <2>1, <2>3, <2>5, <3>1, ReportNeverUnderstates DEF SensorIInv
    <2>7. SensorTypeOK' /\ Configured'
        BY <1>2, <1>3, <2>4, <2>6 DEF SensorIInv, SensorTypeOK, Configured
    <2>8. Justified'
        BY <1>2, <2>1, <2>6, PlainReport
    <2>9. [Next]_vars
        BY <2>1, <2>3 DEF Next
    <2> QED
        BY <1>5, <2>4, <2>7, <2>8, <2>9 DEF SensorIInv
<1> QED
    BY <1>6, <1>7

\* Saturation keeps the order of two counters.
LEMMA SaturatingOrdered ==
    ASSUME NEW t \in Int, NEW i \in Int
    PROVE  /\ saturating(t) \in Nat /\ saturating(i) \in Nat
           /\ i <= t => saturating(i) <= saturating(t)
BY DEF saturating

\* The usage computed is a percentage unless idle time has outgrown the total.
LEMMA CpuUsageIsPercentage ==
    ASSUME NEW t \in Nat, NEW i \in Nat
    PROVE  /\ CpuUsage(t, i) \in Values
           /\ i <= t => CpuUsage(t, i) \in 0..100
<1>1. CASE t = 0
    <2>1. CpuUsage(t, i) = 0
        BY <1>1 DEF CpuUsage
    <2>2. 0 \in 0..100
        OBVIOUS
    <2> QED
        BY <2>1, <2>2, MonitorsAssumption
<1>2. CASE t # 0 /\ i > t
    <2>1. CpuUsage(t, i) = WRAPPED
        BY <1>2 DEF CpuUsage
    <2> QED
        BY <1>2, <2>1, MonitorsAssumption
<1>3. CASE t # 0 /\ ~(i > t)
    <2>1. CpuUsage(t, i) = (100 * (t - i)) \div t
        BY <1>3 DEF CpuUsage
    <2>2. t \in Nat \ {0} /\ i \in 0..t
        BY <1>3
    <2>3. CpuUsage(t, i) \in 0..100
        BY <2>1, <2>2, Percentage
    <2> QED
        BY <2>3, MonitorsAssumption
<1> QED
    BY <1>1, <1>2, <1>3

\* compute_recommendation names a backend only if it is the less loaded one.
LEMMA RecommendationIsTheCooler ==
    ASSUME NEW cpu \in Int, NEW gpu \in Int, NEW w \in Int
    PROVE  /\ compute_recommendation(cpu, gpu, w) \in Backends
           /\ compute_recommendation(cpu, gpu, w) = "Cpu" => cpu < gpu
           /\ compute_recommendation(cpu, gpu, w) = "Gpu" => gpu < cpu
BY DEF compute_recommendation, Backends

\* The report of a successful read: the busier of CPU and GPU speaks for both.
LEMMA ComputeReportJustified ==
    ASSUME SensorIInv, kind = "compute", NEW t \in Nat, NEW i \in Nat, NEW gpu \in 0..100,
           UNCHANGED ignore_when_charging, ComputeReport(t, i, gpu)
    PROVE  /\ IInv' /\ Justified' /\ thresholds' = thresholds /\ Next
           /\ last_cpu' = CpuUsage(t, i) /\ last_cpu' \in Values /\ last_gpu' \in Values
           /\ sent' \in [level : Level, from : SUBSET Values, charging : BOOLEAN, backend : Backends]
<1>1. PICK cpu : cpu = CpuUsage(t, i)
    OBVIOUS
<1> DEFINE both == {cpu, gpu}
           worst == Worst(both)
           advice == compute_recommendation(cpu, gpu, thresholds.at[1])
<1>2. last_cpu' = cpu /\ last_gpu' = gpu /\ Evaluate(worst) /\ Send(both, FALSE, advice)
    BY <1>1 DEF ComputeReport
<1>3. cpu \in Values /\ gpu \in Values /\ cpu \in Int /\ gpu \in Int
    BY <1>1, CpuUsageIsPercentage, MonitorsAssumption, ThresholdsAssumption
<1>4. thresholds \in Configs /\ thresholds.direction = "Ascending"
    <2>1. thresholds \in Configs /\ thresholds \in ConfigsOf["compute"]
        BY DEF SensorIInv, IInv, TypeOK, Configured
    <2> QED
        BY <2>1, SensorAssumption
<1>5. \A l \in Levels : thresholds.at[l] \in Int
    BY <1>4, ThresholdsOrdered DEF Levels
<1>6. worst \in both /\ \A v \in both : v <= worst
    <2>1. PICK b \in Int : \A v \in both : v <= b
        <3>1. CASE cpu <= gpu
            BY <1>3, <3>1
        <3>2. CASE gpu <= cpu
            BY <1>3, <3>2
        <3> QED
            BY <1>3, <3>1, <3>2
    <2>2. both \in SUBSET Int /\ both # {}
        BY <1>3
    <2> HIDE DEF both
    <2> QED
        BY <2>1, <2>2, HighestOfBounded DEF Worst
<1>7. worst \in Values /\ both \in SUBSET Values /\ worst \in Int /\ both \in SUBSET Int
    BY <1>3, <1>6
<1>8. /\ advice \in Backends
      /\ advice = "Cpu" => cpu < gpu
      /\ advice = "Gpu" => gpu < cpu
    BY <1>3, <1>5, RecommendationIsTheCooler DEF Levels
<1> HIDE DEF both, worst, advice
<1>9. \A w \in both, l \in Levels : Reached(w, l, thresholds) => Reached(worst, l, thresholds)
    <2> SUFFICES ASSUME NEW w \in both, NEW l \in Levels, Reached(w, l, thresholds)
                 PROVE  Reached(worst, l, thresholds)
        OBVIOUS
    <2>1. w \in Int /\ worst \in Int /\ w <= worst /\ thresholds.at[l] \in Int
        BY <1>5, <1>6, <1>7
    <2> QED
        BY <2>1, <1>4 DEF Reached
<1>10. /\ SignalNeverUnderstates'
       /\ sent' \in [level : Level, from : SUBSET Values, charging : BOOLEAN, backend : Backends]
    BY <1>2, <1>7, <1>8, <1>9, ReportNeverUnderstates DEF SensorIInv
<1>11. IInv' /\ thresholds' = thresholds
    BY <1>2, <1>7, EvaluateIInv DEF SensorIInv, Evaluate
<1>12. sent'.backend = advice /\ sent'.charging = FALSE
    BY <1>2 DEF Send
<1>13. RecommendsTheCooler'
    BY <1>2, <1>8, <1>12 DEF RecommendsTheCooler
<1>14. ChargingForcesNormal'
    BY <1>12, Zenon DEF ChargingForcesNormal
<1>15. Next
    BY <1>2, <1>7 DEF Next
<1> QED
    BY <1>1, <1>2, <1>3, <1>10, <1>11, <1>13, <1>14, <1>15 DEF Justified

\* ComputeMonitor's loop.
LEMMA ComputePollIInv ==
    ASSUME SensorIInv, GpuIInv, ComputePoll
    PROVE  SensorIInv' /\ [Next]_vars
<1>1. PICK g \in Growths[provider], gpu \in read_gpu :
        LET total == saturating(Plus(since, g).total)
            idle  == saturating(Plus(since, g).idle)
        IN  \/ /\ KeepSnapshot(Plus(since, g))
               /\ interval' = NoGrowth
               /\ glitched' = (Plus(interval, g).idle > Plus(interval, g).total)
               /\ IF snapshot THEN ComputeReport(total, idle, gpu)
                              ELSE UNCHANGED <<vars, last_cpu, last_gpu, sent>>
               /\ UNCHANGED thread
            \/ /\ snapshot /\ total # 0 /\ idle > total
               /\ thread' = "panicked"
               /\ UNCHANGED <<vars, since, last_cpu, last_gpu, sent, interval, glitched>>
    BY DEF ComputePoll
<1> DEFINE grown == Plus(since, g)
           total == saturating(grown.total)
           idle == saturating(grown.idle)
<1>2. /\ UNCHANGED <<kind, ignore_when_charging, zones_discovered, zone_indices>>
      /\ kind = "compute" /\ snapshot' = TRUE
    BY DEF ComputePoll, Polls, otherVars, fixedVars
<1>3. gpu \in 0..100
    BY GpuReadIsPercentage
<1>4. grown.total \in Int /\ grown.idle \in Int
    <2>1. g \in [total : Int, idle : Int]
        BY MonitorsAssumption DEF GpuIInv, GpuTypeOK
    <2>2. since \in [total : Int, idle : Int]
        BY DEF SensorIInv, SensorTypeOK
    <2> QED
        BY <2>1, <2>2 DEF Plus
<1>5. total \in Nat /\ idle \in Nat /\ (grown.idle <= grown.total => idle <= total)
    <2> HIDE DEF grown
    <2> QED
        BY <1>4, SaturatingOrdered
<1>6. CASE /\ since' = NoGrowth /\ interval' = NoGrowth
           /\ glitched' = (grown.idle > grown.total)
           /\ IF snapshot THEN ComputeReport(total, idle, gpu)
                          ELSE UNCHANGED <<vars, last_cpu, last_gpu, sent>>
           /\ UNCHANGED thread
    <2> HIDE DEF grown, total, idle
    <2>1. NoGrowth \in [total : Int, idle : Int]
        BY DEF NoGrowth
    <2>2. glitched' \in BOOLEAN
        BY <1>4, <1>6
    <2>3. CASE snapshot
        <3>1. ComputeReport(total, idle, gpu)
            BY <1>6, <2>3
        <3>2. /\ IInv' /\ Justified' /\ thresholds' = thresholds /\ Next
              /\ last_cpu' = CpuUsage(total, idle) /\ last_cpu' \in Values /\ last_gpu' \in Values
              /\ sent' \in [level : Level, from : SUBSET Values, charging : BOOLEAN, backend : Backends]
            BY <1>2, <1>3, <1>5, <3>1, ComputeReportJustified
        <3>3. ~glitched' => last_cpu' \in 0..100
            <4> SUFFICES ASSUME ~glitched' PROVE last_cpu' \in 0..100
                OBVIOUS
            <4>1. ~(grown.idle > grown.total)
                BY <1>6, Zenon
            <4>2. idle <= total
                BY <1>4, <1>5, <4>1
            <4> QED
                BY <1>5, <3>2, <4>2, CpuUsageIsPercentage
        <3>4. Measured'
            BY <1>2, <1>6, <3>3 DEF Measured, GlitchForgotten
        <3>5. SensorTypeOK' /\ Configured'
            BY <1>2, <1>6, <2>1, <2>2, <3>2 DEF SensorIInv, SensorTypeOK, Configured
        <3> QED
            BY <3>2, <3>4, <3>5 DEF SensorIInv
    <2>4. CASE ~snapshot
        <3>1. UNCHANGED <<vars, last_cpu, last_gpu, sent>>
            BY <1>6, <2>4
        <3>2. IInv' /\ thresholds' = thresholds
            BY <3>1, EvaluatorKept DEF SensorIInv, vars
        <3>3. last_cpu' = 0
            BY <2>4, <3>1 DEF SensorIInv, Measured
        <3>4. Measured'
            BY <1>2, <1>6, <3>3 DEF Measured, GlitchForgotten
        <3>5. SensorTypeOK' /\ Configured'
            BY <1>2, <1>6, <2>1, <2>2, <3>1, <3>2 DEF SensorIInv, SensorTypeOK, Configured
        <3>6. Justified'
            BY <1>2, <3>1, <3>2, JustifiedKept DEF SensorIInv
        <3> QED
            BY <3>1, <3>2, <3>4, <3>5, <3>6 DEF SensorIInv
    <2> QED
        BY <2>3, <2>4
<1>7. CASE /\ snapshot /\ thread' = "panicked"
           /\ UNCHANGED <<vars, since, last_cpu, last_gpu, sent, interval, glitched>>
    <2>1. IInv' /\ thresholds' = thresholds
        BY <1>7, EvaluatorKept DEF SensorIInv, vars
    <2>2. SensorTypeOK' /\ Configured'
        BY <1>2, <1>7, <2>1 DEF SensorIInv, SensorTypeOK, Configured
    <2>3. Measured'
        BY <1>2, <1>7, Zenon DEF SensorIInv, Measured, GlitchForgotten
    <2>4. Justified'
        BY <1>2, <1>7, <2>1, JustifiedKept DEF SensorIInv
    <2> QED
        BY <1>7, <2>1, <2>2, <2>3, <2>4 DEF SensorIInv
<1> QED
    <2>1. Plus(interval, g) = grown
        BY DEF SensorIInv, Measured
    <2> QED
        BY <1>1, <1>6, <1>7, <2>1, Zenon DEF KeepSnapshot

\* A read of /proc/stat that fails.
LEMMA ComputeReadFailsIInv ==
    ASSUME SensorIInv, GpuIInv, ComputeReadFails
    PROVE  SensorIInv'
<1>1. PICK g \in Growths[provider] : since' = Plus(since, g) /\ interval' = Plus(interval, g)
    BY DEF ComputeReadFails
<1>2. /\ UNCHANGED <<kind, ignore_when_charging, thread, sent, zones_discovered, zone_indices,
                      snapshot, last_cpu, last_gpu, glitched>>
      /\ UNCHANGED vars
    BY DEF ComputeReadFails, otherVars, fixedVars
<1>3. since' \in [total : Int, idle : Int] /\ interval' \in [total : Int, idle : Int]
    <2>1. g \in [total : Int, idle : Int]
        BY MonitorsAssumption DEF GpuIInv, GpuTypeOK
    <2>2. since \in [total : Int, idle : Int] /\ interval \in [total : Int, idle : Int]
        BY DEF SensorIInv, SensorTypeOK
    <2> QED
        BY <1>1, <2>1, <2>2 DEF Plus
<1>4. IInv' /\ thresholds' = thresholds
    BY <1>2, EvaluatorKept DEF SensorIInv, vars
<1>5. SensorTypeOK' /\ Configured'
    BY <1>2, <1>3, <1>4 DEF SensorIInv, SensorTypeOK, Configured
<1>6. Measured'
    <2>1. since' = interval'
        BY <1>1 DEF SensorIInv, Measured
    <2> QED
        BY <1>2, <2>1, Zenon DEF SensorIInv, Measured, GlitchForgotten
<1>7. Justified'
    BY <1>2, <1>4, JustifiedKept DEF SensorIInv
<1> QED
    BY <1>4, <1>5, <1>6, <1>7 DEF SensorIInv

\* EnergyMonitor's loop: charging that is to be ignored takes the level back to Normal.
LEMMA EnergyPollIInv ==
    ASSUME SensorIInv, EnergyPoll
    PROVE  SensorIInv' /\ [Next]_vars
<1>1. PICK pct \in Readings["energy"] \cup {Unreadable}, charging \in BOOLEAN :
        LET from == {pct} \ {Unreadable}
        IN  IF charging /\ ignore_when_charging
            THEN ChargingReset /\ Send({}, TRUE, "Any")
            ELSE /\ IF from # {} THEN Evaluate(pct) ELSE UNCHANGED vars
                 /\ Send(from, charging, "Any")
    BY DEF EnergyPoll
<1>2. kind = "energy" /\ UNCHANGED <<kind, ignore_when_charging, thread, sensorVars>>
    BY DEF EnergyPoll, Polls, otherVars, fixedVars
<1>3. Measured'
    BY <1>2, MeasuredKept DEF SensorIInv, sensorVars
<1>4. "Any" \in Backends /\ {} \in SUBSET Values
    BY DEF Backends
<1>5. ASSUME IInv', thresholds' = thresholds, Justified',
             sent' \in [level : Level, from : SUBSET Values, charging : BOOLEAN, backend : Backends]
      PROVE  SensorIInv'
    <2>1. SensorTypeOK' /\ Configured'
        BY <1>2, <1>5 DEF SensorIInv, SensorTypeOK, Configured, sensorVars
    <2> QED
        BY <1>3, <1>5, <2>1 DEF SensorIInv
<1>6. ASSUME NEW S, S = {}, NEW ch \in BOOLEAN, UNCHANGED vars, Send(S, ch, "Any"),
             FullBatteryIsNormal /\ ch /\ ignore_when_charging => current' = Normal
      PROVE  SensorIInv' /\ [Next]_vars
    <2>1. IInv' /\ thresholds' = thresholds
        BY <1>6, EvaluatorKept DEF SensorIInv, vars
    <2>2. sent' = [level |-> current', from |-> {}, charging |-> ch, backend |-> "Any"]
        BY <1>6 DEF Send
    <2>3. current' \in Level
        BY <2>1 DEF IInv, TypeOK
    <2>4. SignalNeverUnderstates'
        BY <2>2 DEF SignalNeverUnderstates
    <2>5. sent' \in [level : Level, from : SUBSET Values, charging : BOOLEAN, backend : Backends]
        BY <1>4, <2>2, <2>3
    <2>6. Justified'
        BY <1>2, <1>6, <2>4, PlainReport
    <2> QED
        BY <1>5, <1>6, <2>1, <2>5, <2>6
<1>7. ASSUME NEW v \in Values, NEW S \in SUBSET Values, S \in SUBSET {v}, NEW ch \in BOOLEAN,
             Evaluate(v), Send(S, ch, "Any"),
             FullBatteryIsNormal /\ ch /\ ignore_when_charging => current' = Normal
      PROVE  SensorIInv' /\ [Next]_vars
    <2>1. IInv' /\ thresholds' = thresholds
        BY <1>7, EvaluateIInv DEF SensorIInv, Evaluate
    <2>2. /\ SignalNeverUnderstates'
          /\ sent' \in [level : Level, from : SUBSET Values, charging : BOOLEAN, backend : Backends]
        BY <1>4, <1>7, OwnReading, ReportNeverUnderstates DEF SensorIInv
    <2>3. Justified'
        BY <1>2, <1>7, <2>2, PlainReport
    <2> QED
        BY <1>5, <1>7, <2>1, <2>2, <2>3 DEF Next
<1>8. CASE charging /\ ignore_when_charging
    <2>1. ChargingReset /\ Send({}, TRUE, "Any")
        BY <1>1, <1>8
    <2>2. CASE current = Normal
        <3>1. UNCHANGED vars /\ current' = Normal
            BY <2>1, <2>2 DEF ChargingReset, vars
        <3> QED
            BY <1>6, <2>1, <3>1
    <2>3. CASE current # Normal
        <3>1. Evaluate(100)
            BY <2>1, <2>3 DEF ChargingReset
        <3>2. 100 \in Values
            BY MonitorsAssumption
        <3>3. IInv' /\ value' = 100 /\ fresh' = FALSE /\ thresholds' = thresholds
            BY <3>1, <3>2, EvaluateIInv DEF SensorIInv, Evaluate
        <3>4. FullBatteryIsNormal => current' = Normal
            <4> SUFFICES ASSUME FullBatteryIsNormal, current' # Normal PROVE FALSE
                OBVIOUS
            <4>1. thresholds \in Configs /\ thresholds \in ConfigsOf["energy"]
                BY <1>2 DEF SensorIInv, IInv, TypeOK, Configured
            <4>2. current' \in Levels /\ current' > Normal
                BY <3>3 DEF IInv, TypeOK, Level, Levels, Normal
            <4>3. Left(100, 1, thresholds)
                BY <4>1 DEF FullBatteryIsNormal
            <4>4. Left(100, current', thresholds)
                <5>1. 1 \in Levels /\ 1 <= current'
                    BY <4>2 DEF Levels
                <5> QED
                    BY <4>1, <4>2, <4>3, <5>1, Bands
            <4>5. ~Left(100, current', thresholds)
                BY <3>3, <4>2 DEF IInv, OverstatesWithinBand, Left
            <4> QED
                BY <4>4, <4>5
        <3> QED
            BY <1>4, <1>7, <2>1, <3>1, <3>2, <3>4
    <2> QED
        BY <2>2, <2>3
<1>9. CASE ~(charging /\ ignore_when_charging)
    <2> DEFINE from == {pct} \ {Unreadable}
    <2>1. /\ from # {} => Evaluate(pct)
          /\ from = {} => UNCHANGED vars
          /\ Send(from, charging, "Any")
        BY <1>1, <1>9
    <2>2. CASE from = {}
        BY <1>6, <1>9, <2>1, <2>2, Zenon
    <2>3. CASE from # {}
        <3>1. pct \in Values /\ from \in SUBSET Values /\ from \in SUBSET {pct}
            BY <2>3, MonitorsAssumption
        <3> QED
            BY <1>7, <1>9, <2>1, <2>3, <3>1, Zenon
    <2> QED
        BY <2>2, <2>3
<1> QED
    BY <1>8, <1>9

\* Every other step leaves the sensors and their evaluator alone.
LEMMA SensorKept ==
    ASSUME SensorIInv, UNCHANGED <<vars, fixedVars, sent, sensorVars>>,
           thread' \in {"running", "returned", "panicked"}
    PROVE  SensorIInv' /\ [Next]_vars
<1>1. UNCHANGED <<kind, ignore_when_charging, sent, sensorVars>> /\ UNCHANGED vars
    BY DEF fixedVars
<1>2. IInv' /\ thresholds' = thresholds
    BY <1>1, EvaluatorKept DEF SensorIInv, vars
<1>3. SensorTypeOK' /\ Configured'
    BY <1>1, <1>2 DEF SensorIInv, SensorTypeOK, Configured, sensorVars
<1>4. Measured'
    BY <1>1, MeasuredKept DEF SensorIInv, sensorVars
<1>5. Justified'
    BY <1>1, <1>2, JustifiedKept DEF SensorIInv, sensorVars
<1> QED
    BY <1>1, <1>2, <1>3, <1>4, <1>5 DEF SensorIInv

\* A monitor that has just been created.
LEMMA SensorInitIInv == MonInit => SensorIInv /\ GpuIInv /\ Init
<1> SUFFICES ASSUME MonInit PROVE SensorIInv /\ GpuIInv /\ Init
    OBVIOUS
<1>1. Init /\ IInv
    BY InitIInv DEF MonInit
<1>2. GpuIInv
    BY GpuInitIInv DEF MonInit
<1>3. Configured
    BY DEF MonInit, Configured
<1>4. /\ sent = [level |-> 0, from |-> {}, charging |-> FALSE, backend |-> "Any"]
      /\ last_cpu = 0 /\ last_gpu = 0 /\ since = [total |-> 0, idle |-> 0] /\ interval = since
      /\ snapshot = FALSE /\ glitched = FALSE
    BY DEF MonInit, NoSignal, Normal, NoGrowth
<1>5. 0 \in Values /\ 0 \in 0..100 /\ 0 \in Level
    BY MonitorsAssumption DEF Level
<1>6. sent \in [level : Level, from : SUBSET Values, charging : BOOLEAN, backend : Backends]
    BY <1>4, <1>5 DEF Backends
<1>7. since \in [total : Int, idle : Int]
    BY <1>4
<1>8. SensorTypeOK
    BY <1>4, <1>5, <1>6, <1>7 DEF MonInit, SensorTypeOK
<1>9. Measured
    BY <1>4, <1>5 DEF Measured, GlitchForgotten
<1>10. Justified
    BY <1>4 DEF Justified, SignalNeverUnderstates, RecommendsTheCooler, ChargingForcesNormal, Normal
<1> QED
    BY <1>1, <1>2, <1>3, <1>8, <1>9, <1>10 DEF SensorIInv

\* One step of the monitors keeps both invariants and is a step of the evaluator or none.
LEMMA SensorStep ==
    ASSUME SensorIInv, GpuIInv, [MonNext]_monVars
    PROVE  SensorIInv' /\ GpuIInv' /\ [Next]_vars
<1> USE DEF otherVars
<1>1. CASE Stop
    <2>1. /\ UNCHANGED <<vars, fixedVars, sent, sensorVars>> /\ UNCHANGED gpuVars
          /\ thread' \in {"running", "returned", "panicked"}
        BY <1>1 DEF Stop
    <2> QED
        BY <2>1, SensorKept, GpuUnchanged
<1>2. CASE MemoryPoll
    <2>1. UNCHANGED gpuVars
        BY <1>2 DEF MemoryPoll
    <2> QED
        BY <1>2, <2>1, MemoryPollIInv, GpuUnchanged
<1>3. CASE ThermalPoll
    <2>1. UNCHANGED gpuVars
        BY <1>3 DEF ThermalPoll
    <2> QED
        BY <1>3, <2>1, ThermalPollIInv, GpuUnchanged
<1>4. CASE ComputePoll
    <2>1. UNCHANGED gpuVars
        BY <1>4 DEF ComputePoll
    <2> QED
        BY <1>4, <2>1, ComputePollIInv, GpuUnchanged
<1>5. CASE ComputeReadFails
    <2>1. UNCHANGED gpuVars /\ UNCHANGED vars
        BY <1>5 DEF ComputeReadFails
    <2> QED
        BY <1>5, <2>1, ComputeReadFailsIInv, GpuUnchanged
<1>6. CASE EnergyPoll
    <2>1. UNCHANGED gpuVars
        BY <1>6 DEF EnergyPoll
    <2> QED
        BY <1>6, <2>1, EnergyPollIInv, GpuUnchanged
<1>7. CASE External \/ Client \/ Shutdown
    <2>1. UNCHANGED <<vars, fixedVars, sent, sensorVars>> /\ UNCHANGED gpuVars
        BY <1>7 DEF External, Client, Shutdown
    <2>2. thread' \in {thread, "returned"}
        BY <1>7 DEF External, Client, Shutdown
    <2>3. thread' \in {"running", "returned", "panicked"}
        BY <2>2 DEF SensorIInv, SensorTypeOK
    <2> QED
        BY <2>1, <2>3, SensorKept, GpuUnchanged
<1>8. CASE Reader \/ Prints \/ Fails \/ Drop
    <2>1. UNCHANGED notGpuVars
        BY <1>8 DEF Reader, Prints, Fails, Drop
    <2>2. GpuReader \/ ChildPrints \/ ChildFails \/ DropProvider
        BY <1>8 DEF Reader, Prints, Fails, Drop
    <2>3. UNCHANGED <<vars, fixedVars, sent, sensorVars>> /\ thread' = thread
        BY <2>1 DEF notGpuVars
    <2>4. thread' \in {"running", "returned", "panicked"}
        BY <2>3 DEF SensorIInv, SensorTypeOK
    <2> QED
        BY <2>2, <2>3, <2>4, SensorKept, GpuStepIInv
<1>9. CASE UNCHANGED monVars
    <2>1. UNCHANGED <<vars, fixedVars, sent, sensorVars>> /\ UNCHANGED gpuVars /\ thread' = thread
        BY <1>9 DEF monVars
    <2>2. thread' \in {"running", "returned", "panicked"}
        BY <2>1 DEF SensorIInv, SensorTypeOK
    <2> QED
        BY <2>1, <2>2, SensorKept, GpuUnchanged
<1> QED
    BY <1>1, <1>2, <1>3, <1>4, <1>5, <1>6, <1>7, <1>8, <1>9 DEF MonNext, Thread

\* Both invariants hold in every reachable state, and the evaluator inside a monitor behaves
\* as the evaluator on its own.
LEMMA SensorInvariance == MonSpec => [](SensorIInv /\ GpuIInv) /\ Spec
BY SensorInitIInv, SensorStep, PTL DEF MonSpec, Spec

-----------------------------------------------------------------------------
(* The external monitor.                                                   *)

\* What is left of a sequence without its head.
LEMMA TailFacts ==
    ASSUME NEW S, NEW s \in Seq(S), s # <<>>
    PROVE  /\ Tail(s) \in Seq(S) /\ Head(s) = s[1] /\ 1 \in 1..Len(s)
           /\ \A i \in 1..Len(Tail(s)) : i + 1 \in 2..Len(s) /\ Tail(s)[i] = s[i + 1]
           /\ \A i \in 1..Len(s) : i # 1 => i - 1 \in 1..Len(Tail(s)) /\ Tail(s)[i - 1] = s[i]
<1>1. Len(s) \in Nat \ {0} /\ Len(Tail(s)) = Len(s) - 1 /\ Tail(s) \in Seq(S) /\ Head(s) = s[1]
    BY HeadTailProperties, EmptySeq, LenProperties
<1>2. \A i \in 1..Len(Tail(s)) : Tail(s)[i] = s[i + 1]
    BY HeadTailProperties
<1>3. \A n \in Nat \ {0} : \A i \in 1..(n - 1) : i + 1 \in 2..n
    OBVIOUS
<1>4. \A n \in Nat \ {0} : \A i \in 1..n : i # 1 => i - 1 \in 1..(n - 1) /\ (i - 1) + 1 = i
    OBVIOUS
<1>5. \A n \in Nat \ {0} : 1 \in 1..n
    OBVIOUS
<1> QED
    BY <1>1, <1>2, <1>3, <1>4, <1>5

\* A sequence with one more element.
LEMMA AppendFacts ==
    ASSUME NEW S, NEW s \in Seq(S), NEW x \in S
    PROVE  /\ Append(s, x) \in Seq(S)
           /\ Len(s) + 1 \in 1..Len(Append(s, x)) /\ Append(s, x)[Len(s) + 1] = x
           /\ \A i \in 1..Len(s) : i \in 1..Len(Append(s, x)) /\ Append(s, x)[i] = s[i]
           /\ \A i \in 1..Len(Append(s, x)) :
                 \/ i \in 1..Len(s) /\ i < Len(s) + 1 /\ Append(s, x)[i] = s[i]
                 \/ i = Len(s) + 1 /\ Append(s, x)[i] = x
<1>1. /\ Len(s) \in Nat /\ Len(Append(s, x)) = Len(s) + 1 /\ Append(s, x) \in Seq(S)
      /\ Append(s, x)[Len(s) + 1] = x /\ \A i \in 1..Len(s) : Append(s, x)[i] = s[i]
    BY AppendProperties, LenProperties
<1>2. \A n \in Nat : \A i \in 1..(n + 1) : (i \in 1..n /\ i < n + 1) \/ i = n + 1
    OBVIOUS
<1>3. \A n \in Nat : n + 1 \in 1..(n + 1) /\ \A i \in 1..n : i \in 1..(n + 1)
    OBVIOUS
<1> QED
    BY <1>1, <1>2, <1>3

\* The types of what is quantified over below.
LEMMA ExtFacts ==
    ASSUME ExtTypeOK
    PROVE  /\ Clients \in SUBSET Nat /\ client \in Nat /\ Len(pending) \in Nat /\ Len(forwarded) \in Nat
           /\ \A c \in Clients : wire[c] \in Seq(Line) /\ Len(wire[c]) \in Nat
           /\ \A i \in 1..Len(pending) : pending[i] \in Clients /\ pending[i] \in Nat
           /\ \A c \in Clients : \A i \in 1..Len(wire[c]) : wire[c][i] \in Line
           /\ \A i \in 1..Len(forwarded) : forwarded[i] \in Line
           /\ \A l \in Line : l.client \in Clients /\ l.client \in Nat /\ l.n \in Nat
<1>1. Clients \in SUBSET Nat
    BY ExternalAssumption DEF Clients
<1>2. \A l \in Line : l.client \in Clients /\ l.n \in Nat
    BY ExternalAssumption DEF Line
<1>3. \A c \in Clients : wire[c] \in Seq(Line)
    BY DEF ExtTypeOK
<1>4. \A c \in Clients : Len(wire[c]) \in Nat /\ \A i \in 1..Len(wire[c]) : wire[c][i] \in Line
    BY <1>3, LenProperties, ElementOfSeq
<1>5. pending \in Seq(Clients) /\ forwarded \in Seq(Line) /\ client \in Clients
    BY DEF ExtTypeOK
<1>6. /\ Len(pending) \in Nat /\ \A i \in 1..Len(pending) : pending[i] \in Clients
      /\ Len(forwarded) \in Nat /\ \A i \in 1..Len(forwarded) : forwarded[i] \in Line
    BY <1>5, LenProperties, ElementOfSeq
<1> QED
    BY <1>1, <1>2, <1>3, <1>4, <1>5, <1>6

\* Nobody has connected, or stdin is open.
LEMMA ExtInitIInv == ExtInit => ExtIInv
<1> SUFFICES ASSUME ExtInit PROVE ExtIInv
    OBVIOUS
<1>1. /\ pending = <<>> /\ forwarded = <<>> /\ written = {} /\ client = 1 /\ shutdown = FALSE
      /\ wire = [c \in Clients |-> <<>>] /\ transport \in {"stdin", "socket"}
      /\ at = IF transport = "stdin" THEN "reading" ELSE "accepting"
      /\ peer = [c \in Clients |-> IF transport = "stdin" /\ c = 1 THEN "open" ELSE "unused"]
    BY DEF ExtInit
<1>2. 1 \in Clients /\ Len(<<>>) = 0 /\ 1..0 = {} /\ IsFiniteSet({})
    BY ExternalAssumption, FS_EmptySet DEF Clients
<1>3. \A c \in Clients : wire[c] = <<>> /\ Len(wire[c]) = 0
    BY <1>1, <1>2
<1>4. ExtTypeOK
    <2>1. <<>> \in Seq(Line) /\ <<>> \in Seq(Clients)
        OBVIOUS
    <2>2. wire \in [Clients -> Seq(Line)] /\ peer \in [Clients -> {"unused", "open", "closed"}]
        BY <1>1, <2>1
    <2>3. shutdown \in BOOLEAN /\ written \in SUBSET Line
        BY <1>1
    <2> QED
        BY <1>1, <1>2, <2>1, <2>2, <2>3 DEF ExtTypeOK
<1>5. Numbered
    BY <1>1, <1>2 DEF Numbered
<1>6. WireOrdered /\ ForwardedOrdered
    BY <1>1, <1>2, <1>3 DEF WireOrdered, ForwardedOrdered
<1>7. ServedInTurn
    <2>1. \A c, d \in Clients : peer[c] # "unused" /\ d < c => peer[d] # "unused"
        BY <1>1 DEF Clients
    <2>2. at = "reading" => peer[client] # "unused"
        BY <1>1, <1>2
    <2> QED
        BY <1>1, <1>2, <2>1, <2>2 DEF ServedInTurn
<1>8. NoneLost
    <2>1. \A c \in Clients : peer[c] # "unused" => Waits(c)
        BY <1>1 DEF Waits
    <2> QED
        BY <1>1, <2>1 DEF NoneLost, AllServed, AllKept
<1> QED
    BY <1>4, <1>5, <1>6, <1>7, <1>8 DEF ExtIInv

\* A client of a listening socket queues up behind those before it.
LEMMA ClientConnectIInv ==
    ASSUME ExtIInv, NEW c \in Clients, ClientConnect(c)
    PROVE  ExtIInv'
<1>1. /\ transport = "socket" /\ peer[c] = "unused" /\ \A d \in Clients : d < c => peer[d] # "unused"
      /\ peer' = [peer EXCEPT ![c] = "open"] /\ pending' = Append(pending, c)
      /\ UNCHANGED <<shutdown, transport, at, client, wire, written, forwarded>>
    BY DEF ClientConnect
<1>2. /\ ExtTypeOK /\ Numbered /\ WireOrdered /\ ForwardedOrdered /\ ServedInTurn /\ NoneLost
      /\ pending \in Seq(Clients) /\ peer \in [Clients -> {"unused", "open", "closed"}]
    BY DEF ExtIInv, ExtTypeOK
<1>3. /\ pending' \in Seq(Clients)
      /\ \A i \in 1..Len(pending) : i \in 1..Len(pending') /\ pending'[i] = pending[i]
      /\ Len(pending) + 1 \in 1..Len(pending') /\ pending'[Len(pending) + 1] = c
      /\ \A i \in 1..Len(pending') :
            \/ i \in 1..Len(pending) /\ i < Len(pending) + 1 /\ pending'[i] = pending[i]
            \/ i = Len(pending) + 1 /\ pending'[i] = c
    BY <1>1, <1>2, AppendFacts
<1>4. peer'[c] = "open" /\ \A d \in Clients : d # c => peer'[d] = peer[d]
    BY <1>1, <1>2
<1>5. \A d \in Clients : peer[d] # "unused" => d < c /\ d # c
    <2> SUFFICES ASSUME NEW d \in Clients, peer[d] # "unused" PROVE d < c /\ d # c
        OBVIOUS
    <2>1. ~(c < d) /\ d # c
        BY <1>1, <1>2 DEF ServedInTurn
    <2>2. c \in Nat /\ d \in Nat
        BY <1>2, ExtFacts
    <2> QED
        BY <2>1, <2>2
<1>6. ExtTypeOK'
    <2>1. peer' \in [Clients -> {"unused", "open", "closed"}]
        BY <1>1, <1>2
    <2> QED
        BY <1>1, <1>2, <1>3, <2>1 DEF ExtTypeOK
<1>7. Numbered'
    <2>1. \A l \in written : l.client \in Clients
        BY <1>2, ExtFacts DEF ExtTypeOK
    <2>2. \A l \in written : peer'[l.client] # "unused"
        BY <1>2, <1>4, <2>1 DEF Numbered
    <2> QED
        BY <1>1, <1>2, <2>2 DEF Numbered, LinesOf
<1>8. WireOrdered' /\ ForwardedOrdered'
    BY <1>1, <1>2 DEF WireOrdered, ForwardedOrdered
<1>9. ServedInTurn'
    <2>1. \A d \in Clients : peer[d] # "unused" => peer'[d] # "unused"
        BY <1>4
    <2>2. \A b, d \in Clients : peer'[b] # "unused" /\ d < b => peer'[d] # "unused"
        BY <1>1, <1>2, <1>4, <2>1 DEF ServedInTurn
    <2>3. \A i \in 1..Len(pending) : pending[i] \in Clients /\ peer[pending[i]] # "unused"
        BY <1>2, ExtFacts DEF ServedInTurn
    <2>4. \A j \in 1..Len(forwarded) : forwarded[j].client \in Clients /\ forwarded[j].client < c
        <3>1. \A j \in 1..Len(forwarded) : forwarded[j] \in written /\ forwarded[j].client \in Clients
            BY <1>2, ExtFacts DEF ForwardedOrdered
        <3> QED
            BY <1>2, <1>5, <3>1 DEF Numbered
    <2>5. at = "reading" => client < c /\ peer'[client] # "unused"
        BY <1>2, <1>5, <2>1 DEF ServedInTurn, ExtTypeOK
    <2>6. ASSUME NEW i \in 1..Len(pending')
          PROVE  /\ peer'[pending'[i]] # "unused"
                 /\ at = "reading" => client < pending'[i]
                 /\ \A j \in 1..Len(forwarded) : forwarded[j].client < pending'[i]
        <3>1. CASE i \in 1..Len(pending) /\ pending'[i] = pending[i]
            BY <1>2, <2>1, <2>3, <3>1 DEF ServedInTurn
        <3>2. CASE pending'[i] = c
            BY <1>4, <2>4, <2>5, <3>2
        <3> QED
            BY <1>3, <3>1, <3>2
    <2>7. ASSUME NEW i \in 1..Len(pending'), NEW j \in 1..Len(pending'), i < j
          PROVE  pending'[i] < pending'[j]
        <3>1. Len(pending) \in Nat
            BY <1>2, ExtFacts
        <3>2. i \in 1..Len(pending) /\ pending'[i] = pending[i]
            BY <1>3, <2>7, <3>1
        <3>3. CASE j \in 1..Len(pending) /\ pending'[j] = pending[j]
            BY <1>2, <2>7, <3>2, <3>3 DEF ServedInTurn
        <3>4. CASE pending'[j] = c
            BY <1>5, <2>3, <3>2, <3>4
        <3> QED
            BY <1>3, <3>3, <3>4
    <2> QED
        BY <1>1, <2>2, <2>5, <2>6, <2>7 DEF ServedInTurn
<1>10. NoneLost'
    <2>1. \A d \in Clients : Waits(d) => Waits(d)'
        BY <1>1, <1>3 DEF Waits
    <2>2. Waits(c)'
        BY <1>3 DEF Waits
    <2>3. \A d \in Clients : d # c => peer'[d] = peer[d]
        BY <1>4
    <2>4. \A l \in written : l.client \in Clients
        BY <1>2, ExtFacts DEF ExtTypeOK
    <2>5. ListenerGone' = ListenerGone /\ \A d \in Clients : LeftBehindAt(d)' = LeftBehindAt(d)
        BY <1>1 DEF ListenerGone, LeftBehindAt
    <2>6. ASSUME NEW d \in Clients, peer'[d] # "unused", ~shutdown, ~ListenerGone, ~Waits(d)'
          PROVE  LeftBehindAt(d) \/ (peer'[d] = "closed" /\ wire[d] = <<>>)
        BY <1>2, <2>1, <2>2, <2>3, <2>6, Zenon DEF NoneLost, AllServed, AllKept
    <2>7. ASSUME NEW l \in written, l.kind = "signal", ~shutdown, ~ListenerGone
          PROVE  \/ \E i \in 1..Len(forwarded) : forwarded[i] = l
                 \/ (Waits(l.client)' /\ \E i \in 1..Len(wire[l.client]) : wire[l.client][i] = l)
                 \/ \E m \in written : m.client = l.client /\ m.kind = "unreadable" /\ m.n < l.n
        BY <1>2, <2>1, <2>4, <2>7, Zenon DEF NoneLost, AllServed, AllKept
    <2> QED
        BY <1>1, <2>5, <2>6, <2>7, Zenon DEF NoneLost, AllServed, AllKept
<1> QED
    BY <1>6, <1>7, <1>8, <1>9, <1>10 DEF ExtIInv

\* A client writes its next line.
LEMMA ClientWriteIInv ==
    ASSUME ExtIInv, NEW c \in Clients, NEW k \in LineKinds, ClientWrite(c, k)
    PROVE  ExtIInv'
<1> DEFINE count == Cardinality(LinesOf(c))
           line == [client |-> c, n |-> 1 + count, kind |-> k]
<1>1. /\ peer[c] = "open" /\ 1 + count <= MaxLines
      /\ wire' = [wire EXCEPT ![c] = Append(wire[c], line)] /\ written' = written \cup {line}
      /\ UNCHANGED <<shutdown, transport, at, client, pending, peer, forwarded>>
    BY DEF ClientWrite, LinesOf
<1>2. /\ ExtTypeOK /\ Numbered /\ WireOrdered /\ ForwardedOrdered /\ ServedInTurn /\ NoneLost
      /\ wire \in [Clients -> Seq(Line)] /\ written \in SUBSET Line
    BY DEF ExtIInv, ExtTypeOK
<1>3. /\ IsFiniteSet(written) /\ count \in Nat
      /\ \A d \in Clients : IsFiniteSet(LinesOf(d)) /\ Cardinality(LinesOf(d)) \in Nat
    <2>1. \A d \in Clients : LinesOf(d) \in SUBSET written
        BY DEF LinesOf
    <2>2. IsFiniteSet(written)
        BY <1>2 DEF Numbered
    <2> QED
        BY <2>1, <2>2, FS_Subset, FS_CardinalityType
<1>4. \A l \in written : l.client = c => l.n <= count /\ l.n < 1 + count
    <2> SUFFICES ASSUME NEW l \in written, l.client = c PROVE l.n <= count /\ l.n < 1 + count
        OBVIOUS
    <2>1. l.n \in Nat
        BY <1>2, ExtFacts
    <2>2. l.n <= count
        BY <1>2 DEF Numbered
    <2> HIDE DEF count
    <2> QED
        BY <1>3, <2>1, <2>2
<1>5. line \in Line /\ line \notin written /\ line.client = c /\ line.n = 1 + count /\ line.kind = k
    <2>1. 1 + count \in 1..MaxLines
        <3> HIDE DEF count
        <3> QED
            BY <1>1, <1>3, ExternalAssumption
    <2>2. line \in Line
        BY <2>1 DEF Line
    <2>3. line \notin written
        <3> SUFFICES ASSUME line \in written PROVE FALSE
            OBVIOUS
        <3>1. 1 + count <= count
            BY <1>4
        <3> HIDE DEF count
        <3> QED
            BY <1>3, <3>1
    <2> QED
        BY <2>2, <2>3
<1> HIDE DEF line, count
<1>6. /\ wire'[c] = Append(wire[c], line) /\ \A d \in Clients : d # c => wire'[d] = wire[d]
      /\ wire[c] \in Seq(Line)
    BY <1>1, <1>2
<1>7. /\ wire'[c] \in Seq(Line)
      /\ \A i \in 1..Len(wire[c]) : i \in 1..Len(wire'[c]) /\ wire'[c][i] = wire[c][i]
      /\ Len(wire[c]) + 1 \in 1..Len(wire'[c]) /\ wire'[c][Len(wire[c]) + 1] = line
      /\ \A i \in 1..Len(wire'[c]) :
            \/ i \in 1..Len(wire[c]) /\ i < Len(wire[c]) + 1 /\ wire'[c][i] = wire[c][i]
            \/ i = Len(wire[c]) + 1 /\ wire'[c][i] = line
    BY <1>5, <1>6, AppendFacts
<1>8. ExtTypeOK'
    <2>1. wire' \in [Clients -> Seq(Line)]
        BY <1>1, <1>2, <1>6, <1>7
    <2>2. written' \in SUBSET Line
        BY <1>1, <1>2, <1>5
    <2> QED
        BY <1>1, <1>2, <2>1, <2>2 DEF ExtTypeOK
<1>9. Numbered'
    <2>1. IsFiniteSet(written')
        BY <1>1, <1>3, FS_AddElement
    <2>2. LinesOf(c)' = LinesOf(c) \cup {line} /\ line \notin LinesOf(c)
        BY <1>1, <1>5 DEF LinesOf
    <2>3. Cardinality(LinesOf(c)') = count + 1
        BY <1>3, <2>2, FS_AddElement DEF count
    <2>4. \A d \in Clients : d # c => LinesOf(d)' = LinesOf(d)
        BY <1>1, <1>5 DEF LinesOf
    <2>5. ASSUME NEW l \in written'
          PROVE  l.n <= Cardinality(LinesOf(l.client)') /\ peer[l.client] # "unused"
        <3>1. CASE l = line
            BY <1>1, <1>3, <1>5, <2>3, <3>1
        <3>2. CASE l \in written /\ l.client = c
            <4>1. l.n <= count /\ l.n \in Nat
                BY <1>2, <1>4, <3>2, ExtFacts
            <4> QED
                BY <1>1, <1>3, <2>3, <3>2, <4>1
        <3>3. CASE l \in written /\ l.client # c
            <4>1. l.client \in Clients
                BY <1>2, <3>3, ExtFacts
            <4> QED
                BY <1>2, <2>4, <3>3, <4>1 DEF Numbered
        <3> QED
            BY <1>1, <3>1, <3>2, <3>3
    <2> QED
        BY <1>1, <2>1, <2>5 DEF Numbered, LinesOf
<1>10. WireOrdered'
    <2>1. ASSUME NEW d \in Clients
          PROVE  /\ \A i \in 1..Len(wire'[d]) : wire'[d][i] \in written' /\ wire'[d][i].client = d
                 /\ \A i, j \in 1..Len(wire'[d]) : i < j => wire'[d][i].n < wire'[d][j].n
        <3>1. CASE d # c
            BY <1>1, <1>2, <1>6, <3>1 DEF WireOrdered
        <3>2. CASE d = c
            <4>1. \A i \in 1..Len(wire[c]) : wire[c][i] \in written /\ wire[c][i].client = c
                BY <1>2 DEF WireOrdered
            <4>2. \A i \in 1..Len(wire'[c]) : wire'[c][i] \in written' /\ wire'[c][i].client = c
                BY <1>1, <1>5, <1>7, <4>1
            <4>3. ASSUME NEW i \in 1..Len(wire'[c]), NEW j \in 1..Len(wire'[c]), i < j
                  PROVE  wire'[c][i].n < wire'[c][j].n
                <5>1. Len(wire[c]) \in Nat
                    BY <1>2, ExtFacts
                <5>2. i \in 1..Len(wire[c]) /\ wire'[c][i] = wire[c][i]
                    BY <1>7, <4>3, <5>1
                <5>3. CASE j \in 1..Len(wire[c]) /\ wire'[c][j] = wire[c][j]
                    BY <1>2, <4>3, <5>2, <5>3 DEF WireOrdered
                <5>4. CASE wire'[c][j] = line
                    BY <1>4, <1>5, <4>1, <5>2, <5>4
                <5> QED
                    BY <1>7, <5>3, <5>4
            <4> QED
                BY <3>2, <4>2, <4>3
        <3> QED
            BY <3>1, <3>2
    <2> QED
        BY <2>1 DEF WireOrdered
<1>11. ForwardedOrdered'
    <2>1. ASSUME NEW i \in 1..Len(forwarded), NEW j \in 1..Len(wire'[forwarded[i].client])
          PROVE  forwarded[i].n < wire'[forwarded[i].client][j].n
        <3>1. forwarded[i].client \in Clients /\ forwarded[i] \in written
            BY <1>2, ExtFacts DEF ForwardedOrdered
        <3>2. CASE forwarded[i].client # c
            BY <1>2, <1>6, <2>1, <3>1, <3>2 DEF ForwardedOrdered
        <3>3. CASE forwarded[i].client = c
            <4>1. CASE j \in 1..Len(wire[c]) /\ wire'[c][j] = wire[c][j]
                BY <1>2, <3>3, <4>1 DEF ForwardedOrdered
            <4>2. CASE wire'[c][j] = line
                BY <1>4, <1>5, <3>1, <3>3, <4>2
            <4> QED
                BY <1>7, <2>1, <3>3, <4>1, <4>2
        <3> QED
            BY <3>2, <3>3
    <2>2. \A i \in 1..Len(forwarded) : forwarded[i] \in written' /\ forwarded[i].client <= client
        BY <1>1, <1>2 DEF ForwardedOrdered
    <2> QED
        BY <1>1, <1>2, <2>1, <2>2 DEF ForwardedOrdered
<1>12. ServedInTurn'
    BY <1>1, <1>2 DEF ServedInTurn
<1>13. NoneLost'
    <2>1. \A d \in Clients : Waits(d)' = Waits(d)
        BY <1>1 DEF Waits
    <2>2. ListenerGone' = ListenerGone /\ \A d \in Clients : LeftBehindAt(d) => LeftBehindAt(d)'
        BY <1>1 DEF ListenerGone, LeftBehindAt
    <2>3. ASSUME NEW d \in Clients, peer[d] # "unused", ~shutdown, ~ListenerGone, ~Waits(d)
          PROVE  LeftBehindAt(d)' \/ (peer[d] = "closed" /\ wire'[d] = <<>>)
        <3>1. LeftBehindAt(d) \/ (peer[d] = "closed" /\ wire[d] = <<>>)
            BY <1>2, <2>3, Zenon DEF NoneLost, AllServed, AllKept
        <3>2. CASE d = c
            BY <1>1, <2>2, <3>1, <3>2
        <3>3. CASE d # c
            BY <1>6, <2>2, <3>1, <3>3
        <3> QED
            BY <3>2, <3>3
    <2>4. ASSUME NEW l \in written', l.kind = "signal", ~shutdown, ~ListenerGone
          PROVE  \/ \E i \in 1..Len(forwarded) : forwarded[i] = l
                 \/ (Waits(l.client) /\ \E i \in 1..Len(wire'[l.client]) : wire'[l.client][i] = l)
                 \/ \E m \in written' : m.client = l.client /\ m.kind = "unreadable" /\ m.n < l.n
        <3>1. CASE l \in written
            <4>1. l.client \in Clients
                BY <1>2, <3>1, ExtFacts
            <4>2. \/ \E i \in 1..Len(forwarded) : forwarded[i] = l
                  \/ (Waits(l.client) /\ \E i \in 1..Len(wire[l.client]) : wire[l.client][i] = l)
                  \/ \E m \in written : m.client = l.client /\ m.kind = "unreadable" /\ m.n < l.n
                BY <1>2, <2>4, <3>1, Zenon DEF NoneLost, AllServed, AllKept
            <4>3. (\E i \in 1..Len(wire[l.client]) : wire[l.client][i] = l)
                     => \E i \in 1..Len(wire'[l.client]) : wire'[l.client][i] = l
                BY <1>6, <1>7, <4>1
            <4> QED
                BY <1>1, <4>2, <4>3, Zenon
        <3>2. CASE l = line
            <4>1. CASE Waits(c)
                BY <1>5, <1>7, <3>2, <4>1
            <4>2. CASE ~Waits(c)
                <5>1. LeftBehindAt(c)
                    BY <1>1, <1>2, <2>4, <4>2 DEF NoneLost, AllServed, AllKept
                <5>2. PICK m \in written : m.client = c /\ m.kind = "unreadable"
                    BY <5>1 DEF LeftBehindAt
                <5>3. m.n < l.n
                    BY <1>4, <1>5, <3>2, <5>2
                <5> QED
                    BY <1>1, <1>5, <3>2, <5>2, <5>3
            <4> QED
                BY <4>1, <4>2
        <3> QED
            BY <1>1, <3>1, <3>2
    <2>5. \A l \in written' : Waits(l.client)' = Waits(l.client)
        <3>1. \A l \in written' : l.client \in Clients
            BY <1>1, <1>2, <1>5, ExtFacts
        <3> QED
            BY <2>1, <3>1
    <2> QED
        BY <1>1, <2>1, <2>2, <2>3, <2>4, <2>5, Zenon DEF NoneLost, AllServed, AllKept
<1> QED
    BY <1>8, <1>9, <1>10, <1>11, <1>12, <1>13 DEF ExtIInv

\* A client closes its end.
LEMMA ClientCloseIInv ==
    ASSUME ExtIInv, NEW c \in Clients, ClientClose(c)
    PROVE  ExtIInv'
<1>1. /\ peer[c] = "open" /\ peer' = [peer EXCEPT ![c] = "closed"]
      /\ UNCHANGED <<shutdown, transport, at, client, pending, wire, written, forwarded>>
    BY DEF ClientClose
<1>2. /\ ExtTypeOK /\ Numbered /\ WireOrdered /\ ForwardedOrdered /\ ServedInTurn /\ NoneLost
      /\ peer \in [Clients -> {"unused", "open", "closed"}]
    BY DEF ExtIInv, ExtTypeOK
<1>3. peer'[c] = "closed" /\ \A d \in Clients : d # c => peer'[d] = peer[d]
    BY <1>1, <1>2
<1>4. \A d \in Clients : peer'[d] # "unused" <=> peer[d] # "unused"
    BY <1>1, <1>3
<1>5. ExtTypeOK'
    <2>1. peer' \in [Clients -> {"unused", "open", "closed"}]
        BY <1>1, <1>2
    <2> QED
        BY <1>1, <1>2, <2>1 DEF ExtTypeOK
<1>6. Numbered'
    <2>1. \A l \in written : l.client \in Clients
        BY <1>2, ExtFacts DEF ExtTypeOK
    <2> QED
        BY <1>1, <1>2, <1>4, <2>1 DEF Numbered, LinesOf
<1>7. WireOrdered' /\ ForwardedOrdered'
    BY <1>1, <1>2 DEF WireOrdered, ForwardedOrdered
<1>8. ServedInTurn'
    <2>1. client \in Clients /\ \A i \in 1..Len(pending) : pending[i] \in Clients
        BY <1>2, ExtFacts DEF ExtTypeOK
    <2> QED
        BY <1>1, <1>2, <1>4, <2>1 DEF ServedInTurn
<1>9. NoneLost'
    <2>1. \A d \in Clients : Waits(d)' = Waits(d) /\ LeftBehindAt(d)' = LeftBehindAt(d)
        BY <1>1 DEF Waits, LeftBehindAt
    <2>2. ListenerGone' = ListenerGone
        BY <1>1 DEF ListenerGone
    <2>3. ASSUME NEW d \in Clients, peer'[d] # "unused", ~shutdown, ~ListenerGone, ~Waits(d)
          PROVE  LeftBehindAt(d) \/ (peer'[d] = "closed" /\ wire[d] = <<>>)
        <3>1. LeftBehindAt(d) \/ (peer[d] = "closed" /\ wire[d] = <<>>)
            BY <1>2, <1>4, <2>3, Zenon DEF NoneLost, AllServed, AllKept
        <3> QED
            BY <1>1, <1>3, <3>1
    <2>4. \A l \in written : l.client \in Clients
        BY <1>2, ExtFacts DEF ExtTypeOK
    <2>5. ASSUME NEW l \in written, l.kind = "signal", ~shutdown, ~ListenerGone
          PROVE  \/ \E i \in 1..Len(forwarded) : forwarded[i] = l
                 \/ (Waits(l.client)' /\ \E i \in 1..Len(wire[l.client]) : wire[l.client][i] = l)
                 \/ \E m \in written : m.client = l.client /\ m.kind = "unreadable" /\ m.n < l.n
        BY <1>2, <2>1, <2>4, <2>5, Zenon DEF NoneLost, AllServed, AllKept
    <2> QED
        BY <1>1, <2>1, <2>2, <2>3, <2>5, Zenon DEF NoneLost, AllServed, AllKept
<1> QED
    BY <1>5, <1>6, <1>7, <1>8, <1>9 DEF ExtIInv

\* A step that only lets the thread stop waiting for clients, or sets the flag, loses nothing
\* that may not be lost.
LEMMA AtRestIInv ==
    ASSUME ExtIInv, UNCHANGED <<transport, client, clientVars, forwarded>>,
           shutdown' \in BOOLEAN, at' \in {"accepting", "reading", "returned"},
           at' = "reading" => at = "reading",
           at' = "accepting" => transport = "socket",
           shutdown => shutdown',
           ~shutdown' /\ at' # at => ListenerGone'
    PROVE  ExtIInv'
<1>1. UNCHANGED <<transport, client, pending, peer, wire, written, forwarded>>
    BY DEF clientVars
<1>2. ExtTypeOK /\ Numbered /\ WireOrdered /\ ForwardedOrdered /\ ServedInTurn /\ NoneLost
    BY DEF ExtIInv
<1>3. ExtTypeOK'
    BY <1>1, <1>2 DEF ExtTypeOK
<1>4. Numbered' /\ WireOrdered' /\ ForwardedOrdered'
    <2>1. Numbered'
        BY <1>1, <1>2 DEF Numbered, LinesOf
    <2>2. WireOrdered'
        BY <1>1, <1>2 DEF WireOrdered
    <2>3. ForwardedOrdered'
        BY <1>1, <1>2 DEF ForwardedOrdered
    <2> QED
        BY <2>1, <2>2, <2>3
<1>5. ServedInTurn'
    BY <1>1, <1>2 DEF ServedInTurn
<1>6. NoneLost'
    <2>1. CASE shutdown' \/ ListenerGone'
        BY <2>1, Zenon DEF NoneLost, AllServed, AllKept
    <2>2. CASE ~shutdown' /\ ~ListenerGone'
        <3>1. at' = at /\ ~shutdown
            BY <2>2, Zenon
        <3>2. /\ \A c \in Clients : Waits(c)' = Waits(c) /\ LeftBehindAt(c)' = LeftBehindAt(c)
              /\ ListenerGone' = ListenerGone
            BY <1>1, <3>1 DEF Waits, LeftBehindAt, ListenerGone
        <3>3. \A l \in written : l.client \in Clients
            BY <1>2, ExtFacts DEF ExtTypeOK
        <3>4. ASSUME NEW c \in Clients, peer[c] # "unused", ~Waits(c)'
              PROVE  LeftBehindAt(c)' \/ (peer[c] = "closed" /\ wire[c] = <<>>)
            BY <1>2, <2>2, <3>1, <3>2, <3>4, Zenon DEF NoneLost, AllServed, AllKept
        <3>5. ASSUME NEW l \in written, l.kind = "signal"
              PROVE  \/ \E i \in 1..Len(forwarded) : forwarded[i] = l
                     \/ (Waits(l.client)' /\ \E i \in 1..Len(wire[l.client]) : wire[l.client][i] = l)
                     \/ \E m \in written : m.client = l.client /\ m.kind = "unreadable" /\ m.n < l.n
            <4>1. l.client \in Clients
                BY <3>3
            <4>2. Waits(l.client)' = Waits(l.client)
                BY <3>2, <4>1
            <4> QED
                BY <1>2, <2>2, <3>1, <3>2, <3>5, <4>2, Zenon DEF NoneLost, AllServed, AllKept
        <3>6. peer' = peer /\ wire' = wire /\ written' = written /\ forwarded' = forwarded
            BY <1>1
        <3>7. AllServed'
            BY <3>4, <3>6, Zenon DEF AllServed
        <3>8. AllKept'
            BY <3>5, <3>6, Zenon DEF AllKept
        <3> QED
            BY <3>7, <3>8 DEF NoneLost
    <2> QED
        BY <2>1, <2>2, Zenon
<1> QED
    BY <1>3, <1>4, <1>5, <1>6 DEF ExtIInv

\* The next client in turn is accepted.
LEMMA AcceptIInv ==
    ASSUME ExtIInv, Accept
    PROVE  ExtIInv'
<1>1. /\ at = "accepting" /\ ~shutdown /\ pending # <<>> /\ at' = "reading"
      /\ client' = Head(pending) /\ pending' = Tail(pending)
      /\ UNCHANGED <<shutdown, transport, peer, wire, written, forwarded>>
    BY DEF Accept
<1>2. /\ ExtTypeOK /\ Numbered /\ WireOrdered /\ ForwardedOrdered /\ ServedInTurn /\ NoneLost
      /\ pending \in Seq(Clients)
    BY DEF ExtIInv, ExtTypeOK
<1>3. /\ pending' \in Seq(Clients) /\ client' = pending[1] /\ 1 \in 1..Len(pending)
      /\ \A i \in 1..Len(pending') : i + 1 \in 2..Len(pending) /\ pending'[i] = pending[i + 1]
      /\ \A i \in 1..Len(pending) : i # 1 => i - 1 \in 1..Len(pending') /\ pending'[i - 1] = pending[i]
    BY <1>1, <1>2, TailFacts
<1>4. /\ Len(pending) \in Nat /\ Len(pending') \in Nat
      /\ \A n \in Nat : \A i \in 2..n : i \in 1..n /\ 1 < i
    BY <1>2, <1>3, ExtFacts, LenProperties
<1>5. \A i \in 1..Len(pending') : i + 1 \in 1..Len(pending) /\ 1 < i + 1 /\ pending'[i] = pending[i + 1]
    BY <1>3, <1>4
<1>6. client' \in Clients /\ client' \in Nat
    BY <1>2, <1>3, ExtFacts
<1>7. transport = "socket"
    BY <1>1, <1>2 DEF ServedInTurn, ExtTypeOK
<1>8. ExtTypeOK'
    BY <1>1, <1>2, <1>3, <1>6 DEF ExtTypeOK
<1>9. Numbered' /\ WireOrdered'
    BY <1>1, <1>2 DEF Numbered, LinesOf, WireOrdered
<1>10. \A i \in 1..Len(forwarded) : forwarded[i].client <= client'
    <2> SUFFICES ASSUME NEW i \in 1..Len(forwarded) PROVE forwarded[i].client <= client'
        OBVIOUS
    <2>1. forwarded[i].client < client' /\ forwarded[i].client \in Nat
        BY <1>2, <1>3, ExtFacts DEF ServedInTurn
    <2> QED
        BY <1>6, <2>1
<1>11. ForwardedOrdered'
    BY <1>1, <1>2, <1>10 DEF ForwardedOrdered
<1>12. ServedInTurn'
    <2>1. \A i \in 1..Len(pending') :
            /\ peer[pending'[i]] # "unused" /\ client' < pending'[i]
            /\ \A j \in 1..Len(forwarded) : forwarded[j].client < pending'[i]
        BY <1>2, <1>3, <1>5 DEF ServedInTurn
    <2>2. ASSUME NEW i \in 1..Len(pending'), NEW j \in 1..Len(pending'), i < j
          PROVE  pending'[i] < pending'[j]
        <3>1. i + 1 < j + 1
            BY <1>4, <2>2
        <3> QED
            BY <1>2, <1>5, <3>1 DEF ServedInTurn
    <2>3. peer[client'] # "unused"
        BY <1>2, <1>3 DEF ServedInTurn
    <2> QED
        BY <1>1, <1>2, <1>7, <2>1, <2>2, <2>3 DEF ServedInTurn
<1>13. NoneLost'
    <2>1. ASSUME NEW c \in Clients, Waits(c) PROVE Waits(c)'
        <3>1. PICK i \in 1..Len(pending) : pending[i] = c
            BY <1>1, <2>1 DEF Waits
        <3>2. CASE i = 1
            BY <1>1, <1>3, <3>1, <3>2 DEF Waits
        <3>3. CASE i # 1
            BY <1>3, <3>1, <3>3 DEF Waits
        <3> QED
            BY <3>2, <3>3
    <2>2. ~ListenerGone /\ ~ListenerGone' /\ \A c \in Clients : LeftBehindAt(c)' = LeftBehindAt(c)
        BY <1>1 DEF ListenerGone, LeftBehindAt
    <2>3. \A l \in written : l.client \in Clients
        BY <1>2, ExtFacts DEF ExtTypeOK
    <2>4. ASSUME NEW c \in Clients, peer[c] # "unused", ~Waits(c)'
          PROVE  LeftBehindAt(c)' \/ (peer[c] = "closed" /\ wire[c] = <<>>)
        BY <1>1, <1>2, <2>1, <2>2, <2>4, Zenon DEF NoneLost, AllServed, AllKept
    <2>5. ASSUME NEW l \in written, l.kind = "signal"
          PROVE  \/ \E i \in 1..Len(forwarded) : forwarded[i] = l
                 \/ (Waits(l.client)' /\ \E i \in 1..Len(wire[l.client]) : wire[l.client][i] = l)
                 \/ \E m \in written : m.client = l.client /\ m.kind = "unreadable" /\ m.n < l.n
        <3>1. l.client \in Clients
            BY <2>3
        <3> QED
            BY <1>1, <1>2, <2>1, <2>2, <2>5, <3>1, Zenon DEF NoneLost, AllServed, AllKept
    <2> QED
        BY <1>1, <2>2, <2>4, <2>5, Zenon DEF NoneLost, AllServed, AllKept
<1> QED
    BY <1>8, <1>9, <1>11, <1>12, <1>13 DEF ExtIInv

\* The end of a client's lines: nothing of it is left to be read.
LEMMA ReadEofIInv ==
    ASSUME ExtIInv, ReadEof
    PROVE  ExtIInv'
<1>1. /\ at = "reading" /\ wire[client] = <<>> /\ peer[client] = "closed"
      /\ at' = IF transport = "stdin" THEN "returned" ELSE "accepting"
      /\ UNCHANGED <<shutdown, transport, client, pending, peer, wire, written, forwarded>>
    BY DEF ReadEof, LeaveReader, clientVars
<1>2. ExtTypeOK /\ Numbered /\ WireOrdered /\ ForwardedOrdered /\ ServedInTurn /\ NoneLost
    BY DEF ExtIInv
<1>3. transport \in {"stdin", "socket"} /\ client \in Clients
    BY <1>2 DEF ExtTypeOK
<1>4. at' \in {"accepting", "returned"} /\ ~ListenerGone' /\ ~ListenerGone
    BY <1>1, <1>3 DEF ListenerGone
<1>5. ExtTypeOK'
    BY <1>1, <1>2, <1>4 DEF ExtTypeOK
<1>6. Numbered' /\ WireOrdered' /\ ForwardedOrdered'
    <2>1. Numbered'
        BY <1>1, <1>2 DEF Numbered, LinesOf
    <2>2. WireOrdered'
        BY <1>1, <1>2 DEF WireOrdered
    <2>3. ForwardedOrdered'
        BY <1>1, <1>2 DEF ForwardedOrdered
    <2> QED
        BY <2>1, <2>2, <2>3
<1>7. ServedInTurn'
    BY <1>1, <1>2, <1>4 DEF ServedInTurn
<1>8. NoneLost'
    <2>1. \A c \in Clients : c # client => Waits(c)' = Waits(c)
        BY <1>1, <1>4 DEF Waits
    <2>2. \A c \in Clients : LeftBehindAt(c)' = LeftBehindAt(c)
        BY <1>1 DEF LeftBehindAt
    <2>3. \A l \in written : l.client \in Clients
        BY <1>2, ExtFacts DEF ExtTypeOK
    <2>4. ASSUME NEW c \in Clients, peer[c] # "unused", ~shutdown, ~Waits(c)'
          PROVE  LeftBehindAt(c)' \/ (peer[c] = "closed" /\ wire[c] = <<>>)
        <3>1. CASE c = client
            BY <1>1, <3>1
        <3>2. CASE c # client
            BY <1>2, <1>4, <2>1, <2>2, <2>4, <3>2, Zenon DEF NoneLost, AllServed, AllKept
        <3> QED
            BY <3>1, <3>2
    <2>5. ASSUME NEW l \in written, l.kind = "signal", ~shutdown
          PROVE  \/ \E i \in 1..Len(forwarded) : forwarded[i] = l
                 \/ (Waits(l.client)' /\ \E i \in 1..Len(wire[l.client]) : wire[l.client][i] = l)
                 \/ \E m \in written : m.client = l.client /\ m.kind = "unreadable" /\ m.n < l.n
        <3>1. l.client \in Clients
            BY <2>3
        <3>2. \/ \E i \in 1..Len(forwarded) : forwarded[i] = l
              \/ (Waits(l.client) /\ \E i \in 1..Len(wire[l.client]) : wire[l.client][i] = l)
              \/ \E m \in written : m.client = l.client /\ m.kind = "unreadable" /\ m.n < l.n
            BY <1>2, <1>4, <2>5, Zenon DEF NoneLost, AllServed, AllKept
        <3>3. CASE l.client = client
            <4>1. Len(wire[l.client]) = 0
                BY <1>1, <3>3
            <4>2. ~(\E i \in 1..Len(wire[l.client]) : wire[l.client][i] = l)
                BY <4>1
            <4> QED
                BY <3>2, <4>2, Zenon
        <3>4. CASE l.client # client
            BY <2>1, <3>1, <3>2, <3>4, Zenon
        <3> QED
            BY <3>3, <3>4
    <2> QED
        BY <1>1, <2>4, <2>5, Zenon DEF NoneLost, AllServed, AllKept
<1> QED
    BY <1>5, <1>6, <1>7, <1>8 DEF ExtIInv

\* A line is read: forwarded, skipped, or the end of its client.
LEMMA ReadLineIInv ==
    ASSUME ExtIInv, ReadLine
    PROVE  ExtIInv'
<1>1. PICK c \in Clients : c = client
    BY DEF ExtIInv, ExtTypeOK
<1>2. PICK line : line = Head(wire[c])
    OBVIOUS
<1>3. /\ at = "reading" /\ wire[c] # <<>> /\ wire' = [wire EXCEPT ![c] = Tail(wire[c])]
      /\ UNCHANGED <<shutdown, transport, client, pending, peer, written>>
    BY <1>1 DEF ReadLine
<1>4. \/ /\ shutdown \/ line.kind = "unreadable"
         /\ at' = IF transport = "stdin" THEN "returned" ELSE "accepting"
         /\ forwarded' = forwarded
      \/ ~shutdown /\ line.kind = "malformed" /\ at' = at /\ forwarded' = forwarded
      \/ ~shutdown /\ at' = at /\ forwarded' = Append(forwarded, line)
    BY <1>1, <1>2 DEF ReadLine, LeaveReader, SkipLine
<1>5. /\ ExtTypeOK /\ Numbered /\ WireOrdered /\ ForwardedOrdered /\ ServedInTurn /\ NoneLost
      /\ wire \in [Clients -> Seq(Line)] /\ forwarded \in Seq(Line)
    BY DEF ExtIInv, ExtTypeOK
<1>6. wire'[c] = Tail(wire[c]) /\ (\A d \in Clients : d # c => wire'[d] = wire[d]) /\ wire[c] \in Seq(Line)
    BY <1>3, <1>5
<1>7. /\ wire'[c] \in Seq(Line) /\ line = wire[c][1] /\ 1 \in 1..Len(wire[c])
      /\ \A i \in 1..Len(wire'[c]) : i + 1 \in 2..Len(wire[c]) /\ wire'[c][i] = wire[c][i + 1]
      /\ \A i \in 1..Len(wire[c]) : i # 1 => i - 1 \in 1..Len(wire'[c]) /\ wire'[c][i - 1] = wire[c][i]
    <2>1. PICK w \in Seq(Line) : w = wire[c]
        BY <1>6
    <2>2. /\ Tail(w) \in Seq(Line) /\ Head(w) = w[1] /\ 1 \in 1..Len(w)
          /\ \A i \in 1..Len(Tail(w)) : i + 1 \in 2..Len(w) /\ Tail(w)[i] = w[i + 1]
          /\ \A i \in 1..Len(w) : i # 1 => i - 1 \in 1..Len(Tail(w)) /\ Tail(w)[i - 1] = w[i]
        BY <1>3, <2>1, TailFacts
    <2> QED
        BY <1>2, <1>6, <2>1, <2>2, Zenon
<1>8. line \in written /\ line.client = c /\ line \in Line /\ line.n \in Nat
    BY <1>5, <1>7, ExtFacts DEF WireOrdered
<1>9. \A i \in 1..Len(wire'[c]) :
        i + 1 \in 1..Len(wire[c]) /\ 1 < i + 1 /\ wire'[c][i] = wire[c][i + 1]
    <2>1. Len(wire[c]) \in Nat /\ \A n \in Nat : \A i \in 2..n : i \in 1..n /\ 1 < i
        BY <1>5, ExtFacts
    <2> QED
        BY <1>7, <2>1
<1>10. \A i \in 1..Len(wire'[c]) : wire'[c][i] \in written /\ wire'[c][i].client = c /\ line.n < wire'[c][i].n
    <2> SUFFICES ASSUME NEW i \in 1..Len(wire'[c])
                 PROVE  wire'[c][i] \in written /\ wire'[c][i].client = c /\ line.n < wire'[c][i].n
        OBVIOUS
    <2>1. PICK j \in 1..Len(wire[c]) : 1 < j /\ wire'[c][i] = wire[c][j]
        BY <1>9
    <2>2. wire[c][1].n < wire[c][j].n /\ wire[c][j] \in written /\ wire[c][j].client = c
        BY <1>5, <1>7, <2>1 DEF WireOrdered
    <2> QED
        BY <1>7, <2>1, <2>2
<1>11. \A d \in Clients : \A i \in 1..Len(wire'[d]) :
         \E j \in 1..Len(wire[d]) : wire'[d][i] = wire[d][j]
    BY <1>6, <1>9
<1>12. /\ forwarded' \in Seq(Line) /\ at' \in {"accepting", "reading", "returned"}
       /\ at' # "reading" => at' = IF transport = "stdin" THEN "returned" ELSE "accepting"
    <2>1. Append(forwarded, line) \in Seq(Line)
        BY <1>5, <1>8, AppendFacts
    <2>2. forwarded' \in Seq(Line)
        BY <1>4, <1>5, <2>1, Zenon
    <2>3. at' = at \/ at' = IF transport = "stdin" THEN "returned" ELSE "accepting"
        BY <1>4, Zenon
    <2> QED
        BY <1>3, <2>2, <2>3
<1>13. ExtTypeOK'
    <2>1. wire' \in [Clients -> Seq(Line)]
        BY <1>3, <1>5, <1>6, <1>7
    <2> QED
        BY <1>3, <1>5, <1>12, <2>1 DEF ExtTypeOK
<1>14. Numbered'
    BY <1>3, <1>5 DEF Numbered, LinesOf
<1>15. WireOrdered'
    <2>1. ASSUME NEW d \in Clients
          PROVE  /\ \A i \in 1..Len(wire'[d]) : wire'[d][i] \in written /\ wire'[d][i].client = d
                 /\ \A i, j \in 1..Len(wire'[d]) : i < j => wire'[d][i].n < wire'[d][j].n
        <3>1. CASE d # c
            BY <1>5, <1>6, <3>1 DEF WireOrdered
        <3>2. CASE d = c
            <4>1. ASSUME NEW i \in 1..Len(wire'[c]), NEW j \in 1..Len(wire'[c]), i < j
                  PROVE  wire'[c][i].n < wire'[c][j].n
                <5>1. i + 1 < j + 1
                    <6>1. Len(wire'[c]) \in Nat
                        BY <1>7, LenProperties
                    <6> QED
                        BY <4>1, <6>1
                <5> QED
                    BY <1>5, <1>9, <5>1 DEF WireOrdered
            <4> QED
                BY <1>10, <3>2, <4>1
        <3> QED
            BY <3>1, <3>2
    <2> QED
        BY <1>3, <2>1 DEF WireOrdered
<1>16. \A i \in 1..Len(forwarded) :
         /\ forwarded[i] \in written /\ forwarded[i].client \in Clients /\ forwarded[i].client <= client
         /\ \A j \in 1..Len(wire'[forwarded[i].client]) :
               forwarded[i].n < wire'[forwarded[i].client][j].n
    <2> SUFFICES ASSUME NEW i \in 1..Len(forwarded)
                 PROVE  /\ forwarded[i] \in written /\ forwarded[i].client \in Clients
                        /\ forwarded[i].client <= client
                        /\ \A j \in 1..Len(wire'[forwarded[i].client]) :
                              forwarded[i].n < wire'[forwarded[i].client][j].n
        OBVIOUS
    <2>1. PICK d \in Clients : d = forwarded[i].client
        BY <1>5, ExtFacts
    <2>2. /\ forwarded[i] \in written /\ forwarded[i].client <= client
          /\ \A j \in 1..Len(wire[d]) : forwarded[i].n < wire[d][j].n
        BY <1>5, <2>1 DEF ForwardedOrdered
    <2>3. \A j \in 1..Len(wire'[d]) : forwarded[i].n < wire'[d][j].n
        BY <1>11, <2>2
    <2> QED
        BY <2>1, <2>2, <2>3
<1>17. CASE forwarded' = forwarded
    <2>1. ForwardedOrdered'
        BY <1>3, <1>5, <1>16, <1>17 DEF ForwardedOrdered
    <2>2. ServedInTurn'
        <3>1. at' = "accepting" => transport # "stdin"
            BY <1>12
        <3> QED
            BY <1>3, <1>5, <1>12, <1>17, <3>1 DEF ServedInTurn
    <2>3. NoneLost'
        <3>1. CASE shutdown
            BY <1>3, <3>1, Zenon DEF NoneLost, AllServed, AllKept
        <3>2. CASE ~shutdown
            <4>1. line.kind \in {"unreadable", "malformed"} /\ (line.kind = "malformed" => at' = at)
                <5>1. Len(forwarded) \in Nat /\ forwarded # Append(forwarded, line)
                    BY <1>5, <1>8, AppendProperties, LenProperties
                <5> QED
                    BY <1>4, <1>17, <3>2, <5>1
            <4>2. ~ListenerGone
                BY <1>3 DEF ListenerGone
            <4>3. \A d \in Clients : LeftBehindAt(d)' = LeftBehindAt(d)
                BY <1>3 DEF LeftBehindAt
            <4>4. \A d \in Clients : Waits(d) => Waits(d)' \/ (d = c /\ LeftBehindAt(c))
                <5>1. CASE line.kind = "malformed"
                    BY <1>3, <4>1, <5>1 DEF Waits
                <5>2. CASE line.kind = "unreadable"
                    BY <1>1, <1>3, <1>8, <5>2 DEF Waits, LeftBehindAt
                <5> QED
                    BY <4>1, <5>1, <5>2
            <4>5. ASSUME NEW d \in Clients, peer[d] # "unused", ~ListenerGone, ~Waits(d)'
                  PROVE  LeftBehindAt(d)' \/ (peer[d] = "closed" /\ wire'[d] = <<>>)
                <5>1. CASE d = c
                    <6>1. Waits(c)
                        BY <1>1, <1>3 DEF Waits
                    <6> QED
                        BY <4>3, <4>4, <4>5, <5>1, <6>1, Zenon
                <5>2. CASE d # c
                    BY <1>5, <1>6, <3>2, <4>3, <4>4, <4>5, <5>2, Zenon DEF NoneLost, AllServed, AllKept
                <5> QED
                    BY <5>1, <5>2
            <4>6. ASSUME NEW l \in written, l.kind = "signal", ~ListenerGone
                  PROVE  \/ \E i \in 1..Len(forwarded) : forwarded[i] = l
                         \/ (Waits(l.client)' /\ \E i \in 1..Len(wire'[l.client]) : wire'[l.client][i] = l)
                         \/ \E m \in written : m.client = l.client /\ m.kind = "unreadable" /\ m.n < l.n
                <5>1. l.client \in Clients
                    BY <1>5, ExtFacts DEF ExtTypeOK
                <5>2. \/ \E i \in 1..Len(forwarded) : forwarded[i] = l
                      \/ (Waits(l.client) /\ \E i \in 1..Len(wire[l.client]) : wire[l.client][i] = l)
                      \/ \E m \in written : m.client = l.client /\ m.kind = "unreadable" /\ m.n < l.n
                    BY <1>5, <3>2, <4>6, Zenon DEF NoneLost, AllServed, AllKept
                <5>3. CASE l.client # c
                    BY <1>6, <4>4, <5>1, <5>2, <5>3, Zenon
                <5>4. CASE /\ l.client = c /\ Waits(c)
                           /\ \E i \in 1..Len(wire[c]) : wire[c][i] = l
                    <6>1. PICK i \in 1..Len(wire[c]) : wire[c][i] = l
                        BY <5>4
                    <6>2. i # 1
                        BY <1>7, <4>1, <4>6, <6>1
                    <6>3. i - 1 \in 1..Len(wire'[c]) /\ wire'[c][i - 1] = l
                        BY <1>7, <6>1, <6>2
                    <6>4. CASE line.kind = "malformed"
                        <7>1. Waits(c)'
                            BY <1>1, <1>3, <4>1, <6>4 DEF Waits
                        <7> QED
                            BY <5>4, <6>3, <7>1
                    <6>5. CASE line.kind = "unreadable"
                        <7>1. line.n < l.n
                            BY <1>10, <6>3
                        <7> QED
                            BY <1>8, <5>4, <6>5, <7>1
                    <6> QED
                        BY <4>1, <6>4, <6>5
                <5> QED
                    BY <5>2, <5>3, <5>4, Zenon
            <4>7. peer' = peer /\ written' = written
                BY <1>3
            <4>8. AllServed'
                BY <4>2, <4>5, <4>7, Zenon DEF AllServed
            <4>9. AllKept'
                BY <1>17, <4>2, <4>6, <4>7, Zenon DEF AllKept
            <4> QED
                BY <4>8, <4>9 DEF NoneLost
        <3> QED
            BY <3>1, <3>2
    <2> QED
        BY <1>13, <1>14, <1>15, <2>1, <2>2, <2>3 DEF ExtIInv
<1>18. CASE ~shutdown /\ at' = at /\ forwarded' = Append(forwarded, line)
    <2>1. /\ Len(forwarded) + 1 \in 1..Len(forwarded') /\ forwarded'[Len(forwarded) + 1] = line
          /\ \A i \in 1..Len(forwarded) : i \in 1..Len(forwarded') /\ forwarded'[i] = forwarded[i]
          /\ \A i \in 1..Len(forwarded') :
                \/ i \in 1..Len(forwarded) /\ i < Len(forwarded) + 1 /\ forwarded'[i] = forwarded[i]
                \/ i = Len(forwarded) + 1 /\ forwarded'[i] = line
        BY <1>5, <1>8, <1>18, AppendFacts
    <2>2. ForwardedOrdered'
        <3>1. ASSUME NEW i \in 1..Len(forwarded')
              PROVE  /\ forwarded'[i] \in written /\ forwarded'[i].client <= client
                     /\ \A j \in 1..Len(wire'[forwarded'[i].client]) :
                           forwarded'[i].n < wire'[forwarded'[i].client][j].n
            <4>1. CASE i \in 1..Len(forwarded) /\ forwarded'[i] = forwarded[i]
                BY <1>16, <4>1
            <4>2. CASE forwarded'[i] = line
                <5>1. c <= client
                    BY <1>1, <1>5, ExtFacts
                <5> QED
                    BY <1>8, <1>10, <4>2, <5>1
            <4> QED
                BY <2>1, <4>1, <4>2
        <3>2. ASSUME NEW i \in 1..Len(forwarded'), NEW j \in 1..Len(forwarded'), i < j
              PROVE  \/ forwarded'[i].client < forwarded'[j].client
                     \/ /\ forwarded'[i].client = forwarded'[j].client
                        /\ forwarded'[i].n < forwarded'[j].n
            <4>1. Len(forwarded) \in Nat
                BY <1>5, ExtFacts
            <4>2. i \in 1..Len(forwarded) /\ forwarded'[i] = forwarded[i]
                BY <2>1, <3>2, <4>1
            <4>3. CASE j \in 1..Len(forwarded) /\ forwarded'[j] = forwarded[j]
                BY <1>5, <3>2, <4>2, <4>3 DEF ForwardedOrdered
            <4>4. CASE forwarded'[j] = line
                <5>1. /\ forwarded[i].client \in Nat /\ c \in Nat
                      /\ forwarded[i].client <= c
                    BY <1>1, <1>5, <1>16, <4>2, ExtFacts
                <5>2. forwarded[i].client = c => forwarded[i].n < line.n
                    BY <1>5, <1>7, <4>2 DEF ForwardedOrdered
                <5> QED
                    BY <1>8, <4>2, <4>4, <5>1, <5>2
            <4> QED
                BY <2>1, <4>3, <4>4
        <3> QED
            BY <1>3, <3>1, <3>2 DEF ForwardedOrdered
    <2>3. ServedInTurn'
        <3>1. \A i \in 1..Len(pending), j \in 1..Len(forwarded') : forwarded'[j].client < pending[i]
            BY <1>1, <1>3, <1>5, <1>8, <2>1 DEF ServedInTurn
        <3> QED
            BY <1>3, <1>5, <1>18, <3>1 DEF ServedInTurn
    <2>4. NoneLost'
        <3>1. \A d \in Clients : (Waits(d) => Waits(d)') /\ LeftBehindAt(d)' = LeftBehindAt(d)
            BY <1>3, <1>18 DEF Waits, LeftBehindAt
        <3>2. ~ListenerGone
            BY <1>3 DEF ListenerGone
        <3>3. ASSUME NEW d \in Clients, peer[d] # "unused", ~Waits(d)'
              PROVE  LeftBehindAt(d)' \/ (peer[d] = "closed" /\ wire'[d] = <<>>)
            <4>1. d # c
                BY <1>1, <1>3, <1>18, <3>3 DEF Waits
            <4> QED
                BY <1>5, <1>6, <1>18, <3>1, <3>2, <3>3, <4>1, Zenon DEF NoneLost, AllServed, AllKept
        <3>4. ASSUME NEW l \in written, l.kind = "signal"
              PROVE  \/ \E i \in 1..Len(forwarded') : forwarded'[i] = l
                     \/ (Waits(l.client)' /\ \E i \in 1..Len(wire'[l.client]) : wire'[l.client][i] = l)
                     \/ \E m \in written : m.client = l.client /\ m.kind = "unreadable" /\ m.n < l.n
            <4>1. l.client \in Clients
                BY <1>5, ExtFacts DEF ExtTypeOK
            <4>2. \/ \E i \in 1..Len(forwarded) : forwarded[i] = l
                  \/ (Waits(l.client) /\ \E i \in 1..Len(wire[l.client]) : wire[l.client][i] = l)
                  \/ \E m \in written : m.client = l.client /\ m.kind = "unreadable" /\ m.n < l.n
                BY <1>5, <1>18, <3>2, <3>4, Zenon DEF NoneLost, AllServed, AllKept
            <4>3. CASE \E i \in 1..Len(forwarded) : forwarded[i] = l
                BY <2>1, <4>3
            <4>4. CASE Waits(l.client) /\ \E i \in 1..Len(wire[l.client]) : wire[l.client][i] = l
                <5>1. CASE l.client # c
                    BY <1>6, <3>1, <4>1, <4>4, <5>1
                <5>2. CASE l.client = c
                    <6>1. PICK i \in 1..Len(wire[c]) : wire[c][i] = l
                        BY <4>4, <5>2
                    <6>2. CASE i = 1
                        BY <1>7, <2>1, <6>1, <6>2
                    <6>3. CASE i # 1
                        BY <1>7, <3>1, <4>4, <5>2, <6>1, <6>3
                    <6> QED
                        BY <6>2, <6>3
                <5> QED
                    BY <5>1, <5>2
            <4> QED
                BY <4>2, <4>3, <4>4, Zenon
        <3>5. peer' = peer /\ written' = written
            BY <1>3
        <3>6. AllServed'
            BY <3>3, <3>5, Zenon DEF AllServed
        <3>7. AllKept'
            BY <3>4, <3>5, Zenon DEF AllKept
        <3> QED
            BY <3>6, <3>7 DEF NoneLost
    <2> QED
        BY <1>13, <1>14, <1>15, <2>2, <2>3, <2>4 DEF ExtIInv
<1> QED
    BY <1>4, <1>17, <1>18

\* One step of the monitors keeps the external monitor's invariant.
LEMMA ExtStep ==
    ASSUME ExtIInv, [MonNext]_monVars
    PROVE  ExtIInv'
<1> USE DEF otherVars
<1>1. ASSUME UNCHANGED extVars PROVE ExtIInv'
    <2>1. UNCHANGED <<shutdown, transport, at, client, clientVars, forwarded>>
        BY <1>1 DEF extVars, clientVars
    <2>2. /\ shutdown' \in BOOLEAN /\ at' \in {"accepting", "reading", "returned"}
          /\ at' = "accepting" => transport = "socket"
        BY <2>1 DEF ExtIInv, ExtTypeOK, ServedInTurn
    <2> QED
        BY <2>1, <2>2, AtRestIInv
<1>2. CASE Client
    BY <1>2, ClientConnectIInv, ClientWriteIInv, ClientCloseIInv DEF Client, ClientActs
<1>3. CASE Shutdown
    <2>1. shutdown' = TRUE /\ UNCHANGED <<transport, at, client, clientVars, forwarded>>
        BY <1>3 DEF Shutdown
    <2>2. /\ at' \in {"accepting", "reading", "returned"}
          /\ at' = "accepting" => transport = "socket"
        BY <2>1 DEF ExtIInv, ExtTypeOK, ServedInTurn
    <2> QED
        BY <2>1, <2>2, AtRestIInv
<1>4. CASE External
    <2>1. CASE StopAccepting \/ AcceptError
        <3>1. /\ at = "accepting" /\ at' = "returned"
              /\ UNCHANGED <<shutdown, transport, client, clientVars, forwarded>>
            BY <2>1 DEF StopAccepting, AcceptError
        <3>2. transport = "socket" /\ shutdown' \in BOOLEAN /\ shutdown' = shutdown
            BY <3>1 DEF ExtIInv, ExtTypeOK, ServedInTurn
        <3>3. ListenerGone'
            BY <3>1, <3>2 DEF ListenerGone
        <3> QED
            BY <3>1, <3>2, <3>3, AtRestIInv
    <2> QED
        BY <1>4, <2>1, AcceptIInv, ReadLineIInv, ReadEofIInv DEF External, ExternalThread
<1>5. CASE Stop \/ MemoryPoll \/ ThermalPoll \/ ComputePoll \/ ComputeReadFails \/ EnergyPoll
    <2>1. UNCHANGED extVars
        BY <1>5 DEF Stop, MemoryPoll, ThermalPoll, ComputePoll, ComputeReadFails, EnergyPoll
    <2> QED
        BY <1>1, <2>1
<1>6. CASE Reader \/ Prints \/ Fails \/ Drop
    <2>1. UNCHANGED extVars
        BY <1>6 DEF Reader, Prints, Fails, Drop, notGpuVars
    <2> QED
        BY <1>1, <2>1
<1>7. CASE UNCHANGED monVars
    <2>1. UNCHANGED extVars
        BY <1>7 DEF monVars
    <2> QED
        BY <1>1, <2>1
<1> QED
    BY <1>2, <1>3, <1>4, <1>5, <1>6, <1>7 DEF MonNext, Thread

\* It holds in every reachable state.
LEMMA ExtInvariance == MonSpec => []ExtIInv
<1>1. MonInit => ExtIInv
    BY ExtInitIInv DEF MonInit
<1> QED
    BY <1>1, ExtStep, PTL DEF MonSpec

\* What the thread waits for, in the words of the property.
LEMMA ExtIInvForwards == ExtIInv => SignalsForwarded
<1> SUFFICES ASSUME ExtIInv PROVE SignalsForwarded
    OBVIOUS
<1>1. /\ ExtTypeOK /\ ForwardedOrdered /\ AllKept
      /\ forwarded \in Seq(Line) /\ pending \in Seq(Clients) /\ written \in SUBSET Line
    BY DEF ExtIInv, ExtTypeOK, NoneLost
<1>2. DOMAIN forwarded = 1..Len(forwarded) /\ DOMAIN pending = 1..Len(pending)
    BY <1>1, LenProperties
<1>3. \A l \in written : l.client \in Clients /\ DOMAIN wire[l.client] = 1..Len(wire[l.client])
    BY <1>1, ExtFacts, LenProperties
<1>4. \A c \in Clients : Waits(c) => ToBeRead(c)
    BY <1>2 DEF Waits, ToBeRead
<1>5. \A i, j \in DOMAIN forwarded :
          i < j => \/ forwarded[i].client < forwarded[j].client
                   \/ forwarded[i].client = forwarded[j].client /\ forwarded[i].n < forwarded[j].n
    BY <1>1, <1>2 DEF ForwardedOrdered
<1>6. ASSUME NEW l \in written, l.kind = "signal", ~shutdown, ~ListenerGone
      PROVE  \/ \E i \in DOMAIN forwarded : forwarded[i] = l
             \/ ToBeRead(l.client) /\ \E i \in DOMAIN wire[l.client] : wire[l.client][i] = l
             \/ \E m \in written : m.client = l.client /\ m.kind = "unreadable" /\ m.n < l.n
    BY <1>1, <1>2, <1>3, <1>4, <1>6, Zenon DEF AllKept
<1> QED
    BY <1>5, <1>6, Zenon DEF SignalsForwarded, ListenerGone

-----------------------------------------------------------------------------
(***************************************************************************)
(* Every monitor drives its evaluator only through evaluate(), with        *)
(* readings: what is proved of the evaluator alone holds in the monitors.  *)
(***************************************************************************)
THEOREM MonitorsRefineEvaluator == MonSpec => Spec
BY SensorInvariance, PTL

(***************************************************************************)
(* After a recovery no monitor's level goes up again without a swing of    *)
(* more than the hysteresis, whatever else its thread does in between.     *)
(***************************************************************************)
THEOREM MonitorsNeverFlap == MonSpec => []NeverUnderstates /\ []OverstatesWithinBand /\ NoFlapping
BY SensorInvariance, NeverUnderstated, OverstatedWithinBand, NeverFlaps, PTL

(***************************************************************************)
(* GlitchForgotten for every growth of the counters: prev_snapshot is      *)
(* replaced at every successful read, so a usage that is no percentage     *)
(* comes from a glitch within its own interval.                            *)
(***************************************************************************)
THEOREM GlitchAlwaysForgotten == MonSpec => []GlitchForgotten
BY SensorInvariance, PTL DEF SensorIInv, Measured

(***************************************************************************)
(* GpuReadingGenuine for every load and every interleaving of the reader's *)
(* relaxed stores with the polls.                                          *)
(***************************************************************************)
THEOREM GpuReadingAlwaysGenuine == MonSpec => GpuReadingGenuine
<1> DEFINE Genuine ==
        kind = "compute" /\ provider = "jetson" /\ sent' # sent =>
          /\ last_gpu' \in 0..100
          /\ last_gpu' \in (IF newest = NoReading THEN {0}
                             ELSE IF AllVisible THEN {newest} ELSE samples \cup {0})
<1>1. ASSUME GpuIInv, [MonNext]_monVars PROVE [Genuine]_monVars
    <2> SUFFICES ASSUME MonNext, kind = "compute", provider = "jetson", sent' # sent
                 PROVE  /\ last_gpu' \in 0..100
                        /\ last_gpu' \in (IF newest = NoReading THEN {0}
                                           ELSE IF AllVisible THEN {newest} ELSE samples \cup {0})
        BY <1>1
    <2>1. ComputePoll
        BY DEF MonNext, Thread, Stop, MemoryPoll, ThermalPoll, EnergyPoll, ComputeReadFails, External,
               Client, Shutdown, Reader, Prints, Fails, Drop, notGpuVars, Polls
    <2>2. PICK gpu \in read_gpu : last_gpu' = gpu
        BY <2>1 DEF ComputePoll, ComputeReport
    <2> QED
        BY <1>1, <2>2, GpuReadIsPercentage, GpuReadIsGenuine
<1> QED
    BY <1>1, SensorInvariance, PTL DEF MonSpec, GpuReadingGenuine

(***************************************************************************)
(* SignalsForwarded for any number of clients and lines: what is written   *)
(* is forwarded in order, and only a shutdown, an unreadable line or a     *)
(* listener that failed loses a signal.                                    *)
(***************************************************************************)
THEOREM SignalsAlwaysForwarded == MonSpec => []SignalsForwarded
BY ExtInvariance, ExtIInvForwards, PTL

(***************************************************************************)
(* SignalJustified for every configuration in which a full battery counts  *)
(* as Normal, which "Reset evaluator by evaluating a very high value"      *)
(* takes for granted.                                                      *)
(***************************************************************************)
THEOREM SignalAlwaysJustified ==
    ASSUME FullBatteryIsNormal
    PROVE  MonSpec => []SignalJustified
<1>1. SensorIInv /\ GpuIInv /\ ExtIInv => SignalJustified
    BY DEF SensorIInv, SensorTypeOK, GpuIInv, ExtIInv, MonTypeOK, SignalJustified, Justified
<1> QED
    BY <1>1, SensorInvariance, ExtInvariance, PTL

=============================================================================
