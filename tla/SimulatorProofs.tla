-------------------------- MODULE SimulatorProofs ---------------------------
(***************************************************************************)
(* The deduplicator for every set of command batches, every cooldown and   *)
(* every sequence of calls, with its refinement of Dedup; how the          *)
(* simulator uses it; the loading of scenarios for any number of files     *)
(* that extend each other in any way; and the simulator itself, for every  *)
(* scenario, policy and sequence of calls: its engine, the coherence of    *)
(* the trajectory and the schedule of its events.                          *)
(***************************************************************************)
EXTENDS Simulator, FiniteSetTheorems, WellFoundedInduction, TLAPS

-----------------------------------------------------------------------------
(* DirectiveDeduplicator.                                                  *)

(***************************************************************************)
(* The inductive invariant: the two Option fields describe the last        *)
(* emission, which lies in the past, and are None together before it.      *)
(***************************************************************************)
Latest == emitted[Len(emitted)]

FieldsTogether ==
    /\ last_commands = NoCommands <=> emitted = <<>>
    /\ last_sent_at = Never <=> emitted = <<>>

FieldsCurrent ==
    emitted # <<>> => /\ Latest.commands = last_commands
                      /\ Latest.at = last_sent_at
                      /\ last_sent_at <= now

AskedIsLast == asked = last_commands

IInv == TypeOK /\ FieldsTogether /\ FieldsCurrent /\ AskedIsLast /\ RepeatsSpaced

\* A deduplicator that has passed nothing on satisfies the inductive invariant.
LEMMA InitIInv == Init => IInv
BY DEF Init, IInv, TypeOK, FieldsTogether, FieldsCurrent, AskedIsLast, RepeatsSpaced,
       Never, Emission

\* A batch that is passed on is recorded with its time.
LEMMA PassIInv ==
    ASSUME IInv, NEW c \in Commands, Pass(c)
    PROVE  IInv'
<1> DEFINE e == [commands |-> c, at |-> now]
<1>1. emitted' = Append(emitted, e) /\ asked' = c /\ now' = now
    BY DEF Pass
<1>2. last_commands' = c /\ last_sent_at' = now
    BY DEF Pass, Record
<1>3. emitted \in Seq(Emission) /\ e \in Emission /\ now \in Nat
    BY DEF IInv, TypeOK, Emission
<1>4. /\ Len(emitted') = Len(emitted) + 1 /\ emitted' # <<>>
      /\ emitted'[Len(emitted')] = e
      /\ \A i \in 1..Len(emitted) : emitted'[i] = emitted[i]
      /\ emitted' \in Seq(Emission)
    BY <1>1, <1>3
<1>5. TypeOK'
    BY <1>1, <1>2, <1>3, <1>4 DEF TypeOK
<1>6. FieldsTogether'
    BY <1>2, <1>3, <1>4, DeduplicatorAssumption DEF FieldsTogether, Never
<1>7. FieldsCurrent' /\ AskedIsLast'
    BY <1>1, <1>2, <1>3, <1>4 DEF FieldsCurrent, AskedIsLast, Latest
<1>8. RepeatsSpaced'
    <2> SUFFICES ASSUME NEW i \in 1..(Len(emitted') - 1),
                        emitted'[i].commands = emitted'[i + 1].commands
                 PROVE  emitted'[i + 1].at - emitted'[i].at >= Cooldown
        BY DEF RepeatsSpaced
    <2>1. Len(emitted) \in Nat /\ i \in 1..Len(emitted)
        BY <1>3, <1>4
    <2>2. CASE i < Len(emitted)
        <3>1. i \in 1..(Len(emitted) - 1) /\ i + 1 \in 1..Len(emitted)
            BY <2>1, <2>2
        <3> QED
            BY <3>1, <2>1, <1>4 DEF IInv, RepeatsSpaced
    <2>3. CASE i = Len(emitted)
        <3>1. emitted # <<>> /\ emitted'[i] = Latest /\ emitted'[i + 1] = e
            BY <2>1, <2>3, <1>3, <1>4 DEF Latest
        <3>2. last_commands = c /\ Latest.at = last_sent_at
            BY <3>1 DEF IInv, FieldsCurrent
        <3>3. cooldown_elapsed
            BY <3>2 DEF Pass, is_dup
        <3> QED
            BY <3>1, <3>2, <3>3 DEF cooldown_elapsed
    <2> QED
        BY <2>1, <2>2, <2>3
<1> QED
    BY <1>5, <1>6, <1>7, <1>8 DEF IInv

\* A batch that is suppressed equals the one recorded.
LEMMA SuppressIInv ==
    ASSUME IInv, NEW c \in Commands, Suppress(c)
    PROVE  IInv'
BY DEF Suppress, is_dup, IInv, TypeOK, FieldsTogether, FieldsCurrent, AskedIsLast,
       RepeatsSpaced, Latest

\* The passing of time only ages the record.
LEMMA TickIInv == ASSUME IInv, Tick PROVE IInv'
<1>1. now \in Nat /\ now' = now + 1 /\ UNCHANGED <<last_commands, last_sent_at, asked, emitted>>
    BY DEF Tick, IInv, TypeOK
<1>2. TypeOK' /\ FieldsTogether' /\ AskedIsLast' /\ RepeatsSpaced'
    BY <1>1 DEF IInv, TypeOK, FieldsTogether, AskedIsLast, RepeatsSpaced
<1>3. FieldsCurrent'
    BY <1>1 DEF IInv, TypeOK, FieldsTogether, FieldsCurrent, Latest, Never
<1> QED
    BY <1>2, <1>3 DEF IInv

\* The invariant is inductive.
LEMMA NextIInv == IInv /\ [Next]_vars => IInv'
<1> SUFFICES ASSUME IInv, [Next]_vars PROVE IInv'
    OBVIOUS
<1>1. CASE UNCHANGED vars
    BY <1>1 DEF vars, IInv, TypeOK, FieldsTogether, FieldsCurrent, AskedIsLast,
                RepeatsSpaced, Latest
<1> QED
    BY <1>1, TickIInv, PassIInv, SuppressIInv DEF Next

\* It holds in every reachable state.
LEMMA Invariance == Spec => []IInv
BY InitIInv, NextIInv, PTL DEF Spec

-----------------------------------------------------------------------------
(***************************************************************************)
(* The Option fields of DirectiveDeduplicator stay well typed.             *)
(***************************************************************************)
THEOREM DedupTypeCorrect == Spec => []TypeOK
BY Invariance, PTL DEF IInv

(***************************************************************************)
(* Equal directives that follow each other are a cooldown apart.           *)
(***************************************************************************)
THEOREM RepeatsAlwaysSpaced == Spec => []RepeatsSpaced
BY Invariance, PTL DEF IInv

(***************************************************************************)
(* The last directive let through carries the batch the policy asked for   *)
(* last, whatever was suppressed in between.                               *)
(***************************************************************************)
THEOREM LastAskedAlwaysWins == Spec => []LastAskedWins
<1>1. IInv => LastAskedWins
    BY DEF IInv, FieldsTogether, FieldsCurrent, AskedIsLast, LastAskedWins, Latest
<1> QED
    BY <1>1, Invariance, PTL

-----------------------------------------------------------------------------
(***************************************************************************)
(* The deduplicator with timestamps implements the abstract one: what the  *)
(* main loop is composed with is what pipeline.rs computes.                *)
(***************************************************************************)
THEOREM RefinesDedup == Spec => ImplementsDedup
<1> DEFINE age == IF Elapsed < Cooldown THEN Elapsed ELSE Cooldown
<1>1. Init => Abstract!Init
    BY DeduplicatorAssumption DEF Init, Abstract!Init, Elapsed, Never
<1>2. ASSUME IInv, [Next]_vars PROVE [Abstract!Next]_Abstract!vars
    <2>1. /\ now \in Nat /\ Cooldown \in Nat
          /\ last_sent_at \in Nat \cup {Never}
          /\ last_sent_at # Never => last_sent_at <= now
          /\ last_sent_at = Never <=> last_commands = NoCommands
        BY <1>2, DeduplicatorAssumption DEF IInv, TypeOK, FieldsTogether, FieldsCurrent
    <2>2. ASSUME NEW c \in Commands, Pass(c) PROVE Abstract!Pass(c)
        <3>1. last_commands' = c /\ last_sent_at' = now /\ now' = now
            BY <2>2 DEF Pass, Record
        <3>2. age' = 0
            BY <3>1, <2>1 DEF Elapsed, Never
        <3>3. last_commands = c => ~(age < Cooldown)
            BY <2>1, <2>2, DeduplicatorAssumption DEF Pass, is_dup, cooldown_elapsed, Elapsed
        <3> QED
            BY <3>1, <3>2, <3>3 DEF Abstract!Pass, Abstract!Suppressed
    <2>3. ASSUME NEW c \in Commands, Suppress(c) PROVE Abstract!Suppress(c)
        <3>1. last_commands = c /\ last_sent_at # Never /\ ~(now - last_sent_at >= Cooldown)
            BY <2>1, <2>3, DeduplicatorAssumption DEF Suppress, is_dup, cooldown_elapsed
        <3>2. age < Cooldown
            BY <3>1, <2>1 DEF Elapsed, Never
        <3>3. UNCHANGED <<last_commands, age>>
            BY <2>3 DEF Suppress, Elapsed
        <3> QED
            BY <3>1, <3>2, <3>3 DEF Abstract!Suppress, Abstract!Suppressed, Abstract!vars
    <2>4. ASSUME Tick PROVE Abstract!Tick
        <3>1. now' = now + 1 /\ UNCHANGED <<last_commands, last_sent_at>>
            BY <2>4 DEF Tick
        <3>2. Elapsed \in Nat /\ Elapsed' = Elapsed + 1
            BY <3>1, <2>1 DEF Elapsed, Never
        <3>3. age' = IF age < Cooldown THEN age + 1 ELSE age
            BY <3>2, <2>1
        <3> QED
            BY <3>1, <3>3 DEF Abstract!Tick
    <2>5. ASSUME UNCHANGED vars PROVE UNCHANGED Abstract!vars
        BY <2>5 DEF vars, Abstract!vars, Elapsed
    <2> QED
        BY <1>2, <2>2, <2>3, <2>4, <2>5 DEF Next, Abstract!Next
<1> QED
    BY <1>1, <1>2, Invariance, PTL DEF Spec, ImplementsDedup, Abstract!Spec

-----------------------------------------------------------------------------
(* The deduplicator in the simulator.                                      *)

\* The policy's answers are batches the deduplicator knows.
AnswersKnown == cfg.answers \subseteq Commands

\* Every step of the simulator is a step of the deduplicator or leaves it alone.
LEMMA SimStepsDedup ==
    ASSUME AnswersKnown, [SimNext]_allVars
    PROVE  [Next]_vars
<1>1. CASE UNCHANGED allVars
    BY <1>1 DEF allVars
<1>2. CASE Load \/ Construct \/ StartCall \/ EndCall \/ StartTick \/ FinishTick \/ FailTick
    BY <1>2 DEF Load, Construct, StartCall, EndCall, StartTick, FinishTick, FailTick
<1>3. CASE HandleHeartbeat \/ HandleObservation \/ HandleInjection
    BY <1>3 DEF HandleHeartbeat, HandleObservation, HandleInjection
<1>4. CASE HandleSignal
    <2>1. UNCHANGED vars \/ \E c \in cfg.answers : Pass(c) \/ Suppress(c)
        BY <1>4 DEF HandleSignal, NoAnswer, Obey, Withhold
    <2> QED
        BY <2>1 DEF AnswersKnown, Next
<1>5. CASE PassTime
    BY <1>5 DEF PassTime, Next
<1> QED
    BY <1>1, <1>2, <1>3, <1>4, <1>5 DEF SimNext, Events

\* The scenario changes only when one is constructed.
LEMMA SimKeepsAnswers ==
    ASSUME \A doc : ScenarioOf(doc).answers \subseteq Commands, AnswersKnown, [SimNext]_allVars
    PROVE  AnswersKnown'
<1>1. cfg' = cfg \/ cfg' = ScenarioOf(merged)
    BY DEF SimNext, Events, allVars, simVars, Load, Construct, StartCall, EndCall, StartTick,
           HandleHeartbeat, HandleObservation, HandleInjection, HandleSignal, PassTime,
           FinishTick, FailTick
<1> QED
    BY <1>1 DEF AnswersKnown

(***************************************************************************)
(* The simulator uses the deduplicator as its specification allows: time   *)
(* only passes and each answer of the policy is passed on or suppressed,   *)
(* in whatever order the ticks handle their events.                        *)
(***************************************************************************)
THEOREM SimUsesDeduplicator ==
    ASSUME \A doc : ScenarioOf(doc).answers \subseteq Commands
    PROVE  SimSpec => Spec
<1>1. SimInit => Init /\ AnswersKnown
    BY SimulatorAssumption DEF SimInit, AnswersKnown, WellFormed
<1>2. AnswersKnown /\ [SimNext]_allVars => AnswersKnown' /\ [Next]_vars
    BY SimKeepsAnswers, SimStepsDedup
<1> QED
    BY <1>1, <1>2, PTL DEF SimSpec, Spec

(***************************************************************************)
(* So in simulated time, over every scenario and policy, equal directives  *)
(* in a row are a cooldown apart and the last one is the last one asked    *)
(* for.                                                                    *)
(***************************************************************************)
THEOREM SimulatedDirectivesSpaced ==
    ASSUME \A doc : ScenarioOf(doc).answers \subseteq Commands
    PROVE  SimSpec => []RepeatsSpaced /\ []LastAskedWins /\ ImplementsDedup
BY SimUsesDeduplicator, RepeatsAlwaysSpaced, LastAskedAlwaysWins, RefinesDedup, PTL

-----------------------------------------------------------------------------
(* Loading a scenario.                                                     *)

\* What the files of a chain hold of a section, the nearest file first.
Column(c, s) == [j \in 1..Len(c) |-> document[c[j]][s]]

IsValue(v) == v.is \in {"absent", "plain", "map"} /\ (v.is = "map" => v.m \in [SubKeys -> Nat])

\* The j-th value of a column gives a key its value, seen from the i-th.
Gives(h, i, j, k) ==
    /\ h[j].is = "map" /\ h[j].m[k] # 0
    /\ \A l \in i..(j - 1) : h[l].is # "plain"

\* What a merged section says of the values from the i-th of the n on.
MergedAbsent(v, h, i, n) == v.is = "absent" => \A j \in i..n : h[j].is = "absent"

MergedPlain(v, h, i, n) ==
    v.is = "plain" => \E j \in i..n : h[j].is = "plain" /\ \A l \in i..(j - 1) : h[l].is = "absent"

MergedKey(x, h, i, n, k) ==
    /\ x = 0 => \A j \in i..n : ~Gives(h, i, j, k)
    /\ x # 0 => \E j \in i..n : Gives(h, i, j, k) /\ h[j].m[k] = x /\ \A l \in i..(j - 1) : ~Gives(h, i, l, k)

IsMerged(v, h, i, n) ==
    /\ IsValue(v)
    /\ MergedAbsent(v, h, i, n) /\ MergedPlain(v, h, i, n)
    /\ v.is = "map" => \A k \in SubKeys : MergedKey(v.m[k], h, i, n, k)

MergedFrom(c, i) == \A s \in Sections : IsMerged(merged[s], Column(c, s), i, Len(c))

(***************************************************************************)
(* The inductive invariant of loading: the stack is a path of files that   *)
(* extend each other, without a file twice, and the beginning of every     *)
(* chain of the root; once it unwinds, the merged document is that of the  *)
(* rest of the chain.                                                      *)
(***************************************************************************)
LoadTyped ==
    /\ parent \in [Files -> Files \cup {NoParent, Missing}]
    /\ \A f \in Files : \A s \in Sections : IsValue(document[f][s])
    /\ target \in Files \cup {NoParent, Missing}
    /\ stack \in Seq(Files)

StackIsPath ==
    /\ stack # <<>> => stack[1] = Root
    /\ \A i \in 1..(Len(stack) - 1) : stack[i + 1] = parent[stack[i]]
    /\ \A i, j \in 1..Len(stack) : stack[i] = stack[j] => i = j
    /\ visited = {stack[i] : i \in 1..Len(stack)}

Begins(c) == Len(stack) <= Len(c) /\ \A i \in 1..Len(stack) : stack[i] = c[i]

Descending ==
    target # NoParent => target = IF stack = <<>> THEN Root ELSE parent[stack[Len(stack)]]

EndsPlainly(c) == parent[c[Len(c)]] = NoParent

Unwinding ==
    outcome = "loading" /\ target = NoParent =>
        /\ Chains # {}
        /\ \A c \in Chains : EndsPlainly(c) /\ (Len(stack) = Len(c) \/ MergedFrom(c, Len(stack) + 1))

Concluded ==
    outcome \in {"loaded", "Parse", "Validation", "Expression"} =>
        /\ \A c \in Chains : EndsPlainly(c) /\ MergedFrom(c, 1)
        /\ outcome = "loaded" => Parses(merged) /\ Valid(merged)

Refused ==
    /\ outcome = "CircularExtends" => \A c \in Chains : parent[c[Len(c)]] \in Files
    /\ outcome \in {"Io", "given"} => \A c \in Chains : parent[c[Len(c)]] \notin Files

LoadOutcome ==
    /\ outcome \in {"loading", "given", "loaded", "CircularExtends", "Io", "Parse", "Validation", "Expression"}
    /\ outcome # "loading" => Chains # {}

LoadIInv ==
    /\ LoadTyped /\ StackIsPath /\ (\A c \in Chains : Begins(c)) /\ Descending
    /\ Unwinding /\ LoadOutcome /\ Concluded /\ Refused

-----------------------------------------------------------------------------
\* The far end of a chain is what its last file holds.
LEMMA MergeLast ==
    ASSUME NEW h, NEW n \in Nat \ {0}, IsValue(h[n])
    PROVE  IsMerged(h[n], h, n, n)
<1>1. n..n = {n} /\ n..(n - 1) = {}
    OBVIOUS
<1>2. MergedAbsent(h[n], h, n, n) /\ MergedPlain(h[n], h, n, n)
    BY <1>1 DEF MergedAbsent, MergedPlain
<1>3. ASSUME h[n].is = "map", NEW k \in SubKeys PROVE MergedKey(h[n].m[k], h, n, n, k)
    BY <1>1, <1>3 DEF MergedKey, Gives
<1> QED
    BY <1>2, <1>3 DEF IsMerged

\* A nearer value laid over the merge of the farther ones: nothing, something that is not a
\* mapping, or a mapping, which is merged key by key with a mapping below.
LEMMA MergeOne ==
    ASSUME NEW h, NEW n \in Nat, NEW i \in 1..(n - 1), IsValue(h[i]),
           NEW v, IsMerged(v, h, i + 1, n)
    PROVE  IsMerged(merge_value(v, h[i]), h, i, n)
<1> DEFINE o == h[i]
           w == merge_value(v, h[i])
<1>0. /\ i..n = {i} \cup ((i + 1)..n)
      /\ \A j \in (i + 1)..n : i..(j - 1) = {i} \cup ((i + 1)..(j - 1))
      /\ i..(i - 1) = {} /\ i \in i..n /\ i \in Int
    OBVIOUS
<1>1. CASE o.is = "absent"
    <2>1. w = v
        BY <1>1 DEF merge_value
    <2>2. MergedAbsent(v, h, i, n) /\ MergedPlain(v, h, i, n)
        BY <1>0, <1>1 DEF IsMerged, MergedAbsent, MergedPlain
    <2>3. \A k \in SubKeys : \A j \in (i + 1)..n : Gives(h, i, j, k) <=> Gives(h, i + 1, j, k)
        BY <1>0, <1>1 DEF Gives
    <2>4. \A k \in SubKeys : ~Gives(h, i, i, k)
        BY <1>1 DEF Gives
    <2>5. ASSUME v.is = "map", NEW k \in SubKeys PROVE MergedKey(v.m[k], h, i, n, k)
        <3>1. MergedKey(v.m[k], h, i + 1, n, k)
            BY <2>5 DEF IsMerged
        <3>2. v.m[k] = 0 => \A j \in i..n : ~Gives(h, i, j, k)
            BY <1>0, <2>3, <2>4, <3>1 DEF MergedKey
        <3>3. ASSUME v.m[k] # 0
              PROVE  \E j \in i..n : Gives(h, i, j, k) /\ h[j].m[k] = v.m[k]
                                      /\ \A l \in i..(j - 1) : ~Gives(h, i, l, k)
            <4>1. PICK j \in (i + 1)..n : /\ Gives(h, i + 1, j, k) /\ h[j].m[k] = v.m[k]
                                          /\ \A l \in (i + 1)..(j - 1) : ~Gives(h, i + 1, l, k)
                BY <3>1, <3>3 DEF MergedKey
            <4>2. \A l \in i..(j - 1) : l = i \/ (l \in (i + 1)..(j - 1) /\ l \in (i + 1)..n)
                OBVIOUS
            <4> QED
                BY <1>0, <2>3, <2>4, <4>1, <4>2
        <3> QED
            BY <3>2, <3>3 DEF MergedKey
    <2> QED
        BY <2>1, <2>2, <2>5 DEF IsMerged
<1>2. CASE o.is = "plain"
    <2>1. w = o
        BY <1>2 DEF merge_value
    <2> QED
        BY <1>0, <1>2, <2>1 DEF IsMerged, MergedAbsent, MergedPlain
<1>3. CASE o.is = "map" /\ v.is # "map"
    <2>1. w = o
        BY <1>3 DEF merge_value
    <2>2. ASSUME NEW k \in SubKeys, NEW j \in (i + 1)..n PROVE ~Gives(h, i, j, k)
        <3>1. CASE v.is = "absent"
            BY <3>1 DEF IsMerged, MergedAbsent, Gives
        <3>2. CASE v.is = "plain"
            <4>1. PICK p \in (i + 1)..n : h[p].is = "plain" /\ \A l \in (i + 1)..(p - 1) : h[l].is = "absent"
                BY <3>2 DEF IsMerged, MergedPlain
            <4>2. j = p \/ j \in (i + 1)..(p - 1) \/ p \in i..(j - 1)
                OBVIOUS
            <4> QED
                BY <4>1, <4>2 DEF Gives
        <3> QED
            BY <1>3, <3>1, <3>2 DEF IsMerged, IsValue
    <2>3. ASSUME NEW k \in SubKeys PROVE MergedKey(o.m[k], h, i, n, k)
        <3>1. CASE o.m[k] = 0
            BY <1>0, <2>2, <3>1 DEF MergedKey, Gives
        <3>2. CASE o.m[k] # 0
            BY <1>0, <1>3, <3>2 DEF MergedKey, Gives
        <3> QED
            BY <3>1, <3>2
    <2> QED
        BY <1>3, <2>1, <2>3 DEF IsMerged, MergedAbsent, MergedPlain
<1>4. CASE o.is = "map" /\ v.is = "map"
    <2> DEFINE m == [k \in SubKeys |-> IF o.m[k] = 0 THEN v.m[k] ELSE o.m[k]]
    <2>1. w.is = "map" /\ w.m = m
        BY <1>4 DEF merge_value, Map
    <2>2. m \in [SubKeys -> Nat]
        BY <1>4 DEF IsMerged, IsValue
    <2>3. \A k \in SubKeys : \A j \in (i + 1)..n : Gives(h, i, j, k) <=> Gives(h, i + 1, j, k)
        BY <1>0, <1>4 DEF Gives
    <2>4. ASSUME NEW k \in SubKeys PROVE MergedKey(m[k], h, i, n, k)
        <3>1. CASE o.m[k] # 0
            BY <1>0, <1>4, <3>1 DEF MergedKey, Gives
        <3>2. CASE o.m[k] = 0
            <4>1. m[k] = v.m[k] /\ MergedKey(v.m[k], h, i + 1, n, k)
                BY <1>4, <3>2 DEF IsMerged
            <4>2. ~Gives(h, i, i, k)
                BY <3>2 DEF Gives
            <4>3. v.m[k] = 0 => \A j \in i..n : ~Gives(h, i, j, k)
                BY <1>0, <2>3, <4>1, <4>2 DEF MergedKey
            <4>4. ASSUME v.m[k] # 0
                  PROVE  \E j \in i..n : Gives(h, i, j, k) /\ h[j].m[k] = v.m[k]
                                          /\ \A l \in i..(j - 1) : ~Gives(h, i, l, k)
                <5>1. PICK j \in (i + 1)..n : /\ Gives(h, i + 1, j, k) /\ h[j].m[k] = v.m[k]
                                              /\ \A l \in (i + 1)..(j - 1) : ~Gives(h, i + 1, l, k)
                    BY <4>1, <4>4 DEF MergedKey
                <5>2. \A l \in i..(j - 1) : l = i \/ (l \in (i + 1)..(j - 1) /\ l \in (i + 1)..n)
                    OBVIOUS
                <5> QED
                    BY <1>0, <2>3, <4>2, <5>1, <5>2
            <4> QED
                BY <4>1, <4>3, <4>4 DEF MergedKey
        <3> QED
            BY <3>1, <3>2
    <2> QED
        BY <2>1, <2>2, <2>4 DEF IsMerged, IsValue, MergedAbsent, MergedPlain
<1> QED
    BY <1>1, <1>2, <1>3, <1>4 DEF IsValue

\* A chain as a sequence of files, each extended by the one before.
LEMMA ChainFacts ==
    ASSUME NEW c \in Chains
    PROVE  /\ Len(c) \in Nat \ {0} /\ c \in [1..Len(c) -> Files] /\ c[Len(c)] \in Files
           /\ IsChain(c)
<1>1. PICK n \in 1..Cardinality(Files) : c \in [1..n -> Files]
    BY DEF Chains
<1>2. Cardinality(Files) \in Nat
    BY FS_CardinalityType, ScenarioConfigAssumption
<1>3. n \in Nat \ {0}
    BY <1>2
<1>4. Len(c) = n
    BY <1>1, <1>3
<1> QED
    BY <1>1, <1>3, <1>4 DEF Chains

\* The stack is a chain when what it leads to is no file, or one it holds.
LEMMA StackIsChain ==
    ASSUME LoadTyped, StackIsPath, stack # <<>>,
           parent[stack[Len(stack)]] \in Files => parent[stack[Len(stack)]] \in visited
    PROVE  stack \in Chains
<1> DEFINE n == Len(stack)
<1>1. n \in Nat \ {0} /\ stack \in [1..n -> Files]
    BY DEF LoadTyped
<1>2. 1..n \in SUBSET Int /\ IsFiniteSet(1..n) /\ Cardinality(1..n) = n
    <2>1. 1 \in Int /\ n \in Int
        BY <1>1
    <2> QED
        BY <1>1, <2>1, FS_Interval
<1>3. stack \in Injection(1..n, Files)
    BY <1>1 DEF Injection, IsInjective, StackIsPath
<1>4. n <= Cardinality(Files)
    BY <1>2, <1>3, FS_Injection, ScenarioConfigAssumption
<1>5. n \in 1..Cardinality(Files)
    BY <1>1, <1>4, FS_CardinalityType, ScenarioConfigAssumption
<1>6. IsChain(stack)
    BY DEF IsChain, StackIsPath
<1> QED
    BY <1>1, <1>5, <1>6 DEF Chains

\* Where a chain that the stack begins goes on after it.
LEMMA ChainBeyond ==
    ASSUME LoadTyped, StackIsPath, stack # <<>>, NEW c \in Chains, Begins(c)
    PROVE  LET next == parent[stack[Len(stack)]]
           IN  \/ /\ Len(c) = Len(stack) /\ c[Len(c)] = stack[Len(stack)]
                  /\ next \in Files => next \in visited
               \/ Len(c) > Len(stack) /\ c[Len(stack) + 1] = next /\ next \in Files /\ next \notin visited
<1> DEFINE n == Len(stack)
           next == parent[stack[n]]
<1>1. /\ Len(c) \in Nat \ {0} /\ c \in [1..Len(c) -> Files] /\ IsChain(c)
    BY ChainFacts
<1>2. n \in Nat \ {0} /\ n <= Len(c) /\ \A i \in 1..n : stack[i] = c[i]
    BY DEF LoadTyped, Begins
<1>3. CASE Len(c) = n
    <2>1. c[n] = stack[n]
        BY <1>2
    <2>2. next \in Files => \E i \in 1..n : c[i] = next
        BY <1>1, <1>3, <2>1 DEF IsChain
    <2> QED
        BY <1>2, <1>3, <2>1, <2>2 DEF StackIsPath
<1>4. CASE Len(c) > n
    <2>1. n \in 1..(Len(c) - 1) /\ n + 1 \in 1..Len(c) /\ c[n] = stack[n]
        BY <1>1, <1>2, <1>4
    <2>2. c[n + 1] = next /\ c[n + 1] \in Files
        BY <1>1, <2>1 DEF IsChain
    <2>3. \A i \in 1..n : c[i] # c[n + 1]
        <3> SUFFICES ASSUME NEW i \in 1..n, c[i] = c[n + 1] PROVE FALSE
            OBVIOUS
        <3>1. i \in 1..Len(c) /\ i # n + 1
            BY <1>1, <1>2
        <3> QED
            BY <1>1, <2>1, <3>1 DEF IsChain
    <2> QED
        BY <1>2, <1>4, <2>2, <2>3 DEF StackIsPath
<1> QED
    BY <1>1, <1>2, <1>3, <1>4

\* The chains depend on what extends what alone.
LEMMA ChainsKept ==
    ASSUME parent' = parent
    PROVE  Chains' = Chains
BY DEF Chains, IsChain

\* One more file on the stack.
LEMMA PushLoadIInv ==
    ASSUME LoadIInv, outcome = "loading", target \in Files, target \notin visited,
           stack' = Append(stack, target), visited' = visited \cup {target},
           target' = parent[target], UNCHANGED <<parent, document, merged, outcome>>
    PROVE  LoadIInv'
<1> DEFINE n == Len(stack)
<1>1. /\ LoadTyped /\ StackIsPath /\ Descending /\ stack \in Seq(Files) /\ n \in Nat
      /\ parent' = parent
    BY DEF LoadIInv, LoadTyped
<1>2. /\ stack' \in Seq(Files) /\ Len(stack') = n + 1 /\ stack' # <<>> /\ stack'[n + 1] = target
      /\ \A i \in 1..n : stack'[i] = stack[i]
    BY <1>1
<1>3. 1..(n + 1) = 1..n \cup {n + 1} /\ n + 1 \notin 1..n
    BY <1>1
<1>4. target # NoParent
    BY ScenarioConfigAssumption
<1>5. LoadTyped'
    BY <1>1, <1>2 DEF LoadTyped
<1>6. StackIsPath'
    <2>1. stack'[1] = Root
        <3>1. CASE n = 0
            BY <1>1, <1>2, <1>4, <3>1 DEF Descending
        <3>2. CASE n # 0
            BY <1>1, <1>2, <3>2 DEF StackIsPath
        <3> QED
            BY <3>1, <3>2
    <2>2. ASSUME NEW i \in 1..n PROVE stack'[i + 1] = parent[stack'[i]]
        <3>1. CASE i = n
            BY <1>1, <1>2, <1>4, <3>1 DEF Descending
        <3>2. CASE i # n
            <4>1. i \in 1..(n - 1) /\ i + 1 \in 1..n
                BY <1>1, <3>2
            <4> QED
                BY <1>1, <1>2, <4>1 DEF StackIsPath
        <3> QED
            BY <3>1, <3>2
    <2>3. visited' = {stack'[i] : i \in 1..(n + 1)}
        BY <1>1, <1>2, <1>3 DEF StackIsPath
    <2>4. \A i \in 1..n : stack'[i] # target
        BY <1>1, <1>2 DEF StackIsPath
    <2>5. \A i, j \in 1..(n + 1) : stack'[i] = stack'[j] => i = j
        BY <1>1, <1>2, <1>3, <2>4 DEF StackIsPath
    <2> QED
        BY <1>1, <1>2, <2>1, <2>2, <2>3, <2>5 DEF StackIsPath
<1>7. ASSUME NEW c \in Chains PROVE Begins(c)'
    <2>1. Len(c) \in Nat \ {0} /\ IsChain(c) /\ Begins(c)
        BY ChainFacts DEF LoadIInv
    <2>2. n + 1 <= Len(c) /\ c[n + 1] = target
        <3>1. CASE n = 0
            BY <1>1, <1>4, <2>1, <3>1 DEF Descending, IsChain
        <3>2. CASE n # 0
            <4>1. stack # <<>> /\ target = parent[stack[n]]
                BY <1>1, <1>4, <3>2 DEF Descending
            <4> QED
                BY <1>1, <2>1, <4>1, ChainBeyond
        <3> QED
            BY <3>1, <3>2
    <2> QED
        BY <1>2, <1>3, <2>1, <2>2 DEF Begins
<1>8. Descending'
    BY <1>1, <1>2 DEF Descending
<1>9. Unwinding'
    <2> SUFFICES ASSUME parent[target] = NoParent
                 PROVE  Chains' # {} /\ \A c \in Chains' : EndsPlainly(c)' /\ Len(stack') = Len(c)
        BY DEF Unwinding
    <2>1. parent'[stack'[Len(stack')]] \notin Files
        BY <1>1, <1>2, ScenarioConfigAssumption
    <2>2. stack' \in Chains'
        <3>1. (parent[stack[Len(stack)]] \in Files => parent[stack[Len(stack)]] \in visited)'
            BY <2>1
        <3>2. (stack # <<>>)'
            BY <1>2
        <3>3. (LoadTyped /\ StackIsPath /\ stack # <<>>
                 /\ (parent[stack[Len(stack)]] \in Files => parent[stack[Len(stack)]] \in visited)
                 => stack \in Chains)'
            BY StackIsChain, PTL
        <3> QED
            BY <1>5, <1>6, <3>1, <3>2, <3>3
    <2>3. ASSUME NEW c \in Chains PROVE EndsPlainly(c)' /\ Len(stack') = Len(c)
        <3>0. Len(c) \in Nat /\ n + 1 <= Len(c)
            BY <1>2, <1>7, ChainFacts, <1>1 DEF Begins
        <3>1. c \in [1..Len(c) -> Files] /\ IsChain(c) /\ c[n + 1] = target
            BY <1>2, <1>7, ChainFacts, <1>1 DEF Begins
        <3>2. Len(c) = n + 1
            <4> SUFFICES ASSUME Len(c) # n + 1 PROVE FALSE
                OBVIOUS
            <4>1. n + 1 \in 1..(Len(c) - 1)
                BY <1>1, <3>0
            <4>2. (n + 1) + 1 \in 1..Len(c)
                BY <1>1, <3>0
            <4>3. c[(n + 1) + 1] = parent[c[n + 1]]
                BY <3>1, <4>1 DEF IsChain
            <4>4. c[(n + 1) + 1] = parent[target] /\ c[(n + 1) + 1] \in Files
                BY <3>1, <4>2, <4>3
            <4> QED
                BY <4>4, ScenarioConfigAssumption
        <3> QED
            BY <1>1, <1>2, <3>0, <3>1, <3>2 DEF EndsPlainly
    <2> QED
        BY <1>1, <2>2, <2>3, ChainsKept
<1>10. LoadOutcome' /\ Concluded' /\ Refused'
    BY DEF LoadIInv, LoadOutcome, Concluded, Refused
<1> QED
    BY <1>1, <1>5, <1>6, <1>7, <1>8, <1>9, <1>10, ChainsKept DEF LoadIInv

\* A path that comes back to a file on the stack, or to one that is not there.
LEMMA RefuseLoadIInv ==
    ASSUME LoadIInv, outcome = "loading", target # NoParent,
           \/ target \in visited /\ outcome' = "CircularExtends"
           \/ target = Missing /\ outcome' = "Io",
           UNCHANGED <<parent, document, target, stack, visited, merged>>
    PROVE  LoadIInv'
<1>1. LoadTyped /\ StackIsPath /\ Descending /\ (\A c \in Chains : Begins(c)) /\ stack \in Seq(Files)
    BY DEF LoadIInv, LoadTyped
<1>2. stack # <<>>
    <2>1. ASSUME stack = <<>> PROVE visited = {} /\ target = Root
        BY <1>1, <2>1 DEF StackIsPath, Descending
    <2> QED
        BY <2>1, ScenarioConfigAssumption
<1>3. target = parent[stack[Len(stack)]]
    BY <1>1, <1>2 DEF Descending
<1>4. target \in visited \/ target \notin Files
    BY ScenarioConfigAssumption
<1>5. Chains' = Chains /\ Chains # {}
    <2>1. stack \in Chains
        BY <1>1, <1>2, <1>3, <1>4, StackIsChain
    <2> QED
        BY <2>1, ChainsKept
<1>6. \A c \in Chains : parent[c[Len(c)]] = target
    BY <1>1, <1>2, <1>3, <1>4, ChainBeyond
<1>7. visited \subseteq Files
    BY <1>1 DEF StackIsPath
<1>8. Refused'
    BY <1>5, <1>6, <1>7, ScenarioConfigAssumption DEF Refused
<1>9. LoadTyped' /\ StackIsPath' /\ (\A c \in Chains' : Begins(c)') /\ Descending'
    BY <1>1, <1>5 DEF LoadTyped, StackIsPath, Begins, Descending
<1>10. Unwinding' /\ LoadOutcome' /\ Concluded'
    BY <1>5 DEF Unwinding, LoadOutcome, Concluded
<1> QED
    BY <1>8, <1>9, <1>10 DEF LoadIInv

LEMMA OpenLoadIInv == ASSUME LoadIInv, OpenFile PROVE LoadIInv'
<1>1. target \in Files \cup {NoParent, Missing} /\ outcome = "loading" /\ target # NoParent
    BY DEF LoadIInv, LoadTyped, OpenFile
<1>2. CASE target \in visited
    BY <1>1, <1>2, RefuseLoadIInv DEF OpenFile, is_visited, Refuse
<1>3. CASE target \notin visited /\ target = Missing
    BY <1>1, <1>3, RefuseLoadIInv DEF OpenFile, is_visited, Refuse
<1>4. CASE target \notin visited /\ target # Missing
    BY <1>1, <1>4, PushLoadIInv DEF OpenFile, is_visited, Refuse
<1> QED
    BY <1>2, <1>3, <1>4

\* A file laid over what it extends.
LEMMA CloseLoadIInv == ASSUME LoadIInv, CloseFile PROVE LoadIInv'
<1> DEFINE n == Len(stack)
           f == stack[n]
<1>1. /\ LoadTyped /\ StackIsPath /\ Descending /\ (\A c \in Chains : Begins(c))
      /\ stack \in Seq(Files) /\ Unwinding
    BY DEF LoadIInv, LoadTyped
<1>2. /\ outcome = "loading" /\ target = NoParent /\ stack # <<>>
      /\ stack' = SubSeq(stack, 1, n - 1) /\ visited' = visited \ {f}
      /\ merged' = IF parent[f] = NoParent THEN document[f] ELSE deep_merge(merged, document[f])
      /\ UNCHANGED <<parent, document, target, outcome>>
    BY DEF CloseFile
<1>3. n \in Nat \ {0} /\ f \in Files
    BY <1>1, <1>2
<1>4. /\ stack' \in Seq(Files) /\ Len(stack') = n - 1
      /\ \A i \in 1..(n - 1) : stack'[i] = stack[i]
    <2>1. n - 1 \in Nat /\ 1..(n - 1) \subseteq 1..n
        BY <1>3
    <2>2. stack' = [i \in 1..(n - 1) |-> stack[i]]
        BY <1>1, <1>2, <1>3, <2>1
    <2>3. \A i \in 1..(n - 1) : stack[i] \in Files
        BY <1>1, <2>1
    <2>4. stack' \in [1..(n - 1) -> Files]
        BY <2>2, <2>3
    <2>5. stack' \in Seq(Files)
        BY <2>1, <2>4
    <2>6. Len(stack') = n - 1
        BY <2>1, <2>4, <2>5
    <2> QED
        BY <2>2, <2>5, <2>6
<1>5. Chains' = Chains
    BY <1>2, ChainsKept
<1>6. LoadTyped'
    BY <1>1, <1>2, <1>4 DEF LoadTyped
<1>7. StackIsPath'
    <2>1. stack' # <<>> => stack'[1] = Root
        BY <1>1, <1>2, <1>3, <1>4 DEF StackIsPath
    <2>2. ASSUME NEW i \in 1..(Len(stack') - 1) PROVE stack'[i + 1] = parent'[stack'[i]]
        <3>1. i \in 1..(n - 1) /\ i + 1 \in 1..(n - 1)
            BY <1>3, <1>4
        <3> QED
            BY <1>1, <1>2, <1>4, <3>1 DEF StackIsPath
    <2>3. 1..(n - 1) \subseteq 1..n
        BY <1>3
    <2>4. \A i, j \in 1..(n - 1) : stack'[i] = stack'[j] => i = j
        BY <1>1, <1>4, <2>3 DEF StackIsPath
    <2>5. 1..n = 1..(n - 1) \cup {n} /\ n \notin 1..(n - 1) /\ n \in 1..n
        BY <1>3
    <2>6. \A i \in 1..(n - 1) : stack[i] # f
        BY <1>1, <2>5 DEF StackIsPath
    <2>7. visited' = {stack'[i] : i \in 1..(n - 1)}
        BY <1>1, <1>2, <1>4, <2>5, <2>6 DEF StackIsPath
    <2> QED
        BY <1>4, <2>1, <2>2, <2>4, <2>7 DEF StackIsPath
<1>8. ASSUME NEW c \in Chains PROVE Begins(c)' /\ EndsPlainly(c)' /\ MergedFrom(c, Len(stack) + 1)'
    <2>1. Len(c) \in Nat \ {0} /\ n <= Len(c)
        BY <1>1, ChainFacts DEF Begins
    <2>2. c \in [1..Len(c) -> Files] /\ IsChain(c) /\ \A i \in 1..n : stack[i] = c[i]
        BY <1>1, ChainFacts DEF Begins
    <2>3. Begins(c)'
        BY <1>3, <1>4, <2>1, <2>2 DEF Begins
    <2>4. EndsPlainly(c) /\ (n = Len(c) \/ MergedFrom(c, n + 1))
        BY <1>1, <1>2 DEF Unwinding
    <2>5. Len(stack') + 1 = n /\ c[n] = f
        BY <1>3, <1>4, <2>2
    <2>6. ASSUME NEW s \in Sections
          PROVE  IsMerged(merged'[s], Column(c, s), n, Len(c))
        <3> DEFINE h == Column(c, s)
        <3> SUFFICES IsMerged(merged'[s], h, n, Len(c))
            OBVIOUS
        <3>1. n \in 1..Len(c) /\ h[n] = document[f][s] /\ IsValue(h[n])
            BY <1>1, <1>3, <2>1, <2>5 DEF Column, LoadTyped
        <3>2. CASE n = Len(c)
            <4>1. merged'[s] = h[n]
                BY <1>2, <2>4, <2>5, <3>1, <3>2 DEF EndsPlainly
            <4> HIDE DEF h
            <4> QED
                BY <1>3, <3>1, <3>2, <4>1, MergeLast
        <3>3. CASE n # Len(c)
            <4>1. n \in 1..(Len(c) - 1)
                BY <1>3, <2>1, <3>3
            <4>2. parent[f] # NoParent
                <5>1. c[n + 1] = parent[f]
                    BY <2>2, <2>5, <4>1 DEF IsChain
                <5>2. n + 1 \in 1..Len(c)
                    BY <1>3, <2>1, <4>1
                <5>3. c[n + 1] \in Files
                    BY <2>2, <5>2
                <5> QED
                    BY <5>1, <5>3, ScenarioConfigAssumption
            <4>3. merged'[s] = merge_value(merged[s], h[n])
                BY <1>2, <3>1, <4>2 DEF deep_merge
            <4>4. IsMerged(merged[s], h, n + 1, Len(c))
                BY <2>4, <3>3 DEF MergedFrom
            <4> HIDE DEF h
            <4> QED
                BY <2>1, <3>1, <4>1, <4>3, <4>4, MergeOne
        <3> QED
            BY <3>2, <3>3
    <2>7. \A s : Column(c, s)' = Column(c, s)
        BY <1>2 DEF Column
    <2>8. MergedFrom(c, Len(stack) + 1)'
        BY <2>5, <2>6, <2>7 DEF MergedFrom
    <2> QED
        BY <1>2, <2>3, <2>4, <2>8 DEF EndsPlainly
<1>9. Descending'
    BY <1>2 DEF Descending
<1>10. Unwinding'
    BY <1>1, <1>2, <1>5, <1>8 DEF Unwinding
<1>11. LoadOutcome' /\ Concluded' /\ Refused'
    BY <1>2, <1>5 DEF LoadOutcome, Concluded, Refused
<1> QED
    BY <1>5, <1>6, <1>7, <1>8, <1>9, <1>10, <1>11 DEF LoadIInv

\* The merged document is parsed and validated.
LEMMA ConcludeLoadIInv == ASSUME LoadIInv, Conclude PROVE LoadIInv'
<1>1. /\ outcome = "loading" /\ target = NoParent /\ stack = <<>> /\ Len(stack) = 0
      /\ UNCHANGED <<parent, document, target, stack, visited, merged>>
      /\ outcome' \in {"Parse", "Validation", "Expression", "loaded"}
      /\ outcome' = "loaded" => Parses(merged) /\ Valid(merged)
    BY DEF Conclude
<1>2. Chains' = Chains /\ Chains # {}
    BY <1>1, ChainsKept DEF LoadIInv, Unwinding
<1>3. ASSUME NEW c \in Chains PROVE EndsPlainly(c)' /\ MergedFrom(c, 1)'
    <2>1. Len(c) # 0
        BY ChainFacts
    <2>2. EndsPlainly(c) /\ MergedFrom(c, 0 + 1)
        BY <1>1, <2>1 DEF LoadIInv, Unwinding
    <2> QED
        BY <1>1, <2>2 DEF EndsPlainly, MergedFrom, Column
<1>4. Concluded'
    BY <1>1, <1>2, <1>3 DEF Concluded, Parses, Valid
<1>5. LoadTyped' /\ StackIsPath' /\ (\A c \in Chains' : Begins(c)') /\ Descending'
    BY <1>1, <1>2 DEF LoadIInv, LoadTyped, StackIsPath, Begins, Descending
<1>6. Unwinding' /\ LoadOutcome' /\ Refused'
    BY <1>1, <1>2 DEF Unwinding, LoadOutcome, Refused
<1> QED
    BY <1>4, <1>5, <1>6 DEF LoadIInv

\* Nothing else touches the files or what was made of them.
LEMMA KeepLoadIInv == ASSUME LoadIInv, UNCHANGED loadVars PROVE LoadIInv'
<1>1. UNCHANGED <<parent, document, target, stack, visited, merged, outcome>>
    BY DEF loadVars
<1>2. Chains' = Chains
    BY <1>1, ChainsKept
<1>3. LoadTyped' /\ StackIsPath' /\ (\A c \in Chains' : Begins(c)') /\ Descending'
    BY <1>1, <1>2 DEF LoadIInv, LoadTyped, StackIsPath, Begins, Descending
<1>4. \A c, i : (MergedFrom(c, i)' <=> MergedFrom(c, i)) /\ (EndsPlainly(c)' <=> EndsPlainly(c))
    BY <1>1 DEF MergedFrom, Column, EndsPlainly
<1>5. Unwinding'
    BY <1>1, <1>2, <1>4 DEF LoadIInv, Unwinding
<1>6. Concluded'
    BY <1>1, <1>2, <1>4 DEF LoadIInv, Concluded
<1>7. LoadOutcome' /\ Refused'
    BY <1>1, <1>2 DEF LoadIInv, LoadOutcome, Refused
<1> QED
    BY <1>3, <1>5, <1>6, <1>7 DEF LoadIInv

\* Before anything is read: either files to load, or none where a scenario is given.
LEMMA InitLoadIInv == SimInit => LoadIInv
<1> SUFFICES ASSUME SimInit PROVE LoadIInv
    OBVIOUS
<1>1. /\ stack = <<>> /\ Len(stack) = 0 /\ visited = {} /\ stack \in Seq(Files)
      /\ parent \in [Files -> Files \cup {NoParent, Missing}]
      /\ \/ target = Root /\ outcome = "loading" /\ document \in [Files -> Documents]
         \/ /\ target = NoParent /\ outcome = "given" /\ document = [f \in Files |-> NoDocument]
            /\ parent = [f \in Files |-> NoParent]
    <2>1. <<>> \in Seq(Files)
        OBVIOUS
    <2> QED
        BY <2>1 DEF SimInit, LoadInit
<1>2. \A f \in Files : \A s \in Sections : IsValue(document[f][s])
    BY <1>1, ScenarioConfigAssumption DEF IsValue, NoDocument, Absent
<1>3. LoadTyped /\ Descending
    BY <1>1, <1>2, ScenarioConfigAssumption DEF LoadTyped, Descending
<1>4. StackIsPath
    BY <1>1 DEF StackIsPath
<1>5. \A c \in Chains : Begins(c)
    BY <1>1, ChainFacts DEF Begins
<1>6. Unwinding /\ Concluded
    BY <1>1, ScenarioConfigAssumption DEF Unwinding, Concluded
<1>7. LoadOutcome
    <2>1. ASSUME outcome = "given" PROVE Chains # {}
        <3> DEFINE c == <<Root>>
        <3>1. 1 \in 1..Cardinality(Files)
            <4>1. Cardinality(Files) \in Nat /\ Cardinality(Files) # 0
                BY ScenarioConfigAssumption, FS_CardinalityType, FS_EmptySet
            <4> QED
                BY <4>1
        <3>2. c \in [1..1 -> Files] /\ Len(c) = 1 /\ c[1] = Root /\ 1..1 = {1} /\ 1..(1 - 1) = {}
            BY ScenarioConfigAssumption
        <3>3. parent[Root] \notin Files
            BY <1>1, <2>1, ScenarioConfigAssumption
        <3>4. IsChain(c)
            BY <3>2, <3>3 DEF IsChain
        <3> QED
            BY <3>1, <3>2, <3>4 DEF Chains
    <2> QED
        BY <1>1, <2>1 DEF LoadOutcome
<1>8. Refused
    BY <1>1, ChainFacts, ScenarioConfigAssumption DEF Refused
<1> QED
    BY <1>3, <1>4, <1>5, <1>6, <1>7, <1>8 DEF LoadIInv

LEMMA LoadInvariance == SimSpec => []LoadIInv
<1>1. LoadIInv /\ [SimNext]_allVars => LoadIInv'
    <2> SUFFICES ASSUME LoadIInv, [SimNext]_allVars PROVE LoadIInv'
        OBVIOUS
    <2>1. LoadStep \/ UNCHANGED loadVars
        BY DEF SimNext, Events, allVars, Load, Construct, StartCall, EndCall, StartTick,
               HandleHeartbeat, HandleObservation, HandleInjection, HandleSignal, PassTime,
               FinishTick, FailTick
    <2> QED
        BY <2>1, OpenLoadIInv, CloseLoadIInv, ConcludeLoadIInv, KeepLoadIInv DEF LoadStep
<1> QED
    BY <1>1, InitLoadIInv, PTL DEF SimSpec

\* A key of a merged mapping has the value the chain gives it.
LEMMA MergedIsNearest ==
    ASSUME NEW c \in Chains, NEW s \in Sections, NEW k \in SubKeys, NEW v,
           IsMerged(v, Column(c, s), 1, Len(c)), v.is = "map"
    PROVE  v.m[k] = NearestValue(c, s, k)
<1> DEFINE h == Column(c, s)
           hidden(i) == \E j \in 1..(i - 1) : document[c[j]][s].is = "plain"
           found == {i \in DOMAIN c : /\ document[c[i]][s].is = "map" /\ ~hidden(i)
                                      /\ document[c[i]][s].m[k] # 0}
<1>1. Len(c) \in Nat /\ DOMAIN c = 1..Len(c)
    BY ChainFacts
<1>2. \A i \in 1..Len(c) : h[i] = document[c[i]][s]
    BY DEF Column
<1>3. \A i \in 1..Len(c) : 1..(i - 1) \subseteq 1..Len(c)
    BY <1>1
<1>4. found = {i \in 1..Len(c) : Gives(h, 1, i, k)}
    BY <1>1, <1>2, <1>3 DEF Gives
<1>5. MergedKey(v.m[k], h, 1, Len(c), k)
    BY DEF IsMerged
<1>6. NearestValue(c, s, k) =
         IF found = {} THEN 0 ELSE document[c[CHOOSE i \in found : \A j \in found : i <= j]][s].m[k]
    BY DEF NearestValue
<1> HIDE DEF h, found
<1>7. CASE v.m[k] = 0
    BY <1>4, <1>5, <1>6, <1>7 DEF MergedKey
<1>8. CASE v.m[k] # 0
    <2>1. PICK j \in 1..Len(c) : /\ Gives(h, 1, j, k) /\ h[j].m[k] = v.m[k]
                                 /\ \A l \in 1..(j - 1) : ~Gives(h, 1, l, k)
        BY <1>5, <1>8 DEF MergedKey
    <2>2. j \in found /\ \A i \in found : j <= i
        BY <1>1, <1>4, <2>1
    <2>3. \A i \in found : i \in Nat
        BY <1>1, <1>4
    <2>4. \A i \in found : (\A l \in found : i <= l) => i = j
        BY <2>2, <2>3
    <2>5. (CHOOSE i \in found : \A l \in found : i <= l) = j
        BY <2>2, <2>4
    <2> QED
        BY <1>2, <1>6, <2>1, <2>2, <2>5
<1> QED
    BY <1>7, <1>8

(***************************************************************************)
(* load_yaml_with_extends, deep_merge and the checks after them, for any   *)
(* number of files that extend each other in any way: exactly the chains   *)
(* that come back to a file are refused as circular, and every key of a    *)
(* merged section has the value of the nearest file that gives it one.     *)
(***************************************************************************)
THEOREM ExtendsAlwaysResolved == SimSpec => []ExtendsResolved
<1>1. LoadIInv => ExtendsResolved
    <2> SUFFICES ASSUME LoadIInv PROVE ExtendsResolved
        OBVIOUS
    <2> DEFINE c == ChainOfRoot
    <2>1. outcome # "loading" => c \in Chains
        BY DEF LoadIInv, LoadOutcome, ChainOfRoot
    <2> HIDE DEF c
    <2>2. CycleRefused
        <3> SUFFICES ASSUME outcome # "loading"
                     PROVE  (outcome = "CircularExtends") <=> (parent[c[Len(c)]] \in Files)
            BY DEF CycleRefused, c
        <3>1. outcome = "CircularExtends" => parent[c[Len(c)]] \in Files
            BY <2>1 DEF LoadIInv, Refused
        <3>2. outcome \in {"Io", "given"} => parent[c[Len(c)]] \notin Files
            BY <2>1 DEF LoadIInv, Refused
        <3>3. outcome \in {"loaded", "Parse", "Validation", "Expression"} => parent[c[Len(c)]] \notin Files
            BY <2>1, ScenarioConfigAssumption DEF LoadIInv, Concluded, EndsPlainly
        <3> QED
            BY <3>1, <3>2, <3>3 DEF LoadIInv, LoadOutcome
    <2>3. NearestWins
        <3> DEFINE init == [k \in SubKeys |-> NearestValue(c, "initial_state", k)]
                   v == merged["initial_state"]
        <3> SUFFICES ASSUME outcome \in {"loaded", "Parse", "Validation", "Expression"}
                     PROVE  (v.is = "map" => v.m = init) /\ (outcome = "loaded" => init["used"] <= init["total"])
            BY DEF NearestWins, c
        <3>1. IsMerged(v, Column(c, "initial_state"), 1, Len(c))
            BY <2>1, ScenarioConfigAssumption DEF LoadIInv, Concluded, MergedFrom
        <3>2. ASSUME v.is = "map" PROVE v.m = init
            <4>1. v.m \in [SubKeys -> Nat]
                BY <3>1, <3>2 DEF IsMerged, IsValue
            <4>2. \A k \in SubKeys : v.m[k] = NearestValue(c, "initial_state", k)
                BY <2>1, <3>1, <3>2, MergedIsNearest, ScenarioConfigAssumption
            <4> QED
                BY <4>1, <4>2
        <3>3. outcome = "loaded" => v.is = "map" /\ v.m["used"] <= v.m["total"]
            BY DEF LoadIInv, Concluded, Parses, Valid
        <3> QED
            BY <3>2, <3>3
    <2> QED
        BY <2>2, <2>3 DEF ExtendsResolved
<1> QED
    BY <1>1, LoadInvariance, PTL

-----------------------------------------------------------------------------
(* Natural numbers and recursive functions.                                *)

\* A nonempty set of natural numbers has a least element.
LEMMA LeastNat ==
    ASSUME NEW T \in SUBSET Nat, T # {}
    PROVE  \E x \in T : \A y \in T : x <= y
<1> DEFINE R == OpToRel(<, Nat)
<1>1. IsWellFoundedOn(R, Nat)
    BY NatLessThanWellFounded
<1> HIDE DEF R
<1>2. PICK x \in T : \A y \in T : ~(<<y, x>> \in R)
    BY <1>1, WFMin
<1>3. \A y \in T : ~(y < x)
    BY <1>2 DEF R, OpToRel
<1> QED
    BY <1>3

\* What holds of 0 and passes from each number below n to the next holds up to n.
LEMMA UpTo ==
    ASSUME NEW n \in Nat, NEW G, 0 \in G, \A i \in 0..(n - 1) : i \in G => i + 1 \in G
    PROVE  \A i \in 0..n : i \in G
<1> DEFINE T == {i \in 0..n : i \notin G}
<1> SUFFICES ASSUME T # {} PROVE FALSE
    OBVIOUS
<1>1. T \in SUBSET Nat
    OBVIOUS
<1> HIDE DEF T
<1>2. PICK x \in T : \A y \in T : x <= y
    BY <1>1, LeastNat
<1>3. x \in 1..n /\ x \notin G
    BY <1>2 DEF T
<1>4. x - 1 \in 0..n /\ x - 1 \in 0..(n - 1) /\ (x - 1) + 1 = x /\ ~(x <= x - 1)
    BY <1>3
<1>5. x - 1 \notin T
    BY <1>2, <1>4
<1>6. x - 1 \in G
    BY <1>4, <1>5 DEF T
<1> QED
    BY <1>3, <1>4, <1>6

Iterates(f, n, base, step) == f[0] = base /\ \A i \in 1..n : f[i] = step[<<f[i - 1], i>>]

\* A function can be defined by what it is at 0 and how each value follows from the last.
LEMMA Recursion ==
    ASSUME NEW n \in Nat, NEW D, NEW base \in D, NEW step \in [D \X (1..n) -> D]
    PROVE  \E f \in [0..n -> D] : Iterates(f, n, base, step)
<1> DEFINE Good(m, f) == \A i \in 0..m : f[i] = IF i = 0 THEN base ELSE step[<<f[i - 1], i>>]
           G == {m \in 0..n : \E f \in [0..m -> D] : Good(m, f)}
<1>1. 0 \in G
    <2> DEFINE f == [i \in 0..0 |-> base]
    <2>1. f \in [0..0 -> D] /\ Good(0, f) /\ 0 \in 0..n
        OBVIOUS
    <2> QED
        BY <2>1
<1>2. ASSUME NEW m \in 0..(n - 1), m \in G PROVE m + 1 \in G
    <2>1. PICK f \in [0..m -> D] : Good(m, f)
        BY <1>2
    <2> DEFINE x == step[<<f[m], m + 1>>]
               g == [i \in 0..(m + 1) |-> IF i = m + 1 THEN x ELSE f[i]]
    <2>2. m \in Nat /\ m + 1 \in 1..n /\ m \in 0..m /\ m + 1 # 0 /\ (m + 1) - 1 = m /\ m # m + 1
          /\ m + 1 \in 0..n
        OBVIOUS
    <2>3. x \in D
        <3>1. f[m] \in D
            BY <2>2
        <3> QED
            BY <2>2, <3>1
    <2> HIDE DEF x
    <2>4. \A i \in 0..(m + 1) : i # m + 1 => i \in 0..m
        BY <2>2
    <2>5. g \in [0..(m + 1) -> D]
        BY <2>3, <2>4
    <2>6. \A i \in 0..m : i \in 0..(m + 1) /\ i # m + 1
        BY <2>2
    <2>7. \A i \in 0..m : g[i] = f[i]
        BY <2>6
    <2>8. \A i \in 0..m : i # 0 => i - 1 \in 0..m
        BY <2>2
    <2>9. m + 1 \in 0..(m + 1) /\ g[m + 1] = x
        BY <2>2
    <2> HIDE DEF g
    <2>10. Good(m + 1, g)
        <3> SUFFICES ASSUME NEW i \in 0..(m + 1)
                     PROVE  g[i] = IF i = 0 THEN base ELSE step[<<g[i - 1], i>>]
            OBVIOUS
        <3>1. CASE i = m + 1
            <4>1. g[i - 1] = f[m]
                BY <2>2, <2>7, <3>1
            <4> QED
                BY <2>2, <2>9, <3>1, <4>1 DEF x
        <3>2. CASE i # m + 1
            <4>1. i \in 0..m /\ g[i] = f[i] /\ (i # 0 => g[i - 1] = f[i - 1])
                BY <2>4, <2>7, <2>8, <3>2
            <4> QED
                BY <2>1, <4>1
        <3> QED
            BY <3>1, <3>2
    <2> QED
        BY <2>2, <2>5, <2>10
<1> HIDE DEF G
<1>3. n \in G /\ 0 \in 0..n /\ \A i \in 1..n : i \in 0..n /\ i # 0
    BY <1>1, <1>2, UpTo
<1> QED
    BY <1>3 DEF G, Iterates

\* The greatest element of a set of positions.
LEMMA MaxIs ==
    ASSUME NEW n \in Nat, NEW S \in SUBSET (1..n), S # {}
    PROVE  Max(S) \in S /\ \A y \in S : y <= Max(S)
<1> DEFINE T == {n - x : x \in S}
<1>1. T \in SUBSET Nat /\ T # {}
    OBVIOUS
<1> HIDE DEF T
<1>2. PICK x \in T : \A y \in T : x <= y
    BY <1>1, LeastNat
<1>3. PICK v \in S : x = n - v
    BY <1>2 DEF T
<1>4. \A w \in S : w <= v
    <2> SUFFICES ASSUME NEW w \in S PROVE w <= v
        OBVIOUS
    <2>1. n - w \in T
        BY DEF T
    <2> QED
        BY <1>2, <1>3, <2>1
<1>5. \E l \in S : \A k \in S : l >= k
    BY <1>3, <1>4
<1>6. Max(S) \in S /\ \A k \in S : Max(S) >= k
    BY <1>5 DEF Max
<1> QED
    BY <1>6

\* Sequences.
IsSeq(t) == \E S : t \in Seq(S)

\* The length and the domain of a sequence.
LEMMA SeqFacts ==
    ASSUME NEW t, IsSeq(t)
    PROVE  Len(t) \in Nat /\ DOMAIN t = 1..Len(t) /\ (t = <<>> <=> Len(t) = 0)
BY DEF IsSeq

\* One more element.
LEMMA SeqAppend ==
    ASSUME NEW t, IsSeq(t), NEW x
    PROVE  /\ IsSeq(Append(t, x)) /\ Len(Append(t, x)) = Len(t) + 1 /\ Len(t) \in Nat
           /\ Append(t, x)[Len(t) + 1] = x
           /\ \A j \in 1..Len(t) : Append(t, x)[j] = t[j]
<1>1. PICK S : t \in Seq(S)
    BY DEF IsSeq
<1> DEFINE T == S \cup {x}
<1>2. t \in Seq(T) /\ x \in T
    BY <1>1
<1> HIDE DEF T
<1> QED
    BY <1>2 DEF IsSeq

\* w is t followed by u.
Joined(t, u, w) ==
    /\ IsSeq(w) /\ Len(w) = Len(t) + Len(u)
    /\ \A j \in 1..Len(t) : w[j] = t[j]
    /\ \A j \in 1..Len(u) : w[Len(t) + j] = u[j]

\* Concatenation.
LEMMA SeqConcat ==
    ASSUME NEW t, IsSeq(t), NEW u, IsSeq(u)
    PROVE  Joined(t, u, t \o u)
<1>1. PICK S : t \in Seq(S)
    BY DEF IsSeq
<1>2. PICK S2 : u \in Seq(S2)
    BY DEF IsSeq
<1> DEFINE T == S \cup S2
<1>3. t \in Seq(T) /\ u \in Seq(T)
    BY <1>1, <1>2
<1> HIDE DEF T
<1> QED
    BY <1>3 DEF IsSeq, Joined

(* The simulated engine.                                                   *)

IsEngine(e) ==
    e = [active_actions |-> e.active_actions, partition_ratio |-> e.partition_ratio,
         throttle_delay_ms |-> e.throttle_delay_ms, skip_ratio |-> e.skip_ratio,
         last_evict_ratio |-> e.last_evict_ratio]

\* A command that says what the compression is to be, whatever it was.
Settles(cmd) == cmd.type \in {"KvCompress", "RestoreDefaults"}

\* A batch after which the compression does not depend on what came before it.
Settling(commands) == \E i \in 1..Len(commands) : Settles(commands[i])

\* The engines a batch can make of one.
Reach(e) ==
    [active_actions : {e.active_actions, <<>>}, partition_ratio : {e.partition_ratio, 0},
     throttle_delay_ms : {e.throttle_delay_ms, 0}, skip_ratio : {e.skip_ratio, 0},
     last_evict_ratio : {e.last_evict_ratio, NoRatio} \cup (0..100)]

\* One command: an engine stays one, and a command that settles says all there is to say.
LEMMA CommandFacts ==
    ASSUME NEW e, NEW d \in Reach(e), NEW cmd \in EngineCommand
    PROVE  /\ apply_command(d, cmd) \in Reach(e)
           /\ Settles(cmd) => apply_command(d, cmd).last_evict_ratio =
                                  IF cmd.type = "KvCompress" THEN cmd.budget ELSE NoRatio
           /\ ~Settles(cmd) => apply_command(d, cmd) = d
<1>1. CASE cmd.type = "KvCompress"
    <2>1. cmd.budget \in 0..100
        BY <1>1 DEF EngineCommand
    <2>2. apply_command(d, cmd) = [d EXCEPT !.last_evict_ratio = cmd.budget]
        BY <1>1 DEF apply_command
    <2> QED
        BY <1>1, <2>1, <2>2 DEF Settles, Reach
<1>2. CASE cmd.type = "RestoreDefaults"
    <2>1. apply_command(d, cmd) = [d EXCEPT !.active_actions = <<>>, !.partition_ratio = 0, !.throttle_delay_ms = 0,
                           !.skip_ratio = 0, !.last_evict_ratio = NoRatio]
        BY <1>2 DEF apply_command
    <2> QED
        BY <1>2, <2>1 DEF Settles, Reach
<1>3. CASE ~Settles(cmd)
    <2>1. apply_command(d, cmd) = d
        BY <1>3 DEF apply_command, Settles
    <2> QED
        BY <1>3, <2>1
<1> QED
    BY <1>1, <1>2, <1>3 DEF Settles

\* A directive applies its commands one by one.
LEMMA DirectiveSteps ==
    ASSUME NEW e, IsEngine(e), NEW c \in Seq(EngineCommand)
    PROVE  \E f \in [0..Len(c) -> Reach(e)] :
              /\ f[0] = e /\ f[Len(c)] = apply_directive(e, c)
              /\ \A i \in 1..Len(c) : f[i] = apply_command(f[i - 1], c[i])
<1> DEFINE n == Len(c)
           D == Reach(e)
           step == [x \in D \X (1..n) |-> apply_command(x[1], c[x[2]])]
           F(g) == [i \in 0..n |-> IF i = 0 THEN e ELSE apply_command(g[i - 1], c[i])]
           applied == CHOOSE g : g = F(g)
<1>1. n \in Nat /\ e \in D
    <2>1. e \in D
        BY DEF IsEngine, Reach
    <2> QED
        BY <2>1
<1>2. \A i \in 1..n : c[i] \in EngineCommand
    OBVIOUS
<1>3. \A d \in D : \A i \in 1..n : apply_command(d, c[i]) \in D
    BY <1>2, CommandFacts
<1>4. step \in [D \X (1..n) -> D] /\ \A d \in D : \A i \in 1..n : step[<<d, i>>] = apply_command(d, c[i])
    <2> HIDE DEF D
    <2> QED
        BY <1>3
<1>5. apply_directive(e, c) = applied[n]
    BY DEF apply_directive
<1> HIDE DEF step, D, n
<1>6. PICK f \in [0..n -> D] : Iterates(f, n, e, step)
    BY <1>1, <1>4, Recursion
<1>7. \A i \in 1..n : i \in 0..n /\ i # 0 /\ i - 1 \in 0..n
    BY <1>1
<1>8. \A i \in 1..n : f[i] = apply_command(f[i - 1], c[i])
    BY <1>4, <1>6, <1>7 DEF Iterates
<1>9. 0 \in 0..n /\ f[0] = e /\ n \in 0..n
    BY <1>1, <1>6 DEF Iterates
<1>10. \A i \in 0..n : i # 0 => i \in 1..n
    BY <1>1
<1>11. f = F(f)
    BY <1>8, <1>9, <1>10
<1>12. applied = F(applied)
    BY <1>11
<1> HIDE DEF applied
<1>13. applied[0] = e /\ \A i \in 1..n : applied[i] = apply_command(applied[i - 1], c[i])
    BY <1>7, <1>9, <1>12
<1>14. \A i \in 0..n : applied[i] \in D
    <2> DEFINE G == {i \in 0..n : applied[i] \in D}
    <2>1. 0 \in G
        BY <1>1, <1>9, <1>13
    <2>2. ASSUME NEW i \in 0..(n - 1), i \in G PROVE i + 1 \in G
        <3>1. i + 1 \in 1..n /\ i + 1 \in 0..n /\ (i + 1) - 1 = i
            BY <1>1
        <3> QED
            BY <1>3, <1>13, <2>2, <3>1
    <2> HIDE DEF G
    <2>3. \A i \in 0..n : i \in G
        BY <1>1, <2>1, <2>2, UpTo
    <2> QED
        BY <2>3 DEF G
<1>15. applied \in [0..n -> D]
    BY <1>12, <1>14
<1> QED
    BY <1>5, <1>13, <1>15 DEF D, n

\* A directive leaves an engine, and a settling one the same compression in all.
LEMMA DirectiveFacts ==
    ASSUME NEW e, IsEngine(e), NEW d, IsEngine(d), NEW c \in Seq(EngineCommand)
    PROVE  /\ IsEngine(apply_directive(e, c))
           /\ Settling(c) => apply_directive(e, c).last_evict_ratio = apply_directive(d, c).last_evict_ratio
<1> DEFINE n == Len(c)
<1>1. PICK f \in [0..n -> Reach(e)] : /\ f[0] = e /\ f[n] = apply_directive(e, c)
                                      /\ \A i \in 1..n : f[i] = apply_command(f[i - 1], c[i])
    BY DirectiveSteps
<1>2. PICK g \in [0..n -> Reach(d)] : /\ g[0] = d /\ g[n] = apply_directive(d, c)
                                      /\ \A i \in 1..n : g[i] = apply_command(g[i - 1], c[i])
    BY DirectiveSteps
<1>3. n \in Nat /\ n \in 0..n /\ \A i \in 1..n : c[i] \in EngineCommand
    OBVIOUS
<1> HIDE DEF n
<1>4. IsEngine(apply_directive(e, c))
    <2>1. f[n] \in Reach(e)
        BY <1>3
    <2> QED
        BY <1>1, <2>1 DEF Reach, IsEngine
<1>5. ASSUME NEW k \in 1..n, Settles(c[k]) PROVE f[n].last_evict_ratio = g[n].last_evict_ratio
    <2> DEFINE G == {i \in 0..n : i >= k => f[i].last_evict_ratio = g[i].last_evict_ratio}
    <2>1. 0 \in G
        BY <1>3
    <2>2. ASSUME NEW i \in 0..(n - 1), i \in G PROVE i + 1 \in G
        <3>1. i \in 0..n /\ i + 1 \in 1..n /\ i + 1 \in 0..n /\ (i + 1) - 1 = i /\ (i + 1 >= k => i >= k \/ i + 1 = k)
            BY <1>3
        <3>2. f[i] \in Reach(e) /\ g[i] \in Reach(d) /\ c[i + 1] \in EngineCommand
            BY <1>3, <3>1
        <3>3. f[i + 1] = apply_command(f[i], c[i + 1]) /\ g[i + 1] = apply_command(g[i], c[i + 1])
            BY <1>1, <1>2, <3>1
        <3>4. CASE Settles(c[i + 1])
            BY <3>1, <3>2, <3>3, <3>4, CommandFacts
        <3>5. CASE ~Settles(c[i + 1])
            <4>1. f[i + 1] = f[i] /\ g[i + 1] = g[i] /\ (i + 1 >= k => i >= k)
                BY <1>5, <3>1, <3>2, <3>3, <3>5, CommandFacts
            <4> QED
                BY <2>2, <3>1, <4>1
        <3> QED
            BY <3>4, <3>5
    <2> HIDE DEF G
    <2>3. n \in G
        BY <1>3, <2>1, <2>2, UpTo
    <2> QED
        BY <1>3, <2>3 DEF G
<1>6. Settling(c) => apply_directive(e, c).last_evict_ratio = apply_directive(d, c).last_evict_ratio
    BY <1>1, <1>2, <1>5 DEF Settling, n
<1> QED
    BY <1>4, <1>6

\* A new engine is one.
LEMMA NewIsEngine == ASSUME NEW c PROVE IsEngine(new_engine(c))
BY DEF IsEngine, new_engine

\* The engine has the compression of the last batch recorded; before the scenario is there, none was.
EngineInv ==
    /\ AnswersKnown /\ IsEngine(engine)
    /\ stage = "loading" => asked = NoCommands
    /\ EngineAsAsked

\* The deduplicator inside the simulator keeps its inductive invariant.
LEMMA SimInvariance ==
    ASSUME \A doc : ScenarioOf(doc).answers \subseteq Commands
    PROVE  SimSpec => []IInv
BY SimUsesDeduplicator, Invariance, PTL

(***************************************************************************)
(* apply_directive behind the deduplicator (sim/harness.rs): the engine    *)
(* has the compression the last batch of the policy asks for, although the *)
(* batch may have been withheld as a repetition.  The batches are those of *)
(* a policy that says in each what the compression is to be, as            *)
(* policy_default.lua does; after one that leaves it out, apply_command    *)
(* keeps the ratio of an earlier one.                                      *)
(***************************************************************************)
THEOREM EngineAlwaysAsAsked ==
    ASSUME \A doc : ScenarioOf(doc).answers \subseteq Commands, \A c \in Commands : Settling(c)
    PROVE  SimSpec => []EngineAsAsked
<1>1. SimInit => EngineInv
    <2> SUFFICES ASSUME SimInit PROVE EngineInv
        OBVIOUS
    <2>1. asked = NoCommands /\ AnswersKnown
        BY SimulatorAssumption DEF SimInit, Init, AnswersKnown, WellFormed
    <2>2. engine = new_engine(cfg)
        BY DEF SimInit, NewSimulator
    <2> QED
        BY <2>1, <2>2, NewIsEngine DEF EngineInv, EngineAsAsked
<1>2. EngineInv /\ IInv /\ [SimNext]_allVars => EngineInv'
    <2> SUFFICES ASSUME EngineInv, IInv, [SimNext]_allVars PROVE EngineInv'
        OBVIOUS
    <2>1. AnswersKnown'
        BY SimKeepsAnswers DEF EngineInv
    <2>2. \/ UNCHANGED <<engine, asked, cfg>> /\ (stage' = "loading" => stage = "loading")
          \/ Construct \/ HandleSignal
        BY DEF SimNext, Events, allVars, simVars, vars, Load, StartCall, EndCall, StartTick,
               HandleHeartbeat, HandleObservation, HandleInjection, PassTime, Tick, FinishTick, FailTick
    <2>3. CASE UNCHANGED <<engine, asked, cfg>> /\ (stage' = "loading" => stage = "loading")
        BY <2>1, <2>3 DEF EngineInv, EngineAsAsked
    <2>4. CASE Construct
        <3>1. asked' = NoCommands /\ engine' = new_engine(cfg') /\ stage' = "idle"
            BY <2>4 DEF Construct, EngineInv, vars
        <3> QED
            BY <2>1, <3>1, NewIsEngine DEF EngineInv, EngineAsAsked
    <2>5. CASE HandleSignal
        <3>1. stage' = "events" /\ cfg' = cfg
            BY <2>5 DEF HandleSignal, Due
        <3>2. \/ UNCHANGED <<vars, engine>> 
              \/ \E c \in cfg.answers : Obey(c)
              \/ \E c \in cfg.answers : Withhold(c)
            BY <2>5 DEF HandleSignal, NoAnswer
        <3>3. CASE UNCHANGED <<vars, engine>>
            BY <2>1, <3>1, <3>3 DEF EngineInv, EngineAsAsked, vars
        <3>4. ASSUME NEW c \in cfg.answers, Obey(c) PROVE EngineInv'
            <4>1. c \in Commands /\ c \in Seq(EngineCommand) /\ Settling(c) /\ IsEngine(new_engine(cfg))
                BY SimulatorAssumption, NewIsEngine DEF EngineInv, AnswersKnown
            <4>2. asked' = c /\ engine' = apply_directive(engine, c)
                BY <3>4 DEF Obey, Pass
            <4>3. /\ IsEngine(apply_directive(engine, c))
                  /\ apply_directive(engine, c).last_evict_ratio = apply_directive(new_engine(cfg), c).last_evict_ratio
                BY <4>1, DirectiveFacts DEF EngineInv
            <4> QED
                BY <2>1, <3>1, <4>2, <4>3 DEF EngineInv, EngineAsAsked
        <3>5. ASSUME NEW c \in cfg.answers, Withhold(c) PROVE EngineInv'
            <4>1. asked' = c /\ last_commands = c /\ engine' = engine
                BY <3>5 DEF Withhold, Suppress, is_dup
            <4>2. asked' = asked
                BY <4>1 DEF IInv, AskedIsLast
            <4> QED
                BY <2>1, <3>1, <4>1, <4>2 DEF EngineInv, EngineAsAsked
        <3> QED
            BY <3>2, <3>3, <3>4, <3>5
    <2> QED
        BY <2>2, <2>3, <2>4, <2>5
<1>3. EngineInv => EngineAsAsked
    BY DEF EngineInv
<1> QED
    BY <1>1, <1>2, <1>3, SimInvariance, PTL DEF SimSpec

-----------------------------------------------------------------------------
(* Arithmetic of periods.                                                  *)

\* Quotient and remainder.
LEMMA Division ==
    ASSUME NEW p \in Nat \ {0}, NEW a \in Nat
    PROVE  a \div p \in Nat /\ a % p \in 0..(p - 1) /\ a = p * (a \div p) + (a % p)
BY Z3

\* A multiple leaves no remainder.
LEMMA Multiples ==
    ASSUME NEW p \in Nat \ {0}, NEW m \in Nat
    PROVE  (m * p) % p = 0 /\ m * p \in Nat
BY Z3

\* Multiplication keeps the order.
LEMMA TimesMonotone ==
    ASSUME NEW p \in Nat \ {0}, NEW i \in Int, NEW j \in Int
    PROVE  (i <= j <=> i * p <= j * p) /\ (i * p) \in Int /\ (j * p) \in Int
BY Z3

\* What leaves no remainder is a multiple.
LEMMA IsMultiple ==
    ASSUME NEW p \in Nat \ {0}, NEW t \in Nat, t % p = 0
    PROVE  t = (t \div p) * p
BY Division, Z3

\* The first multiple of p after a, and how many there are from it up to b.
FirstAfter(a, p) == (a \div p + 1) * p
CountTo(a, p, b) == IF FirstAfter(a, p) > b THEN 0 ELSE (b - FirstAfter(a, p)) \div p + 1

\* first + i * p, for i below the count, are the multiples of p after a and up to b, each once.
LEMMA PeriodFacts ==
    ASSUME NEW p \in Nat \ {0}, NEW a \in Nat, NEW b \in Nat
    PROVE  /\ FirstAfter(a, p) \in Nat /\ CountTo(a, p, b) \in Nat
           /\ \A i \in 0..(CountTo(a, p, b) - 1) :
                 /\ FirstAfter(a, p) + i * p \in (a + 1)..b
                 /\ (FirstAfter(a, p) + i * p) % p = 0
           /\ \A t \in (a + 1)..b : t % p = 0 =>
                 \E i \in 0..(CountTo(a, p, b) - 1) : t = FirstAfter(a, p) + i * p
           /\ \A i, j \in 0..(CountTo(a, p, b) - 1) : i * p = j * p => i = j
<1> DEFINE q == a \div p
           first == FirstAfter(a, p)
           n == CountTo(a, p, b)
<1>1. q \in Nat /\ a % p \in 0..(p - 1) /\ a = p * q + (a % p)
    BY Division
<1>2. first = (q + 1) * p /\ n = IF first > b THEN 0 ELSE (b - first) \div p + 1
    BY DEF FirstAfter, CountTo
<1> HIDE DEF q, first, n
<1>3. p * q = q * p /\ (q + 1) * p = q * p + p /\ q * p \in Nat
    BY <1>1, Z3
<1>4. first \in Nat /\ first > a
    BY <1>1, <1>2, <1>3
<1>5. n \in Nat /\ (n # 0 => first <= b /\ b - first \in Nat /\ n - 1 = (b - first) \div p)
    <2>1. CASE first > b
        BY <1>2, <2>1
    <2>2. CASE ~(first > b)
        <3>1. b - first \in Nat
            BY <1>4, <2>2
        <3>2. (b - first) \div p \in Nat
            BY <3>1, Division
        <3> QED
            BY <1>2, <1>4, <2>2, <3>1, <3>2
    <2> QED
        BY <2>1, <2>2
<1>6. ASSUME NEW i \in 0..(n - 1)
      PROVE  first + i * p \in (a + 1)..b /\ (first + i * p) % p = 0
    <2>1. n # 0 /\ i \in Nat /\ i <= n - 1
        BY <1>5
    <2>2. b - first = p * (n - 1) + ((b - first) % p) /\ (b - first) % p \in 0..(p - 1)
        BY <1>5, <2>1, Division
    <2>3. i * p <= (n - 1) * p /\ i * p \in Nat /\ p * (n - 1) = (n - 1) * p /\ (n - 1) * p \in Int
        BY <1>5, <2>1, TimesMonotone, Z3
    <2>4. first + i * p = ((q + 1) + i) * p /\ (q + 1) + i \in Nat
        BY <1>1, <1>2, <2>1, Z3
    <2>5. (first + i * p) % p = 0
        BY <2>4, Multiples
    <2>6. first + i * p \in (a + 1)..b
        BY <1>4, <1>5, <2>1, <2>2, <2>3
    <2> QED
        BY <2>5, <2>6
<1>7. ASSUME NEW t \in (a + 1)..b, t % p = 0
      PROVE  \E i \in 0..(n - 1) : t = first + i * p
    <2> DEFINE m == t \div p
    <2>1. t \in Nat /\ m \in Nat /\ t = m * p /\ t > a /\ t <= b
        BY <1>7, Division, IsMultiple
    <2> HIDE DEF m
    <2>2. m > q
        <3>1. ~(m * p <= q * p)
            BY <1>1, <1>3, <2>1
        <3> QED
            BY <1>1, <2>1, <3>1, TimesMonotone
    <2> DEFINE i == m - (q + 1)
    <2>3. i \in Nat /\ m = q + 1 + i
        BY <1>1, <2>1, <2>2
    <2>4. t = first + i * p
        BY <1>1, <1>2, <2>1, <2>3, Z3
    <2> HIDE DEF i
    <2>5. i * p \in Nat
        BY <2>3, Multiples
    <2>6. first <= b /\ i * p <= b - first
        BY <1>4, <2>1, <2>4, <2>5
    <2>7. n # 0
        BY <1>2, <1>4, <2>1, <2>6, Division
    <2>8. /\ b - first \in Nat /\ n - 1 \in Nat
          /\ b - first = p * (n - 1) + ((b - first) % p) /\ (b - first) % p \in 0..(p - 1)
        BY <1>5, <2>7, Division
    <2>9. ~(n <= i)
        <3>1. p * (n - 1) + p = n * p /\ n * p \in Nat
            BY <1>5, Z3
        <3>2. ~(n * p <= i * p)
            BY <2>5, <2>6, <2>8, <3>1
        <3> QED
            BY <1>5, <2>3, <3>2, TimesMonotone
    <2>10. i \in 0..(n - 1)
        BY <1>5, <2>3, <2>9
    <2> QED
        BY <2>4, <2>10
<1>8. ASSUME NEW i \in 0..(n - 1), NEW j \in 0..(n - 1), i * p = j * p PROVE i = j
    <2>1. i \in Int /\ j \in Int
        BY <1>5
    <2> QED
        BY <1>8, <2>1, TimesMonotone
<1> QED
    BY <1>4, <1>5, <1>6, <1>7, <1>8 DEF first, n

-----------------------------------------------------------------------------
(* The virtual clock.                                                      *)

PollKinds == {"Heartbeat"} \cup SignalKinds
EdgeKinds == {"InjectionStart", "InjectionEnd"}
EventKinds == PollKinds \cup EdgeKinds \cup {"ObservationDue"}
Event == [at : Nat, id : Nat, kind : EventKinds, arg : Nat]
Clocks == [now : Nat, events : SUBSET Event, next_id : Nat]

IdsBelow(c) == \A e \in c.events : e.id < c.next_id

\* d is c with events of the kinds in K added, after now and not after until.
Added(c, d) == d.events \ c.events

NewIds(c, d) ==
    /\ c \in Clocks /\ d \in Clocks /\ d.now = c.now /\ c.next_id <= d.next_id /\ c.events \subseteq d.events
    /\ \A e \in Added(c, d) : c.next_id <= e.id /\ e.id < d.next_id
    /\ \A e, f \in Added(c, d) : e.id = f.id => e = f

OfKind(S, k) == {e \in S : e.kind = k}

\* One event for each multiple of p after a and up to b.
PollsBetween(S, a, b, p) ==
    /\ \A e \in S : e.at \in (a + 1)..b /\ e.at % p = 0
    /\ \A t \in (a + 1)..b : t % p = 0 => \E e \in S : e.at = t
    /\ \A e, f \in S : e.at = f.at => e = f

Scheduled(c, d, K, until) ==
    /\ NewIds(c, d)
    /\ \A e \in Added(c, d) : e.kind \in K /\ c.now < e.at /\ e.at <= until
    /\ \A k \in K \cap PollKinds : cfg.period[k] > 0 =>
          PollsBetween(OfKind(Added(c, d), k), c.now, until, cfg.period[k])

\* Scheduling nothing.
LEMMA ScheduledNone ==
    ASSUME NEW c \in Clocks, NEW until, NEW K, K \cap PollKinds = {}
    PROVE  Scheduled(c, c, K, until)
BY DEF Scheduled, NewIds, Added, Clocks

\* Adding events twice.
LEMMA NewIdsBoth ==
    ASSUME NEW a, NEW b, NEW c, NewIds(a, b), NewIds(b, c)
    PROVE  /\ NewIds(a, c) /\ Added(a, c) = Added(a, b) \cup Added(b, c)
           /\ Added(a, b) \cap Added(b, c) = {}
<1>1. /\ a.now = b.now /\ b.now = c.now /\ a.events \subseteq b.events /\ b.events \subseteq c.events
      /\ a.next_id \in Nat /\ b.next_id \in Nat /\ c.next_id \in Nat
      /\ a.next_id <= b.next_id /\ b.next_id <= c.next_id
    BY DEF NewIds, Clocks
<1>2. Added(a, c) = Added(a, b) \cup Added(b, c) /\ Added(a, b) \cap Added(b, c) = {}
    BY <1>1 DEF Added
<1>3. \A e \in Added(a, b) \cup Added(b, c) : e.id \in Nat
    BY DEF NewIds, Clocks, Event, Added
<1>4. \A e \in Added(a, b) : a.next_id <= e.id /\ e.id < b.next_id
    BY DEF NewIds
<1>5. \A e \in Added(b, c) : b.next_id <= e.id /\ e.id < c.next_id
    BY DEF NewIds
<1>6. \A e \in Added(a, c) : a.next_id <= e.id /\ e.id < c.next_id
    BY <1>1, <1>2, <1>3, <1>4, <1>5
<1>7. ASSUME NEW e \in Added(a, c), NEW f \in Added(a, c), e.id = f.id PROVE e = f
    <2>1. (e \in Added(a, b) /\ f \in Added(a, b)) \/ (e \in Added(b, c) /\ f \in Added(b, c))
        BY <1>1, <1>2, <1>3, <1>4, <1>5, <1>7
    <2> QED
        BY <1>7, <2>1 DEF NewIds
<1> QED
    BY <1>1, <1>2, <1>6, <1>7 DEF NewIds

\* Scheduling one thing after another.
LEMMA ScheduledBoth ==
    ASSUME NEW a, NEW b, NEW c, NEW K, NEW L, NEW until,
           Scheduled(a, b, K, until), Scheduled(b, c, L, until), K \cap L \cap PollKinds = {}
    PROVE  Scheduled(a, c, K \cup L, until)
<1>1. a.now = b.now
    BY DEF Scheduled, NewIds
<1>2. NewIds(a, c) /\ Added(a, c) = Added(a, b) \cup Added(b, c)
    BY NewIdsBoth DEF Scheduled
<1>3. \A e \in Added(a, c) : e.kind \in K \cup L /\ a.now < e.at /\ e.at <= until
    BY <1>1, <1>2 DEF Scheduled
<1>4. ASSUME NEW k \in (K \cup L) \cap PollKinds, cfg.period[k] > 0
      PROVE  PollsBetween(OfKind(Added(a, c), k), a.now, until, cfg.period[k])
    <2>1. CASE k \in K
        <3>1. OfKind(Added(a, c), k) = OfKind(Added(a, b), k)
            BY <1>2, <2>1 DEF OfKind, Scheduled
        <3> QED
            BY <1>4, <2>1, <3>1 DEF Scheduled
    <2>2. CASE k \in L
        <3>1. OfKind(Added(a, c), k) = OfKind(Added(b, c), k)
            BY <1>2, <2>2 DEF OfKind, Scheduled
        <3> QED
            BY <1>1, <1>4, <2>2, <3>1 DEF Scheduled
    <2> QED
        BY <2>1, <2>2
<1> QED
    BY <1>2, <1>3, <1>4 DEF Scheduled

\* A single event.
LEMMA ScheduleFacts ==
    ASSUME NEW c \in Clocks, IdsBelow(c), NEW kind \in EventKinds, NEW arg \in Nat, NEW at \in Nat
    PROVE  LET e == [at |-> at, id |-> c.next_id, kind |-> kind, arg |-> arg]
               d == schedule(c, kind, arg, at)
           IN  /\ NewIds(c, d) /\ IdsBelow(d) /\ e \in Event /\ e \notin c.events
               /\ d.events = c.events \cup {e} /\ Added(c, d) = {e}
<1> DEFINE e == [at |-> at, id |-> c.next_id, kind |-> kind, arg |-> arg]
           d == schedule(c, kind, arg, at)
<1>1. c.next_id \in Nat /\ c.events \in SUBSET Event /\ c.now \in Nat
    BY DEF Clocks
<1>2. e \in Event /\ e.id = c.next_id
    BY <1>1 DEF Event
<1>3. d = [now |-> c.now, events |-> c.events \cup {e}, next_id |-> c.next_id + 1]
    <2>1. d = [c EXCEPT !.events = c.events \cup {e}, !.next_id = c.next_id + 1]
        BY DEF schedule
    <2> HIDE DEF d, e
    <2> QED
        BY <2>1 DEF Clocks
<1> HIDE DEF e, d
<1>4. d \in Clocks /\ d.now = c.now /\ d.events = c.events \cup {e} /\ d.next_id = c.next_id + 1
    BY <1>1, <1>2, <1>3 DEF Clocks
<1>5. e \notin c.events
    BY <1>1, <1>2 DEF IdsBelow
<1>6. Added(c, d) = {e}
    BY <1>4, <1>5 DEF Added
<1>7. NewIds(c, d)
    BY <1>1, <1>2, <1>4, <1>6 DEF NewIds
<1>8. \A f \in c.events : f.id \in Nat /\ f.id < c.next_id
    BY <1>1 DEF IdsBelow, Event
<1>9. IdsBelow(d)
    BY <1>1, <1>2, <1>4, <1>8 DEF IdsBelow
<1> QED
    BY <1>2, <1>4, <1>5, <1>6, <1>7, <1>9 DEF e, d

\* The periodic events of one kind.
LEMMA PollScheduled ==
    ASSUME NEW c \in Clocks, IdsBelow(c), NEW k \in PollKinds, cfg.period[k] \in Nat, NEW until \in Nat
    PROVE  LET d == schedule_periodic_from(c, k, c.now, cfg.period[k], until)
           IN  Scheduled(c, d, {k}, until) /\ IdsBelow(d)
<1> DEFINE p == cfg.period[k]
           d == schedule_periodic_from(c, k, c.now, p, until)
           first == FirstAfter(c.now, p)
           n == CountTo(c.now, p, until)
           ev(i) == [at |-> first + i * p, id |-> c.next_id + i, kind |-> k, arg |-> 0]
           new == {ev(i) : i \in 0..(n - 1)}
<1> SUFFICES Scheduled(c, d, {k}, until) /\ IdsBelow(d)
    OBVIOUS
<1>1. c.next_id \in Nat /\ c.events \in SUBSET Event /\ c.now \in Nat /\ k \in EventKinds /\ p \in Nat
    BY DEF Clocks, EventKinds
<1>2. \A f \in c.events : f.id \in Nat /\ f.id < c.next_id
    BY <1>1 DEF IdsBelow, Event
<1>3. CASE p = 0
    <2>1. d = c
        BY <1>3 DEF schedule_periodic_from
    <2> QED
        BY <1>3, <2>1 DEF Scheduled, NewIds, Added, Clocks
<1>4. CASE p # 0
    <2>1. p \in Nat \ {0}
        BY <1>1, <1>4
    <2>2. d = [now |-> c.now, events |-> c.events \cup new, next_id |-> c.next_id + n]
        BY <1>4 DEF schedule_periodic_from, schedule_periodic, Clocks, FirstAfter, CountTo
    <2> HIDE DEF p, d, first, n
    <2>3. /\ first \in Nat /\ n \in Nat
          /\ \A i \in 0..(n - 1) : first + i * p \in (c.now + 1)..until /\ (first + i * p) % p = 0
          /\ \A t \in (c.now + 1)..until : t % p = 0 => \E i \in 0..(n - 1) : t = first + i * p
          /\ \A i, j \in 0..(n - 1) : i * p = j * p => i = j
        BY <1>1, <2>1, PeriodFacts DEF first, n
    <2>4. \A i \in 0..(n - 1) : i \in Nat /\ i < n /\ i * p \in Nat
        <3>1. \A i \in 0..(n - 1) : i \in Nat /\ i < n
            BY <2>3
        <3> QED
            BY <2>1, <3>1, Multiples
    <2>5. ASSUME NEW i \in 0..(n - 1)
          PROVE  /\ ev(i) \in Event /\ ev(i).at = first + i * p /\ ev(i).at \in (c.now + 1)..until /\ ev(i).at % p = 0
                 /\ ev(i).id = c.next_id + i /\ ev(i).kind = k /\ c.next_id <= ev(i).id /\ ev(i).id < c.next_id + n
        <3>1. first + i * p \in Nat /\ c.next_id + i \in Nat
            BY <1>1, <2>3, <2>4
        <3>2. ev(i) \in Event
            BY <1>1, <3>1 DEF Event
        <3>3. c.next_id <= c.next_id + i /\ c.next_id + i < c.next_id + n
            BY <1>1, <2>3, <2>4
        <3> QED
            BY <2>3, <3>2, <3>3
    <2>6. \A i, j \in 0..(n - 1) : (ev(i).at = ev(j).at \/ ev(i).id = ev(j).id) => i = j
        <3> SUFFICES ASSUME NEW i \in 0..(n - 1), NEW j \in 0..(n - 1), ev(i).at = ev(j).at \/ ev(i).id = ev(j).id
                     PROVE  i = j
            OBVIOUS
        <3>1. CASE ev(i).at = ev(j).at
            <4>1. first + i * p = first + j * p
                BY <2>5, <3>1
            <4>2. first \in Nat /\ i * p \in Nat /\ j * p \in Nat
                BY <2>3, <2>4
            <4>3. i * p = j * p
                BY <4>1, <4>2
            <4> QED
                BY <2>3, <4>3
        <3>2. CASE ev(i).id = ev(j).id
            <4>1. c.next_id + i = c.next_id + j
                BY <2>5, <3>2
            <4> QED
                BY <1>1, <2>4, <4>1
        <3> QED
            BY <3>1, <3>2
    <2> HIDE DEF ev
    <2>7. d \in Clocks /\ d.now = c.now /\ d.events = c.events \cup new /\ d.next_id = c.next_id + n
        <3>1. c.events \cup new \in SUBSET Event
            BY <1>1, <2>5
        <3> QED
            BY <1>1, <2>2, <2>3, <3>1 DEF Clocks
    <2>8. \A f \in new : f \notin c.events
        BY <1>1, <1>2, <2>5
    <2>9. Added(c, d) = new
        BY <2>7, <2>8 DEF Added
    <2>10. c.next_id <= c.next_id + n
        BY <1>1, <2>3
    <2>11. \A e \in new : c.next_id <= e.id /\ e.id < c.next_id + n
        BY <2>5
    <2>12. \A e, f \in new : (e.at = f.at \/ e.id = f.id) => e = f
        BY <2>6
    <2>13. NewIds(c, d)
        BY <2>7, <2>9, <2>10, <2>11, <2>12 DEF NewIds
    <2>14. IdsBelow(d)
        <3>1. \A f \in c.events : f.id < c.next_id + n
            BY <1>1, <1>2, <2>3
        <3> QED
            BY <2>7, <2>11, <3>1 DEF IdsBelow
    <2>15. \A e \in new : e.kind = k /\ e.at \in (c.now + 1)..until /\ e.at % p = 0
        BY <2>5
    <2>16. PollsBetween(new, c.now, until, p)
        <3>1. ASSUME NEW t \in (c.now + 1)..until, t % p = 0 PROVE \E e \in new : e.at = t
            <4>1. PICK i \in 0..(n - 1) : t = first + i * p
                BY <2>3, <3>1
            <4> QED
                BY <2>5, <4>1
        <3> QED
            BY <2>12, <2>15, <3>1 DEF PollsBetween
    <2>17. \A e \in new : c.now < e.at /\ e.at <= until
        BY <1>1, <2>15
    <2>18. OfKind(new, k) = new
        BY <2>15 DEF OfKind
    <2> HIDE DEF new
    <2> QED
        BY <2>9, <2>13, <2>14, <2>15, <2>16, <2>17, <2>18 DEF Scheduled, p
<1> QED
    BY <1>3, <1>4

\* S holds the one event of an edge, if it lies after a and not after b.
OneEdge(S, kind, i, at, a, b) ==
    /\ \A e \in S : e.kind = kind /\ e.arg = i /\ e.at = at /\ a < at /\ at <= b
    /\ a < at /\ at <= b => S # {}
    /\ \A e, f \in S : e = f

\* When the i-th injection begins or ends.
EdgeTime(kind, i) ==
    IF kind = "InjectionStart" THEN cfg.injections[i].t_start
    ELSE cfg.injections[i].t_start + cfg.injections[i].duration

OfEdge(S, kind, i) == {e \in S : e.kind = kind /\ e.arg = i}

\* S holds the edges of the injections in J after a and up to b, and no other edges.
EdgesBetween(S, J, a, b) ==
    /\ \A e \in S : e.kind \in EdgeKinds => e.arg \in J
    /\ \A i \in J : \A kind \in EdgeKinds : OneEdge(OfEdge(S, kind, i), kind, i, EdgeTime(kind, i), a, b)

\* The edges of different injections do not mix.
LEMMA EdgesBoth ==
    ASSUME NEW S, NEW T, NEW J, NEW L, NEW a, NEW b, EdgesBetween(S, J, a, b), EdgesBetween(T, L, a, b),
           J \cap L = {}
    PROVE  EdgesBetween(S \cup T, J \cup L, a, b)
<1>1. \A e \in S \cup T : e.kind \in EdgeKinds => e.arg \in J \cup L
    BY DEF EdgesBetween
<1>2. ASSUME NEW i \in J \cup L, NEW kind \in EdgeKinds
      PROVE  OneEdge(OfEdge(S \cup T, kind, i), kind, i, EdgeTime(kind, i), a, b)
    <2>1. CASE i \in J
        <3>1. OfEdge(S \cup T, kind, i) = OfEdge(S, kind, i)
            BY <2>1 DEF OfEdge, EdgesBetween
        <3> QED
            BY <2>1, <3>1 DEF EdgesBetween
    <2>2. CASE i \in L
        <3>1. OfEdge(S \cup T, kind, i) = OfEdge(T, kind, i)
            BY <2>2 DEF OfEdge, EdgesBetween
        <3> QED
            BY <2>2, <3>1 DEF EdgesBetween
    <2> QED
        BY <2>1, <2>2
<1> QED
    BY <1>1, <1>2 DEF EdgesBetween

\* The edge of an injection.
EdgeClock(clk, kind, i, at, now0, until) ==
    IF now0 < at /\ at <= until THEN schedule(clk, kind, i, at) ELSE clk

\* An edge is scheduled if it lies ahead and within the call.
LEMMA EdgeScheduled ==
    ASSUME NEW c \in Clocks, IdsBelow(c), NEW kind \in EdgeKinds, NEW i \in Nat, NEW at \in Nat, NEW until \in Nat
    PROVE  LET d == EdgeClock(c, kind, i, at, c.now, until)
           IN  /\ Scheduled(c, d, EdgeKinds, until) /\ IdsBelow(d)
               /\ OneEdge(Added(c, d), kind, i, at, c.now, until)
<1> DEFINE d == EdgeClock(c, kind, i, at, c.now, until)
           e == [at |-> at, id |-> c.next_id, kind |-> kind, arg |-> i]
<1> SUFFICES Scheduled(c, d, EdgeKinds, until) /\ IdsBelow(d) /\ OneEdge(Added(c, d), kind, i, at, c.now, until)
    OBVIOUS
<1>1. EdgeKinds \cap PollKinds = {}
    BY DEF EdgeKinds, PollKinds, SignalKinds
<1>2. CASE c.now < at /\ at <= until
    <2>1. d = schedule(c, kind, i, at) /\ kind \in EventKinds
        BY <1>2 DEF EdgeClock, EventKinds
    <2>2. e.kind = kind /\ e.at = at /\ e.arg = i
        OBVIOUS
    <2> HIDE DEF d, e
    <2>3. NewIds(c, d) /\ IdsBelow(d) /\ Added(c, d) = {e}
        BY <2>1, ScheduleFacts DEF e
    <2> QED
        BY <1>1, <1>2, <2>2, <2>3 DEF Scheduled, OneEdge
<1>3. CASE ~(c.now < at /\ at <= until)
    <2>1. d = c
        BY <1>3 DEF EdgeClock
    <2> QED
        <3>1. Added(c, d) = {}
            BY <2>1 DEF Added
        <3> QED
            BY <1>1, <1>3, <2>1, <3>1, ScheduledNone DEF OneEdge
<1> QED
    BY <1>2, <1>3

InjectionRecords == [var : STRING, op : STRING, delta : Int, tau : Nat, t_start : Nat, duration : Nat]

\* Both edges of the i-th injection.
EdgesClock(clk, i, now0, until) ==
    EdgeClock(EdgeClock(clk, "InjectionStart", i, cfg.injections[i].t_start, now0, until),
              "InjectionEnd", i, cfg.injections[i].t_start + cfg.injections[i].duration, now0, until)

\* Both edges of one injection.
LEMMA EdgesScheduled ==
    ASSUME WellFormed(cfg), NEW c \in Clocks, IdsBelow(c), NEW i \in 1..Len(cfg.injections), NEW until \in Nat
    PROVE  LET d == EdgesClock(c, i, c.now, until)
           IN  /\ Scheduled(c, d, EdgeKinds, until) /\ IdsBelow(d) /\ d \in Clocks /\ d.now = c.now
               /\ EdgesBetween(Added(c, d), {i}, c.now, until)
<1> DEFINE inj == cfg.injections[i]
           b == EdgeClock(c, "InjectionStart", i, inj.t_start, c.now, until)
           d == EdgeClock(b, "InjectionEnd", i, inj.t_start + inj.duration, b.now, until)
<1>1. inj.t_start \in Nat /\ inj.t_start + inj.duration \in Nat /\ i \in Nat
    <2>1. cfg.injections \in Seq(InjectionRecords)
        BY DEF WellFormed, InjectionRecords
    <2>2. inj \in InjectionRecords
        <3> HIDE DEF InjectionRecords
        <3> QED
            BY <2>1
    <2>3. inj.t_start \in Nat /\ inj.duration \in Nat
        BY <2>2 DEF InjectionRecords
    <2>4. Len(cfg.injections) \in Nat
        BY <2>1
    <2> QED
        BY <2>3, <2>4
<1>2. "InjectionStart" \in EdgeKinds /\ "InjectionEnd" \in EdgeKinds /\ EdgeKinds \cap PollKinds = {}
    BY DEF EdgeKinds, PollKinds, SignalKinds
<1> HIDE DEF inj
<1>3. /\ Scheduled(c, b, EdgeKinds, until) /\ IdsBelow(b)
      /\ OneEdge(Added(c, b), "InjectionStart", i, inj.t_start, c.now, until)
    BY <1>1, <1>2, EdgeScheduled
<1>4. b \in Clocks /\ b.now = c.now
    BY <1>3 DEF Scheduled, NewIds
<1> HIDE DEF b
<1>5. /\ Scheduled(b, d, EdgeKinds, until) /\ IdsBelow(d)
      /\ OneEdge(Added(b, d), "InjectionEnd", i, inj.t_start + inj.duration, b.now, until)
    BY <1>1, <1>2, <1>3, <1>4, EdgeScheduled
<1>6. d = EdgesClock(c, i, c.now, until)
    BY <1>4 DEF EdgesClock, b, inj
<1> HIDE DEF d
<1>7. EdgeKinds \cap EdgeKinds \cap PollKinds = {} /\ EdgeKinds \cup EdgeKinds = EdgeKinds
    BY <1>2
<1>8. Scheduled(c, d, EdgeKinds \cup EdgeKinds, until)
    BY <1>3, <1>5, <1>7, ScheduledBoth
<1>9. d \in Clocks /\ d.now = b.now
    BY <1>5 DEF Scheduled, NewIds
<1>10. EdgesBetween(Added(c, d), {i}, c.now, until)
    <2>1. Added(c, d) = Added(c, b) \cup Added(b, d)
        BY <1>3, <1>5, NewIdsBoth DEF Scheduled
    <2>2. /\ \A e \in Added(c, b) : e.kind = "InjectionStart" /\ e.arg = i
          /\ \A e \in Added(b, d) : e.kind = "InjectionEnd" /\ e.arg = i
        BY <1>3, <1>5 DEF OneEdge
    <2>3. OfEdge(Added(c, d), "InjectionStart", i) = Added(c, b) /\ OfEdge(Added(c, d), "InjectionEnd", i) = Added(b, d)
        BY <2>1, <2>2 DEF OfEdge
    <2>4. EdgeTime("InjectionStart", i) = inj.t_start /\ EdgeTime("InjectionEnd", i) = inj.t_start + inj.duration
        BY DEF EdgeTime, inj
    <2>5. \A e \in Added(c, d) : e.arg = i
        BY <2>1, <2>2
    <2>6. \A kind \in EdgeKinds : OneEdge(OfEdge(Added(c, d), kind, i), kind, i, EdgeTime(kind, i), c.now, until)
        BY <1>3, <1>4, <1>5, <2>3, <2>4 DEF EdgeKinds
    <2> QED
        BY <2>5, <2>6 DEF EdgesBetween
<1> QED
    BY <1>4, <1>5, <1>6, <1>7, <1>8, <1>9, <1>10

\* All edges of all injections, one injection after the other.
Edges(g, c, until) ==
    [i \in 0..Len(cfg.injections) |-> IF i = 0 THEN c ELSE EdgesClock(g[i - 1], i, c.now, until)]

\* The recursion of preload_events over the injections schedules each edge that lies ahead, once.
LEMMA AllEdgesScheduled ==
    ASSUME WellFormed(cfg), NEW c \in Clocks, IdsBelow(c), NEW until \in Nat
    PROVE  LET h == CHOOSE g : g = Edges(g, c, until)
               d == h[Len(cfg.injections)]
           IN  /\ Scheduled(c, d, EdgeKinds, until) /\ IdsBelow(d)
               /\ EdgesBetween(Added(c, d), 1..Len(cfg.injections), c.now, until)
<1> DEFINE n == Len(cfg.injections)
           D == {d \in Clocks : IdsBelow(d) /\ d.now = c.now}
           step == [x \in D \X (1..n) |-> EdgesClock(x[1], x[2], c.now, until)]
           h == CHOOSE g : g = Edges(g, c, until)
<1> SUFFICES /\ Scheduled(c, h[n], EdgeKinds, until) /\ IdsBelow(h[n])
             /\ EdgesBetween(Added(c, h[n]), 1..n, c.now, until)
    OBVIOUS
<1>1. n \in Nat /\ c \in D
    <2>1. cfg.injections \in Seq(InjectionRecords)
        BY DEF WellFormed, InjectionRecords
    <2> QED
        BY <2>1
<1>2. \A d \in D : \A i \in 1..n : /\ EdgesClock(d, i, c.now, until) \in D
                                   /\ Scheduled(d, EdgesClock(d, i, c.now, until), EdgeKinds, until)
                                   /\ EdgesBetween(Added(d, EdgesClock(d, i, c.now, until)), {i}, c.now, until)
    BY EdgesScheduled
<1>3. step \in [D \X (1..n) -> D] /\ \A d \in D : \A i \in 1..n : step[<<d, i>>] = EdgesClock(d, i, c.now, until)
    <2> HIDE DEF D, n
    <2> QED
        BY <1>2
<1>4. EdgeKinds \cap PollKinds = {} /\ EdgeKinds \cup EdgeKinds = EdgeKinds
    BY DEF EdgeKinds, PollKinds, SignalKinds
<1>5. \A g : Edges(g, c, until) = [i \in 0..n |-> IF i = 0 THEN c ELSE EdgesClock(g[i - 1], i, c.now, until)]
    BY DEF Edges
<1> HIDE DEF step, D, n
<1>6. PICK f \in [0..n -> D] : Iterates(f, n, c, step)
    BY <1>1, <1>3, Recursion
<1>7. \A i \in 1..n : i \in 0..n /\ i # 0 /\ i - 1 \in 0..n
    BY <1>1
<1>8. \A i \in 1..n : f[i] = EdgesClock(f[i - 1], i, c.now, until)
    BY <1>3, <1>6, <1>7 DEF Iterates
<1>9. 0 \in 0..n /\ f[0] = c /\ n \in 0..n /\ \A i \in 0..n : i # 0 => i \in 1..n
    BY <1>1, <1>6 DEF Iterates
<1>10. f = Edges(f, c, until)
    BY <1>5, <1>8, <1>9
<1>11. h = Edges(h, c, until)
    BY <1>10
<1> HIDE DEF h
<1>12. h[0] = c /\ \A i \in 1..n : h[i] = EdgesClock(h[i - 1], i, c.now, until)
    BY <1>5, <1>7, <1>9, <1>11
<1>13. \A i \in 0..n : /\ h[i] \in D /\ Scheduled(c, h[i], EdgeKinds, until)
                       /\ EdgesBetween(Added(c, h[i]), 1..i, c.now, until)
    <2> DEFINE G == {i \in 0..n : /\ h[i] \in D /\ Scheduled(c, h[i], EdgeKinds, until)
                                  /\ EdgesBetween(Added(c, h[i]), 1..i, c.now, until)}
    <2>1. 0 \in G
        <3>1. Added(c, c) = {} /\ \A j : j \notin 1..0
            BY DEF Added
        <3>2. EdgesBetween(Added(c, c), 1..0, c.now, until)
            BY <3>1 DEF EdgesBetween
        <3>3. Scheduled(c, c, EdgeKinds, until)
            BY <1>4, ScheduledNone
        <3> QED
            BY <1>1, <1>9, <1>12, <3>2, <3>3
    <2>2. ASSUME NEW i \in 0..(n - 1), i \in G PROVE i + 1 \in G
        <3>1. i + 1 \in 1..n /\ i + 1 \in 0..n /\ (i + 1) - 1 = i
            BY <1>1
        <3>2. h[i] \in D /\ h[i + 1] = EdgesClock(h[i], i + 1, c.now, until)
            BY <1>12, <2>2, <3>1
        <3>3. h[i + 1] \in D /\ Scheduled(h[i], h[i + 1], EdgeKinds, until)
            BY <1>2, <3>1, <3>2
        <3>4. Scheduled(c, h[i], EdgeKinds, until) /\ EdgeKinds \cap EdgeKinds \cap PollKinds = {}
            BY <1>4, <2>2
        <3>5. Scheduled(c, h[i + 1], EdgeKinds \cup EdgeKinds, until)
            BY <3>3, <3>4, ScheduledBoth
        <3>6. /\ EdgesBetween(Added(h[i], h[i + 1]), {i + 1}, c.now, until)
              /\ EdgesBetween(Added(c, h[i]), 1..i, c.now, until)
            BY <1>2, <2>2, <3>1, <3>2
        <3>7. 1..(i + 1) = 1..i \cup {i + 1} /\ 1..i \cap {i + 1} = {}
            BY <1>1
        <3>8. Added(c, h[i + 1]) = Added(c, h[i]) \cup Added(h[i], h[i + 1])
            BY <3>3, <3>4, NewIdsBoth DEF Scheduled
        <3>9. EdgesBetween(Added(c, h[i]) \cup Added(h[i], h[i + 1]), 1..i \cup {i + 1}, c.now, until)
            BY <3>6, <3>7, EdgesBoth
        <3>10. EdgesBetween(Added(c, h[i + 1]), 1..(i + 1), c.now, until)
            BY <3>7, <3>8, <3>9
        <3> QED
            BY <1>4, <3>1, <3>3, <3>5, <3>10
    <2> HIDE DEF G
    <2>3. \A i \in 0..n : i \in G
        BY <1>1, <2>1, <2>2, UpTo
    <2> QED
        BY <2>3 DEF G
<1> QED
    BY <1>9, <1>13 DEF D

\* What run_for and run_until schedule before their first tick.
LEMMA PreloadFacts ==
    ASSUME WellFormed(cfg), NEW c \in Clocks, IdsBelow(c), NEW until \in Nat
    PROVE  /\ Scheduled(c, preload_events(c, until), PollKinds \cup EdgeKinds, until)
           /\ IdsBelow(preload_events(c, until))
           /\ EdgesBetween(Added(c, preload_events(c, until)), 1..Len(cfg.injections), c.now, until)
<1> DEFINE poll(clk, kind) == schedule_periodic_from(clk, kind, c.now, cfg.period[kind], until)
           c1 == poll(c, "Heartbeat")
           c2 == poll(c1, "memory")
           c3 == poll(c2, "compute")
           c4 == poll(c3, "thermal")
           c5 == poll(c4, "energy")
           edges(g) == [i \in 0..Len(cfg.injections) |-> IF i = 0 THEN c5 ELSE EdgesClock(g[i - 1], i, c.now, until)]
           h == CHOOSE g : g = edges(g)
<1>1. preload_events(c, until) = h[Len(cfg.injections)]
    BY DEF preload_events, EdgesClock, EdgeClock
<1>2. \A k \in PollKinds : cfg.period[k] \in Nat
    BY DEF WellFormed, PollKinds
<1>3. PollKinds = {"Heartbeat", "memory", "compute", "thermal", "energy"}
    BY DEF PollKinds, SignalKinds
<1>4. ASSUME NEW d \in Clocks, IdsBelow(d), d.now = c.now, NEW k \in PollKinds
      PROVE  /\ Scheduled(d, poll(d, k), {k}, until) /\ IdsBelow(poll(d, k))
             /\ poll(d, k) \in Clocks /\ poll(d, k).now = c.now
    <2>1. Scheduled(d, poll(d, k), {k}, until) /\ IdsBelow(poll(d, k))
        BY <1>2, <1>4, PollScheduled
    <2> QED
        BY <1>4, <2>1 DEF Scheduled, NewIds
<1> HIDE DEF poll
<1>5. Scheduled(c, c1, {"Heartbeat"}, until) /\ IdsBelow(c1) /\ c1 \in Clocks /\ c1.now = c.now
    BY <1>3, <1>4
<1> HIDE DEF c1
<1>6. Scheduled(c1, c2, {"memory"}, until) /\ IdsBelow(c2) /\ c2 \in Clocks /\ c2.now = c.now
    BY <1>3, <1>4, <1>5
<1> HIDE DEF c2
<1>7. Scheduled(c2, c3, {"compute"}, until) /\ IdsBelow(c3) /\ c3 \in Clocks /\ c3.now = c.now
    BY <1>3, <1>4, <1>6
<1> HIDE DEF c3
<1>8. Scheduled(c3, c4, {"thermal"}, until) /\ IdsBelow(c4) /\ c4 \in Clocks /\ c4.now = c.now
    BY <1>3, <1>4, <1>7
<1> HIDE DEF c4
<1>9. Scheduled(c4, c5, {"energy"}, until) /\ IdsBelow(c5) /\ c5 \in Clocks /\ c5.now = c.now
    BY <1>3, <1>4, <1>8
<1> HIDE DEF c5
<1>10. /\ Scheduled(c5, h[Len(cfg.injections)], EdgeKinds, until) /\ IdsBelow(h[Len(cfg.injections)])
       /\ EdgesBetween(Added(c5, h[Len(cfg.injections)]), 1..Len(cfg.injections), c5.now, until)
    <2>1. h = CHOOSE g : g = Edges(g, c5, until)
        BY <1>9 DEF Edges
    <2> HIDE DEF h
    <2> QED
        BY <1>9, <2>1, AllEdgesScheduled
<1> HIDE DEF h
<1>11. Scheduled(c, c2, {"Heartbeat"} \cup {"memory"}, until)
    BY <1>5, <1>6, ScheduledBoth
<1>12. Scheduled(c, c3, {"Heartbeat", "memory"} \cup {"compute"}, until)
    <2>1. {"Heartbeat"} \cup {"memory"} = {"Heartbeat", "memory"}
        OBVIOUS
    <2> QED
        BY <1>11, <1>7, <2>1, ScheduledBoth
<1>13. Scheduled(c, c4, {"Heartbeat", "memory", "compute"} \cup {"thermal"}, until)
    <2>1. {"Heartbeat", "memory"} \cup {"compute"} = {"Heartbeat", "memory", "compute"}
        OBVIOUS
    <2> QED
        BY <1>12, <1>8, <2>1, ScheduledBoth
<1>14. Scheduled(c, c5, {"Heartbeat", "memory", "compute", "thermal"} \cup {"energy"}, until)
    <2>1. {"Heartbeat", "memory", "compute"} \cup {"thermal"} = {"Heartbeat", "memory", "compute", "thermal"}
        OBVIOUS
    <2> QED
        BY <1>13, <1>9, <2>1, ScheduledBoth
<1>15. Scheduled(c, h[Len(cfg.injections)], PollKinds \cup EdgeKinds, until)
    <2>1. {"Heartbeat", "memory", "compute", "thermal"} \cup {"energy"} = PollKinds
        BY <1>3
    <2>2. PollKinds \cap EdgeKinds \cap PollKinds = {}
        BY <1>3 DEF EdgeKinds
    <2> QED
        BY <1>14, <1>10, <2>1, <2>2, ScheduledBoth
<1>16. EdgesBetween(Added(c, h[Len(cfg.injections)]), 1..Len(cfg.injections), c.now, until)
    <2> DEFINE d == h[Len(cfg.injections)]
    <2> HIDE DEF d
    <2>1. Added(c, d) = Added(c, c5) \cup Added(c5, d)
        BY <1>10, <1>14, NewIdsBoth DEF Scheduled, d
    <2>2. \A e \in Added(c, c5) : e.kind \notin EdgeKinds
        BY <1>14 DEF Scheduled, EdgeKinds
    <2>3. EdgesBetween(Added(c5, d), 1..Len(cfg.injections), c.now, until)
        BY <1>9, <1>10 DEF d
    <2>4. \A i : \A kind \in EdgeKinds : OfEdge(Added(c, d), kind, i) = OfEdge(Added(c5, d), kind, i)
        BY <2>1, <2>2 DEF OfEdge
    <2> QED
        BY <2>1, <2>2, <2>3, <2>4 DEF EdgesBetween, d
<1> QED
    BY <1>1, <1>10, <1>15, <1>16

\* The observations of a batch: one for each compression.
Observation(e) ==
    e.kind = "ObservationDue" /\ e.arg = clock.now /\ e.at = clock.now + OBSERVATION_DELAY

\* apply_directive schedules as many observations as there are compressions, all due after the delay.
LEMMA ObserveFacts ==
    ASSUME NEW c \in Clocks, IdsBelow(c), clock.now \in Nat, NEW commands \in Seq(EngineCommand)
    PROVE  LET d == observe(c, commands)
           IN  /\ NewIds(c, d) /\ IdsBelow(d) /\ \A e \in Added(c, d) : Observation(e)
               /\ IsFiniteSet(Added(c, d)) /\ Cardinality(Added(c, d)) = Compressions(commands)
<1> DEFINE n == Len(commands)
           next(d, i) == IF commands[i].type = "KvCompress"
                         THEN schedule(d, "ObservationDue", clock.now, clock.now + OBSERVATION_DELAY) ELSE d
           D == {d \in Clocks : IdsBelow(d)}
           step == [x \in D \X (1..n) |-> next(x[1], x[2])]
           F(g) == [i \in 0..n |-> IF i = 0 THEN c ELSE next(g[i - 1], i)]
           h == CHOOSE g : g = F(g)
           some(i) == {j \in 1..i : commands[j].type = "KvCompress"}
<1>1. n \in Nat /\ c \in D
    OBVIOUS
<1>2. observe(c, commands) = h[n] /\ Compressions(commands) = Cardinality(some(n))
    <2>1. observe(c, commands) = h[n]
        BY DEF observe
    <2>2. DOMAIN commands = 1..n
        OBVIOUS
    <2> QED
        BY <2>1, <2>2 DEF Compressions
<1>3. ASSUME NEW d \in D, NEW i \in 1..n
      PROVE  /\ next(d, i) \in D /\ NewIds(d, next(d, i))
             /\ commands[i].type = "KvCompress" => \E e : Added(d, next(d, i)) = {e} /\ Observation(e)
             /\ commands[i].type # "KvCompress" => Added(d, next(d, i)) = {}
    <2>1. CASE commands[i].type = "KvCompress"
        <3> DEFINE e == [at |-> clock.now + OBSERVATION_DELAY, id |-> d.next_id,
                         kind |-> "ObservationDue", arg |-> clock.now]
        <3>1. clock.now + OBSERVATION_DELAY \in Nat /\ "ObservationDue" \in EventKinds
            BY SimulatorAssumption DEF EventKinds
        <3>2. next(d, i) = schedule(d, "ObservationDue", clock.now, clock.now + OBSERVATION_DELAY)
            BY <2>1
        <3>3. Observation(e)
            BY DEF Observation
        <3>4. d \in Clocks /\ IdsBelow(d) /\ clock.now \in Nat
            OBVIOUS
        <3> DEFINE s == schedule(d, "ObservationDue", clock.now, clock.now + OBSERVATION_DELAY)
        <3> HIDE DEF D, next
        <3>5. NewIds(d, s) /\ IdsBelow(s) /\ Added(d, s) = {e}
            BY <3>1, <3>4, ScheduleFacts, Zenon
        <3> QED
            BY <2>1, <3>2, <3>3, <3>5 DEF NewIds, D
    <2>2. CASE commands[i].type # "KvCompress"
        <3>1. next(d, i) = d
            BY <2>2
        <3> HIDE DEF next
        <3> QED
            BY <2>2, <3>1 DEF NewIds, Added, Clocks
    <2> QED
        BY <2>1, <2>2
<1> HIDE DEF next
<1>4. step \in [D \X (1..n) -> D] /\ \A d \in D : \A i \in 1..n : step[<<d, i>>] = next(d, i)
    <2>1. \A d \in D : \A i \in 1..n : next(d, i) \in D
        BY <1>3
    <2> HIDE DEF D, n
    <2> QED
        BY <2>1
<1> HIDE DEF step, n
<1>5. PICK f \in [0..n -> D] : Iterates(f, n, c, step)
    <2> HIDE DEF D
    <2> QED
        BY <1>1, <1>4, Recursion
<1>6. \A i \in 1..n : i \in 0..n /\ i # 0 /\ i - 1 \in 0..n
    BY <1>1
<1>7. \A i \in 1..n : f[i] = next(f[i - 1], i)
    <2> HIDE DEF D
    <2> QED
        BY <1>4, <1>5, <1>6 DEF Iterates
<1>8. 0 \in 0..n /\ f[0] = c /\ n \in 0..n
    BY <1>1, <1>5 DEF Iterates
<1>9. \A i \in 0..n : i # 0 => i \in 1..n
    BY <1>1
<1>10. f = F(f)
    <2> HIDE DEF D
    <2> QED
        BY <1>7, <1>8, <1>9
<1>11. h = F(h)
    BY <1>10
<1> HIDE DEF h
<1>12. h[0] = c /\ \A i \in 1..n : h[i] = next(h[i - 1], i)
    BY <1>6, <1>8, <1>11
<1> DEFINE Ok(i) == /\ h[i] \in D /\ NewIds(c, h[i]) /\ \A e \in Added(c, h[i]) : Observation(e)
                    /\ IsFiniteSet(Added(c, h[i])) /\ IsFiniteSet(some(i))
                    /\ Cardinality(Added(c, h[i])) = Cardinality(some(i))
<1>13. \A i \in 0..n : Ok(i)
    <2> DEFINE G == {i \in 0..n : Ok(i)}
    <2>1. 0 \in G
        <3>1. some(0) = {} /\ Added(c, h[0]) = {} /\ h[0] \in D
            BY <1>1, <1>12 DEF Added
        <3>2. NewIds(c, h[0])
            BY <1>12, <3>1 DEF NewIds, Clocks
        <3> QED
            BY <1>8, <3>1, <3>2, FS_EmptySet
    <2>2. ASSUME NEW i \in 0..(n - 1), i \in G PROVE i + 1 \in G
        <3>1. i \in 0..n /\ i + 1 \in 1..n /\ i + 1 \in 0..n /\ (i + 1) - 1 = i /\ i + 1 \notin 1..i
              /\ 1..(i + 1) = 1..i \cup {i + 1}
            BY <1>1
        <3>2. h[i] \in D /\ h[i + 1] = next(h[i], i + 1)
            BY <1>12, <2>2, <3>1
        <3>3. NewIds(h[i], h[i + 1]) /\ Ok(i) /\ h[i + 1] \in D
            BY <1>3, <2>2, <3>1, <3>2
        <3>4. NewIds(c, h[i + 1]) /\ Added(c, h[i + 1]) = Added(c, h[i]) \cup Added(h[i], h[i + 1])
              /\ Added(c, h[i]) \cap Added(h[i], h[i + 1]) = {}
            BY <3>3, NewIdsBoth
        <3>5. CASE commands[i + 1].type = "KvCompress"
            <4>1. PICK e : Added(h[i], h[i + 1]) = {e} /\ Observation(e)
                BY <1>3, <3>1, <3>2, <3>5
            <4>2. Added(c, h[i + 1]) = Added(c, h[i]) \cup {e} /\ e \notin Added(c, h[i])
                BY <3>4, <4>1
            <4>3. some(i + 1) = some(i) \cup {i + 1} /\ i + 1 \notin some(i)
                BY <3>1, <3>5
            <4> HIDE DEF some
            <4>4. IsFiniteSet(Added(c, h[i + 1])) /\ Cardinality(Added(c, h[i + 1])) = Cardinality(Added(c, h[i])) + 1
                BY <3>3, <4>2, FS_AddElement
            <4>5. IsFiniteSet(some(i + 1)) /\ Cardinality(some(i + 1)) = Cardinality(some(i)) + 1
                BY <3>3, <4>3, FS_AddElement
            <4> QED
                BY <3>1, <3>3, <3>4, <4>1, <4>2, <4>4, <4>5
        <3>6. CASE commands[i + 1].type # "KvCompress"
            <4>1. Added(h[i], h[i + 1]) = {}
                BY <1>3, <3>1, <3>2, <3>6
            <4>2. Added(c, h[i + 1]) = Added(c, h[i]) /\ some(i + 1) = some(i)
                BY <3>1, <3>4, <3>6, <4>1
            <4> HIDE DEF some
            <4> QED
                BY <3>1, <3>3, <3>4, <4>2
        <3> QED
            BY <3>5, <3>6
    <2> HIDE DEF G
    <2>3. \A i \in 0..n : i \in G
        BY <1>1, <2>1, <2>2, UpTo
    <2> QED
        BY <2>3 DEF G
<1>14. Ok(n) /\ observe(c, commands) = h[n]
    BY <1>2, <1>8, <1>13
<1> HIDE DEF some
<1> QED
    BY <1>2, <1>14

\* The event handled next: the one that is due first.
LEMMA EarliestFacts ==
    ASSUME NEW S \in SUBSET Event, S # {}, \A e, f \in S : e.id = f.id => e = f
    PROVE  Earliest(S) \in S /\ \A f \in S : Earliest(S).at <= f.at
<1>1. \A e \in S : e.at \in Nat /\ e.id \in Nat
    BY DEF Event
<1> DEFINE T == {e.at : e \in S}
<1>2. T \in SUBSET Nat /\ T # {}
    BY <1>1
<1> HIDE DEF T
<1>3. PICK t \in T : \A u \in T : t <= u
    BY <1>2, LeastNat
<1> DEFINE I == {e.id : e \in {f \in S : f.at = t}}
<1>4. I \in SUBSET Nat /\ I # {}
    BY <1>1, <1>3 DEF T
<1> HIDE DEF I
<1>5. PICK x \in I : \A y \in I : x <= y
    BY <1>4, LeastNat
<1>6. PICK e \in S : e.at = t /\ e.id = x
    BY <1>5 DEF I
<1>7. ASSUME NEW f \in S \ {e} PROVE Before(e, f)
    <2>1. f.at \in T /\ t <= f.at /\ f.id # e.id
        BY <1>3 DEF T
    <2>2. CASE f.at = t
        <3>1. f.id \in I
            BY <2>2 DEF I
        <3> QED
            BY <1>1, <1>5, <1>6, <2>1, <2>2, <3>1 DEF Before
    <2>3. CASE f.at # t
        BY <1>1, <1>6, <2>1, <2>3 DEF Before
    <2> QED
        BY <2>2, <2>3
<1>8. Earliest(S) \in S /\ \A f \in S \ {Earliest(S)} : Before(Earliest(S), f)
    BY <1>6, <1>7 DEF Earliest
<1>9. \A f \in S : Earliest(S).at <= f.at
    BY <1>1, <1>8 DEF Before
<1> QED
    BY <1>8, <1>9

-----------------------------------------------------------------------------
(* What the handlers record.                                               *)

\* last_at_s is the time of the last entry.
LEMMA LastAt ==
    ASSUME NEW t, IsSeq(t)
    PROVE  last_at_s(t) = IF Len(t) = 0 THEN 0 ELSE t[Len(t)].at
BY SeqFacts DEF last_at_s, Last

\* The literal sequences.
LEMMA Tuples ==
    /\ IsSeq(<<>>) /\ Len(<<>>) = 0
    /\ \A x : IsSeq(<<x>>) /\ Len(<<x>>) = 1 /\ <<x>>[1] = x
    /\ \A x, y : IsSeq(<<x, y>>) /\ Len(<<x, y>>) = 2 /\ <<x, y>>[1] = x /\ <<x, y>>[2] = y
<1>1. <<>> \in Seq({})
    OBVIOUS
<1>2. \A x : <<x>> \in Seq({x}) /\ Len(<<x>>) = 1 /\ <<x>>[1] = x
    OBVIOUS
<1>3. \A x, y : <<x, y>> \in Seq({x, y}) /\ Len(<<x, y>>) = 2 /\ <<x, y>>[1] = x /\ <<x, y>>[2] = y
    OBVIOUS
<1>4. Len(<<>>) = 0
    OBVIOUS
<1> QED
    BY <1>1, <1>2, <1>3, <1>4 DEF IsSeq

\* Entries are added to the trajectory; none is changed.
Extended(t, u) ==
    /\ IsSeq(t) /\ IsSeq(u) /\ Len(t) <= Len(u)
    /\ \A i \in 1..Len(t) : u[i] = t[i]

\* The trajectory u is t, the transition of the level of kind k if from and to differ, perhaps a
\* directive, and the signal, at position m, all of them at time at.
SignalAdded(t, u, m, at, k, from, sig) ==
    /\ Extended(t, u) /\ Len(u) = m /\ m > Len(t)
    /\ u[m] = Signal(at, sig)
    /\ \A i \in (Len(t) + 1)..(m - 1) :
          \/ u[i].kind = "Directive" /\ u[i].at = at
          \/ /\ i = Len(t) + 1 /\ from # sig.level
             /\ \E s : u[i] = LevelTransition(at, k, from, sig.level, s)
    /\ from # sig.level => /\ Len(t) + 1 < m
                           /\ \E s : u[Len(t) + 1] = LevelTransition(at, k, from, sig.level, s)

\* The entries HandleSignal appends.
LEMMA SignalConcat ==
    ASSUME NEW t, IsSeq(t), NEW change, NEW tail, NEW at, NEW k, NEW from, NEW sig, NEW s, NEW c,
           change = IF from = sig.level THEN <<>> ELSE <<LevelTransition(at, k, from, sig.level, s)>>,
           tail = <<Signal(at, sig)>> \/ tail = <<Directive(at, sig, c), Signal(at, sig)>>
    PROVE  \E m \in Nat : SignalAdded(t, t \o change \o tail, m, at, k, from, sig)
<1> DEFINE n == Len(t)
           a == Len(change)
           b == Len(tail)
           v == t \o change
           u == v \o tail
           m == n + a + b
<1>1. IsSeq(change) /\ a \in {0, 1} /\ (a = 0 <=> from = sig.level)
      /\ (a = 1 => change[1] = LevelTransition(at, k, from, sig.level, s))
    BY Tuples
<1>2. IsSeq(tail) /\ b \in {1, 2} /\ tail[b] = Signal(at, sig) /\ (b = 2 => tail[1] = Directive(at, sig, c))
    BY Tuples
<1>3. n \in Nat
    BY SeqFacts
<1>4. Joined(t, change, v) /\ IsSeq(v)
    BY <1>1, SeqConcat DEF Joined
<1> HIDE DEF v
<1>5. Joined(v, tail, u)
    BY <1>2, <1>4, SeqConcat
<1> HIDE DEF u, n, a, b
<1>6. IsSeq(u) /\ Len(v) = n + a /\ Len(u) = (n + a) + b
    BY <1>4, <1>5 DEF Joined, n, a, b
<1>7. (\A i \in 1..n : v[i] = t[i]) /\ (\A j \in 1..a : v[n + j] = change[j])
    BY <1>4 DEF Joined, n, a
<1>8. (\A i \in 1..(n + a) : u[i] = v[i]) /\ (\A j \in 1..b : u[(n + a) + j] = tail[j])
    BY <1>5, <1>6 DEF Joined, b
<1>9. m \in Nat /\ Len(u) = m /\ m > n /\ n <= m
    BY <1>1, <1>2, <1>3, <1>6
<1>10. \A i \in 1..n : u[i] = t[i]
    <2>1. \A i \in 1..n : i \in 1..(n + a)
        BY <1>1, <1>3
    <2> QED
        BY <1>7, <1>8, <2>1
<1>11. u[m] = Signal(at, sig)
    <2>1. b \in 1..b /\ (n + a) + b = m
        BY <1>1, <1>2, <1>3
    <2> QED
        BY <1>2, <1>8, <2>1
<1>12. a = 1 => u[n + 1] = LevelTransition(at, k, from, sig.level, s)
    <2> SUFFICES ASSUME a = 1 PROVE u[n + 1] = LevelTransition(at, k, from, sig.level, s)
        OBVIOUS
    <2>1. n + 1 \in 1..(n + a) /\ 1 \in 1..a
        BY <1>3
    <2> QED
        BY <1>1, <1>7, <1>8, <2>1
<1>13. ASSUME NEW i \in (n + 1)..(m - 1)
       PROVE  (i = n + 1 /\ a = 1) \/ u[i] = Directive(at, sig, c)
    <2> SUFFICES ASSUME ~(i = n + 1 /\ a = 1) PROVE u[i] = Directive(at, sig, c)
        OBVIOUS
    <2>1. i = (n + a) + 1 /\ b = 2
        BY <1>1, <1>2, <1>3
    <2>2. 1 \in 1..b
        BY <2>1
    <2> QED
        BY <1>2, <1>8, <2>1, <2>2
<1>14. Directive(at, sig, c).kind = "Directive" /\ Directive(at, sig, c).at = at
    BY DEF Directive
<1>15. Extended(t, u)
    BY <1>3, <1>6, <1>9, <1>10 DEF Extended, n
<1>16. from # sig.level => a = 1 /\ n + 1 < m
    BY <1>1, <1>2, <1>3
<1>17. a = 1 => from # sig.level
    BY <1>1
<1>18. \A i \in (n + 1)..(m - 1) : 
          \/ u[i].kind = "Directive" /\ u[i].at = at
          \/ /\ i = n + 1 /\ from # sig.level
             /\ \E x : u[i] = LevelTransition(at, k, from, sig.level, x)
    BY <1>12, <1>13, <1>14, <1>17
<1> HIDE DEF m
<1>19. SignalAdded(t, u, m, at, k, from, sig)
    BY <1>9, <1>11, <1>12, <1>15, <1>16, <1>18 DEF SignalAdded, n
<1> QED
    BY <1>9, <1>19 DEF u, v

\* HandleSignal records the signal of its event with the change of level it makes, and schedules
\* the observations of what is let through.
LEMMA SignalHandled ==
    ASSUME HandleSignal, IsSeq(trajectory)
    PROVE  /\ stage = "events" /\ stage' = "events" /\ batch # {} /\ Earliest(batch).kind \in SignalKinds
           /\ batch' = batch \ {Earliest(batch)}
           /\ UNCHANGED <<loadVars, cfg, calls, state, call, end, exact, held>>
           /\ \E noise \in cfg.noise : \E m \in Nat :
                 LET e   == Earliest(batch)
                     sig == derive_signal(e.kind, state, noise, cfg)
                 IN  /\ SignalAdded(trajectory, trajectory', m, e.at, e.kind, last_signal_levels[e.kind], sig)
                     /\ last_signal_levels' = [last_signal_levels EXCEPT ![e.kind] = sig.level]
           /\ \/ clock' = clock /\ emitted' = emitted
              \/ \E c \in cfg.answers : /\ clock' = observe(clock, c)
                                        /\ emitted' = Append(emitted, [commands |-> c, at |-> now])
<1> DEFINE e == Earliest(batch)
<1>1. PICK noise \in cfg.noise :
          LET sig    == derive_signal(e.kind, state, noise, cfg)
              change == transition(e.at, e.kind, sig.level)
          IN  /\ last_signal_levels' = remember(e.kind, sig.level)
              /\ \/ NoAnswer /\ trajectory' = trajectory \o change \o <<Signal(e.at, sig)>>
                 \/ \E c \in cfg.answers :
                       \/ Obey(c) /\ trajectory' = trajectory \o change
                                                  \o <<Directive(e.at, sig, c), Signal(e.at, sig)>>
                       \/ Withhold(c) /\ trajectory' = trajectory \o change \o <<Signal(e.at, sig)>>
    BY DEF HandleSignal
<1> DEFINE sig == derive_signal(e.kind, state, noise, cfg)
           from == last_signal_levels[e.kind]
           change == transition(e.at, e.kind, sig.level)
<1>2. change = IF from = sig.level THEN <<>> ELSE <<LevelTransition(e.at, e.kind, from, sig.level, state)>>
    BY DEF transition
<1>3. last_signal_levels' = [last_signal_levels EXCEPT ![e.kind] = sig.level]
    BY <1>1 DEF remember
<1>4. PICK c : /\ \/ trajectory' = trajectory \o change \o <<Signal(e.at, sig)>>
                  \/ trajectory' = trajectory \o change \o <<Directive(e.at, sig, c), Signal(e.at, sig)>>
    BY <1>1
<1>5. \/ clock' = clock /\ emitted' = emitted
      \/ \E d \in cfg.answers : /\ clock' = observe(clock, d)
                                /\ emitted' = Append(emitted, [commands |-> d, at |-> now])
    BY <1>1 DEF NoAnswer, Obey, Withhold, Pass, Suppress, vars
<1>6. /\ stage = "events" /\ stage' = "events" /\ batch # {} /\ e.kind \in SignalKinds
      /\ batch' = batch \ {e} /\ UNCHANGED <<loadVars, cfg, calls, state, call, end, exact, held>>
    BY DEF HandleSignal, Due, Handled
<1> HIDE DEF sig, from, change
<1>7. PICK tail : /\ tail = <<Signal(e.at, sig)>> \/ tail = <<Directive(e.at, sig, c), Signal(e.at, sig)>>
                  /\ trajectory' = trajectory \o change \o tail
    BY <1>4
<1> HIDE DEF e
<1>8. \E m \in Nat : SignalAdded(trajectory, trajectory \o change \o tail, m, e.at, e.kind, from, sig)
    BY <1>2, <1>7, SignalConcat
<1>9. \E m \in Nat : SignalAdded(trajectory, trajectory', m, e.at, e.kind, from, sig)
    BY <1>7, <1>8
<1> QED
    BY <1>3, <1>5, <1>6, <1>9 DEF e, sig, from

-----------------------------------------------------------------------------
(* The clock, the events and the order of the trajectory.                  *)

Stages == {"loading", "idle", "loop", "events", "failed"}
CallRecords == [op : {"run_for", "run_until"}, for : Nat]

\* The times of a trajectory never go back.
InOrder(t) ==
    /\ \A i \in 1..Len(t) : t[i].at \in Nat
    /\ \A i \in 2..Len(t) : t[i - 1].at <= t[i].at

SimTyped ==
    /\ WellFormed(cfg) /\ stage \in Stages
    /\ clock \in Clocks /\ batch \in SUBSET Event
    /\ calls \in Seq(CallRecords) /\ end \in Nat
    /\ IsSeq(trajectory) /\ InOrder(trajectory)

\* The events that have not been handled yet.
Pending == clock.events \cup batch

IdsApart ==
    /\ \A e \in Pending : e.id < clock.next_id
    /\ \A e, f \in Pending : e.id = f.id => e = f
    /\ clock.events \cap batch = {}

\* No event is left behind in the past, and those of a tick are handled in order.
Timely ==
    /\ stage \in {"loading", "idle", "loop"} =>
          batch = {} /\ last_at_s(trajectory) = clock.now /\ \A e \in clock.events : clock.now <= e.at
    /\ stage = "events" =>
          /\ last_at_s(trajectory) <= tick_end
          /\ \A e \in clock.events : tick_end <= e.at
          /\ \A e \in batch : last_at_s(trajectory) <= e.at /\ e.at <= tick_end

\* Before the scenario is there, nothing has happened.
Unbegun ==
    stage = "loading" =>
        /\ clock = NewClock /\ trajectory = <<>> /\ held = <<>> /\ batch = {} /\ emitted = <<>>
        /\ last_signal_levels = [k \in SignalKinds |-> NoLevel]

SimBase == SimTyped /\ IdsApart /\ Timely /\ Unbegun

-----------------------------------------------------------------------------
\* One entry more.
LEMMA AppendExtends ==
    ASSUME NEW t, IsSeq(t), NEW x
    PROVE  /\ Extended(t, Append(t, x)) /\ Len(Append(t, x)) = Len(t) + 1
           /\ Append(t, x)[Len(t) + 1] = x /\ Len(t) \in Nat
<1>1. /\ IsSeq(Append(t, x)) /\ Len(Append(t, x)) = Len(t) + 1 /\ Len(t) \in Nat
      /\ Append(t, x)[Len(t) + 1] = x
      /\ \A j \in 1..Len(t) : Append(t, x)[j] = t[j]
    BY SeqAppend
<1>2. Len(t) <= Len(t) + 1
    BY <1>1
<1> QED
    BY <1>1, <1>2 DEF Extended

\* New entries of one time, not before the last.
LEMMA InOrderExtended ==
    ASSUME NEW t, NEW u, NEW at \in Nat, Extended(t, u), Len(t) < Len(u), InOrder(t), last_at_s(t) <= at,
           \A i \in (Len(t) + 1)..Len(u) : u[i].at = at
    PROVE  InOrder(u) /\ last_at_s(u) = at
<1> DEFINE n == Len(t)
           m == Len(u)
<1>1. n \in Nat /\ m \in Nat /\ n < m /\ IsSeq(t) /\ IsSeq(u)
    BY SeqFacts DEF Extended
<1>2. /\ \A i \in 1..n : u[i] = t[i] /\ t[i].at \in Nat
      /\ \A i \in 2..n : t[i - 1].at <= t[i].at
      /\ \A i \in (n + 1)..m : u[i].at = at
    BY DEF Extended, InOrder
<1>3. n # 0 => t[n].at <= at
    BY <1>1, LastAt
<1> HIDE DEF n, m
<1>4. \A i \in 1..m : i \in 1..n \/ i \in (n + 1)..m
    BY <1>1
<1>5. \A i \in 1..m : u[i].at \in Nat
    BY <1>2, <1>4
<1>6. ASSUME NEW i \in 2..m PROVE u[i - 1].at <= u[i].at
    <2>1. CASE i \in 2..n
        <3>1. i \in 1..n /\ i - 1 \in 1..n
            BY <1>1, <2>1
        <3> QED
            BY <1>2, <2>1, <3>1
    <2>2. CASE i = n + 1
        <3>1. n \in 1..n /\ n # 0 /\ i - 1 = n /\ i \in (n + 1)..m
            BY <1>1, <2>2
        <3> QED
            BY <1>2, <1>3, <3>1
    <2>3. CASE i > n + 1
        <3>1. i - 1 \in (n + 1)..m /\ i \in (n + 1)..m
            BY <1>1, <2>3
        <3>2. u[i - 1].at = at /\ u[i].at = at
            BY <1>2, <3>1
        <3> QED
            BY <3>2
    <2> QED
        BY <1>1, <2>1, <2>2, <2>3
<1>7. last_at_s(u) = at
    <2>1. m \in (n + 1)..m /\ m # 0
        BY <1>1
    <2> QED
        BY <1>1, <1>2, <2>1, LastAt DEF m
<1> QED
    BY <1>5, <1>6, <1>7 DEF InOrder, m

\* It is a time.
LEMMA LastAtNat ==
    ASSUME NEW t, IsSeq(t), InOrder(t)
    PROVE  last_at_s(t) \in Nat
<1>1. Len(t) \in Nat
    BY SeqFacts
<1>2. Len(t) # 0 => Len(t) \in 1..Len(t)
    BY <1>1
<1> QED
    BY <1>2, LastAt DEF InOrder

\* New events do not get the number of one that is pending.
LEMMA IdsStayApart ==
    ASSUME SimTyped, IdsApart, NewIds(clock, clock'), batch' \subseteq batch
    PROVE  IdsApart'
<1>1. /\ clock.next_id \in Nat /\ clock'.next_id \in Nat /\ clock.next_id <= clock'.next_id
      /\ clock.events \subseteq clock'.events
      /\ \A e \in Added(clock, clock') : clock.next_id <= e.id /\ e.id < clock'.next_id
      /\ \A e, f \in Added(clock, clock') : e.id = f.id => e = f
    BY DEF NewIds, Clocks
<1>2. clock'.events = clock.events \cup Added(clock, clock')
    BY <1>1 DEF Added
<1>3. Pending' \subseteq Pending \cup Added(clock, clock')
    BY <1>2 DEF Pending
<1>4. \A e \in Pending \cup Added(clock, clock') : e.id \in Nat
    <2>1. Pending \cup Added(clock, clock') \subseteq Event
        BY DEF SimTyped, NewIds, Clocks, Added, Pending
    <2> QED
        BY <2>1 DEF Event
<1>5. /\ \A e \in Pending : e.id < clock.next_id
      /\ \A e, f \in Pending : e.id = f.id => e = f
      /\ clock.events \cap batch = {}
    BY DEF IdsApart
<1>6. \A e \in Pending' : e.id < clock'.next_id
    BY <1>1, <1>3, <1>4, <1>5
<1>7. \A e \in Pending : \A f \in Added(clock, clock') : e.id # f.id
    BY <1>1, <1>4, <1>5
<1>8. \A e, f \in Pending' : e.id = f.id => e = f
    BY <1>1, <1>3, <1>5, <1>7
<1>9. clock'.events \cap batch' = {}
    BY <1>2, <1>5, <1>7 DEF Pending
<1> QED
    BY <1>6, <1>8, <1>9 DEF IdsApart

\* The event about to be handled.
LEMMA NextEvent ==
    ASSUME SimBase, stage = "events", batch # {}
    PROVE  LET e == Earliest(batch)
           IN  /\ e \in batch /\ e \in Event /\ e.at \in Nat /\ tick_end \in Nat
               /\ last_at_s(trajectory) <= e.at /\ e.at <= tick_end
               /\ \A f \in batch : e.at <= f.at
<1>1. batch \in SUBSET Event /\ \A e, f \in batch : e.id = f.id => e = f
    BY DEF SimBase, SimTyped, IdsApart, Pending
<1>2. Earliest(batch) \in batch /\ \A f \in batch : Earliest(batch).at <= f.at
    BY <1>1, EarliestFacts
<1>3. Earliest(batch) \in Event
    BY <1>1, <1>2
<1>4. tick_end \in Nat
    <2>1. clock.now \in Nat /\ cfg.tick \in Nat
        BY SimulatorAssumption DEF SimBase, SimTyped, Clocks, WellFormed
    <2> QED
        BY <2>1 DEF tick_end
<1>5. last_at_s(trajectory) <= Earliest(batch).at /\ Earliest(batch).at <= tick_end
    BY <1>2 DEF SimBase, Timely
<1> QED
    BY <1>2, <1>3, <1>4, <1>5 DEF Event

\* Whatever the handler of an event records, at the time of the event, and schedules.
LEMMA HandledBase ==
    ASSUME SimBase, stage = "events", stage' = "events", batch # {}, batch' = batch \ {Earliest(batch)},
           cfg' = cfg, calls' = calls, end' = end,
           Extended(trajectory, trajectory'), Len(trajectory) < Len(trajectory'),
           \A i \in (Len(trajectory) + 1)..Len(trajectory') : trajectory'[i].at = Earliest(batch).at,
           NewIds(clock, clock'), \A f \in Added(clock, clock') : Observation(f)
    PROVE  SimBase'
<1> DEFINE e == Earliest(batch)
<1>1. /\ e \in batch /\ e \in Event /\ e.at \in Nat /\ tick_end \in Nat
      /\ last_at_s(trajectory) <= e.at /\ e.at <= tick_end /\ \A f \in batch : e.at <= f.at
    BY NextEvent
<1>2. InOrder(trajectory') /\ last_at_s(trajectory') = e.at /\ IsSeq(trajectory')
    <2>1. InOrder(trajectory') /\ last_at_s(trajectory') = e.at
        BY <1>1, InOrderExtended DEF SimBase, SimTyped
    <2> QED
        BY <2>1 DEF Extended
<1> HIDE DEF e
<1>3. clock' \in Clocks /\ clock'.now = clock.now /\ tick_end' = tick_end
    BY DEF NewIds, tick_end
<1>4. SimTyped'
    BY <1>2, <1>3 DEF SimBase, SimTyped, WellFormed, e
<1>5. IdsApart'
    BY IdsStayApart DEF SimBase
<1>6. \A f \in clock'.events : tick_end <= f.at
    <2>1. \A f \in clock.events : tick_end <= f.at
        BY DEF SimBase, Timely
    <2>2. \A f \in Added(clock, clock') : tick_end <= f.at
        <3>1. clock.now \in Nat /\ cfg.tick \in Nat /\ cfg.tick <= OBSERVATION_DELAY /\ OBSERVATION_DELAY \in Nat
            BY SimulatorAssumption DEF SimBase, SimTyped, Clocks, WellFormed
        <3>2. tick_end <= clock.now + OBSERVATION_DELAY
            BY <3>1 DEF tick_end
        <3> QED
            BY <3>2 DEF Observation
    <2>3. \A f \in clock'.events : f \in clock.events \/ f \in Added(clock, clock')
        BY DEF Added
    <2> QED
        BY <2>1, <2>2, <2>3
<1>7. \A f \in batch' : e.at <= f.at /\ f.at <= tick_end
    BY <1>1 DEF SimBase, Timely
<1>8. Timely'
    BY <1>1, <1>2, <1>3, <1>6, <1>7 DEF Timely
<1>9. Unbegun'
    BY DEF Unbegun
<1> QED
    BY <1>4, <1>5, <1>8, <1>9 DEF SimBase

\* A handler that appends one entry and schedules nothing.
LEMMA AppendedBase ==
    ASSUME SimBase, stage = "events", stage' = "events", batch # {}, batch' = batch \ {Earliest(batch)},
           cfg' = cfg, calls' = calls, end' = end, clock' = clock,
           NEW x, trajectory' = Append(trajectory, x), x.at = Earliest(batch).at
    PROVE  SimBase'
<1>1. IsSeq(trajectory) /\ clock \in Clocks
    BY DEF SimBase, SimTyped
<1>2. /\ Extended(trajectory, trajectory') /\ Len(trajectory') = Len(trajectory) + 1
      /\ trajectory'[Len(trajectory) + 1] = x /\ Len(trajectory) \in Nat
    BY <1>1, AppendExtends
<1>3. Len(trajectory) < Len(trajectory') /\ \A i \in (Len(trajectory) + 1)..Len(trajectory') : i = Len(trajectory) + 1
    BY <1>2
<1>4. \A i \in (Len(trajectory) + 1)..Len(trajectory') : trajectory'[i].at = Earliest(batch).at
    BY <1>2, <1>3
<1>5. Added(clock, clock') = {}
    BY DEF Added
<1>6. NewIds(clock, clock')
    BY <1>1, <1>5 DEF NewIds, Clocks
<1> QED
    BY <1>2, <1>3, <1>4, <1>5, <1>6, HandledBase

\* Handling a signal keeps the order, and what it schedules are observations.
LEMMA SignalHandledBase ==
    ASSUME SimBase, HandleSignal
    PROVE  SimBase' /\ NewIds(clock, clock') /\ \A f \in Added(clock, clock') : Observation(f)
<1> DEFINE e == Earliest(batch)
<1>1. IsSeq(trajectory) /\ clock \in Clocks /\ clock.now \in Nat /\ IdsBelow(clock) /\ cfg.answers \subseteq Commands
    BY DEF SimBase, SimTyped, Clocks, IdsApart, IdsBelow, Pending, WellFormed
<1>2. /\ stage = "events" /\ stage' = "events" /\ batch # {} /\ batch' = batch \ {e}
      /\ UNCHANGED <<cfg, calls, end>>
    BY <1>1, SignalHandled
<1>3. PICK m, k, from, sig : m \in Nat /\ SignalAdded(trajectory, trajectory', m, e.at, k, from, sig)
    BY <1>1, SignalHandled
<1>4. \A s, kind, old, to, at : LevelTransition(at, kind, old, to, s).at = at /\ Signal(at, s).at = at
    BY DEF LevelTransition, Signal
<1> HIDE DEF e
<1>5. /\ Extended(trajectory, trajectory') /\ Len(trajectory) < Len(trajectory')
      /\ \A i \in (Len(trajectory) + 1)..Len(trajectory') : trajectory'[i].at = e.at
    <2>1. Extended(trajectory, trajectory') /\ Len(trajectory') = m /\ m > Len(trajectory)
        BY <1>3 DEF SignalAdded
    <2>2. Len(trajectory) \in Nat
        BY <1>1, SeqFacts
    <2>3. \A i \in (Len(trajectory) + 1)..m : i = m \/ i \in (Len(trajectory) + 1)..(m - 1)
        BY <1>3, <2>2
    <2>4. trajectory'[m].at = e.at
        BY <1>3, <1>4 DEF SignalAdded
    <2>5. \A i \in (Len(trajectory) + 1)..(m - 1) : trajectory'[i].at = e.at
        BY <1>3, <1>4 DEF SignalAdded
    <2> QED
        BY <2>1, <2>2, <2>3, <2>4, <2>5
<1>6. NewIds(clock, clock') /\ \A f \in Added(clock, clock') : Observation(f)
    <2>1. CASE clock' = clock
        <3>1. Added(clock, clock') = {}
            BY <2>1 DEF Added
        <3> QED
            BY <1>1, <2>1, <3>1 DEF NewIds, Clocks
    <2>2. ASSUME NEW c \in cfg.answers, clock' = observe(clock, c)
          PROVE  NewIds(clock, clock') /\ \A f \in Added(clock, clock') : Observation(f)
        <3>1. c \in Seq(EngineCommand)
            BY <1>1, SimulatorAssumption
        <3> QED
            BY <1>1, <2>2, <3>1, ObserveFacts
    <2> QED
        BY <1>1, <2>1, <2>2, SignalHandled
<1> QED
    BY <1>2, <1>5, <1>6, HandledBase DEF e

\* Every document that is loaded describes a scenario.
DocumentsWellFormed == \A doc : WellFormed(ScenarioOf(doc))

\* A new simulator.
LEMMA InitBase == ASSUME DocumentsWellFormed, SimInit PROVE SimBase
<1>1. WellFormed(cfg) /\ stage \in {"idle", "loading"} /\ NewSimulator(cfg) /\ emitted = <<>>
    BY SimulatorAssumption DEF SimInit, Init, DocumentsWellFormed
<1>2. /\ calls = cfg.calls /\ clock = NewClock /\ trajectory = <<>> /\ end = 0 /\ batch = {} /\ held = <<>>
      /\ last_signal_levels = [k \in SignalKinds |-> NoLevel]
    BY <1>1 DEF NewSimulator
<1>3. IsSeq(trajectory) /\ Len(trajectory) = 0
    BY <1>2, Tuples
<1>4. clock \in Clocks /\ clock.now = 0 /\ clock.events = {}
    BY <1>2 DEF NewClock, Clocks
<1>5. InOrder(trajectory) /\ last_at_s(trajectory) = 0
    BY <1>3, LastAt DEF InOrder
<1>6. SimTyped
    BY <1>1, <1>2, <1>3, <1>4, <1>5 DEF SimTyped, Stages, WellFormed, CallRecords
<1>7. IdsApart
    BY <1>2, <1>4 DEF IdsApart, Pending
<1>8. Timely
    BY <1>1, <1>2, <1>4, <1>5 DEF Timely
<1>9. Unbegun
    BY <1>1, <1>2 DEF Unbegun
<1> QED
    BY <1>6, <1>7, <1>8, <1>9 DEF SimBase

\* A scenario is loaded.
LEMMA ConstructBase == ASSUME DocumentsWellFormed, SimBase, Construct PROVE SimBase'
<1>1. /\ stage = "loading" /\ stage' = "idle" /\ WellFormed(cfg)'
      /\ calls' = cfg'.calls /\ UNCHANGED <<clock, trajectory, end, batch>>
    BY DEF Construct, DocumentsWellFormed, WellFormed
<1>2. calls' \in Seq(CallRecords)
    BY <1>1 DEF WellFormed, CallRecords
<1>3. SimTyped'
    BY <1>1, <1>2 DEF SimBase, SimTyped, Stages
<1>4. IdsApart' /\ Timely' /\ Unbegun'
    BY <1>1 DEF SimBase, IdsApart, Pending, Timely, Unbegun
<1> QED
    BY <1>3, <1>4 DEF SimBase

\* The call about to be made, and what it schedules.
LEMMA CallFacts ==
    ASSUME SimBase, StartCall
    PROVE  /\ call' = Head(calls) /\ call' \in CallRecords /\ calls' \in Seq(CallRecords)
           /\ end' = clock.now + call'.for /\ end' \in Nat /\ clock.now \in Nat
           /\ \E until \in Nat : /\ call'.for <= HORIZON => until = end'
                                 /\ Scheduled(clock, clock', PollKinds \cup EdgeKinds, until) /\ IdsBelow(clock')
                                 /\ EdgesBetween(Added(clock, clock'), 1..Len(cfg.injections), clock.now, until)
<1>1. calls \in Seq(CallRecords) /\ calls # <<>> /\ call' = Head(calls) /\ calls' = Tail(calls)
    BY DEF SimBase, SimTyped, StartCall
<1>2. call' \in CallRecords /\ calls' \in Seq(CallRecords)
    <2> HIDE DEF CallRecords
    <2> QED
        BY <1>1
<1>3. /\ clock.now \in Nat /\ call'.for \in Nat /\ HORIZON \in Nat
      /\ clock \in Clocks /\ IdsBelow(clock) /\ WellFormed(cfg)
    BY <1>2, SimulatorAssumption DEF SimBase, SimTyped, Clocks, CallRecords, IdsApart, IdsBelow, Pending
<1> DEFINE until == clock.now + (IF call'.op = "run_until" /\ call'.for > HORIZON THEN HORIZON ELSE call'.for)
<1>4. end' = clock.now + call'.for /\ clock' = preload_events(clock, until)
    BY <1>1 DEF StartCall, until_of
<1>5. until \in Nat /\ end' \in Nat /\ (call'.for <= HORIZON => until = end')
    BY <1>3, <1>4
<1> HIDE DEF until
<1>6. /\ Scheduled(clock, clock', PollKinds \cup EdgeKinds, until) /\ IdsBelow(clock')
      /\ EdgesBetween(Added(clock, clock'), 1..Len(cfg.injections), clock.now, until)
    BY <1>3, <1>4, <1>5, PreloadFacts
<1> QED
    BY <1>1, <1>2, <1>3, <1>4, <1>5, <1>6

\* What a call schedules lies in its future.
LEMMA StartCallBase == ASSUME SimBase, StartCall PROVE SimBase'
<1>1. /\ stage = "idle" /\ stage' = "loop" /\ UNCHANGED <<cfg, trajectory, batch>>
    BY DEF StartCall
<1>2. PICK until \in Nat : Scheduled(clock, clock', PollKinds \cup EdgeKinds, until)
    BY CallFacts
<1>3. /\ NewIds(clock, clock') /\ clock' \in Clocks /\ clock'.now = clock.now
      /\ \A e \in Added(clock, clock') : clock.now < e.at
    BY <1>2 DEF Scheduled, NewIds
<1>4. calls' \in Seq(CallRecords) /\ end' \in Nat
    BY CallFacts
<1>5. SimTyped'
    BY <1>1, <1>3, <1>4 DEF SimBase, SimTyped, Stages, WellFormed
<1>6. IdsApart'
    BY <1>1, <1>3, IdsStayApart DEF SimBase
<1>7. \A e \in clock'.events : clock.now <= e.at
    <2>1. \A e \in clock'.events : e \in clock.events \/ e \in Added(clock, clock')
        BY DEF Added
    <2>2. \A e \in clock.events : clock.now <= e.at
        BY <1>1 DEF SimBase, Timely
    <2>3. \A e \in clock'.events : e.at \in Nat
        BY <1>3 DEF Clocks, Event
    <2>4. clock.now \in Nat
        BY DEF SimBase, SimTyped, Clocks
    <2> QED
        BY <1>3, <2>1, <2>2, <2>3, <2>4
<1>8. Timely'
    BY <1>1, <1>3, <1>7 DEF SimBase, Timely
<1>9. Unbegun'
    BY <1>1 DEF Unbegun
<1> QED
    BY <1>5, <1>6, <1>8, <1>9 DEF SimBase

\* A call ends.
LEMMA EndCallBase == ASSUME SimBase, EndCall PROVE SimBase'
<1>1. /\ stage = "loop" /\ stage' = "idle" /\ end' = 0 /\ UNCHANGED <<cfg, calls, clock, trajectory, batch>>
    BY DEF EndCall
<1>2. SimTyped'
    BY <1>1 DEF SimBase, SimTyped, Stages, WellFormed
<1> QED
    BY <1>1, <1>2 DEF SimBase, IdsApart, Pending, Timely, Unbegun

\* The events due in a tick leave the heap.
LEMMA TickFacts ==
    ASSUME SimBase, StartTick
    PROVE  /\ stage = "loop" /\ stage' = "events" /\ batch = {} /\ clock.now < end
           /\ UNCHANGED <<cfg, calls, state, trajectory, last_signal_levels, call, end, exact, emitted>>
           /\ clock' \in Clocks /\ clock'.now = clock.now /\ clock'.next_id = clock.next_id
           /\ clock'.events = {e \in clock.events : ~(e.at <= tick_end)}
           /\ batch' = {e \in clock.events : e.at <= tick_end}
           /\ Pending' = Pending /\ tick_end' = tick_end /\ tick_end \in Nat /\ clock.now \in Nat
<1>1. /\ stage = "loop" /\ stage' = "events" /\ clock.now < end
      /\ UNCHANGED <<cfg, calls, state, trajectory, last_signal_levels, call, end, exact, emitted>>
      /\ batch' = {e \in clock.events : e.at <= tick_end}
      /\ clock' = [clock EXCEPT !.events = clock.events \ batch']
    BY DEF StartTick, drain_until, vars
<1>2. clock \in Clocks /\ batch = {}
    BY <1>1 DEF SimBase, SimTyped, Timely
<1>3. /\ clock' \in Clocks /\ clock'.now = clock.now /\ clock'.next_id = clock.next_id
      /\ clock'.events = clock.events \ batch'
    BY <1>1, <1>2 DEF Clocks
<1>4. clock'.events = {e \in clock.events : ~(e.at <= tick_end)}
    BY <1>1, <1>3
<1>5. Pending' = Pending
    BY <1>1, <1>2, <1>3 DEF Pending
<1>6. tick_end' = tick_end
    BY <1>1, <1>3 DEF tick_end
<1>7. tick_end \in Nat /\ clock.now \in Nat
    <2>1. clock.now \in Nat /\ cfg.tick \in Nat
        BY SimulatorAssumption DEF SimBase, SimTyped, Clocks, WellFormed
    <2> QED
        BY <2>1 DEF tick_end
<1> QED
    BY <1>1, <1>2, <1>3, <1>4, <1>5, <1>6, <1>7

\* A tick takes all that is due by its end.
LEMMA StartTickBase == ASSUME SimBase, StartTick PROVE SimBase'
<1>1. /\ stage = "loop" /\ stage' = "events" /\ batch = {} /\ clock.now < end
      /\ UNCHANGED <<cfg, calls, trajectory, end>>
      /\ clock' \in Clocks /\ clock'.now = clock.now /\ clock'.next_id = clock.next_id
      /\ clock'.events = {e \in clock.events : ~(e.at <= tick_end)}
      /\ batch' = {e \in clock.events : e.at <= tick_end}
      /\ Pending' = Pending /\ tick_end' = tick_end /\ tick_end \in Nat /\ clock.now \in Nat
    BY TickFacts
<1>2. clock.events \subseteq Event /\ \A e \in clock.events : e.at \in Nat
    BY DEF SimBase, SimTyped, Clocks, Event
<1>3. SimTyped'
    BY <1>1, <1>2 DEF SimBase, SimTyped, Stages, WellFormed
<1>4. IdsApart'
    BY <1>1 DEF SimBase, IdsApart
<1>5. last_at_s(trajectory) = clock.now /\ \A e \in clock.events : clock.now <= e.at
    BY <1>1 DEF SimBase, Timely
<1>6. clock.now <= tick_end
    <2>1. cfg.tick \in Nat
        BY SimulatorAssumption DEF SimBase, SimTyped, WellFormed
    <2> QED
        BY <1>1, <2>1 DEF tick_end
<1>7. Timely'
    BY <1>1, <1>2, <1>5, <1>6 DEF Timely
<1>8. Unbegun'
    BY <1>1 DEF Unbegun
<1> QED
    BY <1>3, <1>4, <1>7, <1>8 DEF SimBase

\* The tick ends with a snapshot at the time the clock then has.
LEMMA FinishFacts ==
    ASSUME SimBase, FinishTick
    PROVE  /\ stage = "events" /\ stage' = "loop" /\ batch = {} /\ batch' = {}
           /\ UNCHANGED <<cfg, calls, last_signal_levels, call, end, exact, emitted>>
           /\ clock' \in Clocks /\ clock'.now = tick_end /\ clock'.next_id = clock.next_id
           /\ clock'.events = clock.events /\ Pending' = Pending /\ tick_end \in Nat
           /\ \E x : /\ trajectory' = Append(trajectory, x) /\ x.kind = "StateSnapshot"
                     /\ x.at = tick_end /\ x.state = from_state(state')
           /\ held' = [i \in DOMAIN held \cup {Len(trajectory) + 1} |->
                          IF i \in DOMAIN held THEN held[i] ELSE state']
<1>1. /\ stage = "events" /\ stage' = "loop" /\ batch = {}
      /\ UNCHANGED <<cfg, calls, last_signal_levels, call, end, batch, exact, emitted>>
      /\ clock' = [clock EXCEPT !.now = clock.now + cfg.tick]
      /\ trajectory' = Append(trajectory, StateSnapshot(tick_end, state', engine))
      /\ Hold(state')
    BY DEF FinishTick, advance, vars
<1>2. clock \in Clocks /\ clock.now \in Nat /\ cfg.tick \in Nat
    BY SimulatorAssumption DEF SimBase, SimTyped, Clocks, WellFormed
<1>3. tick_end = clock.now + cfg.tick /\ tick_end \in Nat
    BY <1>2 DEF tick_end
<1>4. clock' \in Clocks /\ clock'.now = tick_end /\ clock'.next_id = clock.next_id /\ clock'.events = clock.events
    BY <1>1, <1>2, <1>3 DEF Clocks
<1>5. LET x == StateSnapshot(tick_end, state', engine)
      IN  x.kind = "StateSnapshot" /\ x.at = tick_end /\ x.state = from_state(state')
    BY DEF StateSnapshot
<1>6. Pending' = Pending
    BY <1>1, <1>4 DEF Pending
<1> QED
    BY <1>1, <1>3, <1>4, <1>5, <1>6 DEF Hold

\* The clock reaches the end of the tick, and so does the trajectory.
LEMMA FinishTickBase == ASSUME SimBase, FinishTick PROVE SimBase'
<1>1. /\ stage = "events" /\ stage' = "loop" /\ batch = {} /\ batch' = {}
      /\ UNCHANGED <<cfg, calls, end>>
      /\ clock' \in Clocks /\ clock'.now = tick_end /\ clock'.next_id = clock.next_id
      /\ clock'.events = clock.events /\ Pending' = Pending /\ tick_end \in Nat
    BY FinishFacts
<1>2. PICK x : trajectory' = Append(trajectory, x) /\ x.at = tick_end
    BY FinishFacts
<1>3. IsSeq(trajectory) /\ InOrder(trajectory)
    BY DEF SimBase, SimTyped
<1>4. /\ Extended(trajectory, trajectory') /\ Len(trajectory') = Len(trajectory) + 1
      /\ trajectory'[Len(trajectory) + 1] = x /\ Len(trajectory) \in Nat
    BY <1>2, <1>3, AppendExtends
<1>5. Len(trajectory) < Len(trajectory') /\ \A i \in (Len(trajectory) + 1)..Len(trajectory') : i = Len(trajectory) + 1
    BY <1>4
<1>6. /\ last_at_s(trajectory) <= tick_end
      /\ \A i \in (Len(trajectory) + 1)..Len(trajectory') : trajectory'[i].at = tick_end
    BY <1>1, <1>2, <1>4, <1>5 DEF SimBase, Timely
<1>7. InOrder(trajectory') /\ last_at_s(trajectory') = tick_end
    BY <1>1, <1>3, <1>4, <1>5, <1>6, InOrderExtended
<1>8. SimTyped'
    BY <1>1, <1>4, <1>7 DEF SimBase, SimTyped, Stages, WellFormed, Extended
<1>9. IdsApart'
    BY <1>1 DEF SimBase, IdsApart
<1>10. Timely'
    BY <1>1, <1>7 DEF SimBase, Timely
<1>11. Unbegun'
    BY <1>1 DEF Unbegun
<1> QED
    BY <1>8, <1>9, <1>10, <1>11 DEF SimBase

\* The entry is for the beginning or for the end of a window.
Marks(x, kind) == x.started = (kind = "InjectionStart")

\* What an entry of the three plain handlers is.
Plainly(x) ==
    /\ x.at = Earliest(batch).at
    /\ \/ x.kind = "Heartbeat" /\ Earliest(batch).kind = "Heartbeat"
       \/ x.kind = "ObservationDue" /\ Earliest(batch).kind = "ObservationDue" /\ x.recorded_at = Earliest(batch).arg
       \/ /\ x.kind = "InjectionEvent" /\ Earliest(batch).kind \in EdgeKinds
          /\ x.idx = Earliest(batch).arg /\ Marks(x, Earliest(batch).kind)

\* The handlers of heartbeats, observations and injections append one entry for their event.
LEMMA PlainHandled ==
    ASSUME HandleHeartbeat \/ HandleObservation \/ HandleInjection
    PROVE  /\ stage = "events" /\ stage' = "events" /\ batch # {} /\ batch' = batch \ {Earliest(batch)}
           /\ UNCHANGED <<cfg, calls, clock, state, last_signal_levels, call, end, exact, held, emitted>>
           /\ \E x : trajectory' = Append(trajectory, x) /\ Plainly(x)
<1>1. CASE HandleHeartbeat
    <2> DEFINE x == Heartbeat(Earliest(batch).at, derive_heartbeat(state, engine))
    <2>1. x.kind = "Heartbeat" /\ x.at = Earliest(batch).at
        BY DEF Heartbeat
    <2>2. trajectory' = Append(trajectory, x)
        BY <1>1 DEF HandleHeartbeat
    <2> HIDE DEF x
    <2>3. Plainly(x)
        BY <1>1, <2>1 DEF HandleHeartbeat, Plainly, Due
    <2> QED
        BY <1>1, <2>2, <2>3 DEF HandleHeartbeat, Due, Handled, vars
<1>2. CASE HandleObservation
    <2> DEFINE x == ObservationDue(Earliest(batch).at, Earliest(batch).arg)
    <2>1. x.kind = "ObservationDue" /\ x.at = Earliest(batch).at /\ x.recorded_at = Earliest(batch).arg
        BY DEF ObservationDue
    <2>2. trajectory' = Append(trajectory, x)
        BY <1>2 DEF HandleObservation
    <2> HIDE DEF x
    <2>3. Plainly(x)
        BY <1>2, <2>1 DEF HandleObservation, Plainly, Due
    <2> QED
        BY <1>2, <2>2, <2>3 DEF HandleObservation, Due, Handled, vars
<1>3. CASE HandleInjection
    <2> DEFINE x == InjectionEvent(Earliest(batch).at, Earliest(batch).arg, Earliest(batch).kind = "InjectionStart")
    <2>1. /\ x.kind = "InjectionEvent" /\ x.at = Earliest(batch).at /\ x.idx = Earliest(batch).arg
          /\ Marks(x, Earliest(batch).kind)
        BY DEF InjectionEvent, Marks
    <2>2. trajectory' = Append(trajectory, x)
        BY <1>3 DEF HandleInjection
    <2> HIDE DEF x
    <2>3. Plainly(x)
        BY <1>3, <2>1 DEF HandleInjection, Plainly, Due, EdgeKinds
    <2> QED
        BY <1>3, <2>2, <2>3 DEF HandleInjection, Due, Handled, vars
<1> QED
    BY <1>1, <1>2, <1>3

\* So they keep the order.
LEMMA PlainBase ==
    ASSUME SimBase, HandleHeartbeat \/ HandleObservation \/ HandleInjection
    PROVE  SimBase'
<1>1. PICK x : trajectory' = Append(trajectory, x) /\ x.at = Earliest(batch).at
    BY PlainHandled DEF Plainly
<1> QED
    BY <1>1, PlainHandled, AppendedBase

\* The steps that leave all but the state alone: loading, the passing of time and, where the state
\* changes, the end of a run that failed.
Still == UNCHANGED <<cfg, calls, clock, trajectory, last_signal_levels, call, end, batch, exact, held, emitted>>

\* The steps of the simulator.
LEMMA StillSteps ==
    ASSUME [SimNext]_allVars
    PROVE  \/ Still /\ stage' = stage /\ state' = state
           \/ Still /\ FailTick /\ stage = "events" /\ stage' = "failed"
           \/ Construct \/ StartCall \/ EndCall \/ StartTick \/ HandleHeartbeat \/ HandleObservation
           \/ HandleInjection \/ HandleSignal \/ FinishTick
BY DEF SimNext, Events, allVars, simVars, vars, Load, PassTime, Tick, FailTick, Still

\* A step that leaves the simulator alone.
LEMMA StillBase ==
    ASSUME SimBase, Still, stage' = stage \/ (stage = "events" /\ stage' = "failed")
    PROVE  SimBase'
<1>1. UNCHANGED <<cfg, calls, clock, trajectory, last_signal_levels, end, batch, held, emitted>>
    BY DEF Still
<1>2. SimTyped'
    BY <1>1 DEF SimBase, SimTyped, Stages, WellFormed
<1> QED
    BY <1>1, <1>2 DEF SimBase, IdsApart, Pending, Timely, Unbegun, tick_end

\* Clock, events and trajectory are in order in every state.
LEMMA BaseInvariance == ASSUME DocumentsWellFormed PROVE SimSpec => []SimBase
<1>1. SimBase /\ [SimNext]_allVars => SimBase'
    BY StillSteps, StillBase, ConstructBase, StartCallBase, EndCallBase, StartTickBase, PlainBase,
       SignalHandledBase, FinishTickBase
<1>2. SimInit => SimBase
    BY InitBase
<1> QED
    BY <1>1, <1>2, PTL DEF SimSpec

-----------------------------------------------------------------------------
(* Signals and transitions.                                                *)

\* A signal is of the kind that was polled and has one of the four levels.
LEMMA DerivedFacts ==
    ASSUME NEW k \in SignalKinds, NEW s, NEW noise, NEW c
    PROVE  derive_signal(k, s, noise, c).kind = k /\ derive_signal(k, s, noise, c).level \in Int
<1>1. CASE k = "memory"
    <2>1. derive_signal(k, s, noise, c) = derive_memory_signal(s, noise)
        BY <1>1 DEF derive_signal
    <2>2. \A pct : memory_level_from_available_pct(pct) \in Int
        BY DEF memory_level_from_available_pct, Emergency, Critical, Warning, Normal
    <2>3. derive_memory_signal(s, noise).kind = "memory" /\ derive_memory_signal(s, noise).level \in Int
        BY <2>2 DEF derive_memory_signal
    <2> QED
        BY <1>1, <2>1, <2>3
<1>2. CASE k = "compute"
    <2>1. derive_signal(k, s, noise, c) = derive_compute_signal(s, noise)
        BY <1>2 DEF derive_signal
    <2>2. \A cpu, gpu : compute_level_from_pcts(cpu, gpu) \in Int
        BY DEF compute_level_from_pcts, Critical, Warning, Normal
    <2>3. derive_compute_signal(s, noise).kind = "compute" /\ derive_compute_signal(s, noise).level \in Int
        BY <2>2 DEF derive_compute_signal
    <2> QED
        BY <1>2, <2>1, <2>3
<1>3. \A t : thermal_level_from_temp_c(t) \in Int
    BY DEF thermal_level_from_temp_c, Emergency, Critical, Warning, Normal
<1>4. CASE k = "thermal"
    <2>1. derive_signal(k, s, noise, c) = derive_thermal_signal(s, noise, c)
        BY <1>4 DEF derive_signal
    <2>2. derive_thermal_signal(s, noise, c).kind = "thermal" /\ derive_thermal_signal(s, noise, c).level \in Int
        BY <1>3 DEF derive_thermal_signal
    <2> QED
        BY <1>4, <2>1, <2>2
<1>5. CASE k = "energy"
    <2>1. derive_signal(k, s, noise, c) = derive_energy_signal(s, noise)
        BY <1>5 DEF derive_signal
    <2>2. derive_energy_signal(s, noise).kind = "energy" /\ derive_energy_signal(s, noise).level \in Int
        BY <1>3 DEF derive_energy_signal, Normal
    <2> QED
        BY <1>5, <2>1, <2>2
<1> QED
    BY <1>1, <1>2, <1>4, <1>5 DEF SignalKinds

\* The dump of a signal keeps its kind and its level.
LEMMA DumpedFacts ==
    ASSUME NEW k \in SignalKinds, NEW s, NEW noise, NEW c
    PROVE  /\ from_signal(derive_signal(k, s, noise, c)).kind = k
           /\ from_signal(derive_signal(k, s, noise, c)).level = derive_signal(k, s, noise, c).level
<1> DEFINE sig == derive_signal(k, s, noise, c)
<1>1. {"kind", "level"} \subseteq DOMAIN sig
    BY DEF derive_signal, SignalKinds, derive_memory_signal, derive_compute_signal, derive_thermal_signal,
           derive_energy_signal
<1>2. sig.kind = k
    BY DerivedFacts
<1> HIDE DEF sig
<1>3. from_signal(sig).kind = sig.kind /\ from_signal(sig).level = sig.level
    BY <1>1 DEF from_signal
<1> QED
    BY <1>2, <1>3 DEF sig

\* But for the load of other processes, signals are derived from what is dumped of a state.
LEMMA DerivedFromDump ==
    ASSUME NEW k \in SignalKinds \ {"compute"}, NEW s, NEW noise, NEW c
    PROVE  derive_signal(k, from_state(s), noise, c) = derive_signal(k, s, noise, c)
<1>1. \A f \in Dumped : from_state(s)[f] = s[f]
    BY DEF from_state
<1>2. {"thermal_c", "device_memory_used_mb", "device_memory_total_mb"} \subseteq Dumped
    BY DEF Dumped
<1>3. derive_memory_signal(from_state(s), noise) = derive_memory_signal(s, noise)
    BY <1>1, <1>2 DEF derive_memory_signal
<1>4. derive_thermal_signal(from_state(s), noise, c) = derive_thermal_signal(s, noise, c)
    BY <1>1, <1>2 DEF derive_thermal_signal
<1>5. derive_energy_signal(from_state(s), noise) = derive_energy_signal(s, noise)
    BY <1>1, <1>2 DEF derive_energy_signal
<1> QED
    BY <1>3, <1>4, <1>5 DEF derive_signal, SignalKinds

\* The history of the snapshots that are there is not changed.
HeldKept == \A j \in 1..Len(trajectory) : trajectory[j].kind = "StateSnapshot" => held'[j] = held[j]

\* The last signal of a kind before i.
LEMMA PreviousFacts ==
    ASSUME NEW i \in Nat \ {0}, NEW k
    PROVE  /\ PreviousSignal(k, i) \in 0..(i - 1)
           /\ PreviousSignal(k, i) = 0 <=> SignalsBefore(k, i) = {}
           /\ PreviousSignal(k, i) # 0 => PreviousSignal(k, i) \in SignalsBefore(k, i)
           /\ \A j \in SignalsBefore(k, i) : j <= PreviousSignal(k, i)
<1> DEFINE S == SignalsBefore(k, i)
<1>1. i - 1 \in Nat /\ S \in SUBSET (1..(i - 1))
    BY DEF SignalsBefore
<1>2. PreviousSignal(k, i) = IF S = {} THEN 0 ELSE Max(S)
    BY DEF PreviousSignal
<1> HIDE DEF S
<1>3. S # {} => Max(S) \in S /\ \A j \in S : j <= Max(S)
    BY <1>1, MaxIs
<1>4. S # {} => Max(S) \in 1..(i - 1)
    BY <1>1, <1>3
<1>5. 0 \in 0..(i - 1) /\ \A x \in 1..(i - 1) : x \in 0..(i - 1) /\ x # 0
    BY <1>1
<1> QED
    BY <1>2, <1>3, <1>4, <1>5 DEF S

\* What is said of position i depends on the entries before it only.
LEMMA PastKept ==
    ASSUME Extended(trajectory, trajectory'), cfg' = cfg, HeldKept, NEW i \in 1..(Len(trajectory) + 1)
    PROVE  /\ StateAt(i)' = StateAt(i)
           /\ \A k : PreviousSignal(k, i)' = PreviousSignal(k, i) /\ LevelBefore(k, i)' = LevelBefore(k, i)
<1>1. Len(trajectory) \in Nat
    BY SeqFacts DEF Extended
<1>2. i \in Nat \ {0} /\ i - 1 \in Nat /\ 1..(i - 1) \subseteq 1..Len(trajectory)
    BY <1>1
<1>3. \A j \in 1..(i - 1) : trajectory'[j] = trajectory[j]
    BY <1>2 DEF Extended
<1>4. SnapsBefore(i)' = SnapsBefore(i) /\ SnapsBefore(i) \in SUBSET (1..(i - 1))
    BY <1>3 DEF SnapsBefore
<1>5. SnapsBefore(i) # {} => Max(SnapsBefore(i)) \in SnapsBefore(i)
    BY <1>2, <1>4, MaxIs
<1>6. StateAt(i)' = StateAt(i)
    <2>1. SnapsBefore(i) # {} => held'[Max(SnapsBefore(i))] = held[Max(SnapsBefore(i))]
        BY <1>2, <1>5 DEF SnapsBefore, HeldKept
    <2> QED
        BY <1>4, <2>1 DEF StateAt
<1>7. ASSUME NEW k PROVE PreviousSignal(k, i)' = PreviousSignal(k, i) /\ LevelBefore(k, i)' = LevelBefore(k, i)
    <2>1. SignalsBefore(k, i)' = SignalsBefore(k, i)
        BY <1>3 DEF SignalsBefore
    <2>2. PreviousSignal(k, i)' = PreviousSignal(k, i)
        BY <2>1 DEF PreviousSignal
    <2>3. PreviousSignal(k, i) # 0 => PreviousSignal(k, i) \in 1..(i - 1)
        BY <1>2, PreviousFacts DEF SignalsBefore
    <2> QED
        BY <1>3, <2>2, <2>3 DEF LevelBefore
<1> QED
    BY <1>6, <1>7

\* New entries that are no snapshots leave the state as it was told, and new entries that are no
\* signals of a kind its last signal.
LEMMA LaterKept ==
    ASSUME Extended(trajectory, trajectory'), cfg' = cfg, HeldKept,
           NEW i \in (Len(trajectory) + 1)..(Len(trajectory') + 1)
    PROVE  /\ (\A j \in (Len(trajectory) + 1)..(i - 1) : trajectory'[j].kind # "StateSnapshot")
                 => StateAt(i)' = StateAt(Len(trajectory) + 1)
           /\ \A k : (\A j \in (Len(trajectory) + 1)..(i - 1) :
                         ~(trajectory'[j].kind = "Signal" /\ trajectory'[j].signal.kind = k))
                 => /\ PreviousSignal(k, i)' = PreviousSignal(k, Len(trajectory) + 1)
                    /\ LevelBefore(k, i)' = LevelBefore(k, Len(trajectory) + 1)
<1> DEFINE n == Len(trajectory)
<1>1. n \in Nat /\ Len(trajectory') \in Nat
    BY SeqFacts DEF Extended
<1>2. /\ i - 1 \in Nat /\ (n + 1) - 1 = n /\ n + 1 \in Nat \ {0} /\ n + 1 \in 1..(n + 1)
      /\ \A j \in 1..(i - 1) : j \in 1..n \/ j \in (n + 1)..(i - 1)
      /\ \A j \in 1..n : j \in 1..(i - 1)
    BY <1>1
<1>3. \A j \in 1..n : trajectory'[j] = trajectory[j]
    BY DEF Extended
<1>4. ASSUME \A j \in (n + 1)..(i - 1) : trajectory'[j].kind # "StateSnapshot"
      PROVE  StateAt(i)' = StateAt(n + 1)
    <2>1. SnapsBefore(i)' = SnapsBefore(n + 1) /\ SnapsBefore(n + 1) \in SUBSET (1..n)
        BY <1>2, <1>3, <1>4 DEF SnapsBefore
    <2>2. SnapsBefore(n + 1) # {} => Max(SnapsBefore(n + 1)) \in SnapsBefore(n + 1)
        BY <1>1, <2>1, MaxIs
    <2>3. SnapsBefore(n + 1) # {} => held'[Max(SnapsBefore(n + 1))] = held[Max(SnapsBefore(n + 1))]
        BY <2>1, <2>2 DEF SnapsBefore, HeldKept
    <2> HIDE DEF n
    <2> QED
        BY <2>1, <2>3 DEF StateAt
<1>5. ASSUME NEW k, \A j \in (n + 1)..(i - 1) : ~(trajectory'[j].kind = "Signal" /\ trajectory'[j].signal.kind = k)
      PROVE  PreviousSignal(k, i)' = PreviousSignal(k, n + 1) /\ LevelBefore(k, i)' = LevelBefore(k, n + 1)
    <2>1. SignalsBefore(k, i)' = SignalsBefore(k, n + 1)
        BY <1>2, <1>3, <1>5 DEF SignalsBefore
    <2>2. PreviousSignal(k, i)' = PreviousSignal(k, n + 1)
        BY <2>1 DEF PreviousSignal
    <2>3. PreviousSignal(k, n + 1) # 0 => PreviousSignal(k, n + 1) \in 1..n
        BY <1>2, PreviousFacts DEF SignalsBefore
    <2> HIDE DEF n
    <2> QED
        BY <1>3, <2>2, <2>3 DEF LevelBefore
<1> QED
    BY <1>4, <1>5

\* The transitions of kind k between its last signal before i and i.
Between(k, i) == {j \in (PreviousSignal(k, i) + 1)..(i - 1) : IsTransition(j, k)}

\* The signal at i is of kind k and level new, and announced if that is a change.
Announced(k, i, new) ==
    IF LevelBefore(k, i) = new THEN Between(k, i) = {}
    ELSE \E j \in Between(k, i) : /\ Between(k, i) = {j} /\ trajectory[j].from = LevelBefore(k, i)
                                  /\ trajectory[j].to = new

SignalOk(i) ==
    trajectory[i].kind = "Signal" =>
        /\ trajectory[i].signal.kind \in SignalKinds
        /\ \E noise \in cfg.noise :
              trajectory[i].signal = from_signal(derive_signal(trajectory[i].signal.kind, StateAt(i), noise, cfg))
        /\ Announced(trajectory[i].signal.kind, i, trajectory[i].signal.level)

TransitionOk(j) ==
    trajectory[j].kind = "LevelTransition" =>
        \E i \in (j + 1)..Len(trajectory) :
            trajectory[i].kind = "Signal" /\ trajectory[i].signal.kind = trajectory[j].signal_kind

\* What the simulator knows of the past when it handles the next event.
LevelsKnown ==
    /\ last_signal_levels \in [SignalKinds -> Int]
    /\ \A k \in SignalKinds :
          /\ last_signal_levels[k] = LevelBefore(k, Len(trajectory) + 1)
          /\ Between(k, Len(trajectory) + 1) = {}

StateKnown == stage # "failed" => state = StateAt(Len(trajectory) + 1)

\* A snapshot is the dump of the state held for its position.
Dumps ==
    /\ \A i \in DOMAIN held : i \in 1..Len(trajectory)
    /\ \A i \in 1..Len(trajectory) : trajectory[i].kind = "StateSnapshot" =>
          i \in DOMAIN held /\ trajectory[i].state = from_state(held[i])

Signalled ==
    /\ StateKnown /\ LevelsKnown /\ Dumps
    /\ \A i \in 1..Len(trajectory) : SignalOk(i) /\ TransitionOk(i)

\* What the proof keeps of each entry is what the property says of all.
LEMMA SignalledCoherent == ASSUME SimBase, Signalled PROVE TrajectoryCoherent
<1>1. DOMAIN trajectory = 1..Len(trajectory)
    BY SeqFacts DEF SimBase, SimTyped
<1>2. TrajectoryOrdered
    BY DEF SimBase, SimTyped, InOrder, Timely, TrajectoryOrdered, BetweenTicks
<1>3. SignalsExplained
    <2> SUFFICES ASSUME NEW i \in 1..Len(trajectory), trajectory[i].kind = "Signal"
                 PROVE  LET sig == trajectory[i].signal
                        IN  \E noise \in cfg.noise :
                              /\ sig = from_signal(derive_signal(sig.kind, StateAt(i), noise, cfg))
                              /\ sig.kind # "compute" =>
                                    sig = from_signal(derive_signal(sig.kind, ToldAt(i), noise, cfg))
        BY <1>1 DEF SignalsExplained
    <2>1. Len(trajectory) \in Nat
        BY SeqFacts DEF SimBase, SimTyped
    <2>2. i - 1 \in Nat /\ 1..(i - 1) \subseteq 1..Len(trajectory)
        BY <2>1
    <2>3. SnapsBefore(i) # {} => Max(SnapsBefore(i)) \in SnapsBefore(i)
        BY <2>2, MaxIs DEF SnapsBefore
    <2>4. SnapsBefore(i) # {} => trajectory[Max(SnapsBefore(i))].state = from_state(held[Max(SnapsBefore(i))])
        BY <2>2, <2>3 DEF SnapsBefore, Signalled, Dumps
    <2>5. ToldAt(i) = from_state(StateAt(i))
        BY <2>4 DEF ToldAt, StateAt
    <2>6. /\ trajectory[i].signal.kind \in SignalKinds
          /\ \E noise \in cfg.noise :
                trajectory[i].signal = from_signal(derive_signal(trajectory[i].signal.kind, StateAt(i), noise, cfg))
        BY DEF Signalled, SignalOk
    <2>7. trajectory[i].signal.kind # "compute" => \A noise :
              derive_signal(trajectory[i].signal.kind, ToldAt(i), noise, cfg)
                = derive_signal(trajectory[i].signal.kind, StateAt(i), noise, cfg)
        BY <2>5, <2>6, DerivedFromDump
    <2> QED
        BY <2>6, <2>7
<1>4. TransitionsChain
    BY <1>1 DEF Signalled, SignalOk, TransitionOk, Announced, Between, TransitionsChain
<1> QED
    BY <1>2, <1>3, <1>4 DEF TrajectoryCoherent

\* Entries that are there stay explained.
LEMMA PastOk ==
    ASSUME Extended(trajectory, trajectory'), cfg' = cfg, HeldKept, NEW i \in 1..Len(trajectory),
           SignalOk(i), TransitionOk(i)
    PROVE  SignalOk(i)' /\ TransitionOk(i)'
<1> DEFINE n == Len(trajectory)
<1>1. n \in Nat /\ Len(trajectory') \in Nat /\ n <= Len(trajectory')
    BY SeqFacts DEF Extended
<1>2. \A j \in 1..n : trajectory'[j] = trajectory[j]
    BY DEF Extended
<1>3. i \in 1..(n + 1) /\ i - 1 \in Nat /\ i \in Nat \ {0}
    BY <1>1
<1>4. /\ StateAt(i)' = StateAt(i)
      /\ \A k : PreviousSignal(k, i)' = PreviousSignal(k, i) /\ LevelBefore(k, i)' = LevelBefore(k, i)
    BY <1>3, PastKept
<1>5. \A k : \A j \in (PreviousSignal(k, i) + 1)..(i - 1) : j \in 1..n
    BY <1>1, <1>3, PreviousFacts
<1>6. ASSUME NEW k PROVE Between(k, i)' = Between(k, i) /\ \A j \in Between(k, i) : j \in 1..n
    BY <1>2, <1>4, <1>5 DEF Between, IsTransition
<1>7. \A k, new : Announced(k, i, new)' <=> Announced(k, i, new)
    BY <1>2, <1>4, <1>6 DEF Announced
<1>8. SignalOk(i)'
    BY <1>2, <1>4, <1>7 DEF SignalOk
<1>9. TransitionOk(i)'
    <2>1. \A j \in (i + 1)..n : j \in 1..n /\ j \in (i + 1)..Len(trajectory')
        BY <1>1, <1>3
    <2> QED
        BY <1>2, <2>1 DEF TransitionOk
<1> QED
    BY <1>8, <1>9

\* An entry that is neither a signal nor a transition.
LEMMA OtherEntry ==
    ASSUME SimBase, Signalled, NEW x, trajectory' = Append(trajectory, x),
           x.kind \notin {"Signal", "LevelTransition"},
           cfg' = cfg, last_signal_levels' = last_signal_levels, HeldKept, NEW n \in Nat, n = Len(trajectory)
    PROVE  /\ LevelsKnown' /\ \A i \in 1..Len(trajectory') : SignalOk(i)' /\ TransitionOk(i)'
           /\ x.kind # "StateSnapshot" => StateAt(n + 2)' = StateAt(n + 1)
           /\ x.kind = "StateSnapshot" => StateAt(n + 2)' = held'[n + 1]
<1>1. /\ Extended(trajectory, trajectory') /\ Len(trajectory') = n + 1
      /\ trajectory'[n + 1] = x /\ n \in Nat
    BY AppendExtends DEF SimBase, SimTyped
<1>2. \A i \in 1..n : SignalOk(i)' /\ TransitionOk(i)'
    BY <1>1, PastOk DEF Signalled
<1>3. SignalOk(n + 1)' /\ TransitionOk(n + 1)'
    BY <1>1 DEF SignalOk, TransitionOk
<1>4. \A i \in 1..(n + 1) : i \in 1..n \/ i = n + 1
    BY <1>1
<1>5. \A i \in 1..Len(trajectory') : SignalOk(i)' /\ TransitionOk(i)'
    BY <1>1, <1>2, <1>3, <1>4
<1>6. /\ n + 2 \in (n + 1)..(Len(trajectory') + 1) /\ (n + 2) - 1 = n + 1 /\ n + 2 \in Nat \ {0} /\ (n + 1) + 1 = n + 2
      /\ \A j \in (n + 1)..((n + 2) - 1) : j = n + 1
    BY <1>1
<1>7. ASSUME NEW k PROVE /\ PreviousSignal(k, n + 2)' = PreviousSignal(k, n + 1)
                         /\ LevelBefore(k, n + 2)' = LevelBefore(k, n + 1)
    <2>1. \A j \in (n + 1)..((n + 2) - 1) : ~(trajectory'[j].kind = "Signal" /\ trajectory'[j].signal.kind = k)
        BY <1>1, <1>6
    <2> QED
        BY <1>1, <1>6, <2>1, LaterKept
<1>8. ASSUME NEW k \in SignalKinds PROVE Between(k, n + 2)' = {}
    <2>1. Between(k, n + 1) = {}
        BY DEF Signalled, LevelsKnown
    <2>2. PreviousSignal(k, n + 1) \in 0..n
        BY <1>1, PreviousFacts
    <2>3. ASSUME NEW j \in (PreviousSignal(k, n + 1) + 1)..(n + 1), IsTransition(j, k)' PROVE FALSE
        <3>1. CASE j = n + 1
            BY <1>1, <2>3, <3>1 DEF IsTransition
        <3>2. CASE j # n + 1
            <4>1. j \in 1..n /\ j \in (PreviousSignal(k, n + 1) + 1)..((n + 1) - 1)
                BY <1>1, <2>2, <3>2
            <4>2. IsTransition(j, k)
                BY <1>1, <2>3, <4>1 DEF IsTransition, Extended
            <4> QED
                BY <2>1, <4>1, <4>2 DEF Between
        <3> QED
            BY <3>1, <3>2
    <2> QED
        BY <1>6, <1>7, <2>3 DEF Between
<1>9. LevelsKnown'
    <2>1. Len(trajectory') + 1 = n + 2
        BY <1>1, <1>6
    <2>2. \A k \in SignalKinds : last_signal_levels'[k] = LevelBefore(k, n + 2)'
        BY <1>7 DEF Signalled, LevelsKnown
    <2> QED
        BY <1>8, <2>1, <2>2 DEF Signalled, LevelsKnown
<1>10. ASSUME x.kind # "StateSnapshot" PROVE StateAt(n + 2)' = StateAt(n + 1)
    <2>1. \A j \in (n + 1)..((n + 2) - 1) : trajectory'[j].kind # "StateSnapshot"
        BY <1>1, <1>6, <1>10
    <2> QED
        BY <1>1, <1>6, <2>1, LaterKept
<1>11. ASSUME x.kind = "StateSnapshot" PROVE StateAt(n + 2)' = held'[n + 1]
    <2> DEFINE S == {j \in 1..(n + 1) : trajectory'[j].kind = "StateSnapshot"}
    <2>1. S \in SUBSET (1..(n + 1)) /\ n + 1 \in S /\ n + 1 \in Nat
        BY <1>1, <1>11
    <2>2. StateAt(n + 2)' = IF S = {} THEN from_config(cfg'.init) ELSE held'[Max(S)]
        BY <1>6 DEF StateAt, SnapsBefore
    <2> HIDE DEF S
    <2>3. Max(S) \in S /\ \A y \in S : y <= Max(S)
        BY <2>1, MaxIs
    <2>4. Max(S) = n + 1
        <3>1. Max(S) \in 1..(n + 1) /\ n + 1 <= Max(S)
            BY <2>1, <2>3
        <3> HIDE DEF S
        <3> QED
            BY <2>1, <3>1
    <2> QED
        BY <1>1, <2>1, <2>2, <2>4
<1> QED
    BY <1>5, <1>9, <1>10, <1>11

\* A signal of kind k at position m, with its transition.
LEMMA SignalEntry ==
    ASSUME SimBase, Signalled, stage # "failed", NEW n \in Nat, n = Len(trajectory), NEW m \in Nat, NEW k \in SignalKinds, NEW at,
           NEW noise \in cfg.noise, NEW sig, sig = derive_signal(k, state, noise, cfg),
           SignalAdded(trajectory, trajectory', m, at, k, last_signal_levels[k], sig),
           last_signal_levels' = [last_signal_levels EXCEPT ![k] = sig.level], cfg' = cfg, state' = state,
           held' = held
    PROVE  Signalled'
<1> DEFINE from == last_signal_levels[k]
<1>0. HeldKept
    BY DEF HeldKept
<1>1. /\ sig.kind = k /\ sig.level \in Int
      /\ from_signal(sig).kind = k /\ from_signal(sig).level = sig.level
    BY DerivedFacts, DumpedFacts
<1>2. /\ Extended(trajectory, trajectory') /\ Len(trajectory') = m /\ m > n
      /\ trajectory'[m].kind = "Signal" /\ trajectory'[m].signal = from_signal(sig)
    BY DEF SignalAdded, Signal
<1> DEFINE told(s) == LevelTransition(at, k, from, sig.level, s)
<1>3. \A s : /\ told(s).kind = "LevelTransition" /\ told(s).signal_kind = k
            /\ told(s).from = from /\ told(s).to = sig.level
    BY DEF LevelTransition
<1>4. /\ \A i \in (n + 1)..(m - 1) :
            \/ trajectory'[i].kind = "Directive"
            \/ i = n + 1 /\ from # sig.level /\ \E s : trajectory'[i] = told(s)
      /\ from # sig.level => n + 1 < m /\ \E s : trajectory'[n + 1] = told(s)
    BY DEF SignalAdded
<1> HIDE DEF told, from
<1>5. ASSUME NEW i \in (n + 1)..(m - 1)
      PROVE  /\ trajectory'[i].kind \in {"Directive", "LevelTransition"}
             /\ trajectory'[i].kind = "LevelTransition" =>
                   i = n + 1 /\ from # sig.level /\ trajectory'[i].signal_kind = k
    BY <1>3, <1>4
<1>6. ASSUME from # sig.level
      PROVE  /\ n + 1 \in (n + 1)..(m - 1) /\ trajectory'[n + 1].kind = "LevelTransition"
             /\ trajectory'[n + 1].signal_kind = k /\ trajectory'[n + 1].from = from
             /\ trajectory'[n + 1].to = sig.level
    <2>1. n + 1 \in (n + 1)..(m - 1)
        BY <1>4, <1>6
    <2>2. PICK s : trajectory'[n + 1] = told(s)
        BY <1>4, <1>6
    <2> QED
        BY <1>3, <2>1, <2>2
<1>7. \A j \in 1..n : trajectory'[j] = trajectory[j]
    BY <1>2 DEF Extended
<1>8. \A i \in 1..n : SignalOk(i)' /\ TransitionOk(i)'
    BY <1>0, <1>2, PastOk DEF Signalled
<1>9. /\ m \in (n + 1)..(m + 1) /\ m + 1 \in (n + 1)..(m + 1) /\ m \in Nat \ {0} /\ m + 1 \in Nat \ {0}
      /\ n + 1 \in Nat \ {0} /\ (n + 1) - 1 = n /\ (m + 1) - 1 = m
      /\ \A i \in (n + 1)..m : i \in (n + 1)..(m - 1) \/ i = m
      /\ \A i \in 1..m : i \in 1..n \/ i \in (n + 1)..(m - 1) \/ i = m
    BY <1>2
<1>10. StateAt(m)' = StateAt(n + 1) /\ StateAt(m + 1)' = StateAt(n + 1)
    <2>1. \A j \in (n + 1)..m : trajectory'[j].kind # "StateSnapshot"
        BY <1>2, <1>5, <1>9
    <2>2. \A j \in (n + 1)..(m - 1) : j \in (n + 1)..m
        BY <1>9
    <2>3. StateAt(m)' = StateAt(n + 1)
        BY <1>0, <1>2, <1>9, <2>1, <2>2, LaterKept
    <2>4. StateAt(m + 1)' = StateAt(n + 1)
        BY <1>0, <1>2, <1>9, <2>1, LaterKept
    <2> QED
        BY <2>3, <2>4
<1>11. PreviousSignal(k, m)' = PreviousSignal(k, n + 1) /\ LevelBefore(k, m)' = LevelBefore(k, n + 1)
    <2>1. \A j \in (n + 1)..(m - 1) : ~(trajectory'[j].kind = "Signal" /\ trajectory'[j].signal.kind = k)
        BY <1>5
    <2> QED
        BY <1>0, <1>2, <1>9, <2>1, LaterKept
<1>12. \A q \in SignalKinds : Between(q, n + 1) = {} /\ last_signal_levels[q] = LevelBefore(q, n + 1)
    BY DEF Signalled, LevelsKnown
<1>13. ASSUME NEW q \in SignalKinds
       PROVE  /\ PreviousSignal(q, n + 1) \in 0..n
              /\ \A j \in (PreviousSignal(q, n + 1) + 1)..m :
                    j \in 1..n => ~IsTransition(j, q)'
    <2>1. PreviousSignal(q, n + 1) \in 0..n
        BY <1>9, PreviousFacts
    <2>2. ASSUME NEW j \in (PreviousSignal(q, n + 1) + 1)..m, j \in 1..n, IsTransition(j, q)' PROVE FALSE
        <3>1. j \in (PreviousSignal(q, n + 1) + 1)..((n + 1) - 1)
            BY <1>9, <2>1, <2>2
        <3>2. IsTransition(j, q)
            BY <1>7, <2>2 DEF IsTransition
        <3> QED
            BY <1>12, <3>1, <3>2 DEF Between
    <2> QED
        BY <2>1, <2>2
<1>14. Between(k, m)' = IF from = sig.level THEN {} ELSE {n + 1}
    <2>0. Between(k, m)' = {j \in (PreviousSignal(k, n + 1) + 1)..(m - 1) : IsTransition(j, k)'}
        BY <1>11 DEF Between
    <2>1. \A j \in (PreviousSignal(k, n + 1) + 1)..(m - 1) :
              (j \in 1..n \/ j \in (n + 1)..(m - 1)) /\ j \in (PreviousSignal(k, n + 1) + 1)..m
        BY <1>2, <1>13
    <2>2. ASSUME NEW j \in (PreviousSignal(k, n + 1) + 1)..(m - 1), IsTransition(j, k)'
          PROVE  j = n + 1 /\ from # sig.level
        <3>1. j \in (n + 1)..(m - 1)
            BY <1>13, <2>1, <2>2
        <3> QED
            BY <1>5, <2>2, <3>1 DEF IsTransition
    <2>3. ASSUME from # sig.level
          PROVE  n + 1 \in (PreviousSignal(k, n + 1) + 1)..(m - 1) /\ IsTransition(n + 1, k)'
        <3>1. IsTransition(n + 1, k)'
            BY <1>6, <2>3 DEF IsTransition
        <3>2. n + 1 <= m - 1
            BY <1>6, <2>3
        <3>3. n + 1 \in (PreviousSignal(k, n + 1) + 1)..(m - 1)
            BY <1>13, <3>2
        <3> QED
            BY <3>1, <3>3
    <2>4. CASE from = sig.level
        BY <2>0, <2>2, <2>4
    <2>5. CASE from # sig.level
        BY <2>0, <2>2, <2>3, <2>5
    <2> QED
        BY <2>4, <2>5
<1>15. SignalOk(m)' /\ TransitionOk(m)'
    <2>1. LevelBefore(k, m)' = from
        BY <1>11, <1>12 DEF from
    <2>2. Announced(k, m, sig.level)'
        <3>1. CASE from = sig.level
            BY <1>14, <2>1, <3>1 DEF Announced
        <3>2. CASE from # sig.level
            <4>1. Between(k, m)' = {n + 1} /\ n + 1 \in Between(k, m)'
                BY <1>14, <3>2
            <4>2. trajectory'[n + 1].from = LevelBefore(k, m)' /\ trajectory'[n + 1].to = sig.level
                BY <1>6, <2>1, <3>2
            <4> QED
                BY <2>1, <3>2, <4>1, <4>2 DEF Announced
        <3> QED
            BY <3>1, <3>2
    <2>3. sig = derive_signal(k, StateAt(m)', noise, cfg') /\ noise \in cfg'.noise
        BY <1>10 DEF Signalled, StateKnown
    <2>4. SignalOk(m)'
        <3>1. /\ trajectory'[m].signal.kind \in SignalKinds
              /\ \E ns \in cfg'.noise :
                    trajectory'[m].signal = from_signal(derive_signal(trajectory'[m].signal.kind, StateAt(m)', ns, cfg'))
            BY <1>1, <1>2, <2>3
        <3>2. trajectory'[m].signal.kind = k /\ trajectory'[m].signal.level = sig.level
            BY <1>1, <1>2
        <3> QED
            BY <2>2, <3>1, <3>2 DEF SignalOk
    <2>5. TransitionOk(m)'
        BY <1>2 DEF TransitionOk
    <2> QED
        BY <2>4, <2>5
<1>16. ASSUME NEW i \in (n + 1)..(m - 1) PROVE SignalOk(i)' /\ TransitionOk(i)'
    <2>1. SignalOk(i)'
        BY <1>5 DEF SignalOk
    <2>2. m \in (i + 1)..Len(trajectory')
        BY <1>2
    <2>3. TransitionOk(i)'
        BY <1>1, <1>2, <1>5, <2>2 DEF TransitionOk
    <2> QED
        BY <2>1, <2>3
<1>17. \A i \in 1..Len(trajectory') : SignalOk(i)' /\ TransitionOk(i)'
    BY <1>2, <1>8, <1>9, <1>15, <1>16
<1>18. /\ PreviousSignal(k, m + 1)' = m /\ LevelBefore(k, m + 1)' = sig.level /\ Between(k, m + 1)' = {}
    <2> DEFINE S == SignalsBefore(k, m + 1)'
    <2>1. S \in SUBSET (1..m) /\ m \in S
        <3>1. m \in 1..m
            BY <1>9
        <3> QED
            BY <1>1, <1>2, <1>9, <3>1 DEF SignalsBefore
    <2>2. PreviousSignal(k, m + 1)' = IF S = {} THEN 0 ELSE Max(S)
        BY DEF PreviousSignal
    <2> HIDE DEF S
    <2>3. Max(S) \in S /\ \A y \in S : y <= Max(S)
        BY <2>1, MaxIs
    <2>4. Max(S) \in 1..m /\ m <= Max(S)
        BY <2>1, <2>3
    <2>5. Max(S) = m
        BY <2>4
    <2>6. PreviousSignal(k, m + 1)' = m
        BY <2>1, <2>2, <2>5
    <2>7. LevelBefore(k, m + 1)' = sig.level
        BY <1>1, <1>2, <1>9, <2>6 DEF LevelBefore
    <2>8. \A j : j \notin (m + 1)..m
        BY <1>9
    <2>9. Between(k, m + 1)' = {}
        BY <1>9, <2>6, <2>8 DEF Between
    <2> QED
        BY <2>6, <2>7, <2>9
<1>19. ASSUME NEW q \in SignalKinds, q # k
       PROVE  LevelBefore(q, m + 1)' = LevelBefore(q, n + 1) /\ Between(q, m + 1)' = {}
    <2>1. \A j \in (n + 1)..((m + 1) - 1) : ~(trajectory'[j].kind = "Signal" /\ trajectory'[j].signal.kind = q)
        BY <1>1, <1>2, <1>5, <1>9, <1>19
    <2>2. PreviousSignal(q, m + 1)' = PreviousSignal(q, n + 1) /\ LevelBefore(q, m + 1)' = LevelBefore(q, n + 1)
        BY <1>0, <1>2, <1>9, <2>1, LaterKept
    <2>3. ASSUME NEW j \in (PreviousSignal(q, n + 1) + 1)..m, IsTransition(j, q)' PROVE FALSE
        <3>1. j \in 1..m
            BY <1>13
        <3>2. j \in (n + 1)..(m - 1) \/ j = m
            BY <1>9, <1>13, <2>3, <3>1
        <3> QED
            BY <1>2, <1>5, <1>19, <2>3, <3>2 DEF IsTransition
    <2>4. Between(q, m + 1)' = {j \in (PreviousSignal(q, n + 1) + 1)..m : IsTransition(j, q)'}
        BY <1>9, <2>2 DEF Between
    <2> QED
        BY <2>2, <2>3, <2>4
<1>20. LevelsKnown'
    <2>1. last_signal_levels \in [SignalKinds -> Int]
        BY DEF Signalled, LevelsKnown
    <2>2. last_signal_levels' \in [SignalKinds -> Int]
        BY <1>1, <2>1
    <2>3. /\ last_signal_levels'[k] = sig.level
          /\ \A q \in SignalKinds \ {k} : last_signal_levels'[q] = last_signal_levels[q]
        BY <2>1
    <2>4. \A q \in SignalKinds : last_signal_levels'[q] = LevelBefore(q, m + 1)' /\ Between(q, m + 1)' = {}
        BY <1>12, <1>18, <1>19, <2>3
    <2>5. Len(trajectory') + 1 = m + 1
        BY <1>2
    <2> QED
        BY <2>2, <2>4, <2>5 DEF LevelsKnown
<1>21. StateKnown'
    <2>1. Len(trajectory') + 1 = m + 1
        BY <1>2
    <2> QED
        BY <1>10, <2>1 DEF Signalled, StateKnown
<1>22. Dumps'
    <2>1. \A i \in DOMAIN held : i \in 1..n /\ i \in 1..m
        BY <1>2 DEF Signalled, Dumps
    <2>2. \A i \in (n + 1)..m : trajectory'[i].kind # "StateSnapshot"
        BY <1>2, <1>5, <1>9
    <2>3. \A i \in 1..m : i \in 1..n \/ i \in (n + 1)..m
        BY <1>9
    <2> QED
        BY <1>2, <1>7, <2>1, <2>2, <2>3 DEF Signalled, Dumps
<1> QED
    BY <1>17, <1>20, <1>21, <1>22 DEF Signalled

\* Handling a signal.
LEMMA SignalSignalled == ASSUME SimBase, Signalled, HandleSignal PROVE Signalled'
<1> DEFINE e == Earliest(batch)
<1>1. IsSeq(trajectory)
    BY DEF SimBase, SimTyped
<1>2. e.kind \in SignalKinds /\ cfg' = cfg /\ state' = state /\ held' = held /\ stage # "failed"
    BY <1>1, SignalHandled
<1>3. PICK noise \in cfg.noise : \E m \in Nat :
          LET sig == derive_signal(e.kind, state, noise, cfg)
          IN  /\ SignalAdded(trajectory, trajectory', m, e.at, e.kind, last_signal_levels[e.kind], sig)
              /\ last_signal_levels' = [last_signal_levels EXCEPT ![e.kind] = sig.level]
    BY <1>1, SignalHandled
<1>4. PICK k, at, sig, n : /\ k = e.kind /\ at = e.at /\ sig = derive_signal(k, state, noise, cfg)
                          /\ n = Len(trajectory)
    OBVIOUS
<1>5. PICK m \in Nat : /\ SignalAdded(trajectory, trajectory', m, at, k, last_signal_levels[k], sig)
                       /\ last_signal_levels' = [last_signal_levels EXCEPT ![k] = sig.level]
    BY <1>3, <1>4
<1>6. n \in Nat
    BY <1>1, <1>4, SeqFacts
<1>7. k \in SignalKinds
    BY <1>2, <1>4
<1> HIDE DEF e
<1> QED
    BY <1>2, <1>4, <1>5, <1>6, <1>7, SignalEntry

\* Heartbeats, observations and injections say nothing of levels or states.
LEMMA PlainSignalled ==
    ASSUME SimBase, Signalled, HandleHeartbeat \/ HandleObservation \/ HandleInjection
    PROVE  Signalled'
<1>1. PICK x : trajectory' = Append(trajectory, x) /\ x.kind \in {"Heartbeat", "ObservationDue", "InjectionEvent"}
    BY PlainHandled DEF Plainly
<1>2. PICK n : n = Len(trajectory)
    OBVIOUS
<1>3. n \in Nat /\ Len(trajectory') = n + 1 /\ (n + 1) + 1 = n + 2
    <2>1. Len(trajectory) \in Nat /\ Len(trajectory') = Len(trajectory) + 1
        BY <1>1, AppendExtends DEF SimBase, SimTyped
    <2> QED
        BY <1>2, <2>1
<1>4. /\ cfg' = cfg /\ last_signal_levels' = last_signal_levels /\ state' = state /\ held' = held
      /\ stage # "failed" /\ HeldKept
    BY PlainHandled DEF HeldKept
<1>5. /\ LevelsKnown' /\ \A i \in 1..Len(trajectory') : SignalOk(i)' /\ TransitionOk(i)'
      /\ StateAt(n + 2)' = StateAt(n + 1)
    BY <1>1, <1>2, <1>3, <1>4, OtherEntry
<1>6. StateKnown'
    BY <1>2, <1>3, <1>4, <1>5 DEF Signalled, StateKnown
<1>7. Dumps'
    <2>1. Extended(trajectory, trajectory') /\ trajectory'[n + 1] = x
        BY <1>1, <1>2, AppendExtends DEF SimBase, SimTyped
    <2>2. \A i \in 1..(n + 1) : i \in 1..n \/ i = n + 1
        BY <1>3
    <2>3. \A i \in 1..n : i \in 1..(n + 1) /\ trajectory'[i] = trajectory[i]
        BY <1>2, <1>3, <2>1 DEF Extended
    <2> QED
        BY <1>1, <1>2, <1>3, <1>4, <2>1, <2>2, <2>3 DEF Signalled, Dumps
<1> QED
    BY <1>5, <1>6, <1>7 DEF Signalled

\* The snapshot at the end of a tick is the state the next events are handled in.
LEMMA FinishSignalled == ASSUME SimBase, Signalled, FinishTick PROVE Signalled'
<1>1. PICK x : trajectory' = Append(trajectory, x) /\ x.kind = "StateSnapshot" /\ x.state = from_state(state')
    BY FinishFacts
<1>2. PICK n : n = Len(trajectory)
    OBVIOUS
<1>3. /\ n \in Nat /\ Len(trajectory') = n + 1 /\ (n + 1) + 1 = n + 2
      /\ Extended(trajectory, trajectory') /\ trajectory'[n + 1] = x
    <2>1. /\ Len(trajectory) \in Nat /\ Len(trajectory') = Len(trajectory) + 1
          /\ Extended(trajectory, trajectory') /\ trajectory'[Len(trajectory) + 1] = x
        BY <1>1, AppendExtends DEF SimBase, SimTyped
    <2> QED
        BY <1>2, <2>1
<1>4. cfg' = cfg /\ last_signal_levels' = last_signal_levels
    BY FinishFacts
<1>5. n + 1 \notin DOMAIN held /\ \A i \in DOMAIN held : i \in 1..n /\ i \in 1..(n + 1)
    <2>1. \A i \in DOMAIN held : i \in 1..n
        BY <1>2 DEF Signalled, Dumps
    <2>2. n + 1 \notin 1..n /\ \A i \in 1..n : i \in 1..(n + 1)
        BY <1>3
    <2> QED
        BY <2>1, <2>2
<1>6. held' = [i \in DOMAIN held \cup {n + 1} |-> IF i \in DOMAIN held THEN held[i] ELSE state']
    BY <1>2, FinishFacts
<1>7. /\ DOMAIN held' = DOMAIN held \cup {n + 1} /\ held'[n + 1] = state'
      /\ \A i \in DOMAIN held : held'[i] = held[i]
    BY <1>5, <1>6
<1>8. HeldKept
    BY <1>2, <1>7 DEF HeldKept, Signalled, Dumps
<1>9. /\ LevelsKnown' /\ \A i \in 1..Len(trajectory') : SignalOk(i)' /\ TransitionOk(i)'
      /\ StateAt(n + 2)' = held'[n + 1]
    BY <1>1, <1>2, <1>3, <1>4, <1>8, OtherEntry
<1>10. StateKnown'
    BY <1>3, <1>7, <1>9 DEF StateKnown
<1>11. Dumps'
    <2>1. /\ n + 1 \in 1..(n + 1) /\ \A i \in 1..(n + 1) : i \in 1..n \/ i = n + 1
        BY <1>3
    <2>2. \A i \in 1..n : trajectory'[i] = trajectory[i]
        BY <1>2, <1>3 DEF Extended
    <2>3. ASSUME NEW i \in 1..n, trajectory'[i].kind = "StateSnapshot"
          PROVE  i \in DOMAIN held' /\ trajectory'[i].state = from_state(held'[i])
        <3>1. i \in DOMAIN held /\ trajectory[i].state = from_state(held[i])
            BY <1>2, <2>2, <2>3 DEF Signalled, Dumps
        <3> QED
            BY <1>7, <2>2, <3>1
    <2>4. n + 1 \in DOMAIN held' /\ trajectory'[n + 1].state = from_state(held'[n + 1])
        BY <1>1, <1>3, <1>7
    <2> QED
        BY <1>3, <1>5, <1>7, <2>1, <2>3, <2>4 DEF Dumps
<1> QED
    BY <1>9, <1>10, <1>11 DEF Signalled

\* With an empty trajectory the state is the initial one and no level is known.
Fresh ==
    /\ trajectory = <<>> /\ held = <<>> /\ state = from_config(cfg.init)
    /\ last_signal_levels = [k \in SignalKinds |-> NoLevel]

\* Nothing to explain yet.
LEMMA EmptySignalled == ASSUME Fresh PROVE Signalled
<1> USE DEF Fresh
<1>1. Len(trajectory) = 0
    BY Tuples
<1>2. (\A j : j \notin 1..0) /\ 0 + 1 = 1 /\ 1 - 1 = 0 /\ NoLevel \in Int
    BY DEF NoLevel
<1>3. StateAt(1) = from_config(cfg.init)
    <2>1. SnapsBefore(1) = {}
        BY <1>2 DEF SnapsBefore
    <2> QED
        BY <2>1 DEF StateAt
<1>4. ASSUME NEW k PROVE LevelBefore(k, 1) = NoLevel /\ Between(k, 1) = {}
    <2>1. SignalsBefore(k, 1) = {}
        BY <1>2 DEF SignalsBefore
    <2>2. PreviousSignal(k, 1) = 0
        BY <2>1 DEF PreviousSignal
    <2> QED
        BY <1>2, <2>2 DEF LevelBefore, Between
<1>5. LevelsKnown
    BY <1>1, <1>2, <1>4 DEF LevelsKnown
<1>6. Dumps
    BY <1>1, <1>2 DEF Dumps
<1> QED
    BY <1>1, <1>2, <1>3, <1>5, <1>6 DEF Signalled, StateKnown

\* Steps that leave the trajectory and what it describes alone.
LEMMA QuietSignalled ==
    ASSUME Signalled, UNCHANGED <<trajectory, cfg, held, last_signal_levels>>,
           stage' = "failed" \/ (stage # "failed" /\ state' = state)
    PROVE  Signalled'
<1>1. \A i : StateAt(i)' = StateAt(i)
    BY DEF StateAt, SnapsBefore
<1>2. \A k, i : SignalsBefore(k, i)' = SignalsBefore(k, i) /\ (IsTransition(i, k)' <=> IsTransition(i, k))
    BY DEF SignalsBefore, IsTransition
<1>3. \A k, i : PreviousSignal(k, i)' = PreviousSignal(k, i)
    BY <1>2 DEF PreviousSignal
<1>4. \A k, i : LevelBefore(k, i)' = LevelBefore(k, i) /\ Between(k, i)' = Between(k, i)
    BY <1>2, <1>3 DEF LevelBefore, Between
<1>5. \A k, i, new : Announced(k, i, new)' <=> Announced(k, i, new)
    BY <1>4 DEF Announced
<1>6. \A i : (SignalOk(i)' <=> SignalOk(i)) /\ (TransitionOk(i)' <=> TransitionOk(i))
    BY <1>1, <1>5 DEF SignalOk, TransitionOk
<1>7. LevelsKnown' /\ StateKnown' /\ Dumps'
    BY <1>1, <1>4 DEF Signalled, LevelsKnown, StateKnown, Dumps
<1> QED
    BY <1>6, <1>7 DEF Signalled

\* A scenario is loaded.
LEMMA ConstructSignalled == ASSUME SimBase, Construct PROVE Signalled'
<1>1. Fresh'
    BY DEF SimBase, Unbegun, Construct, Fresh
<1>2. (Fresh => Signalled)'
    BY EmptySignalled, PTL
<1> QED
    BY <1>1, <1>2

(***************************************************************************)
(* What the harness records is the history of the run, for every scenario, *)
(* noise and policy: times never go back, every signal is derived from the *)
(* state the snapshot before it was taken of (and, but for compute, from   *)
(* what is dumped of it), and every change of level between two signals of *)
(* a kind is announced by exactly one transition, from the old level to    *)
(* the new.  Signalled is the inductive invariant: it relates the levels   *)
(* and the state tick acts on, and the states held for the snapshots, to   *)
(* the entries already recorded.                                           *)
(***************************************************************************)
THEOREM TrajectoryAlwaysCoherent == ASSUME DocumentsWellFormed PROVE SimSpec => []TrajectoryCoherent
<1>1. SimInit => Signalled
    <2> SUFFICES ASSUME SimInit PROVE Signalled
        OBVIOUS
    <2>1. NewSimulator(cfg)
        BY DEF SimInit
    <2> QED
        BY <2>1, EmptySignalled DEF NewSimulator, Fresh
<1>2. SimBase /\ Signalled /\ [SimNext]_allVars => Signalled'
    <2> SUFFICES ASSUME SimBase, Signalled, [SimNext]_allVars PROVE Signalled'
        OBVIOUS
    <2>1. CASE \/ Still /\ stage' = stage /\ state' = state
               \/ Still /\ FailTick /\ stage' = "failed"
               \/ StartCall \/ EndCall \/ StartTick
        <3>1. UNCHANGED <<trajectory, cfg, held, last_signal_levels>>
            BY <2>1 DEF Still, StartCall, EndCall, StartTick
        <3>2. CASE stage' = "failed"
            BY <3>1, <3>2, QuietSignalled
        <3>3. CASE UNCHANGED <<stage, state>> /\ Still
            <4>1. CASE stage = "failed"
                BY <3>1, <3>3, <4>1, QuietSignalled
            <4> QED
                BY <3>1, <3>3, <4>1, QuietSignalled
        <3>4. CASE StartCall \/ EndCall \/ StartTick
            <4>1. stage # "failed" /\ state' = state
                BY <3>4 DEF StartCall, EndCall, StartTick
            <4> QED
                BY <3>1, <4>1, QuietSignalled
        <3> QED
            BY <2>1, <3>2, <3>3, <3>4
    <2> QED
        BY <2>1, StillSteps, ConstructSignalled, PlainSignalled, SignalSignalled, FinishSignalled
<1>3. SimSpec => []SimBase
    BY BaseInvariance
<1>4. SimBase /\ Signalled => TrajectoryCoherent
    BY SignalledCoherent
<1> QED
    BY <1>1, <1>2, <1>3, <1>4, PTL DEF SimSpec

-----------------------------------------------------------------------------
(* Observations.                                                           *)

\* The compressions in a list of emissions.
Given(em) ==
    LET given[i \in 0..Len(em)] ==
            IF i = 0 THEN 0 ELSE given[i - 1] + Compressions(em[i].commands)
    IN  given[Len(em)]

Tallies(h, em) == h[0] = 0 /\ \A i \in 1..Len(em) : h[i] = h[i - 1] + Compressions(em[i].commands)

OfCommands(em) == IsSeq(em) /\ \A i \in 1..Len(em) : em[i].commands \in Seq(EngineCommand)

\* A batch has some number of compressions.
LEMMA CompressionsNat == ASSUME NEW c \in Seq(EngineCommand) PROVE Compressions(c) \in Nat
<1> DEFINE S == {i \in DOMAIN c : c[i].type = "KvCompress"}
<1>1. Len(c) \in Nat /\ DOMAIN c = 1..Len(c)
    OBVIOUS
<1>2. IsFiniteSet(1..Len(c))
    BY <1>1, FS_Interval
<1>3. S \in SUBSET (1..Len(c))
    BY <1>1
<1> HIDE DEF S
<1>4. IsFiniteSet(S)
    BY <1>2, <1>3, FS_Subset
<1>5. Cardinality(S) \in Nat
    BY <1>4, FS_CardinalityType
<1> QED
    BY <1>5 DEF S, Compressions

\* CompressionsGiven is a running total.
LEMMA GivenTallies ==
    ASSUME NEW em, OfCommands(em)
    PROVE  \E h \in [0..Len(em) -> Nat] : Tallies(h, em) /\ Given(em) = h[Len(em)]
<1> DEFINE n == Len(em)
           add(i) == Compressions(em[i].commands)
           step == [x \in Nat \X (1..n) |-> x[1] + add(x[2])]
           F(g) == [i \in 0..n |-> IF i = 0 THEN 0 ELSE g[i - 1] + add(i)]
           h == CHOOSE g : g = F(g)
<1>1. n \in Nat
    BY SeqFacts DEF OfCommands
<1>2. Given(em) = h[n]
    BY DEF Given
<1>3. \A i \in 1..n : add(i) \in Nat
    BY CompressionsNat DEF OfCommands
<1> HIDE DEF add, n
<1>4. step \in [Nat \X (1..n) -> Nat] /\ \A d \in Nat : \A i \in 1..n : step[<<d, i>>] = d + add(i)
    <2>1. \A d \in Nat : \A i \in 1..n : d + add(i) \in Nat
        BY <1>3
    <2>2. \A x \in Nat \X (1..n) : x[1] \in Nat /\ x[2] \in 1..n
        OBVIOUS
    <2>3. \A x \in Nat \X (1..n) : x[1] + add(x[2]) \in Nat
        BY <2>1, <2>2
    <2> QED
        BY <2>3
<1> HIDE DEF step
<1>5. PICK f \in [0..n -> Nat] : Iterates(f, n, 0, step)
    BY <1>1, <1>4, Recursion
<1>6. \A i \in 1..n : i \in 0..n /\ i # 0 /\ i - 1 \in 0..n
    BY <1>1
<1>7. \A i \in 1..n : f[i] = f[i - 1] + add(i)
    BY <1>4, <1>5, <1>6 DEF Iterates
<1>8. 0 \in 0..n /\ f[0] = 0 /\ \A i \in 0..n : i # 0 => i \in 1..n
    BY <1>1, <1>5 DEF Iterates
<1>9. f = F(f)
    BY <1>7, <1>8
<1>10. h = F(h)
    BY <1>9
<1> HIDE DEF h
<1>11. h[0] = 0 /\ \A i \in 1..n : h[i] = h[i - 1] + add(i)
    BY <1>6, <1>8, <1>10
<1>12. \A i \in 0..n : h[i] = f[i]
    <2> DEFINE G == {i \in 0..n : h[i] = f[i]}
    <2>1. 0 \in G
        BY <1>8, <1>11
    <2>2. ASSUME NEW i \in 0..(n - 1), i \in G PROVE i + 1 \in G
        <3>1. i + 1 \in 1..n /\ i + 1 \in 0..n /\ (i + 1) - 1 = i
            BY <1>1
        <3> QED
            BY <1>7, <1>11, <2>2, <3>1
    <2> HIDE DEF G
    <2>3. \A i \in 0..n : i \in G
        BY <1>1, <2>1, <2>2, UpTo
    <2> QED
        BY <2>3 DEF G
<1>13. n \in 0..n
    BY <1>1
<1>14. Tallies(f, em)
    BY <1>7, <1>8 DEF Tallies, n, add
<1> QED
    BY <1>2, <1>12, <1>13, <1>14 DEF n

\* No emission, no compression.
LEMMA GivenNone == Given(<<>>) = 0
<1>1. OfCommands(<<>>) /\ Len(<<>>) = 0
    BY Tuples DEF OfCommands
<1> QED
    BY <1>1, GivenTallies DEF Tallies

\* One more emission adds its compressions.
LEMMA GivenMore ==
    ASSUME NEW em, OfCommands(em), NEW r, r.commands \in Seq(EngineCommand)
    PROVE  Given(em) \in Nat /\ Given(Append(em, r)) = Given(em) + Compressions(r.commands)
<1> DEFINE n == Len(em)
           w == Append(em, r)
<1>1. /\ IsSeq(w) /\ Len(w) = n + 1 /\ n \in Nat /\ w[n + 1] = r
      /\ \A j \in 1..n : w[j] = em[j]
    BY SeqAppend DEF OfCommands
<1> HIDE DEF w
<1>2. \A j \in 1..(n + 1) : j \in 1..n \/ j = n + 1
    BY <1>1
<1>3. OfCommands(w)
    BY <1>1, <1>2 DEF OfCommands
<1>4. PICK h \in [0..n -> Nat] : Tallies(h, em) /\ Given(em) = h[n]
    BY GivenTallies
<1>5. PICK g \in [0..(n + 1) -> Nat] : Tallies(g, w) /\ Given(w) = g[n + 1]
    BY <1>1, <1>3, GivenTallies
<1> HIDE DEF n
<1>6. h[0] = 0 /\ \A i \in 1..n : h[i] = h[i - 1] + Compressions(em[i].commands)
    BY <1>4 DEF Tallies, n
<1>7. g[0] = 0 /\ \A i \in 1..(n + 1) : g[i] = g[i - 1] + Compressions(w[i].commands)
    BY <1>1, <1>5 DEF Tallies
<1>8. \A i \in 0..n : g[i] = h[i]
    <2> DEFINE G == {i \in 0..n : g[i] = h[i]}
    <2>1. 0 \in G
        BY <1>1, <1>6, <1>7
    <2>2. ASSUME NEW i \in 0..(n - 1), i \in G PROVE i + 1 \in G
        <3>1. i + 1 \in 1..n /\ i + 1 \in 0..n /\ i + 1 \in 1..(n + 1) /\ (i + 1) - 1 = i
            BY <1>1
        <3> QED
            BY <1>1, <1>6, <1>7, <2>2, <3>1
    <2> HIDE DEF G
    <2>3. \A i \in 0..n : i \in G
        BY <1>1, <2>1, <2>2, UpTo
    <2> QED
        BY <2>3 DEF G
<1>9. n \in 0..n /\ n + 1 \in 1..(n + 1) /\ (n + 1) - 1 = n
    BY <1>1
<1>10. g[n + 1] = h[n] + Compressions(r.commands) /\ h[n] \in Nat
    BY <1>1, <1>4, <1>7, <1>8, <1>9
<1> QED
    BY <1>4, <1>5, <1>10 DEF w

-----------------------------------------------------------------------------
\* The observations made, and those to come.
Seen == {i \in 1..Len(trajectory) : trajectory[i].kind = "ObservationDue"}
Awaited == OfKind(Pending, "ObservationDue")

Counted ==
    /\ IsFiniteSet(Awaited) /\ Cardinality(Seen) + Cardinality(Awaited) = Given(emitted)
    /\ \A i \in Seen : trajectory[i].at = trajectory[i].recorded_at + OBSERVATION_DELAY
    /\ \A e \in Awaited : e.at = e.arg + OBSERVATION_DELAY

\* The counts are those of the property.
LEMMA CountedComplete == ASSUME SimBase, Counted PROVE ObservationsComplete
<1>1. DOMAIN trajectory = 1..Len(trajectory)
    BY SeqFacts DEF SimBase, SimTyped
<1>2. CompressionsGiven = Given(emitted)
    BY DEF CompressionsGiven, Given
<1> QED
    BY <1>1, <1>2 DEF Counted, ObservationsComplete, Seen, Awaited, OfKind, Pending

\* Steps that neither make an observation nor ask for one.
LEMMA CountedKept ==
    ASSUME SimBase, Counted, Extended(trajectory, trajectory'), Awaited' = Awaited, emitted' = emitted,
           \A i \in (Len(trajectory) + 1)..Len(trajectory') : trajectory'[i].kind # "ObservationDue"
    PROVE  Counted'
<1>1. Len(trajectory) \in Nat /\ Len(trajectory') \in Nat /\ Len(trajectory) <= Len(trajectory')
    BY SeqFacts DEF Extended
<1>2. \A i \in 1..Len(trajectory') : i \in 1..Len(trajectory) \/ i \in (Len(trajectory) + 1)..Len(trajectory')
    BY <1>1
<1>3. \A i \in 1..Len(trajectory) : i \in 1..Len(trajectory')
    BY <1>1
<1>4. \A i \in 1..Len(trajectory) : trajectory'[i] = trajectory[i]
    BY DEF Extended
<1>5. Seen' = Seen
    BY <1>2, <1>3, <1>4 DEF Seen
<1>6. \A i \in Seen : trajectory'[i] = trajectory[i]
    BY <1>4 DEF Seen
<1> QED
    BY <1>5, <1>6 DEF Counted

\* The same when the trajectory stands still.
LEMMA CountedQuiet ==
    ASSUME SimBase, Counted, trajectory' = trajectory, Awaited' = Awaited, emitted' = emitted
    PROVE  Counted'
<1>1. IsSeq(trajectory) /\ Len(trajectory) \in Nat
    BY SeqFacts DEF SimBase, SimTyped
<1>2. \A i : i \notin (Len(trajectory) + 1)..Len(trajectory)
    BY <1>1
<1>3. Extended(trajectory, trajectory')
    BY <1>1 DEF Extended
<1> QED
    BY <1>2, <1>3, CountedKept

\* An observation that is made was awaited, and is no longer.
LEMMA PlainCounted ==
    ASSUME SimBase, Counted, HandleHeartbeat \/ HandleObservation \/ HandleInjection
    PROVE  Counted'
<1> DEFINE e == Earliest(batch)
           n == Len(trajectory)
<1>1. /\ stage = "events" /\ batch # {} /\ batch' = batch \ {e} /\ clock' = clock /\ emitted' = emitted
    BY PlainHandled
<1>2. PICK x : trajectory' = Append(trajectory, x) /\ Plainly(x)
    BY PlainHandled
<1>3. /\ Extended(trajectory, trajectory') /\ Len(trajectory') = n + 1 /\ trajectory'[n + 1] = x /\ n \in Nat
    BY <1>2, AppendExtends DEF SimBase, SimTyped
<1>4. \A i \in (n + 1)..(n + 1) : i = n + 1
    BY <1>3
<1>5. e \in batch /\ clock.events \cap batch = {}
    BY <1>1, NextEvent DEF SimBase, IdsApart
<1>6. e \in Pending /\ Pending' = Pending \ {e}
    BY <1>1, <1>5 DEF Pending
<1>7. CASE x.kind # "ObservationDue"
    <2>1. e.kind # "ObservationDue"
        BY <1>2, <1>7 DEF Plainly, EdgeKinds
    <2>2. Awaited' = Awaited
        BY <1>6, <2>1 DEF Awaited, OfKind
    <2>3. \A i \in (n + 1)..Len(trajectory') : trajectory'[i].kind # "ObservationDue"
        BY <1>3, <1>4, <1>7
    <2> QED
        BY <1>1, <1>3, <2>2, <2>3, CountedKept
<1>8. CASE x.kind = "ObservationDue"
    <2>1. e.kind = "ObservationDue" /\ x.at = e.at /\ x.recorded_at = e.arg
        BY <1>2, <1>8 DEF Plainly
    <2>2. e \in Awaited /\ Awaited' = Awaited \ {e}
        BY <1>6, <2>1 DEF Awaited, OfKind
    <2>3. /\ \A i \in 1..(n + 1) : i \in 1..n \/ i = n + 1
          /\ \A i \in 1..n : i \in 1..(n + 1) /\ i # n + 1
          /\ n + 1 \in 1..(n + 1)
        BY <1>3
    <2>4. \A i \in 1..n : trajectory'[i] = trajectory[i]
        BY <1>3 DEF Extended
    <2>5. Seen' = Seen \cup {n + 1} /\ n + 1 \notin Seen
        BY <1>3, <1>8, <2>3, <2>4 DEF Seen
    <2>6. IsFiniteSet(Seen) /\ IsFiniteSet(Awaited)
        <3>1. IsFiniteSet(1..n) /\ Seen \in SUBSET (1..n)
            BY <1>3, FS_Interval DEF Seen
        <3> QED
            BY <3>1, FS_Subset DEF Counted
    <2>7. Cardinality(Seen') = Cardinality(Seen) + 1
        BY <2>5, <2>6, FS_AddElement
    <2>8. IsFiniteSet(Awaited') /\ Cardinality(Awaited') = Cardinality(Awaited) - 1
        BY <2>2, <2>6, FS_RemoveElement
    <2>9. Cardinality(Seen) \in Nat /\ Cardinality(Awaited) \in Nat
        BY <2>6, FS_CardinalityType
    <2>10. Cardinality(Seen') + Cardinality(Awaited') = Cardinality(Seen) + Cardinality(Awaited)
        BY <2>7, <2>8, <2>9
    <2>11. \A i \in Seen' : trajectory'[i].at = trajectory'[i].recorded_at + OBSERVATION_DELAY
        <3>1. \A i \in Seen : trajectory'[i] = trajectory[i]
            BY <2>4 DEF Seen
        <3> QED
            BY <1>3, <2>1, <2>2, <2>5, <3>1 DEF Counted
    <2> QED
        BY <1>1, <2>2, <2>8, <2>10, <2>11 DEF Counted
<1> QED
    BY <1>7, <1>8

\* A batch that is let through is awaited once per compression.
LEMMA SignalCounted ==
    ASSUME SimBase, Counted, OfCommands(emitted), HandleSignal
    PROVE  Counted'
<1> DEFINE e == Earliest(batch)
           n == Len(trajectory)
           A == Added(clock, clock')
<1>1. /\ IsSeq(trajectory) /\ n \in Nat /\ clock \in Clocks /\ clock.now \in Nat
      /\ IdsBelow(clock) /\ cfg.answers \subseteq Commands
    BY SeqFacts DEF SimBase, SimTyped, Clocks, IdsApart, IdsBelow, Pending, WellFormed
<1>2. /\ stage = "events" /\ batch # {} /\ batch' = batch \ {e} /\ e.kind \in SignalKinds
    BY <1>1, SignalHandled
<1>3. NewIds(clock, clock') /\ \A f \in A : Observation(f)
    BY SignalHandledBase
<1>4. e \in batch /\ clock.events \cap batch = {}
    BY <1>2, NextEvent DEF SimBase, IdsApart
<1>5. clock'.events = clock.events \cup A /\ A \cap Pending = {}
    <2>1. clock'.events = clock.events \cup A
        BY <1>3 DEF NewIds, Added
    <2>2. \A f \in A : clock.next_id <= f.id /\ f.id \in Nat
        BY <1>3 DEF NewIds, Clocks, Event, Added
    <2>3. \A f \in Pending : f.id < clock.next_id
        BY DEF SimBase, IdsApart
    <2>4. clock.next_id \in Nat
        BY <1>1 DEF Clocks
    <2> HIDE DEF A
    <2> QED
        BY <2>1, <2>2, <2>3, <2>4
<1>6. \A f \in A : f.kind = "ObservationDue" /\ f.at = f.arg + OBSERVATION_DELAY
    BY <1>3 DEF Observation
<1>7. e.kind # "ObservationDue"
    BY <1>2 DEF SignalKinds
<1> HIDE DEF A, e
<1>8. Pending' = (Pending \ {e}) \cup A
    BY <1>2, <1>4, <1>5 DEF Pending
<1>9. Awaited' = Awaited \cup A /\ A \cap Awaited = {}
    BY <1>5, <1>6, <1>7, <1>8 DEF Awaited, OfKind
<1>10. /\ Extended(trajectory, trajectory')
       /\ \A i \in (n + 1)..Len(trajectory') : trajectory'[i].kind # "ObservationDue"
    <2>1. PICK m, k, at, from, sig : m \in Nat /\ SignalAdded(trajectory, trajectory', m, at, k, from, sig)
        BY <1>1, SignalHandled
    <2>2. \A s : LevelTransition(at, k, from, sig.level, s).kind = "LevelTransition" /\ Signal(at, sig).kind = "Signal"
        BY DEF LevelTransition, Signal
    <2>3. Extended(trajectory, trajectory') /\ Len(trajectory') = m /\ m > n /\ trajectory'[m].kind = "Signal"
        BY <2>1, <2>2 DEF SignalAdded
    <2>4. \A i \in (n + 1)..m : i = m \/ i \in (n + 1)..(m - 1)
        BY <1>1, <2>1
    <2>5. \A i \in (n + 1)..(m - 1) : trajectory'[i].kind \in {"Directive", "LevelTransition"}
        BY <2>1, <2>2 DEF SignalAdded
    <2> QED
        BY <2>3, <2>4, <2>5
<1>11. CASE clock' = clock /\ emitted' = emitted
    <2>1. A = {}
        BY <1>11 DEF A, Added
    <2>2. Awaited' = Awaited
        BY <1>9, <2>1
    <2> QED
        BY <1>10, <1>11, <2>2, CountedKept
<1>12. ASSUME NEW c \in cfg.answers, clock' = observe(clock, c),
              emitted' = Append(emitted, [commands |-> c, at |-> now])
       PROVE  Counted'
    <2>1. c \in Seq(EngineCommand)
        BY <1>1, SimulatorAssumption
    <2>2. IsFiniteSet(A) /\ Cardinality(A) = Compressions(c)
        BY <1>1, <1>12, <2>1, ObserveFacts DEF A
    <2>3. IsFiniteSet(Awaited) /\ Cardinality(Seen) + Cardinality(Awaited) = Given(emitted)
        BY DEF Counted
    <2>4. Given(emitted) \in Nat /\ Given(emitted') = Given(emitted) + Compressions(c)
        <3> DEFINE r == [commands |-> c, at |-> now]
        <3>1. r.commands = c /\ emitted' = Append(emitted, r)
            BY <1>12
        <3> HIDE DEF r
        <3>2. r.commands \in Seq(EngineCommand)
            BY <2>1, <3>1
        <3> QED
            BY <3>1, <3>2, GivenMore
    <2>5. IsFiniteSet(Awaited') /\ Cardinality(Awaited') = Cardinality(Awaited) + Cardinality(A)
        <3>1. Awaited \cap A = {}
            BY <1>9
        <3>2. /\ IsFiniteSet(Awaited \cup A)
              /\ Cardinality(Awaited \cup A) = Cardinality(Awaited) + Cardinality(A) - Cardinality(Awaited \cap A)
            BY <2>2, <2>3, FS_Union
        <3>3. Cardinality(Awaited) \in Nat /\ Cardinality(A) \in Nat /\ Cardinality({}) = 0
            BY <2>2, <2>3, FS_CardinalityType, FS_EmptySet
        <3>4. Cardinality(Awaited \cap A) = 0
            BY <3>1, <3>3
        <3>5. Cardinality(Awaited \cup A) = Cardinality(Awaited) + Cardinality(A)
            BY <3>2, <3>3, <3>4
        <3>6. Awaited' = Awaited \cup A
            BY <1>9
        <3> QED
            BY <3>2, <3>5, <3>6
    <2>6. /\ Seen' = Seen /\ \A i \in Seen : trajectory'[i] = trajectory[i]
        <3>1. Len(trajectory') \in Nat /\ n <= Len(trajectory')
            BY <1>10, SeqFacts DEF Extended
        <3>2. /\ \A i \in 1..Len(trajectory') : i \in 1..n \/ i \in (n + 1)..Len(trajectory')
              /\ \A i \in 1..n : i \in 1..Len(trajectory')
            BY <1>1, <3>1
        <3>3. \A i \in 1..n : trajectory'[i] = trajectory[i]
            BY <1>10 DEF Extended
        <3> QED
            BY <1>10, <3>2, <3>3 DEF Seen
    <2>7. Cardinality(Seen) \in Nat
        <3>1. IsFiniteSet(1..n) /\ Seen \in SUBSET (1..n)
            BY <1>1, FS_Interval DEF Seen
        <3>2. IsFiniteSet(Seen)
            BY <3>1, FS_Subset
        <3> QED
            BY <3>2, FS_CardinalityType
    <2>8. Cardinality(Awaited) \in Nat /\ Compressions(c) \in Nat
        BY <2>1, <2>3, FS_CardinalityType, CompressionsNat
    <2>9. Cardinality(Seen') + Cardinality(Awaited') = Given(emitted')
        BY <2>2, <2>3, <2>4, <2>5, <2>6, <2>7, <2>8
    <2>10. \A i \in Seen' : trajectory'[i].at = trajectory'[i].recorded_at + OBSERVATION_DELAY
        BY <2>6 DEF Counted
    <2>11. \A f \in Awaited' : f.at = f.arg + OBSERVATION_DELAY
        BY <1>6, <1>9 DEF Counted
    <2> QED
        BY <2>5, <2>9, <2>10, <2>11 DEF Counted
<1> QED
    BY <1>1, <1>11, <1>12, SignalHandled

\* The end of a tick observes nothing.
LEMMA FinishCounted == ASSUME SimBase, Counted, FinishTick PROVE Counted'
<1>1. Pending' = Pending /\ emitted' = emitted
    BY FinishFacts
<1>2. PICK x : trajectory' = Append(trajectory, x) /\ x.kind = "StateSnapshot"
    BY FinishFacts
<1>3. /\ Extended(trajectory, trajectory') /\ Len(trajectory') = Len(trajectory) + 1
      /\ trajectory'[Len(trajectory) + 1] = x /\ Len(trajectory) \in Nat
    BY <1>2, AppendExtends DEF SimBase, SimTyped
<1>4. \A i \in (Len(trajectory) + 1)..Len(trajectory') : trajectory'[i].kind # "ObservationDue"
    <2>1. \A i \in (Len(trajectory) + 1)..Len(trajectory') : i = Len(trajectory) + 1
        BY <1>3
    <2> QED
        BY <1>2, <1>3, <2>1
<1>5. Awaited' = Awaited
    BY <1>1 DEF Awaited, OfKind
<1> QED
    BY <1>1, <1>3, <1>4, <1>5, CountedKept

\* Starting a call schedules polls and edges.
LEMMA StartCallCounted == ASSUME SimBase, Counted, StartCall PROVE Counted'
<1>1. trajectory' = trajectory /\ emitted' = emitted /\ batch' = batch
    BY DEF StartCall, vars
<1>2. PICK until \in Nat : Scheduled(clock, clock', PollKinds \cup EdgeKinds, until)
    BY CallFacts
<1>3. clock.events \subseteq clock'.events /\ \A e \in Added(clock, clock') : e.kind \in PollKinds \cup EdgeKinds
    BY <1>2 DEF Scheduled, NewIds
<1>4. "ObservationDue" \notin PollKinds \cup EdgeKinds
    BY DEF PollKinds, EdgeKinds, SignalKinds
<1>5. \A e \in clock'.events : e \in clock.events \/ e \in Added(clock, clock')
    BY DEF Added
<1>6. Awaited' = Awaited
    BY <1>1, <1>3, <1>4, <1>5 DEF Awaited, OfKind, Pending
<1> QED
    BY <1>1, <1>6, CountedQuiet

\* A new simulator awaits nothing.
LEMMA InitCounted == ASSUME SimInit PROVE Counted
<1>1. NewSimulator(cfg) /\ emitted = <<>>
    BY DEF SimInit, Init
<1>2. trajectory = <<>> /\ clock.events = {} /\ batch = {}
    BY <1>1 DEF NewSimulator, NewClock
<1>3. Len(trajectory) = 0 /\ \A i : i \notin 1..0
    BY <1>2, Tuples
<1>4. Seen = {} /\ Awaited = {}
    BY <1>2, <1>3 DEF Seen, Awaited, OfKind, Pending
<1>5. Given(emitted) = 0
    BY <1>1, GivenNone
<1>6. IsFiniteSet({}) /\ Cardinality({}) = 0
    BY FS_EmptySet
<1>7. Cardinality(Seen) + Cardinality(Awaited) = Given(emitted)
    BY <1>4, <1>5, <1>6
<1> QED
    BY <1>4, <1>6, <1>7 DEF Counted

\* What the deduplicator lets through are batches of commands.
LEMMA EmissionsOfCommands == ASSUME IInv PROVE OfCommands(emitted)
<1>1. emitted \in Seq(Emission)
    BY DEF IInv, TypeOK
<1>2. \A i \in 1..Len(emitted) : emitted[i] \in Emission
    BY <1>1
<1>3. \A r \in Emission : r.commands \in Seq(EngineCommand)
    BY SimulatorAssumption DEF Emission
<1> QED
    BY <1>1, <1>2, <1>3 DEF OfCommands, IsSeq

\* Observations made and awaited add up in every state.
LEMMA CountedInvariance == ASSUME DocumentsWellFormed PROVE SimSpec => []Counted
<1>1. SimBase /\ IInv /\ Counted /\ [SimNext]_allVars => Counted'
    <2> SUFFICES ASSUME SimBase, IInv, Counted, [SimNext]_allVars PROVE Counted'
        OBVIOUS
    <2>1. CASE Still \/ Construct \/ EndCall
        <3>1. UNCHANGED <<trajectory, clock, batch, emitted>>
            BY <2>1 DEF Still, Construct, EndCall, vars
        <3>2. Awaited' = Awaited
            BY <3>1 DEF Awaited, OfKind, Pending
        <3> QED
            BY <3>1, <3>2, CountedQuiet
    <2>2. CASE StartTick
        <3>1. Pending' = Pending /\ trajectory' = trajectory /\ emitted' = emitted
            BY <2>2, TickFacts
        <3>2. Awaited' = Awaited
            BY <3>1 DEF Awaited, OfKind
        <3> QED
            BY <3>1, <3>2, CountedQuiet
    <2>3. CASE HandleSignal
        BY <2>3, SignalCounted, EmissionsOfCommands
    <2> QED
        BY <2>1, <2>2, <2>3, StillSteps, StartCallCounted, PlainCounted, FinishCounted
<1>2. SimInit => Counted
    BY InitCounted
<1>3. SimSpec => []SimBase
    BY BaseInvariance
<1>4. SimSpec => []IInv
    BY SimInvariance DEF DocumentsWellFormed, WellFormed
<1> QED
    BY <1>1, <1>2, <1>3, <1>4, PTL DEF SimSpec

-----------------------------------------------------------------------------
(* The schedule: polls and the edges of injections.                       *)

\* What is scheduled ahead: a kind of poll, <<kind, 0>>, or an edge of an injection, <<kind, index>>.
Is(e, q) == e.kind = q[1] /\ (q[1] \in EdgeKinds => e.arg = q[2])
Of(S, q) == {e \in S : Is(e, q)}

\* Its entries in a trajectory, and the times it is due at.
IsRecord(x, q) ==
    IF q[1] \in EdgeKinds THEN x.kind = "InjectionEvent" /\ x.idx = q[2] /\ Marks(x, q[1])
    ELSE IsPoll(x, q[1])
Records(t, q) == {j \in 1..Len(t) : IsRecord(t[j], q)}
MultiplesOf(p) == {x \in Nat : x % p = 0}
DueTimes(q) == IF q[1] \in EdgeKinds THEN {EdgeTime(q[1], q[2])} ELSE MultiplesOf(cfg.period[q[1]])

Polled == {q \in PollKinds \X {0} : cfg.period[q[1]] > 0}
Watched == Polled \cup (EdgeKinds \X (1..Len(cfg.injections)))

\* One event for each of the times in M after a and up to b.
DueBetween(S, a, b, M) ==
    /\ \A e \in S : e.at \in (a + 1)..b /\ e.at \in M
    /\ \A x \in (a + 1)..b : x \in M => \E e \in S : e.at = x
    /\ \A e, f \in S : e.at = f.at => e = f

\* Each time in M up to u has its entry: recorded in t or pending in S.
Placed(t, S, u, M, q) ==
    /\ \A i \in Records(t, q) : t[i].at \in 1..u /\ t[i].at \in M
    /\ \A e \in S : e.at \in 1..u /\ e.at \in M
    /\ \A x \in 1..u : x \in M => (\E i \in Records(t, q) : t[i].at = x) \/ (\E e \in S : e.at = x)
    /\ \A i, j \in Records(t, q) : t[i].at = t[j].at => i = j
    /\ \A e, f \in S : e.at = f.at => e = f
    /\ \A i \in Records(t, q) : \A e \in S : t[i].at # e.at

\* The new entries of u are no records of q.
NoneNew(t, u, q) == Extended(t, u) /\ \A i \in (Len(t) + 1)..Len(u) : ~IsRecord(u[i], q)

\* Then its records are the same.
LEMMA RecordsKept ==
    ASSUME NEW t, NEW u, NEW q, NoneNew(t, u, q)
    PROVE  Records(u, q) = Records(t, q) /\ \A i \in Records(t, q) : u[i] = t[i]
<1>1. Len(t) \in Nat /\ Len(u) \in Nat /\ Len(t) <= Len(u)
    BY SeqFacts DEF NoneNew, Extended
<1>2. \A i \in 1..Len(u) : i \in 1..Len(t) \/ i \in (Len(t) + 1)..Len(u)
    BY <1>1
<1>3. \A i \in 1..Len(t) : i \in 1..Len(u)
    BY <1>1
<1>4. \A i \in 1..Len(t) : u[i] = t[i]
    BY DEF NoneNew, Extended
<1> QED
    BY <1>2, <1>3, <1>4 DEF NoneNew, Records

\* One new entry, the last, is a record of q.
LEMMA RecordsMore ==
    ASSUME NEW t, NEW u, NEW q, Extended(t, u), Len(t) < Len(u), IsRecord(u[Len(u)], q),
           \A i \in (Len(t) + 1)..(Len(u) - 1) : ~IsRecord(u[i], q)
    PROVE  /\ Records(u, q) = Records(t, q) \cup {Len(u)} /\ Len(u) \notin Records(t, q)
           /\ \A i \in Records(t, q) : u[i] = t[i]
<1>1. Len(t) \in Nat /\ Len(u) \in Nat /\ Len(t) < Len(u)
    BY SeqFacts DEF Extended
<1>2. \A i \in 1..Len(u) : i \in 1..Len(t) \/ i \in (Len(t) + 1)..(Len(u) - 1) \/ i = Len(u)
    BY <1>1
<1>3. (\A i \in 1..Len(t) : i \in 1..Len(u) /\ i # Len(u)) /\ Len(u) \in 1..Len(u)
    BY <1>1
<1>4. \A i \in 1..Len(t) : u[i] = t[i]
    BY DEF Extended
<1> QED
    BY <1>2, <1>3, <1>4 DEF Records

\* Nothing happens to q.
LEMMA PlacedKept ==
    ASSUME NEW t, NEW w, NEW S, NEW u, NEW M, NEW q, Placed(t, S, u, M, q), Records(w, q) = Records(t, q),
           \A i \in Records(t, q) : w[i] = t[i]
    PROVE  Placed(w, S, u, M, q)
BY DEF Placed

\* A pending event is recorded.
LEMMA PlacedMore ==
    ASSUME NEW t, NEW w, NEW S, NEW u, NEW M, NEW q, NEW e \in S, NEW m, Placed(t, S, u, M, q),
           Records(w, q) = Records(t, q) \cup {m}, m \notin Records(t, q), w[m].at = e.at,
           \A i \in Records(t, q) : w[i] = t[i]
    PROVE  Placed(w, S \ {e}, u, M, q)
<1> DEFINE P == Records(t, q)
<1>1. /\ \A i \in P : t[i].at \in 1..u /\ t[i].at \in M
      /\ \A f \in S : f.at \in 1..u /\ f.at \in M
      /\ \A x \in 1..u : x \in M => (\E i \in P : t[i].at = x) \/ (\E f \in S : f.at = x)
      /\ \A i, j \in P : t[i].at = t[j].at => i = j
      /\ \A f, g \in S : f.at = g.at => f = g
      /\ \A i \in P : \A f \in S : t[i].at # f.at
    BY DEF Placed
<1>2. Records(w, q) = P \cup {m} /\ m \notin P /\ \A i \in P : w[i].at = t[i].at
    OBVIOUS
<1> HIDE DEF P
<1>3. /\ \A i \in P \cup {m} : w[i].at \in 1..u /\ w[i].at \in M
      /\ \A f \in S \ {e} : f.at \in 1..u /\ f.at \in M
    BY <1>1, <1>2
<1>4. \A x \in 1..u : x \in M => (\E i \in P \cup {m} : w[i].at = x) \/ (\E f \in S \ {e} : f.at = x)
    BY <1>1, <1>2
<1>5. \A i, j \in P \cup {m} : w[i].at = w[j].at => i = j
    BY <1>1, <1>2
<1>6. \A i \in P \cup {m} : \A f \in S \ {e} : w[i].at # f.at
    BY <1>1, <1>2
<1> QED
    BY <1>1, <1>2, <1>3, <1>4, <1>5, <1>6 DEF Placed

\* The events of the next call.
LEMMA PlacedNext ==
    ASSUME NEW t, NEW S, NEW a \in Nat, NEW b \in Nat, a <= b, NEW M, NEW q, Placed(t, {}, a, M, q),
           DueBetween(S, a, b, M)
    PROVE  Placed(t, S, b, M, q)
<1>1. /\ \A x \in 1..b : x \in 1..a \/ x \in (a + 1)..b
      /\ \A x \in 1..a : x \in 1..b /\ x \notin (a + 1)..b
      /\ \A x \in (a + 1)..b : x \in 1..b
    OBVIOUS
<1> DEFINE P == Records(t, q)
<1>2. /\ \A i \in P : t[i].at \in 1..a /\ t[i].at \in M
      /\ \A x \in 1..a : x \in M => \E i \in P : t[i].at = x
      /\ \A i, j \in P : t[i].at = t[j].at => i = j
    BY DEF Placed
<1>3. /\ \A e \in S : e.at \in (a + 1)..b /\ e.at \in M
      /\ \A x \in (a + 1)..b : x \in M => \E e \in S : e.at = x
      /\ \A e, f \in S : e.at = f.at => e = f
    BY DEF DueBetween
<1> HIDE DEF P
<1>4. /\ \A i \in P : t[i].at \in 1..b /\ t[i].at \in M
      /\ \A e \in S : e.at \in 1..b /\ e.at \in M
      /\ \A x \in 1..b : x \in M => (\E i \in P : t[i].at = x) \/ (\E e \in S : e.at = x)
      /\ \A i \in P : \A e \in S : t[i].at # e.at
    BY <1>1, <1>2, <1>3
<1> QED
    BY <1>2, <1>3, <1>4 DEF Placed, P

\* Nothing recorded, nothing pending, no time passed.
LEMMA PlacedNone ==
    ASSUME NEW t, Len(t) = 0, NEW M, NEW q
    PROVE  Placed(t, {}, 0, M, q)
<1>1. \A x : x \notin 1..0
    OBVIOUS
<1> QED
    BY <1>1 DEF Placed, Records

-----------------------------------------------------------------------------
\* While every call so far has ended, and the present one will end, where its events end.
Tracked == exact /\ stage # "failed" /\ (stage \in {"loop", "events"} => call.for <= HORIZON)

\* How far events have been scheduled.
Upto == IF stage \in {"loop", "events"} THEN end ELSE clock.now

\* What is pending and not of this tick is still to come.
Ahead(q) == \A e \in Of(clock.events, q) : (IF stage = "events" THEN tick_end ELSE clock.now) < e.at

Kept(q) == Placed(trajectory, Of(Pending, q), Upto, DueTimes(q), q) /\ Ahead(q)

KeptInv == Tracked => \A q \in Watched : Kept(q)

\* Polls and edges are told apart.
LEMMA WatchedFacts ==
    ASSUME NEW q \in Watched
    PROVE  /\ q[1] \in PollKinds \cup EdgeKinds
           /\ q[1] \in PollKinds => q[1] \notin EdgeKinds /\ cfg.period[q[1]] > 0
           /\ q[1] \in EdgeKinds => q[1] \notin PollKinds /\ q[2] \in 1..Len(cfg.injections)
<1>1. PollKinds \cap EdgeKinds = {}
    BY DEF PollKinds, EdgeKinds, SignalKinds
<1>2. q \in Polled \/ q \in EdgeKinds \X (1..Len(cfg.injections))
    BY DEF Watched
<1>3. CASE q \in Polled
    BY <1>1, <1>3 DEF Polled
<1>4. CASE q \in EdgeKinds \X (1..Len(cfg.injections))
    BY <1>1, <1>4
<1> QED
    BY <1>2, <1>3, <1>4

\* Which steps keep to the schedule.
LEMMA TrackedFacts ==
    /\ Still /\ stage' = stage /\ Tracked' => Tracked
    /\ stage' = "failed" => ~Tracked'
    /\ StartCall /\ Tracked' => Tracked /\ call'.for <= HORIZON
    /\ EndCall /\ Tracked' => Tracked /\ clock.now = end
    /\ StartTick /\ Tracked' => Tracked
    /\ FinishTick /\ Tracked' => Tracked
    /\ stage = "events" /\ stage' = "events" /\ exact' = exact /\ call' = call /\ Tracked' => Tracked
<1>1. Still /\ stage' = stage /\ Tracked' => Tracked
    BY Zenon DEF Still, Tracked
<1>2. stage' = "failed" => ~Tracked'
    BY Zenon DEF Tracked
<1>3. StartCall /\ Tracked' => Tracked /\ call'.for <= HORIZON
    <2>1. StartCall => stage = "idle" /\ stage' = "loop" /\ exact' = exact
        BY DEF StartCall
    <2>2. "idle" # "failed" /\ "idle" \notin {"loop", "events"} /\ "loop" \in {"loop", "events"}
        OBVIOUS
    <2> QED
        BY <2>1, <2>2, Zenon DEF Tracked
<1>4. EndCall /\ Tracked' => Tracked /\ clock.now = end
    <2>1. EndCall => stage = "loop" /\ exact' = (exact /\ clock.now = end /\ call.for <= HORIZON)
        BY DEF EndCall
    <2>2. "loop" # "failed"
        OBVIOUS
    <2> QED
        BY <2>1, <2>2, Zenon DEF Tracked
<1>5. StartTick /\ Tracked' => Tracked
    <2>1. StartTick => stage = "loop" /\ stage' = "events" /\ exact' = exact /\ call' = call
        BY DEF StartTick
    <2>2. "loop" # "failed" /\ "events" \in {"loop", "events"}
        OBVIOUS
    <2> QED
        BY <2>1, <2>2, Zenon DEF Tracked
<1>6. FinishTick /\ Tracked' => Tracked
    <2>1. FinishTick => stage = "events" /\ stage' = "loop" /\ exact' = exact /\ call' = call
        BY DEF FinishTick
    <2>2. "events" # "failed" /\ "loop" \in {"loop", "events"}
        OBVIOUS
    <2> QED
        BY <2>1, <2>2, Zenon DEF Tracked
<1>7. stage = "events" /\ stage' = "events" /\ exact' = exact /\ call' = call /\ Tracked' => Tracked
    BY Zenon DEF Tracked
<1> QED
    BY <1>1, <1>2, <1>3, <1>4, <1>5, <1>6, <1>7

\* Between calls, exact says it all.
LEMMA IdleTracked == exact /\ stage = "idle" => Tracked
<1>1. "idle" # "failed" /\ "idle" \notin {"loop", "events"}
    OBVIOUS
<1> QED
    BY <1>1, Zenon DEF Tracked

\* Between calls nothing that is scheduled ahead is pending.
LEMMA IdleKept ==
    ASSUME SimBase, stage = "idle", NEW q, Kept(q)
    PROVE  /\ Of(Pending, q) = {} /\ Upto = clock.now
           /\ Placed(trajectory, {}, clock.now, DueTimes(q), q)
<1>1. clock.now \in Nat /\ batch = {} /\ \A e \in clock.events : e.at \in Nat
    BY DEF SimBase, SimTyped, Clocks, Event, Timely
<1>2. Upto = clock.now
    BY DEF Upto
<1>3. \A e \in Of(Pending, q) : e \in Of(clock.events, q) /\ e.at \in 1..clock.now
    BY <1>1, <1>2 DEF Kept, Placed, Of, Pending
<1>4. \A e \in Of(clock.events, q) : clock.now < e.at
    BY DEF Kept, Ahead
<1>5. Of(Pending, q) = {}
    BY <1>1, <1>3, <1>4
<1> QED
    BY <1>2, <1>5 DEF Kept

\* Between calls, a kind is polled at the multiples of its period up to now and at no other time.
LEMMA PollsAreExact == ASSUME SimBase, KeptInv PROVE PollsExact
<1> SUFFICES ASSUME exact /\ stage = "idle", NEW k \in DOMAIN cfg.period, cfg.period[k] > 0
             PROVE  LET polls == {i \in DOMAIN trajectory : IsPoll(trajectory[i], k)}
                    IN  /\ {trajectory[i].at : i \in polls} = {t \in 1..clock.now : t % cfg.period[k] = 0}
                        /\ \A i, j \in polls : trajectory[i].at = trajectory[j].at => i = j
    BY Zenon DEF PollsExact
<1>1. Tracked /\ stage = "idle"
    BY IdleTracked, Zenon
<1>2. k \in PollKinds /\ DOMAIN trajectory = 1..Len(trajectory) /\ clock.now \in Nat
    BY SeqFacts DEF SimBase, SimTyped, WellFormed, PollKinds, Clocks
<1> DEFINE q == <<k, 0>>
           polls == {i \in DOMAIN trajectory : IsPoll(trajectory[i], k)}
<1>3. q \in Watched /\ q[1] = k
    BY <1>2 DEF Watched, Polled
<1> HIDE DEF q
<1>4. q[1] \notin EdgeKinds
    BY <1>2, <1>3, WatchedFacts
<1>5. Placed(trajectory, {}, clock.now, DueTimes(q), q)
    <2>1. Kept(q)
        BY <1>1, <1>3 DEF KeptInv
    <2> QED
        BY <1>1, <2>1, IdleKept
<1>6. polls = Records(trajectory, q)
    BY <1>2, <1>3, <1>4 DEF Records, IsRecord
<1>7. \A x \in 1..clock.now : x \in DueTimes(q) <=> x % cfg.period[k] = 0
    <2>1. \A x \in 1..clock.now : x \in Nat
        BY <1>2
    <2> QED
        BY <1>3, <1>4, <2>1 DEF DueTimes, MultiplesOf
<1> HIDE DEF polls
<1>8. /\ \A i \in polls : trajectory[i].at \in 1..clock.now /\ trajectory[i].at % cfg.period[k] = 0
      /\ \A x \in 1..clock.now : x % cfg.period[k] = 0 => \E i \in polls : trajectory[i].at = x
      /\ \A i, j \in polls : trajectory[i].at = trajectory[j].at => i = j
    BY <1>5, <1>6, <1>7 DEF Placed
<1>9. {trajectory[i].at : i \in polls} = {t \in 1..clock.now : t % cfg.period[k] = 0}
    BY <1>8
<1> QED
    BY <1>8, <1>9 DEF polls

\* One edge of one injection.
LEMMA EdgeIsExact ==
    ASSUME SimBase, KeptInv, Tracked, stage = "idle", NEW i \in 1..Len(cfg.injections), NEW kind \in EdgeKinds
    PROVE  LET edges == {j \in 1..Len(trajectory) : /\ trajectory[j].kind = "InjectionEvent" /\ trajectory[j].idx = i
                                                    /\ Marks(trajectory[j], kind)}
           IN  /\ {trajectory[j].at : j \in edges} = {EdgeTime(kind, i)} \cap 1..clock.now
               /\ \A j, m \in edges : j = m
<1> DEFINE q == <<kind, i>>
           edges == {j \in 1..Len(trajectory) : /\ trajectory[j].kind = "InjectionEvent" /\ trajectory[j].idx = i
                                                /\ Marks(trajectory[j], kind)}
<1>1. q \in Watched /\ q[1] = kind /\ q[2] = i
    BY DEF Watched
<1> HIDE DEF q
<1>2. Placed(trajectory, {}, clock.now, DueTimes(q), q)
    <2>1. Kept(q)
        BY <1>1 DEF KeptInv
    <2> QED
        BY <2>1, IdleKept
<1>3. edges = Records(trajectory, q)
    BY <1>1 DEF Records, IsRecord
<1>4. DueTimes(q) = {EdgeTime(kind, i)}
    BY <1>1 DEF DueTimes
<1> HIDE DEF edges
<1>5. /\ \A j \in edges : trajectory[j].at \in 1..clock.now /\ trajectory[j].at = EdgeTime(kind, i)
      /\ EdgeTime(kind, i) \in 1..clock.now => \E j \in edges : trajectory[j].at = EdgeTime(kind, i)
      /\ \A j, m \in edges : trajectory[j].at = trajectory[m].at => j = m
    BY <1>2, <1>3, <1>4 DEF Placed
<1>6. \A j, m \in edges : j = m
    BY <1>5
<1>7. {trajectory[j].at : j \in edges} = {EdgeTime(kind, i)} \cap 1..clock.now
    BY <1>5
<1> QED
    BY <1>6, <1>7 DEF edges

\* Between calls, the edges of every injection up to now are recorded once, where they lie.
LEMMA EdgesAreExact == ASSUME SimBase, KeptInv PROVE EdgesExact
<1> DEFINE edges(i, started) == {j \in DOMAIN trajectory : /\ trajectory[j].kind = "InjectionEvent"
                                                          /\ trajectory[j].idx = i
                                                          /\ trajectory[j].started = started}
           recorded(i, started, at) ==
               /\ {trajectory[j].at : j \in edges(i, started)} = {at} \cap 1..clock.now
               /\ \A j, m \in edges(i, started) : j = m
<1> SUFFICES ASSUME exact /\ stage = "idle", NEW i \in DOMAIN cfg.injections
             PROVE  /\ recorded(i, TRUE, cfg.injections[i].t_start)
                    /\ recorded(i, FALSE, cfg.injections[i].t_start + cfg.injections[i].duration)
    BY Zenon DEF EdgesExact
<1>1. Tracked /\ stage = "idle"
    BY IdleTracked, Zenon
<1>2. i \in 1..Len(cfg.injections) /\ DOMAIN trajectory = 1..Len(trajectory)
    <2>1. cfg.injections \in Seq(InjectionRecords)
        BY DEF SimBase, SimTyped, WellFormed, InjectionRecords
    <2>2. IsSeq(cfg.injections) /\ IsSeq(trajectory)
        BY <2>1, Zenon DEF IsSeq, SimBase, SimTyped
    <2>3. DOMAIN cfg.injections = 1..Len(cfg.injections) /\ DOMAIN trajectory = 1..Len(trajectory)
        BY <2>2, SeqFacts, Zenon
    <2> QED
        BY <2>3
<1>3. /\ EdgeTime("InjectionStart", i) = cfg.injections[i].t_start
      /\ EdgeTime("InjectionEnd", i) = cfg.injections[i].t_start + cfg.injections[i].duration
      /\ "InjectionStart" \in EdgeKinds /\ "InjectionEnd" \in EdgeKinds
    BY DEF EdgeTime, EdgeKinds
<1>4. \A x : (Marks(x, "InjectionStart") <=> x.started = TRUE) /\ (Marks(x, "InjectionEnd") <=> x.started = FALSE)
    <2>1. ("InjectionStart" = "InjectionStart") = TRUE /\ ("InjectionEnd" = "InjectionStart") = FALSE
        OBVIOUS
    <2> QED
        BY <2>1, Zenon DEF Marks
<1> DEFINE marked(kind) == {j \in 1..Len(trajectory) : /\ trajectory[j].kind = "InjectionEvent" /\ trajectory[j].idx = i
                                                      /\ Marks(trajectory[j], kind)}
<1>5. edges(i, TRUE) = marked("InjectionStart") /\ edges(i, FALSE) = marked("InjectionEnd")
    BY <1>2, <1>4, Zenon
<1>6. \A kind \in EdgeKinds : /\ {trajectory[j].at : j \in marked(kind)} = {EdgeTime(kind, i)} \cap 1..clock.now
                              /\ \A j, m \in marked(kind) : j = m
    BY <1>1, <1>2, EdgeIsExact
<1> HIDE DEF edges, marked
<1> QED
    BY <1>3, <1>5, <1>6

\* Steps that record and schedule nothing.
LEMMA KeptQuiet ==
    ASSUME KeptInv, Tracked, trajectory' = trajectory, Pending' = Pending, Upto' = Upto, NEW q \in Watched
    PROVE  Placed(trajectory', Of(Pending', q), Upto', DueTimes(q), q)
BY DEF KeptInv, Kept

\* What a call schedules ahead.
LEMMA CallSchedules ==
    ASSUME SimBase, StartCall, call'.for <= HORIZON, NEW q \in Watched
    PROVE  DueBetween(Of(Added(clock, clock'), q), clock.now, end', DueTimes(q))
<1>1. /\ end' = clock.now + call'.for /\ end' \in Nat /\ clock.now \in Nat
      /\ \E until \in Nat : /\ call'.for <= HORIZON => until = end'
                            /\ Scheduled(clock, clock', PollKinds \cup EdgeKinds, until)
                            /\ EdgesBetween(Added(clock, clock'), 1..Len(cfg.injections), clock.now, until)
    BY CallFacts
<1> DEFINE A == Added(clock, clock')
<1>2. /\ Scheduled(clock, clock', PollKinds \cup EdgeKinds, end')
      /\ EdgesBetween(A, 1..Len(cfg.injections), clock.now, end')
    BY <1>1
<1>3. \A e \in A : e.at \in Nat
    BY <1>2 DEF Scheduled, NewIds, Clocks, Event, Added
<1>4. CASE q[1] \in PollKinds
    <2>1. q[1] \notin EdgeKinds /\ cfg.period[q[1]] > 0
        BY <1>4, WatchedFacts
    <2>2. PollsBetween(OfKind(A, q[1]), clock.now, end', cfg.period[q[1]])
        BY <1>2, <1>4, <2>1 DEF Scheduled
    <2>3. Of(A, q) = OfKind(A, q[1])
        BY <2>1 DEF Of, Is, OfKind
    <2>4. DueTimes(q) = MultiplesOf(cfg.period[q[1]])
        BY <2>1 DEF DueTimes
    <2>5. \A x \in (clock.now + 1)..end' : x \in MultiplesOf(cfg.period[q[1]]) <=> x % cfg.period[q[1]] = 0
        <3>1. \A x \in (clock.now + 1)..end' : x \in Nat
            BY <1>1
        <3> QED
            BY <3>1 DEF MultiplesOf
    <2> QED
        BY <2>2, <2>3, <2>4, <2>5 DEF PollsBetween, DueBetween
<1>5. CASE q[1] \in EdgeKinds
    <2>1. q[2] \in 1..Len(cfg.injections)
        BY <1>5, WatchedFacts
    <2>2. Of(A, q) = OfEdge(A, q[1], q[2])
        BY <1>5 DEF Of, Is, OfEdge
    <2>3. OneEdge(Of(A, q), q[1], q[2], EdgeTime(q[1], q[2]), clock.now, end')
        BY <1>2, <1>5, <2>1, <2>2 DEF EdgesBetween
    <2>4. DueTimes(q) = {EdgeTime(q[1], q[2])}
        BY <1>5 DEF DueTimes
    <2> DEFINE T == EdgeTime(q[1], q[2])
               S == Of(A, q)
    <2>5. /\ \A e \in S : e.at = T /\ clock.now < e.at /\ e.at <= end' /\ e.at \in Nat
          /\ clock.now < T /\ T <= end' => S # {}
          /\ \A e, f \in S : e = f
        BY <1>3, <2>3 DEF OneEdge, Of
    <2> HIDE DEF T, S
    <2>6. \A e \in S : e.at \in (clock.now + 1)..end'
        BY <1>1, <2>5
    <2>7. \A x \in (clock.now + 1)..end' : clock.now < x /\ x <= end'
        BY <1>1
    <2>8. \A x \in (clock.now + 1)..end' : x \in {T} => \E e \in S : e.at = x
        BY <2>5, <2>7
    <2> QED
        BY <2>4, <2>5, <2>6, <2>8 DEF DueBetween, S, T
<1> QED
    BY <1>4, <1>5, WatchedFacts

\* A call starts where the last one's events ended, and schedules up to its own end.
LEMMA StartCallKept ==
    ASSUME SimBase, KeptInv, StartCall, Tracked', NEW q \in Watched
    PROVE  Placed(trajectory', Of(Pending', q), Upto', DueTimes(q), q) /\ Ahead(q)'
<1>1. Tracked /\ call'.for <= HORIZON
    BY TrackedFacts
<1>2. stage = "idle" /\ stage' = "loop" /\ trajectory' = trajectory /\ batch' = batch
    BY DEF StartCall
<1>3. /\ end' = clock.now + call'.for /\ call'.for \in Nat /\ end' \in Nat /\ clock.now \in Nat
      /\ \E until \in Nat : Scheduled(clock, clock', PollKinds \cup EdgeKinds, until)
    BY CallFacts DEF CallRecords
<1>4. DueBetween(Of(Added(clock, clock'), q), clock.now, end', DueTimes(q))
    BY <1>1, CallSchedules
<1>5. /\ clock.events \subseteq clock'.events /\ clock'.now = clock.now
      /\ \A e \in Added(clock, clock') : clock.now < e.at
    BY <1>3 DEF Scheduled, NewIds
<1>6. Kept(q)
    BY <1>1 DEF KeptInv
<1>7. Of(Pending, q) = {} /\ Placed(trajectory, {}, clock.now, DueTimes(q), q)
    BY <1>2, <1>6, IdleKept
<1>8. Of(Pending', q) = Of(Added(clock, clock'), q)
    BY <1>2, <1>5, <1>7 DEF Of, Pending, Added
<1>9. clock.now <= end'
    BY <1>3
<1>10. Placed(trajectory, Of(Added(clock, clock'), q), end', DueTimes(q), q)
    BY <1>3, <1>4, <1>7, <1>9, PlacedNext
<1>11. Upto' = end'
    BY <1>2 DEF Upto
<1>12. \A e \in Of(clock'.events, q) : clock.now < e.at
    BY <1>5, <1>7 DEF Of, Added, Pending
<1>13. Ahead(q)'
    BY <1>2, <1>5, <1>12 DEF Ahead
<1> QED
    BY <1>2, <1>8, <1>10, <1>11, <1>13

\* A call ends where its events end.
LEMMA EndCallKept ==
    ASSUME SimBase, KeptInv, EndCall, Tracked', NEW q \in Watched
    PROVE  Placed(trajectory', Of(Pending', q), Upto', DueTimes(q), q) /\ Ahead(q)'
<1>1. Tracked /\ clock.now = end
    BY TrackedFacts
<1>2. stage = "loop" /\ stage' = "idle" /\ UNCHANGED <<cfg, trajectory, batch, clock>>
    BY DEF EndCall
<1>3. Upto' = Upto /\ Pending' = Pending
    BY <1>1, <1>2 DEF Upto, Pending
<1>4. Ahead(q)
    BY <1>1 DEF KeptInv, Kept
<1>5. Ahead(q)'
    BY <1>2, <1>4 DEF Ahead
<1> QED
    BY <1>1, <1>2, <1>3, <1>5, KeptQuiet

\* The events of a tick change hands.
LEMMA StartTickKept ==
    ASSUME SimBase, KeptInv, StartTick, Tracked', NEW q \in Watched
    PROVE  Placed(trajectory', Of(Pending', q), Upto', DueTimes(q), q) /\ Ahead(q)'
<1>1. Tracked
    BY TrackedFacts
<1>2. /\ stage = "loop" /\ stage' = "events" /\ UNCHANGED <<cfg, trajectory, end>> /\ Pending' = Pending
      /\ clock'.events = {e \in clock.events : ~(e.at <= tick_end)} /\ tick_end' = tick_end /\ tick_end \in Nat
    BY TickFacts
<1>3. Upto' = Upto
    BY <1>2 DEF Upto
<1>4. \A e \in clock.events : e.at \in Nat
    BY DEF SimBase, SimTyped, Clocks, Event
<1>5. \A e \in clock'.events : tick_end < e.at
    BY <1>2, <1>4
<1>6. Ahead(q)'
    BY <1>2, <1>5 DEF Ahead, Of
<1> QED
    BY <1>1, <1>2, <1>3, <1>6, KeptQuiet

\* What is left lies after the tick.
LEMMA FinishTickKept ==
    ASSUME SimBase, KeptInv, FinishTick, Tracked', NEW q \in Watched
    PROVE  Placed(trajectory', Of(Pending', q), Upto', DueTimes(q), q) /\ Ahead(q)'
<1>1. Tracked
    BY TrackedFacts
<1>2. /\ stage = "events" /\ stage' = "loop" /\ UNCHANGED <<cfg, end>> /\ Pending' = Pending
      /\ clock'.events = clock.events /\ clock'.now = tick_end
    BY FinishFacts
<1>3. PICK x : trajectory' = Append(trajectory, x) /\ x.kind = "StateSnapshot"
    BY FinishFacts
<1>4. /\ Extended(trajectory, trajectory') /\ Len(trajectory') = Len(trajectory) + 1
      /\ trajectory'[Len(trajectory) + 1] = x /\ Len(trajectory) \in Nat
    BY <1>3, AppendExtends DEF SimBase, SimTyped
<1>5. \A i \in (Len(trajectory) + 1)..Len(trajectory') : ~IsRecord(trajectory'[i], q)
    <2>1. \A i \in (Len(trajectory) + 1)..Len(trajectory') : i = Len(trajectory) + 1
        BY <1>4
    <2>2. ~IsRecord(x, q)
        BY <1>3 DEF IsRecord, IsPoll
    <2> QED
        BY <1>4, <2>1, <2>2
<1>6. Upto' = Upto
    BY <1>2 DEF Upto
<1>7. Kept(q)
    BY <1>1 DEF KeptInv
<1>8. /\ Records(trajectory', q) = Records(trajectory, q)
      /\ \A i \in Records(trajectory, q) : trajectory'[i] = trajectory[i]
    BY <1>4, <1>5, RecordsKept DEF NoneNew
<1>9. Placed(trajectory', Of(Pending, q), Upto, DueTimes(q), q)
    BY <1>7, <1>8, PlacedKept DEF Kept
<1>10. Ahead(q)'
    BY <1>2, <1>7 DEF Kept, Ahead
<1> QED
    BY <1>2, <1>6, <1>9, <1>10

\* What a handler does: the event it handles, if it was scheduled ahead, is recorded by the last
\* entry; nothing else is recorded or scheduled.
LEMMA HandledKept ==
    ASSUME SimBase, KeptInv, Tracked, stage = "events", stage' = "events", batch # {},
           batch' = batch \ {Earliest(batch)},
           cfg' = cfg, end' = end, NewIds(clock, clock'), \A f \in Added(clock, clock') : Observation(f),
           Extended(trajectory, trajectory'), Len(trajectory) < Len(trajectory'), NEW q \in Watched,
           \A i \in (Len(trajectory) + 1)..(Len(trajectory') - 1) : ~IsRecord(trajectory'[i], q),
           IsRecord(trajectory'[Len(trajectory')], q) <=> Is(Earliest(batch), q),
           trajectory'[Len(trajectory')].at = Earliest(batch).at
    PROVE  Placed(trajectory', Of(Pending', q), Upto', DueTimes(q), q) /\ Ahead(q)'
<1> DEFINE e == Earliest(batch)
           A == Added(clock, clock')
           S == Of(Pending, q)
<1>1. e \in batch /\ clock.events \cap batch = {}
    BY NextEvent DEF SimBase, IdsApart
<1>2. clock'.events = clock.events \cup A /\ clock'.now = clock.now
    BY DEF NewIds, Added
<1>3. \A f \in A : ~Is(f, q)
    BY WatchedFacts DEF Observation, PollKinds, EdgeKinds, SignalKinds, Is
<1> HIDE DEF A
<1>4. Of(clock'.events, q) = Of(clock.events, q)
    BY <1>2, <1>3 DEF Of
<1>5. Upto' = Upto
    BY DEF Upto
<1>6. Kept(q)
    BY DEF KeptInv
<1>7. Ahead(q)'
    BY <1>2, <1>4, <1>6 DEF Kept, Ahead, tick_end
<1>8. Placed(trajectory, S, Upto, DueTimes(q), q)
    BY <1>6 DEF Kept
<1>9. CASE Is(e, q)
    <2>1. e \in S /\ Of(Pending', q) = S \ {e}
        BY <1>1, <1>2, <1>3, <1>9 DEF Of, Pending
    <2>2. /\ Records(trajectory', q) = Records(trajectory, q) \cup {Len(trajectory')}
          /\ Len(trajectory') \notin Records(trajectory, q)
          /\ \A i \in Records(trajectory, q) : trajectory'[i] = trajectory[i]
        BY <1>9, RecordsMore
    <2> HIDE DEF e, S
    <2>3. trajectory'[Len(trajectory')].at = e.at
        BY DEF e
    <2>4. Placed(trajectory', S \ {e}, Upto, DueTimes(q), q)
        BY <1>8, <2>1, <2>2, <2>3, PlacedMore
    <2> QED
        BY <1>5, <1>7, <2>1, <2>4
<1>10. CASE ~Is(e, q)
    <2>1. Of(Pending', q) = S
        BY <1>1, <1>2, <1>3, <1>10 DEF Of, Pending
    <2>2. \A i \in (Len(trajectory) + 1)..Len(trajectory') : ~IsRecord(trajectory'[i], q)
        <3>1. Len(trajectory) \in Nat /\ Len(trajectory') \in Nat
            BY SeqFacts DEF Extended
        <3>2. \A i \in (Len(trajectory) + 1)..Len(trajectory') :
                  i = Len(trajectory') \/ i \in (Len(trajectory) + 1)..(Len(trajectory') - 1)
            BY <3>1
        <3> QED
            BY <1>10, <3>2
    <2>3. /\ Records(trajectory', q) = Records(trajectory, q)
          /\ \A i \in Records(trajectory, q) : trajectory'[i] = trajectory[i]
        <3>1. NoneNew(trajectory, trajectory', q)
            BY <2>2 DEF NoneNew
        <3> QED
            BY <3>1, RecordsKept
    <2> HIDE DEF e, S
    <2>4. Placed(trajectory', S, Upto, DueTimes(q), q)
        BY <1>8, <2>3, PlacedKept
    <2> QED
        BY <1>5, <1>7, <2>1, <2>4
<1> QED
    BY <1>9, <1>10

\* The two edges of a window are told apart.
LEMMA MarksApart ==
    ASSUME NEW x, NEW a \in EdgeKinds, NEW b \in EdgeKinds, Marks(x, a)
    PROVE  Marks(x, b) <=> a = b
<1>1. (a = "InjectionStart" \/ a = "InjectionEnd") /\ (b = "InjectionStart" \/ b = "InjectionEnd")
    BY DEF EdgeKinds
<1>2. "InjectionStart" # "InjectionEnd"
    OBVIOUS
<1> QED
    BY <1>1, <1>2, Zenon DEF Marks

\* A heartbeat and an edge are recorded where they were scheduled.
LEMMA PlainKept ==
    ASSUME SimBase, KeptInv, HandleHeartbeat \/ HandleObservation \/ HandleInjection, Tracked', NEW q \in Watched
    PROVE  Placed(trajectory', Of(Pending', q), Upto', DueTimes(q), q) /\ Ahead(q)'
<1> DEFINE n == Len(trajectory)
           e == Earliest(batch)
<1>1. /\ stage = "events" /\ stage' = "events" /\ batch # {} /\ batch' = batch \ {Earliest(batch)}
      /\ UNCHANGED <<cfg, clock, call, end, exact>>
    BY PlainHandled
<1>2. PICK x : trajectory' = Append(trajectory, x) /\ Plainly(x)
    BY PlainHandled
<1>3. Tracked
    BY <1>1, TrackedFacts, Zenon
<1>4. /\ Extended(trajectory, trajectory') /\ Len(trajectory') = n + 1 /\ trajectory'[n + 1] = x /\ n \in Nat
    BY <1>2, AppendExtends DEF SimBase, SimTyped
<1>5. n < Len(trajectory') /\ \A i : i \notin (n + 1)..(Len(trajectory') - 1)
    BY <1>4
<1>6. Added(clock, clock') = {}
    BY <1>1 DEF Added
<1>7. NewIds(clock, clock')
    BY <1>1, <1>6 DEF NewIds, Clocks, SimBase, SimTyped
<1>8. IsRecord(x, q) <=> Is(e, q)
    <2>1. q[1] \in PollKinds \cup EdgeKinds /\ "ObservationDue" \notin PollKinds \cup EdgeKinds
          /\ "Heartbeat" \in PollKinds /\ PollKinds \cap EdgeKinds = {}
        BY WatchedFacts DEF PollKinds, EdgeKinds, SignalKinds
    <2>2. CASE x.kind = "InjectionEvent" /\ e.kind \in EdgeKinds /\ x.idx = e.arg /\ Marks(x, e.kind)
        <3>1. CASE q[1] \in EdgeKinds
            <4>1. Marks(x, q[1]) <=> e.kind = q[1]
                BY <2>2, <3>1, MarksApart
            <4> QED
                BY <2>2, <3>1, <4>1 DEF IsRecord, Is
        <3>2. CASE q[1] \notin EdgeKinds
            BY <2>2, <3>2 DEF IsRecord, Is, IsPoll
        <3> QED
            BY <3>1, <3>2
    <2>3. CASE x.kind = "Heartbeat" /\ e.kind = "Heartbeat"
        BY <2>1, <2>3 DEF IsRecord, Is, IsPoll
    <2>4. CASE x.kind = "ObservationDue" /\ e.kind = "ObservationDue"
        BY <2>1, <2>4 DEF IsRecord, Is, IsPoll
    <2> QED
        BY <1>2, <2>2, <2>3, <2>4 DEF Plainly
<1>9. x.at = Earliest(batch).at
    BY <1>2 DEF Plainly
<1> QED
    BY <1>1, <1>3, <1>4, <1>5, <1>6, <1>7, <1>8, <1>9, HandledKept

\* So is a poll of a signal.
LEMMA SignalKept ==
    ASSUME SimBase, KeptInv, HandleSignal, Tracked', NEW q \in Watched
    PROVE  Placed(trajectory', Of(Pending', q), Upto', DueTimes(q), q) /\ Ahead(q)'
<1> DEFINE n == Len(trajectory)
           e == Earliest(batch)
<1>1. IsSeq(trajectory) /\ n \in Nat
    BY SeqFacts DEF SimBase, SimTyped
<1>2. /\ stage = "events" /\ stage' = "events" /\ batch # {} /\ batch' = batch \ {e} /\ e.kind \in SignalKinds
      /\ UNCHANGED <<cfg, call, end, exact>>
    BY <1>1, SignalHandled
<1>3. Tracked
    BY <1>2, TrackedFacts, Zenon
<1>4. NewIds(clock, clock') /\ \A f \in Added(clock, clock') : Observation(f)
    BY SignalHandledBase
<1>5. PICK noise : \E m \in Nat :
          SignalAdded(trajectory, trajectory', m, e.at, e.kind, last_signal_levels[e.kind],
                      derive_signal(e.kind, state, noise, cfg))
    BY <1>1, SignalHandled
<1>6. PICK sig, at, from : /\ sig = derive_signal(e.kind, state, noise, cfg)
                           /\ at = e.at /\ from = last_signal_levels[e.kind]
    OBVIOUS
<1>7. PICK m \in Nat : SignalAdded(trajectory, trajectory', m, at, e.kind, from, sig)
    BY <1>5, <1>6
<1>8. sig.kind = e.kind
    BY <1>2, <1>6, DerivedFacts
<1>9. \A s : /\ LevelTransition(at, e.kind, from, sig.level, s).kind = "LevelTransition"
             /\ Signal(at, sig).kind = "Signal" /\ Signal(at, sig).signal = from_signal(sig) /\ Signal(at, sig).at = at
    BY DEF LevelTransition, Signal
<1> HIDE DEF e
<1>10. /\ Extended(trajectory, trajectory') /\ Len(trajectory') = m /\ n < m /\ trajectory'[m] = Signal(at, sig)
       /\ \A i \in (n + 1)..(m - 1) : trajectory'[i].kind \in {"Directive", "LevelTransition"}
    BY <1>7, <1>9 DEF SignalAdded
<1>11. \A i \in (n + 1)..(m - 1) : ~IsRecord(trajectory'[i], q)
    BY <1>10 DEF IsRecord, IsPoll
<1>12. IsRecord(trajectory'[m], q) <=> Is(e, q)
    <2>1. trajectory'[m].kind = "Signal" /\ trajectory'[m].signal.kind = e.kind
        <3>1. from_signal(sig).kind = sig.kind
            BY <1>2, <1>6, DerivedFacts, DumpedFacts
        <3> QED
            BY <1>8, <1>9, <1>10, <3>1
    <2>2. e.kind \notin EdgeKinds /\ e.kind # "Heartbeat"
        BY <1>2 DEF EdgeKinds, SignalKinds
    <2> QED
        BY <2>1, <2>2 DEF IsRecord, Is, IsPoll
<1>13. trajectory'[m].at = e.at
    BY <1>6, <1>9, <1>10
<1> QED
    BY <1>2, <1>3, <1>4, <1>10, <1>11, <1>12, <1>13, HandledKept DEF e

\* Before the first call.
LEMMA FreshKept ==
    ASSUME trajectory = <<>>, clock = NewClock, batch = {}, stage \in {"loading", "idle"}
    PROVE  KeptInv
<1>1. Len(trajectory) = 0 /\ clock.events = {} /\ clock.now = 0
    BY Tuples DEF NewClock
<1>2. \A q : Of(Pending, q) = {} /\ Of(clock.events, q) = {}
    BY <1>1 DEF Of, Pending
<1>3. Upto = 0
    BY <1>1 DEF Upto
<1>4. \A q : Kept(q)
    BY <1>1, <1>2, <1>3, PlacedNone DEF Kept, Ahead
<1> QED
    BY <1>4 DEF KeptInv

\* The schedule is kept in every state.
LEMMA KeptInvariance == ASSUME DocumentsWellFormed PROVE SimSpec => []KeptInv
<1>1. SimInit => KeptInv
    <2>1. SimInit => NewSimulator(cfg) /\ stage \in {"loading", "idle"}
        BY DEF SimInit
    <2> QED
        BY <2>1, FreshKept DEF NewSimulator
<1>2. SimBase /\ KeptInv /\ [SimNext]_allVars => KeptInv'
    <2> SUFFICES ASSUME SimBase, KeptInv, [SimNext]_allVars PROVE KeptInv'
        OBVIOUS
    <2>1. ASSUME cfg' = cfg PROVE Watched' = Watched /\ \A q : DueTimes(q)' = DueTimes(q)
        BY <2>1 DEF Watched, Polled, DueTimes, EdgeTime
    <2>2. CASE Still /\ stage' = stage
        <3>1. UNCHANGED <<cfg, trajectory, clock, batch, end>> /\ (Tracked' => Tracked)
            BY <2>2, TrackedFacts DEF Still
        <3>2. Upto' = Upto /\ Pending' = Pending
            BY <2>2, <3>1 DEF Upto, Pending
        <3>3. \A q : Kept(q) => Kept(q)'
            BY <2>1, <2>2, <3>1, <3>2 DEF Kept, Ahead, tick_end
        <3> QED
            BY <2>1, <3>1, <3>3 DEF KeptInv
    <2>3. CASE stage' = "failed"
        BY <2>3, TrackedFacts DEF KeptInv
    <2>4. CASE Construct
        <3>1. trajectory' = <<>> /\ clock' = NewClock /\ batch' = {} /\ stage' \in {"loading", "idle"}
            BY <2>4 DEF Construct, SimBase, Unbegun
        <3>2. (trajectory = <<>> /\ clock = NewClock /\ batch = {} /\ stage \in {"loading", "idle"} => KeptInv)'
            BY FreshKept, PTL
        <3> QED
            BY <3>1, <3>2
    <2>5. CASE \/ StartCall \/ EndCall \/ StartTick \/ HandleHeartbeat \/ HandleObservation
               \/ HandleInjection \/ HandleSignal \/ FinishTick
        <3>1. cfg' = cfg
            BY <2>5, PlainHandled DEF StartCall, EndCall, StartTick, FinishTick, HandleSignal
        <3>2. ASSUME Tracked', NEW q \in Watched
              PROVE  Placed(trajectory', Of(Pending', q), Upto', DueTimes(q), q) /\ Ahead(q)'
            BY <2>5, <3>2, StartCallKept, EndCallKept, StartTickKept, PlainKept, SignalKept, FinishTickKept
        <3>3. ASSUME Tracked', NEW q \in Watched PROVE Kept(q)'
            BY <2>1, <3>1, <3>2, <3>3 DEF Kept
        <3> QED
            BY <2>1, <3>1, <3>3 DEF KeptInv
    <2> QED
        BY <2>2, <2>3, <2>4, <2>5, StillSteps
<1>3. SimSpec => []SimBase
    BY BaseInvariance
<1> QED
    BY <1>1, <1>2, <1>3, PTL DEF SimSpec

(***************************************************************************)
(* preload_events over any number of calls: while every call ends where    *)
(* its events do, each kind is polled at the multiples of its period and   *)
(* each edge of an injection is recorded at its time, all exactly once and *)
(* whatever the lengths of the calls; and every compression let through is *)
(* observed once, after the delay, or still awaited.                       *)
(***************************************************************************)
THEOREM ScheduleAlwaysKept == ASSUME DocumentsWellFormed PROVE SimSpec => []ScheduleKept
<1>1. SimBase /\ KeptInv /\ Counted => ScheduleKept
    BY PollsAreExact, EdgesAreExact, CountedComplete DEF ScheduleKept
<1> QED
    BY <1>1, BaseInvariance, KeptInvariance, CountedInvariance, PTL

=============================================================================
