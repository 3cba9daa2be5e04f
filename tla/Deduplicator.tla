---------------------------- MODULE Deduplicator ----------------------------
(***************************************************************************)
(* DirectiveDeduplicator (pipeline.rs): a directive equal to the last one  *)
(* emitted is withheld until the cooldown has passed.  Time is in whole    *)
(* seconds.                                                                *)
(***************************************************************************)
EXTENDS Integers, Sequences

CONSTANTS
    Commands,     \* the command batches a policy may ask for
    NoCommands,   \* None
    Cooldown,     \* cooldown_secs
    MaxTime,      \* bound on the clock
    MaxEmitted    \* bound on the history `emitted'

ASSUME DeduplicatorAssumption ==
    /\ NoCommands \notin Commands
    /\ Cooldown \in Nat /\ MaxTime \in Nat /\ MaxEmitted \in Nat

VARIABLES
    now,            \* start.elapsed()
    last_commands,  \* Option<Vec<EngineCommand>>
    last_sent_at,   \* Option<f64>; Never for None
    asked,          \* history: the latest batch handed to process()
    emitted         \* history: what came out, with the time

vars == <<now, last_commands, last_sent_at, asked, emitted>>

Never == -1

Init ==
    /\ now = 0
    /\ last_commands = NoCommands
    /\ last_sent_at = Never
    /\ asked = NoCommands
    /\ emitted = <<>>

Tick ==
    /\ now < MaxTime
    /\ now' = now + 1
    /\ UNCHANGED <<last_commands, last_sent_at, asked, emitted>>

\* Faulty variants of cooldown_elapsed, is_dup and Record.
Mut_cooldown_early == last_sent_at # Never /\ now - last_sent_at + 1 >= Cooldown
Mut_dup_of_any(c) == \E i \in DOMAIN emitted : emitted[i].commands = c
Mut_record_time_only(c) == last_sent_at' = now /\ UNCHANGED last_commands

cooldown_elapsed == last_sent_at # Never /\ now - last_sent_at >= Cooldown

is_dup(c) == last_commands = c

Record(c) == last_commands' = c /\ last_sent_at' = now

\* process() returns Some.
Pass(c) ==
    /\ Len(emitted) < MaxEmitted
    /\ ~(is_dup(c) /\ ~cooldown_elapsed)
    /\ Record(c)
    /\ emitted' = Append(emitted, [commands |-> c, at |-> now])
    /\ asked' = c
    /\ UNCHANGED now

\* process() returns None.
Suppress(c) ==
    /\ is_dup(c) /\ ~cooldown_elapsed
    /\ asked' = c
    /\ UNCHANGED <<now, last_commands, last_sent_at, emitted>>

Next == Tick \/ \E c \in Commands : Pass(c) \/ Suppress(c)

Spec == Init /\ [][Next]_vars

-----------------------------------------------------------------------------
Emission == [commands : Commands, at : Nat]

TypeOK ==
    /\ now \in Nat
    /\ last_commands \in Commands \cup {NoCommands}
    /\ last_sent_at \in Nat \cup {Never}
    /\ asked \in Commands \cup {NoCommands}
    /\ emitted \in Seq(Emission)

(***************************************************************************)
(* "Suppresses the same directive being emitted back to back": of any two  *)
(* consecutive emissions that are equal, the second comes at least a       *)
(* cooldown after the first.                                               *)
(***************************************************************************)
RepeatsSpaced ==
    \A i \in 1..(Len(emitted) - 1) :
        emitted[i].commands = emitted[i + 1].commands
            => emitted[i + 1].at - emitted[i].at >= Cooldown

(***************************************************************************)
(* Suppression never hides a change of mind: whatever was suppressed       *)
(* before, the last emission carries the batch the policy asked for last   *)
(* (asking for A, B and A again within the cooldown emits all three).      *)
(***************************************************************************)
LastAskedWins ==
    asked # NoCommands
        => emitted # <<>> /\ emitted[Len(emitted)].commands = asked

(***************************************************************************)
(* The deduplicator with timestamps implements the one that counts the     *)
(* time since the last emission up to the cooldown.                        *)
(***************************************************************************)
Elapsed == now - (IF last_sent_at = Never THEN 0 ELSE last_sent_at)

Abstract == INSTANCE Dedup WITH age <- IF Elapsed < Cooldown THEN Elapsed ELSE Cooldown

ImplementsDedup == Abstract!Spec

=============================================================================
