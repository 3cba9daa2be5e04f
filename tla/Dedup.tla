------------------------------- MODULE Dedup -------------------------------
(***************************************************************************)
(* What DirectiveDeduplicator promises, without a clock: `age' is the time *)
(* since the last emission, counted only up to the cooldown because the    *)
(* code asks nothing else of it.  The state space is finite, so the main   *)
(* loop (Manager) is composed with this module; Deduplicator, which keeps  *)
(* the code's timestamps, is shown to implement it.                        *)
(***************************************************************************)
EXTENDS Integers

CONSTANTS
    Commands,     \* the command batches a policy may ask for
    NoCommands,   \* last_commands = None
    Cooldown      \* cooldown_secs

VARIABLES
    last_commands,  \* the batch last emitted
    age             \* seconds since then, at most Cooldown

vars == <<last_commands, age>>

Init ==
    /\ last_commands = NoCommands
    /\ age = 0

\* A faulty variant of Suppressed.
Mut_suppress_any(c) == age < Cooldown

Suppressed(c) == last_commands = c /\ age < Cooldown

\* process() lets the directive through and records it ...
Pass(c) ==
    /\ ~Suppressed(c)
    /\ last_commands' = c
    /\ age' = 0

\* ... or withholds it.
Suppress(c) ==
    /\ Suppressed(c)
    /\ UNCHANGED vars

Tick ==
    /\ age' = IF age < Cooldown THEN age + 1 ELSE age
    /\ UNCHANGED last_commands

Next == Tick \/ \E c \in Commands : Pass(c) \/ Suppress(c)

Spec == Init /\ [][Next]_vars

=============================================================================
