-------------------------- MODULE ExternalMonitor --------------------------
(***************************************************************************)
(* ExternalMonitor (monitor/external.rs): a thread that forwards signals a *)
(* client writes, one JSON object per line, from stdin or from clients     *)
(* that connect one after the other.  Between lines it looks at the        *)
(* shutdown flag; inside a read it blocks.                                 *)
(***************************************************************************)
EXTENDS Integers, Sequences, FiniteSets

CONSTANTS
    MaxClients,   \* bound: clients that connect
    MaxLines      \* bound: lines one client writes

ASSUME ExternalAssumption == MaxClients \in Nat \ {0} /\ MaxLines \in Nat

Clients == 1..MaxClients

\* A line is a SystemSignal, or not (blank, or a parse error), or not even text (the read
\* fails); it is told apart by the client and its number.
LineKinds == {"signal", "malformed", "unreadable"}
Line == [client : Clients, n : 1..MaxLines, kind : LineKinds]

VARIABLES
    shutdown,    \* the flag main() sets
    transport,   \* "stdin" or "socket" (unix or TCP: the same loop)
    at,          \* the thread: "accepting", "reading" or "returned"
    client,      \* whom it reads from
    pending,     \* clients waiting to be accepted
    peer,        \* per client: "unused", "open" or "closed"
    wire,        \* per client: lines written and not read
    written,     \* history: the lines written
    forwarded    \* history: the lines sent on, in order

extVars == <<shutdown, transport, at, client, pending, peer, wire, written, forwarded>>
clientVars == <<pending, peer, wire, written>>

\* stdin is read from the start, as client 1.
ExtInit ==
    /\ shutdown = FALSE
    /\ transport \in {"stdin", "socket"}
    /\ at = IF transport = "stdin" THEN "reading" ELSE "accepting"
    /\ client = 1
    /\ pending = <<>>
    /\ peer = [c \in Clients |-> IF transport = "stdin" /\ c = 1 THEN "open" ELSE "unused"]
    /\ wire = [c \in Clients |-> <<>>]
    /\ written = {}
    /\ forwarded = <<>>

-----------------------------------------------------------------------------
(* The clients: external to the repository.                                *)

ClientConnect(c) ==
    /\ transport = "socket" /\ at # "returned"
    /\ peer[c] = "unused" /\ \A d \in Clients : d < c => peer[d] # "unused"
    /\ peer' = [peer EXCEPT ![c] = "open"]
    /\ pending' = Append(pending, c)
    /\ UNCHANGED <<shutdown, transport, at, client, wire, written, forwarded>>

ClientWrite(c, k) ==
    LET n    == 1 + Cardinality({l \in written : l.client = c})
        line == [client |-> c, n |-> n, kind |-> k]
    IN  /\ peer[c] = "open" /\ n <= MaxLines
        /\ wire' = [wire EXCEPT ![c] = Append(@, line)]
        /\ written' = written \cup {line}
        /\ UNCHANGED <<shutdown, transport, at, client, pending, peer, forwarded>>

ClientClose(c) ==
    /\ peer[c] = "open"
    /\ peer' = [peer EXCEPT ![c] = "closed"]
    /\ UNCHANGED <<shutdown, transport, at, client, pending, wire, written, forwarded>>

-----------------------------------------------------------------------------
(* The thread.                                                             *)

\* The end of run_with_reader: back to accept(), or the end of the thread.
LeaveReader == at' = IF transport = "stdin" THEN "returned" ELSE "accepting"

StopAccepting ==
    /\ at = "accepting" /\ shutdown
    /\ at' = "returned"
    /\ UNCHANGED <<shutdown, transport, client, clientVars, forwarded>>

Accept ==
    /\ at = "accepting" /\ ~shutdown /\ pending # <<>>
    /\ at' = "reading"
    /\ client' = Head(pending)
    /\ pending' = Tail(pending)
    /\ UNCHANGED <<shutdown, transport, peer, wire, written, forwarded>>

\* accept() fails with anything but WouldBlock.
AcceptError ==
    /\ at = "accepting" /\ ~shutdown
    /\ at' = "returned"
    /\ UNCHANGED <<shutdown, transport, client, clientVars, forwarded>>

\* A faulty variant of SkipLine.
Mut_parse_error_ends == LeaveReader /\ UNCHANGED forwarded

\* A blank line or a parse error is skipped.
SkipLine == UNCHANGED <<at, forwarded>>

\* The loop over reader.lines(): the flag is looked at after a line has been read.
ReadLine ==
    LET line == Head(wire[client])
    IN  /\ at = "reading" /\ wire[client] # <<>>
        /\ wire' = [wire EXCEPT ![client] = Tail(@)]
        /\ IF shutdown \/ line.kind = "unreadable" THEN LeaveReader /\ UNCHANGED forwarded
           ELSE IF line.kind = "malformed" THEN SkipLine
           ELSE forwarded' = Append(forwarded, line) /\ UNCHANGED at
        /\ UNCHANGED <<shutdown, transport, client, pending, peer, written>>

ReadEof ==
    /\ at = "reading" /\ wire[client] = <<>> /\ peer[client] = "closed"
    /\ LeaveReader
    /\ UNCHANGED <<shutdown, transport, client, clientVars, forwarded>>

ExternalThread == StopAccepting \/ Accept \/ AcceptError \/ ReadLine \/ ReadEof

ClientActs ==
    \E c \in Clients : \/ ClientConnect(c) \/ ClientClose(c)
                       \/ \E k \in LineKinds : ClientWrite(c, k)

-----------------------------------------------------------------------------
ExtTypeOK ==
    /\ shutdown \in BOOLEAN
    /\ transport \in {"stdin", "socket"}
    /\ at \in {"accepting", "reading", "returned"}
    /\ client \in Clients
    /\ pending \in Seq(Clients)
    /\ peer \in [Clients -> {"unused", "open", "closed"}]
    /\ wire \in [Clients -> Seq(Line)]
    /\ written \in SUBSET Line
    /\ forwarded \in Seq(Line)

\* The thread is inside a read that only the client can end.
Blocked == at = "reading" /\ wire[client] = <<>> /\ peer[client] = "open"

\* The thread reads from client c or will.
ToBeRead(c) == (at = "reading" /\ client = c) \/ \E i \in DOMAIN pending : pending[i] = c

(***************************************************************************)
(* What is injected arrives: the signals are forwarded in the order they   *)
(* were written, and one that has been written is forwarded or still will  *)
(* be read; only a shutdown, an unreadable line before it from the same    *)
(* client, or the end of the listener loses one.  Blank and malformed      *)
(* lines around it, or another client's end, never do.                     *)
(***************************************************************************)
SignalsForwarded ==
    /\ \A i, j \in DOMAIN forwarded :
          i < j => \/ forwarded[i].client < forwarded[j].client
                   \/ forwarded[i].client = forwarded[j].client /\ forwarded[i].n < forwarded[j].n
    /\ \A l \in written :
          \/ l.kind # "signal" \/ shutdown
          \/ \E i \in DOMAIN forwarded : forwarded[i] = l
          \/ ToBeRead(l.client) /\ \E i \in DOMAIN wire[l.client] : wire[l.client][i] = l
          \/ \E m \in written : m.client = l.client /\ m.kind = "unreadable" /\ m.n < l.n
          \/ transport = "socket" /\ at = "returned"

=============================================================================
