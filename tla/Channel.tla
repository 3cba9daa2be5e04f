------------------------------ MODULE Channel ------------------------------
(***************************************************************************)
(* The bidirectional engine channel (channel/unix_socket.rs, and the same  *)
(* code over TCP in channel/tcp.rs): a listener, at most one current       *)
(* connection whose writer the main thread holds, and per connection a     *)
(* detached reader thread that parses frames into a bounded inbox.         *)
(*                                                                         *)
(* The actors are the main thread, the reader threads and the engine       *)
(* process, which connects, sends frames, reads directives, and may exit   *)
(* and come back.  Connections are numbered in the order they are opened.  *)
(***************************************************************************)
EXTENDS Integers, Sequences, FiniteSets

CONSTANTS
    Transports,   \* the transports --transport may name: "unix", "tcp"
    OsFaults,     \* whether accept() and try_clone() may fail
    Directives,   \* what the main loop may emit
    MaxConns,     \* bound: connections the engine opens
    MaxFrames,    \* bound: well-formed frames the engine sends, over all connections
    MaxPending,   \* directives the socket buffers before a write blocks
    InboxCap      \* capacity of the inbox (64 in the code)

ASSUME ChannelAssumption ==
    /\ Transports \subseteq {"unix", "tcp"}
    /\ OsFaults \in BOOLEAN
    /\ MaxConns \in Nat /\ MaxFrames \in Nat /\ MaxPending \in Nat /\ InboxCap \in Nat

Conns == 1..MaxConns
NoConn == 0

VARIABLES
    transport,  \* the transport --transport named
    phase,      \* create_transport: "waiting" for a client, "running" or "bailed"
    state,      \* ConnectionState: "Listening", "Connected" or "Disconnected"
    conn,       \* the connection a Connected state holds, else NoConn
    inbox,      \* its receiver: messages parsed and not yet taken by try_recv
    backlog,    \* the listener's accept queue
    reader,     \* reader thread per connection: "none", "running" or "exited"
    peer,       \* the engine's end per connection: "unused", "open" or "closed"
    toManager,  \* per connection: frames the engine sent and no one has read
    toEngine,   \* per connection: directives written and not read by the engine
    garbled,    \* connections on which the engine sent a frame that does not parse
    frames,     \* history: number of well-formed frames sent, per connection
    taken       \* history: messages try_recv has returned, per connection

mainVars == <<transport, phase, state, conn, inbox>>
histVars == <<garbled, frames, taken>>
chanVars == <<transport, phase, state, conn, inbox, backlog, reader, peer, toManager, toEngine,
              garbled, frames, taken>>

\* A frame names its connection and its number on it; number 0 does not parse (it is
\* not an EngineMessage, or longer than MAX_PAYLOAD_SIZE).
Frame == Conns \X (0..MaxFrames)
Parses(f) == f[2] # 0

ChanInit ==
    /\ transport \in Transports
    /\ phase = "waiting"
    /\ state = "Listening"
    /\ conn = NoConn
    /\ inbox = <<>>
    /\ backlog = <<>>
    /\ reader = [c \in Conns |-> "none"]
    /\ peer = [c \in Conns |-> "unused"]
    /\ toManager = [c \in Conns |-> <<>>]
    /\ toEngine = [c \in Conns |-> <<>>]
    /\ garbled = {}
    /\ frames = [c \in Conns |-> 0]
    /\ taken = [c \in Conns |-> <<>>]

\* The manager holds a descriptor of c: queued, the writer, or the reader's clone.
ManagerHolds(c) ==
    \/ \E i \in DOMAIN backlog : backlog[i] = c
    \/ conn = c
    \/ reader[c] = "running"

-----------------------------------------------------------------------------
(* The engine process and the kernel: external to the repository.          *)

EngineConnect(c) ==
    /\ phase # "bailed"
    /\ peer[c] = "unused"
    /\ \A d \in Conns : peer[d] # "open" /\ (d < c => peer[d] # "unused")
    /\ peer' = [peer EXCEPT ![c] = "open"]
    /\ backlog' = Append(backlog, c)
    /\ UNCHANGED <<mainVars, reader, toManager, toEngine, histVars>>

\* The well-formed frames sent so far.
Sent == {f \in Frame : Parses(f) /\ f[2] <= frames[f[1]]}

\* A heartbeat or a response.
EngineSend(c) ==
    /\ peer[c] = "open" /\ ManagerHolds(c)
    /\ c \notin garbled /\ Cardinality(Sent) < MaxFrames
    /\ frames' = [frames EXCEPT ![c] = @ + 1]
    /\ toManager' = [toManager EXCEPT ![c] = Append(@, <<c, frames[c] + 1>>)]
    /\ UNCHANGED <<mainVars, backlog, reader, peer, toEngine, garbled, taken>>

\* A frame the reader cannot parse.  The reader exits there and whatever is sent after it is thrown
\* away with the connection: what an engine sends behind such a frame is left out.
EngineSendGarbled(c) ==
    /\ peer[c] = "open" /\ ManagerHolds(c)
    /\ c \notin garbled
    /\ garbled' = garbled \cup {c}
    /\ toManager' = [toManager EXCEPT ![c] = Append(@, <<c, 0>>)]
    /\ UNCHANGED <<mainVars, backlog, reader, peer, toEngine, frames, taken>>

EngineRead(c) ==
    /\ peer[c] = "open" /\ toEngine[c] # <<>>
    /\ toEngine' = [toEngine EXCEPT ![c] = Tail(@)]
    /\ UNCHANGED <<mainVars, backlog, reader, peer, toManager, histVars>>

\* The engine exits or gives the connection up.  What it has not read is lost; over TCP
\* the reset may also discard frames that have not been read by the manager.
EngineClose(c) ==
    /\ peer[c] = "open"
    /\ peer' = [peer EXCEPT ![c] = "closed"]
    /\ toEngine' = [toEngine EXCEPT ![c] = <<>>]
    /\ \/ UNCHANGED toManager
       \/ transport = "tcp" /\ toManager' = [toManager EXCEPT ![c] = <<>>]
    /\ UNCHANGED <<mainVars, backlog, reader, histVars>>

-----------------------------------------------------------------------------
(* The reader threads (spawn_reader, read_engine_message).                 *)

\* A faulty variant of StreamEnded.
Mut_eof_ignored(c) == FALSE

InboxHasRoom == Len(inbox) < InboxCap

StreamEnded(c) == toManager[c] = <<>> /\ peer[c] = "closed"

ReaderExits(c) == reader' = [reader EXCEPT ![c] = "exited"]

\* A frame is parsed and sent to the inbox; a full inbox blocks the thread.
ReaderDelivers(c) ==
    /\ reader[c] = "running" /\ toManager[c] # <<>>
    /\ Parses(Head(toManager[c]))
    /\ conn = c /\ InboxHasRoom
    /\ inbox' = Append(inbox, Head(toManager[c]))
    /\ toManager' = [toManager EXCEPT ![c] = Tail(@)]
    /\ UNCHANGED <<transport, phase, state, conn, backlog, reader, peer, toEngine, histVars>>

\* The receiver was dropped, the frame does not parse, or the stream has ended.
ReaderStops(c) ==
    /\ reader[c] = "running"
    /\ \/ toManager[c] # <<>> /\ (conn # c \/ ~Parses(Head(toManager[c])))
       \/ StreamEnded(c)
    /\ ReaderExits(c)
    /\ toManager' = [toManager EXCEPT ![c] = <<>>]
    /\ UNCHANGED <<mainVars, backlog, peer, toEngine, histVars>>

Reader(c) == ReaderDelivers(c) \/ ReaderStops(c)

-----------------------------------------------------------------------------
(* The main thread.                                                        *)

\* A faulty variant of FreshInbox.
Mut_keep_inbox == UNCHANGED inbox

\* The inbox is made with the Connected state and its receiver goes away with it.
FreshInbox == inbox' = <<>>

\* transition_to_connected for the head of the backlog: a fresh inbox and reader, or
\* Disconnected when the stream cannot be cloned (the stream is dropped).
TransitionToConnected(ok) ==
    LET c == Head(backlog)
    IN  /\ backlog # <<>>
        /\ backlog' = Tail(backlog)
        /\ FreshInbox
        /\ IF ok
           THEN /\ state' = "Connected"
                /\ conn' = c
                /\ reader' = [reader EXCEPT ![c] = "running"]
           ELSE /\ OsFaults
                /\ state' = "Disconnected"
                /\ conn' = NoConn
                /\ UNCHANGED reader

\* wait_for_client accepts.
WaitAccept(ok) ==
    /\ phase = "waiting"
    /\ TransitionToConnected(ok)
    /\ phase' = "running"
    /\ UNCHANGED <<transport, peer, toManager, toEngine, histVars>>

\* wait_for_client times out, or accept() fails: over a unix socket the manager starts
\* all the same, over TCP it exits.
WaitTimeout ==
    /\ phase = "waiting"
    /\ backlog = <<>> \/ OsFaults
    /\ phase' = IF transport = "unix" THEN "running" ELSE "bailed"
    /\ UNCHANGED <<transport, state, conn, inbox, backlog, reader, peer, toManager, toEngine,
                   histVars>>

\* Faulty variants of CanReconnect and InboxDisconnected.
Mut_accept_only_listening == state = "Listening" /\ backlog # <<>>
Mut_lost_when_reader_exited == reader[conn] = "exited"

\* ensure_connected: only a Disconnected channel accepts.
CanReconnect == state = "Disconnected" /\ backlog # <<>>

Disconnect ==
    /\ state' = "Disconnected"
    /\ conn' = NoConn
    /\ FreshInbox

\* write_all succeeds: into the socket buffer, or over TCP into a connection the engine
\* has just closed.  It blocks while the buffer is full and fails once the peer is gone.
WriteOk(c, d) ==
    \/ /\ peer[c] = "open" /\ Len(toEngine[c]) < MaxPending
       /\ toEngine' = [toEngine EXCEPT ![c] = Append(@, d)]
    \/ /\ peer[c] = "closed" /\ transport = "tcp"
       /\ UNCHANGED toEngine

WriteFails(c) ==
    /\ peer[c] = "closed"
    /\ UNCHANGED toEngine

EmitOnCurrent(d) ==
    /\ state = "Connected"
    /\ \/ WriteOk(conn, d) /\ UNCHANGED <<state, conn, inbox>>
       \/ WriteFails(conn) /\ Disconnect
    /\ UNCHANGED <<backlog, reader>>

EmitOnReconnect(d) ==
    /\ CanReconnect
    /\ LET c == Head(backlog)
       IN  \/ WriteOk(c, d) /\ TransitionToConnected(TRUE)
           \/ /\ WriteFails(c) /\ Disconnect
              /\ backlog' = Tail(backlog)
              /\ reader' = [reader EXCEPT ![c] = "running"]
           \/ TransitionToConnected(FALSE) /\ UNCHANGED toEngine

\* No engine connected: the directive is dropped with a warning.
EmitDropped ==
    /\ state # "Connected"
    /\ ~CanReconnect \/ OsFaults
    /\ UNCHANGED <<state, conn, inbox, backlog, reader, toEngine>>

\* emit_directive; every outcome is Ok(()).
EmitDirective(d) ==
    /\ EmitOnCurrent(d) \/ EmitOnReconnect(d) \/ EmitDropped
    /\ UNCHANGED <<transport, phase, peer, toManager, histVars>>

\* try_recv returns a message ...
TryRecvMessage ==
    /\ state = "Connected" /\ inbox # <<>>
    /\ inbox' = Tail(inbox)
    /\ taken' = [taken EXCEPT ![conn] = Append(@, Head(inbox))]
    /\ UNCHANGED <<transport, phase, state, conn, backlog, reader, peer, toManager, toEngine,
                   garbled, frames>>

\* ... or finds the inbox empty and its sender gone ...
InboxDisconnected == inbox = <<>> /\ reader[conn] = "exited"

TryRecvLost ==
    /\ state = "Connected"
    /\ InboxDisconnected
    /\ Disconnect
    /\ UNCHANGED <<transport, phase, backlog, reader, peer, toManager, toEngine, histVars>>

\* ... or nothing: no connection, or an empty inbox whose reader is alive.
TryRecvNone ==
    /\ state = "Connected" => inbox = <<>> /\ ~InboxDisconnected
    /\ UNCHANGED chanVars

-----------------------------------------------------------------------------
Engine ==
    \E c \in Conns : \/ EngineConnect(c) \/ EngineSend(c) \/ EngineSendGarbled(c)
                     \/ EngineRead(c) \/ EngineClose(c)

Wait == WaitTimeout \/ \E ok \in BOOLEAN : WaitAccept(ok)

Emit == phase = "running" /\ \E d \in Directives : EmitDirective(d)

Receive == phase = "running" /\ (TryRecvMessage \/ TryRecvLost)

ChanNext == Engine \/ (\E c \in Conns : Reader(c)) \/ Wait \/ Emit \/ Receive

\* The main loop calls try_recv on every pass and the reader threads are scheduled.
ChanFairness ==
    /\ WF_chanVars(Wait)
    /\ WF_chanVars(Receive)
    /\ \A c \in Conns : WF_chanVars(Reader(c))

ChanSpec == ChanInit /\ [][ChanNext]_chanVars /\ ChanFairness

-----------------------------------------------------------------------------
ChanTypeOK ==
    /\ transport \in Transports
    /\ phase \in {"waiting", "running", "bailed"}
    /\ state \in {"Listening", "Connected", "Disconnected"}
    /\ conn \in Conns \cup {NoConn}
    /\ inbox \in Seq(Frame) /\ Len(inbox) <= InboxCap
    /\ backlog \in Seq(Conns)
    /\ reader \in [Conns -> {"none", "running", "exited"}]
    /\ peer \in [Conns -> {"unused", "open", "closed"}]
    /\ toManager \in [Conns -> Seq(Frame)]
    /\ toEngine \in [Conns -> Seq(Directives)]
    /\ garbled \in SUBSET Conns
    /\ frames \in [Conns -> 0..MaxFrames]
    /\ taken \in [Conns -> Seq(Frame)]

(***************************************************************************)
(* What the policy receives on a connection is exactly what the engine     *)
(* sent on it, from the first frame on and in order: nothing is skipped,   *)
(* repeated, or left over from the connection before, although readers are *)
(* detached and never joined and the inbox holds InboxCap frames at most.  *)
(***************************************************************************)
FramesInOrder ==
    /\ ChanTypeOK
    /\ \A c \in Conns : /\ Len(taken[c]) <= frames[c]
                        /\ \A i \in DOMAIN taken[c] : taken[c][i] = <<c, i>>

(***************************************************************************)
(* The engine's last words are heard: when try_recv gives a unix           *)
(* connection up, every well-formed frame sent on it, ahead of one that    *)
(* does not parse, has been handed to the policy, even if the engine       *)
(* exited right after sending it.                                          *)
(***************************************************************************)
DrainedBeforeLost ==
    [][TryRecvLost /\ transport = "unix"
          => Len(taken[conn]) = frames[conn]]_chanVars

(***************************************************************************)
(* Detached reader threads do not pile up: a reader whose connection is no *)
(* longer the current one exits.                                           *)
(***************************************************************************)
ReadersExit ==
    \A c \in Conns : (reader[c] = "running" /\ conn # c) ~> (reader[c] = "exited")

\* The policy keeps deciding, and so the main loop keeps emitting.
DirectivesRecur == WF_chanVars(Emit)

\* An engine that stays, and whose connection the running manager has not closed,
\* becomes the current connection for good.
Served(c) ==
    <>[](peer[c] = "open" /\ ManagerHolds(c) /\ c \notin garbled /\ phase = "running")
        => <>[](conn = c)

(***************************************************************************)
(* Reconnection: while directives keep being emitted, an engine that stays *)
(* is served in the end, whatever connections died before it and whatever  *)
(* is still queued in front of it, once wait_for_client has accepted one   *)
(* client: a channel that has left Listening never returns to it, and one  *)
(* that is still Listening after the timeout never accepts again.          *)
(***************************************************************************)
EngineServed ==
    DirectivesRecur /\ <>(state # "Listening") => \A c \in Conns : Served(c)

=============================================================================
