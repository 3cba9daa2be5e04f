----------------------------- MODULE MockPeers ------------------------------
(***************************************************************************)
(* The two test peers speaking the engine protocol with each other: the    *)
(* mock manager (bin/mock_manager.rs, socket mode) plays a script of       *)
(* commands to the mock engine (bin/mock_engine.rs) and checks what it     *)
(* answers.                                                                *)
(*                                                                         *)
(* A message is two writes, its length and its payload, and two reads with *)
(* a timeout each; a stream is the sequence of pieces written and not yet  *)
(* read.  Timeouts, deadlines, heartbeats and the end of the engine's run  *)
(* may come at any time.  Occupancies and budgets are in percent.          *)
(***************************************************************************)
EXTENDS Integers, Sequences, FiniteSets

CONSTANTS
    Scripts,        \* what the manager is told to play: [mode, entries]
    Occupancies,    \* --kv-occupancy
    MaxHeartbeats   \* bound on the heartbeats the engine sends

\* An entry of a script: a command, the parameters given with it (Some), the keep_ratio among
\* them, and whether the manager waits before it.
Commands == [name : STRING, given : SUBSET {"keep_ratio", "every", "on"}, keep_ratio : Nat, delay : BOOLEAN]

ASSUME MockPeersAssumption ==
    /\ MaxHeartbeats \in Nat /\ Occupancies \subseteq 1..100
    /\ \A s \in Scripts : s.mode \in {"scenario", "single", "none"} /\ s.entries \in Seq(Commands)

VARIABLES
    script,
    mgr,        \* pc, part of the message being read, index of the command, seq_id
    eng,        \* pc, part, message being sent, kv_occupancy, state, heartbeats sent
    to_engine, to_manager,
    replies,    \* history: the responses the manager took as an answer, with the seq_id expected
    timed_out,  \* history: the seq_ids whose wait timed out
    swallowed,  \* history: the manager went on after a read error
    did         \* history: what the engine did, per directive

peerVars == <<script, mgr, eng, to_engine, to_manager, replies, timed_out, swallowed, did>>

Piece(part, m) == [part |-> part, msg |-> m]
NoMessage == [type |-> "none"]
HeartbeatMsg == [type |-> "Heartbeat"]
Response(seq, results) == [type |-> "Response", seq_id |-> seq, results |-> results]
DirectiveMsg(seq, commands) == [type |-> "Directive", seq_id |-> seq, commands |-> commands]

PeersInit ==
    /\ script \in Scripts
    /\ mgr = [pc |-> "start", part |-> "length", i |-> 0, seq_id |-> 0]
    /\ \E kv \in Occupancies :
          eng = [pc |-> "start", part |-> "length", out |-> NoMessage, kv |-> kv, state |-> "Running", beats |-> 0]
    /\ to_engine = <<>> /\ to_manager = <<>>
    /\ replies = <<>> /\ timed_out = {} /\ swallowed = FALSE /\ did = <<>>

EngineGone == eng.pc = "exit"
ManagerGone == mgr.pc \in {"done", "failed"}

-----------------------------------------------------------------------------
(* The engine.                                                             *)

MIN_COMPRESSION == 3

clamp(x, lo, hi) == IF x < lo THEN lo ELSE IF x > hi THEN hi ELSE x

\* EngineState_::apply: the engine after a command and its result; a compression that would
\* reclaim too little is declined.
apply(e, cmd) ==
    LET target == clamp((e.kv * cmd.keep_ratio) \div 100, 1, 100)
    IN  CASE cmd.name = "KvCompress" /\ e.kv - target < MIN_COMPRESSION -> [eng |-> e, result |-> "Partial"]
          [] cmd.name = "KvCompress" /\ e.kv - target >= MIN_COMPRESSION ->
                [eng |-> [e EXCEPT !.kv = target], result |-> "Ok"]
          [] cmd.name \in {"RestoreDefaults", "Resume"} -> [eng |-> [e EXCEPT !.state = "Running"], result |-> "Ok"]
          [] cmd.name = "Suspend" -> [eng |-> [e EXCEPT !.state = "Suspended"], result |-> "Ok"]
          [] OTHER -> [eng |-> e, result |-> "Ok"]

\* handle_directive: the commands in order, each on what the one before it left.
handle_directive(e, d) ==
    LET n == Len(d.commands)
        after[k \in 0..n] == IF k = 0 THEN e ELSE apply(after[k - 1], d.commands[k]).eng
    IN  [eng |-> after[n], results |-> [k \in 1..n |-> apply(after[k - 1], d.commands[k]).result]]

EngineOnly == UNCHANGED <<script, mgr, replies, timed_out, swallowed>>
EngineExit == eng' = [eng EXCEPT !.pc = "exit"]

\* Connecting where nobody listens ends the engine; otherwise the manager accepts.
Connect ==
    /\ eng.pc = "start"
    /\ IF mgr.pc = "listen"
       THEN mgr' = [mgr EXCEPT !.pc = "wait"] /\ eng' = [eng EXCEPT !.pc = "loop"]
       ELSE EngineExit /\ UNCHANGED mgr
    /\ UNCHANGED <<script, to_engine, to_manager, replies, timed_out, swallowed, did>>

\* The heartbeat interval has elapsed.
BeatDue ==
    /\ eng.pc = "loop" /\ eng.beats < MaxHeartbeats
    /\ eng' = [eng EXCEPT !.pc = "send", !.out = HeartbeatMsg, !.beats = @ + 1]
    /\ EngineOnly /\ UNCHANGED <<to_engine, to_manager, did>>

\* No heartbeat due, or just sent: one attempt to read a directive.
Poll ==
    /\ eng.pc = "loop"
    /\ eng' = [eng EXCEPT !.pc = "recv", !.part = "length"]
    /\ EngineOnly /\ UNCHANGED <<to_engine, to_manager, did>>

\* --duration-secs are over, looked at between messages.
TimeUp ==
    /\ eng.pc = "loop" /\ EngineExit
    /\ EngineOnly /\ UNCHANGED <<to_engine, to_manager, did>>

\* The process is killed, wherever it is.
Kill ==
    /\ eng.pc \in {"loop", "send", "send_payload", "recv"} /\ EngineExit
    /\ EngineOnly /\ UNCHANGED <<to_engine, to_manager, did>>

\* send_message: the length, then the payload.  After a heartbeat an error ends the loop,
\* after a response it is only printed.
EngineSend ==
    /\ eng.pc \in {"send", "send_payload"}
    /\ LET after == IF eng.out = HeartbeatMsg THEN "recv" ELSE "loop"
       IN  IF ManagerGone
           THEN /\ eng' = [eng EXCEPT !.pc = IF eng.out = HeartbeatMsg THEN "exit" ELSE after, !.out = NoMessage]
                /\ UNCHANGED to_manager
           ELSE IF eng.pc = "send"
           THEN /\ to_manager' = Append(to_manager, Piece("length", eng.out))
                /\ eng' = [eng EXCEPT !.pc = "send_payload"]
           ELSE /\ to_manager' = Append(to_manager, Piece("payload", eng.out))
                /\ eng' = [eng EXCEPT !.pc = after, !.part = "length", !.out = NoMessage]
    /\ EngineOnly /\ UNCHANGED <<to_engine, did>>

\* The part of a message a piece is read as: a payload read for a length says that gigabytes
\* are to follow.
PartAfter(part, piece) ==
    IF part = "length" THEN IF piece.part = "length" THEN "payload" ELSE "garbage" ELSE part

\* recv_message with a piece to read.
EngineRead ==
    /\ eng.pc = "recv" /\ to_engine # <<>>
    /\ to_engine' = Tail(to_engine)
    /\ LET piece == Head(to_engine)
           h     == handle_directive(eng, piece.msg)
       IN  IF eng.part = "payload"
           THEN /\ eng' = [h.eng EXCEPT !.pc = "send", !.out = Response(piece.msg.seq_id, h.results)]
                /\ did' = Append(did, [seq_id |-> piece.msg.seq_id, results |-> h.results])
           ELSE eng' = [eng EXCEPT !.part = PartAfter(@, piece)] /\ UNCHANGED did
    /\ EngineOnly /\ UNCHANGED to_manager

\* A faulty variant of EngineTimeout.
Mut_payload_timeout_none ==
    /\ eng.pc = "recv" /\ to_engine = <<>>
    /\ IF ManagerGone THEN EngineExit ELSE eng' = [eng EXCEPT !.pc = "loop"]
    /\ EngineOnly /\ UNCHANGED <<to_engine, to_manager, did>>

\* ... and without: no message before a length, an error after it or once the manager is gone.
EngineTimeout ==
    /\ eng.pc = "recv" /\ to_engine = <<>>
    /\ IF ManagerGone \/ eng.part # "length" THEN EngineExit ELSE eng' = [eng EXCEPT !.pc = "loop"]
    /\ EngineOnly /\ UNCHANGED <<to_engine, to_manager, did>>

EngineStep == Connect \/ BeatDue \/ Poll \/ EngineSend \/ EngineRead \/ EngineTimeout

-----------------------------------------------------------------------------
(* The manager.                                                            *)

ManagerOnly == UNCHANGED <<script, eng, did>>
Goto(pc) == mgr' = [mgr EXCEPT !.pc = pc, !.part = "length"]

Listen ==
    /\ mgr.pc = "start" /\ Goto("listen")
    /\ ManagerOnly /\ UNCHANGED <<to_engine, to_manager, replies, timed_out, swallowed>>

\* CommandParams: of a scenario's entry only a keep_ratio is read.
CommandParams(entry) == IF script.mode = "scenario" THEN entry.given \cap {"keep_ratio"} ELSE entry.given

\* build_command: the parameter a command needs must be there, whatever its value.
build_command(entry) ==
    CASE entry.name = "KvCompress" -> "keep_ratio" \in CommandParams(entry)
      [] entry.name = "GpuYield" -> "every" \in CommandParams(entry)
      [] entry.name = "GpuOffload" -> "on" \in CommandParams(entry)
      [] OTHER -> entry.name \in {"RestoreDefaults", "Suspend", "Resume"}

\* A faulty variant of NextCommand.
Mut_last_skipped(m) ==
    IF script.mode = "none" THEN [m EXCEPT !.pc = "failed"]
    ELSE IF m.i + 1 >= Len(script.entries) THEN [m EXCEPT !.pc = "observe", !.part = "length"]
    ELSE [m EXCEPT !.i = @ + 1, !.part = "length", !.pc = IF script.entries[m.i + 1].delay THEN "drain" ELSE "build"]

\* The next command of the script: after its delay, or what follows the last.
NextCommand(m) ==
    IF script.mode = "none" THEN [m EXCEPT !.pc = "failed"]
    ELSE IF m.i = Len(script.entries) THEN [m EXCEPT !.pc = "observe", !.part = "length"]
    ELSE [m EXCEPT !.i = @ + 1, !.part = "length", !.pc = IF script.entries[m.i + 1].delay THEN "drain" ELSE "build"]

\* A directive is built; a command that cannot be ends the run.
Build ==
    /\ mgr.pc = "build"
    /\ mgr' = IF build_command(script.entries[mgr.i])
              THEN [mgr EXCEPT !.pc = "send", !.seq_id = @ + 1] ELSE [mgr EXCEPT !.pc = "failed"]
    /\ ManagerOnly /\ UNCHANGED <<to_engine, to_manager, replies, timed_out, swallowed>>

ManagerSend ==
    /\ mgr.pc \in {"send", "send_payload"}
    /\ LET d == DirectiveMsg(mgr.seq_id, <<script.entries[mgr.i]>>)
       IN  IF EngineGone THEN Goto("failed") /\ UNCHANGED to_engine
           ELSE IF mgr.pc = "send" THEN to_engine' = Append(to_engine, Piece("length", d)) /\ Goto("send_payload")
           ELSE to_engine' = Append(to_engine, Piece("payload", d)) /\ Goto("response")
    /\ ManagerOnly /\ UNCHANGED <<to_manager, replies, timed_out, swallowed>>

Reading == {"wait", "drain", "response", "observe"}

\* A faulty variant of validate_response.
Mut_validate_count(seq, resp, n) == Len(resp.results) = n

\* INV-023 and INV-024
validate_response(seq, resp, n) == resp.seq_id = seq /\ Len(resp.results) = n

\* recv_response_skip_heartbeats: only a response, and only while one is waited for; all else
\* is logged and dropped.
Wanted(m, pc) == m.type = "Response" /\ pc = "response"

\* recv_message with a piece to read, and what its caller does with the message.
ManagerRead ==
    /\ mgr.pc \in Reading /\ to_manager # <<>>
    /\ to_manager' = Tail(to_manager)
    /\ LET piece == Head(to_manager)
       IN  IF mgr.part = "payload" /\ Wanted(piece.msg, mgr.pc)
           THEN /\ replies' = Append(replies, [expected |-> mgr.seq_id, seq_id |-> piece.msg.seq_id,
                                               results |-> piece.msg.results,
                                               valid |-> validate_response(mgr.seq_id, piece.msg, 1)])
                /\ mgr' = NextCommand(mgr)
           ELSE /\ mgr' = [mgr EXCEPT !.part = IF @ = "payload" THEN "length" ELSE PartAfter(@, piece)]
                /\ UNCHANGED replies
    /\ ManagerOnly /\ UNCHANGED <<to_engine, timed_out, swallowed>>

\* Whether the caller gives up on a read error: the wait before a command of a scenario does
\* not look at it.
Fails(pc) == pc # "drain"

\* The stream is empty and the engine gone, or a read has begun that cannot be finished.
ManagerError ==
    /\ mgr.pc \in Reading /\ to_manager = <<>> /\ (EngineGone \/ mgr.part # "length")
    /\ IF Fails(mgr.pc) THEN Goto("failed") /\ UNCHANGED swallowed
       ELSE Goto(mgr.pc) /\ swallowed' = TRUE
    /\ ManagerOnly /\ UNCHANGED <<to_engine, to_manager, replies, timed_out>>

\* A faulty variant of Expires.
Mut_drain_unbounded(pc) == pc \in Reading \ {"drain"}

\* Whether a loop that reads looks at a deadline.
Expires(pc) == pc \in Reading

\* The deadline has passed, looked at between messages.
Deadline ==
    /\ mgr.part = "length" /\ Expires(mgr.pc)
    /\ mgr' = CASE mgr.pc \in {"wait", "response"} -> NextCommand(mgr)
                [] mgr.pc = "drain"   -> [mgr EXCEPT !.pc = "build"]
                [] mgr.pc = "observe" -> [mgr EXCEPT !.pc = "done"]
    /\ timed_out' = IF mgr.pc = "response" THEN timed_out \cup {mgr.seq_id} ELSE timed_out
    /\ ManagerOnly /\ UNCHANGED <<to_engine, to_manager, replies, swallowed>>

ManagerStep == Listen \/ Build \/ ManagerSend \/ ManagerRead \/ ManagerError

-----------------------------------------------------------------------------
PeersNext == EngineStep \/ TimeUp \/ Kill \/ ManagerStep \/ Deadline

\* Both processes keep running, deadlines pass and the engine's time is up one day, even if
\* heartbeats fall due again and again.
PeersSpec ==
    /\ PeersInit /\ [][PeersNext]_peerVars
    /\ WF_peerVars(EngineStep) /\ WF_peerVars(ManagerStep)
    /\ SF_peerVars(Deadline) /\ SF_peerVars(TimeUp)

-----------------------------------------------------------------------------
PeersTypeOK ==
    /\ mgr.pc \in {"start", "listen", "build", "send", "send_payload", "done", "failed"} \cup Reading
    /\ eng.pc \in {"start", "loop", "send", "send_payload", "recv", "exit"}
    /\ {mgr.part, eng.part} \subseteq {"length", "payload", "garbage"}
    /\ mgr.i \in 0..Len(script.entries) /\ mgr.seq_id \in 0..mgr.i
    /\ eng.kv \in 1..100 /\ eng.beats \in 0..MaxHeartbeats
    /\ timed_out \subseteq 1..mgr.seq_id

(***************************************************************************)
(* INV-023: when the manager reports a mismatch the engine is not at       *)
(* fault.  The response is a right one, taken for the answer to a later    *)
(* directive; the answers lag behind by no more than the waits that timed  *)
(* out before (a single one is enough for every later answer to be         *)
(* reported), and none is taken twice.  INV-024 is never reported.         *)
(***************************************************************************)
MismatchIsLate ==
    /\ \A i \in DOMAIN replies :
          LET r == replies[i]
          IN  /\ \E k \in DOMAIN did : did[k] = [seq_id |-> r.seq_id, results |-> r.results]
              /\ r.valid <=> r.seq_id = r.expected
              /\ r.expected - r.seq_id \in 0..Cardinality(timed_out \cap 1..(r.expected - 1))
    /\ \A i, j \in DOMAIN replies : i < j => replies[i].seq_id < replies[j].seq_id

\* Each directive once and in order, whole or not at all, however the two writes of a message
\* fall between the engine's reads.
ExecutedInOrder ==
    /\ \A i \in DOMAIN did : did[i].seq_id = i /\ Len(did[i].results) = 1
    /\ Len(did) <= mgr.seq_id

(***************************************************************************)
(* The peers stay in step: the engine executes each directive once and in  *)
(* order and gives up after half a message rather than take a payload for  *)
(* a length, and the manager can only get out of step after an error it    *)
(* did not look at while it waited before a command.                       *)
(***************************************************************************)
InStep ==
    /\ PeersTypeOK /\ ExecutedInOrder
    /\ eng.part # "garbage"
    /\ mgr.part = "garbage" => swallowed

(***************************************************************************)
(* A run that ends without a timeout proves what it is meant to: every     *)
(* command was executed and answered under its own seq_id, and nothing was *)
(* reported, even if the manager has swallowed a read error on the way.    *)
(***************************************************************************)
CleanRunConclusive ==
    mgr.pc = "done" /\ timed_out = {} =>
        /\ [i \in DOMAIN replies |-> replies[i].seq_id] = [i \in DOMAIN script.entries |-> i]
        /\ \A i \in DOMAIN replies : replies[i].valid
        /\ Len(did) = Len(script.entries)

(***************************************************************************)
(* Neither peer hangs on the other: the engine exits, and a manager that   *)
(* accepted a connection comes to an end even if the engine died between   *)
(* two writes or it reads what it takes for gigabytes.                     *)
(***************************************************************************)
PeersEnd == <>EngineGone /\ (mgr.pc \notin {"start", "listen"} ~> ManagerGone)

=============================================================================
