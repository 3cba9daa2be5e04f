-------------------------- MODULE MockPeersProofs --------------------------
(***************************************************************************)
(* The two mock peers, for every script, occupancy and number of           *)
(* heartbeats, under every timeout and death of the engine.                *)
(***************************************************************************)
EXTENDS MockPeers, SequenceTheorems, FiniteSetTheorems, TLAPS

Parts == {"length", "payload", "garbage"}
ManagerPcs == {"start", "listen", "build", "send", "send_payload", "done", "failed"} \cup Reading
EnginePcs == {"start", "loop", "send", "send_payload", "recv", "exit"}

Results == Seq({"Ok", "Partial"})
Responses == [type : {"Response"}, seq_id : Nat, results : Results]
Outputs == {HeartbeatMsg} \cup Responses
Directives == [type : {"Directive"}, seq_id : Nat, commands : Seq(Commands)]

Engines == [pc : EnginePcs, part : {"length", "payload"}, out : Outputs \cup {NoMessage},
            kv : 1..100, state : {"Running", "Suspended"}, beats : 0..MaxHeartbeats]
Managers == [pc : ManagerPcs, part : Parts, i : Nat, seq_id : Nat]

Typed ==
    /\ script \in Scripts
    /\ mgr \in Managers
    /\ eng \in Engines
    /\ to_engine \in Seq([part : {"length", "payload"}, msg : Directives])
    /\ to_manager \in Seq([part : {"length", "payload"}, msg : Outputs])
    /\ replies \in Seq([expected : Nat, seq_id : Nat, results : Results, valid : BOOLEAN])
    /\ did \in Seq([seq_id : Nat, results : Results])
    /\ timed_out \in SUBSET Nat
    /\ swallowed \in BOOLEAN

\* How far the manager is in its script.
Progress ==
    /\ mgr.i <= Len(script.entries) /\ mgr.seq_id <= mgr.i
    /\ mgr.pc \in {"start", "listen", "wait"} => mgr.i = 0
    /\ mgr.pc \in {"drain", "build"} => mgr.i = mgr.seq_id + 1
    /\ mgr.pc \in {"send", "send_payload", "response"} => mgr.i = mgr.seq_id /\ mgr.i > 0
    /\ mgr.pc \in {"observe", "done"} => mgr.i = mgr.seq_id /\ mgr.i = Len(script.entries)
    /\ mgr.pc \notin Reading => mgr.part = "length"
    /\ script.mode = "none" => mgr.pc \in {"start", "listen", "wait", "failed"}

-----------------------------------------------------------------------------
(* The directives on their way to the engine.                              *)

\* Pieces the engine has read, and pieces the manager has written.
Consumed == IF eng.pc = "recv" /\ eng.part = "payload" THEN 2 * Len(did) + 1 ELSE 2 * Len(did)

Written == IF mgr.pc = "send" THEN 2 * mgr.seq_id - 2
           ELSE IF mgr.pc = "send_payload" THEN 2 * mgr.seq_id - 1
           ELSE 2 * mgr.seq_id

Directive(k) == DirectiveMsg(k, <<script.entries[k]>>)

\* Piece p of the stream: directive k is the pieces 2k - 1 and 2k.
IsPiece(x, p) ==
    \E k \in 1..mgr.seq_id : \/ p = 2 * k - 1 /\ x = Piece("length", Directive(k))
                             \/ p = 2 * k /\ x = Piece("payload", Directive(k))

InSequence ==
    eng.pc # "exit" =>
        /\ Consumed + Len(to_engine) = Written
        /\ \A j \in 1..Len(to_engine) : IsPiece(to_engine[j], Consumed + j)

Executed ==
    /\ \A k \in 1..Len(did) : did[k].seq_id = k /\ Len(did[k].results) = 1
    /\ Len(did) <= mgr.seq_id

-----------------------------------------------------------------------------
(* The pieces on their way to the manager.                                 *)

\* Lengths and payloads alternate; the last is a length while its payload is being sent.
Alternating ==
    /\ \A j \in 1..Len(to_manager) : j + 1 \in 1..Len(to_manager)
                                        => to_manager[j].part # to_manager[j + 1].part
    /\ to_manager # <<>> /\ eng.pc # "exit"
          => (to_manager[Len(to_manager)].part = "length" <=> eng.pc = "send_payload")

\* A manager that reads a payload will get one.
Aligned ==
    mgr.part = "payload" => IF to_manager = <<>> THEN eng.pc \in {"send_payload", "exit"}
                                                 ELSE to_manager[1].part = "payload"

\* A manager that has swallowed no error reads lengths as lengths.
NotLost ==
    ~swallowed => /\ mgr.part # "garbage"
                  /\ mgr.part = "length" => IF to_manager = <<>> THEN eng.pc # "send_payload"
                                                                 ELSE to_manager[1].part = "length"

Framed == ~ManagerGone => Alternating /\ Aligned /\ NotLost

\* The engine answers what it has done last.
Answering ==
    eng.pc \in {"send", "send_payload"} =>
        /\ eng.out # NoMessage
        /\ eng.out.type = "Response" => /\ eng.out.seq_id = Len(did) /\ Len(did) > 0
                                        /\ eng.out.results = did[Len(did)].results

\* Place j of the stream holds the payload of a response.
Answer(j) == to_manager[j].part = "payload" /\ to_manager[j].msg.type = "Response"

\* The response on the way in place j answers something that was done and was not answered
\* yet; later ones answer later directives.
AnswersInOrder ==
    /\ \A j \in 1..Len(to_manager) : Answer(j) =>
          /\ to_manager[j].msg.seq_id \in 1..Len(did)
          /\ to_manager[j].msg.results = did[to_manager[j].msg.seq_id].results
          /\ \A m \in 1..Len(replies) : replies[m].seq_id < to_manager[j].msg.seq_id
          /\ \A k \in 1..Len(to_manager) :
                j < k /\ Answer(k) => to_manager[j].msg.seq_id < to_manager[k].msg.seq_id
    /\ eng.pc \in {"send", "send_payload"} /\ eng.out.type = "Response" =>
          /\ \A j \in 1..Len(to_manager) : Answer(j) => to_manager[j].msg.seq_id < eng.out.seq_id
          /\ \A m \in 1..Len(replies) : replies[m].seq_id < eng.out.seq_id

Answers == ~ManagerGone => AnswersInOrder

-----------------------------------------------------------------------------
(* What the manager makes of them.                                         *)

\* The directives whose wait is over.
Awaited == IF mgr.pc \in {"send", "send_payload", "response"} THEN mgr.seq_id - 1 ELSE mgr.seq_id

\* A wait ends with a response or a timeout.
Waits ==
    mgr.pc # "failed" => /\ timed_out \subseteq 1..Awaited
                         /\ Len(replies) + Cardinality(timed_out) = Awaited

\* Each response taken was right; the answers lag behind by the waits that timed out.
Taken ==
    \A m \in 1..Len(replies) :
        /\ replies[m].seq_id \in m..Len(did)
        /\ replies[m].results = did[replies[m].seq_id].results
        /\ replies[m].valid <=> replies[m].seq_id = replies[m].expected
        /\ replies[m].seq_id <= replies[m].expected /\ replies[m].expected <= mgr.seq_id
        /\ replies[m].expected = m + Cardinality(timed_out \cap 1..(replies[m].expected - 1))
        /\ \A k \in 1..Len(replies) : m < k => replies[m].seq_id < replies[k].seq_id

PeersIInv ==
    /\ Typed /\ Progress /\ timed_out \subseteq 1..mgr.seq_id
    /\ InSequence /\ Executed
    /\ Framed /\ Answering /\ Answers
    /\ Waits /\ Taken

-----------------------------------------------------------------------------
(* The engine's answer to a directive.                                     *)

\* The engine e has become, by commands alone.
Moved(e, f) ==
    /\ f \in Engines
    /\ f.pc = e.pc /\ f.part = e.part /\ f.out = e.out /\ f.beats = e.beats

\* A command changes the occupancy or the state, within their bounds.
LEMMA ApplyTyped ==
    ASSUME NEW e \in Engines, NEW cmd \in Commands
    PROVE  Moved(e, apply(e, cmd).eng) /\ apply(e, cmd).result \in {"Ok", "Partial"}
<1> DEFINE target == clamp((e.kv * cmd.keep_ratio) \div 100, 1, 100)
           a == apply(e, cmd)
<1>1. e.kv \in 1..100 /\ cmd.keep_ratio \in Nat
    BY DEF Engines, Commands
<1>2. target \in 1..100
    <2>1. e.kv * cmd.keep_ratio \in Int
        BY <1>1
    <2>2. (e.kv * cmd.keep_ratio) \div 100 \in Int
        BY <2>1
    <2> QED
        BY <2>2 DEF clamp
<1> HIDE DEF target
<1>3. e.kv - target < MIN_COMPRESSION \/ e.kv - target >= MIN_COMPRESSION
    BY <1>1, <1>2 DEF MIN_COMPRESSION
<1>4. \/ a = [eng |-> e, result |-> "Partial"]
      \/ a = [eng |-> e, result |-> "Ok"]
      \/ a = [eng |-> [e EXCEPT !.kv = target], result |-> "Ok"]
      \/ a = [eng |-> [e EXCEPT !.state = "Running"], result |-> "Ok"]
      \/ a = [eng |-> [e EXCEPT !.state = "Suspended"], result |-> "Ok"]
    BY <1>3 DEF apply, target
<1> HIDE DEF a
<1>5. /\ Moved(e, e)
      /\ Moved(e, [e EXCEPT !.kv = target])
      /\ Moved(e, [e EXCEPT !.state = "Running"])
      /\ Moved(e, [e EXCEPT !.state = "Suspended"])
    BY <1>2 DEF Moved, Engines
<1>6. Moved(e, a.eng) /\ a.result \in {"Ok", "Partial"}
    BY <1>4, <1>5
<1> QED
    BY <1>6 DEF a

\* The mock manager's directives carry one command: one result.
LEMMA HandleOne ==
    ASSUME NEW e \in Engines, NEW d \in Directives, NEW cmd \in Commands, d.commands = <<cmd>>
    PROVE  /\ Moved(e, handle_directive(e, d).eng)
           /\ handle_directive(e, d).results \in Results
           /\ Len(handle_directive(e, d).results) = 1
<1> DEFINE F(g) == [k \in 0..1 |-> IF k = 0 THEN e ELSE apply(g[k - 1], d.commands[k]).eng]
           after == CHOOSE g : g = F(g)
           first == [k \in 0..1 |-> IF k = 0 THEN e ELSE apply(e, cmd).eng]
<1>1. Len(d.commands) = 1 /\ d.commands[1] = cmd
    OBVIOUS
<1>2. first = F(first)
    BY <1>1
<1>3. after = F(after)
    BY <1>2
<1>4. after[0] = e /\ after[1] = apply(e, cmd).eng
    <2> HIDE DEF after
    <2>1. after[0] = e
        BY <1>3
    <2>2. after[1] = apply(after[1 - 1], d.commands[1]).eng
        BY <1>3
    <2> QED
        BY <1>1, <2>1, <2>2
<1>5. handle_directive(e, d) =
        [eng |-> after[1], results |-> [k \in 1..1 |-> apply(after[k - 1], d.commands[k]).result]]
    BY <1>1 DEF handle_directive
<1> QED
    BY <1>1, <1>4, <1>5, ApplyTyped DEF Results

-----------------------------------------------------------------------------
(* Facts about the state.                                                  *)

LEMMA Fields ==
    ASSUME Typed
    PROVE  /\ mgr.pc \in ManagerPcs /\ mgr.part \in Parts /\ mgr.i \in Nat /\ mgr.seq_id \in Nat
           /\ eng.pc \in EnginePcs /\ eng.part \in {"length", "payload"}
           /\ eng.out \in Outputs \cup {NoMessage}
           /\ script.entries \in Seq(Commands) /\ Len(script.entries) \in Nat
           /\ Len(did) \in Nat /\ Len(replies) \in Nat
           /\ Len(to_engine) \in Nat /\ Len(to_manager) \in Nat
<1>1. script.entries \in Seq(Commands)
    BY MockPeersAssumption DEF Typed
<1>2. Len(script.entries) \in Nat
    BY <1>1
<1>3. Len(did) \in Nat /\ Len(replies) \in Nat /\ Len(to_engine) \in Nat /\ Len(to_manager) \in Nat
    BY DEF Typed
<1>4. /\ mgr.pc \in ManagerPcs /\ mgr.part \in Parts /\ mgr.i \in Nat /\ mgr.seq_id \in Nat
      /\ eng.pc \in EnginePcs /\ eng.part \in {"length", "payload"}
      /\ eng.out \in Outputs \cup {NoMessage}
    BY DEF Typed, Managers, Engines
<1> QED
    BY <1>1, <1>2, <1>3, <1>4

\* The numbers the streams are described with.
LEMMA Numbers ==
    ASSUME Typed, Progress
    PROVE  Consumed \in Nat /\ Written \in Nat
<1>1. Len(did) \in Nat /\ mgr.seq_id \in Nat /\ mgr.i \in Nat
    BY Fields
<1>2. Consumed \in Nat
    BY <1>1 DEF Consumed
<1>3. mgr.pc \in {"send", "send_payload"} => mgr.seq_id > 0
    BY <1>1 DEF Progress
<1>4. Written \in Nat
    BY <1>1, <1>3 DEF Written
<1> QED
    BY <1>2, <1>4

\* What follows the wait for an answer, or for the first heartbeat.
LEMMA AfterWait ==
    ASSUME Typed, Progress, mgr.pc \in {"wait", "response"}, NEW m, m = NextCommand(mgr)
    PROVE  /\ m \in Managers /\ m.seq_id = mgr.seq_id
           /\ \/ m.pc = "failed" /\ m.i = mgr.i /\ m.part = mgr.part /\ script.mode = "none"
              \/ m.pc = "observe" /\ m.i = mgr.i /\ m.i = Len(script.entries) /\ m.part = "length"
              \/ /\ m.pc \in {"drain", "build"} /\ m.i = mgr.i + 1 /\ m.i <= Len(script.entries)
                 /\ m.part = "length"
<1>1. mgr \in Managers /\ mgr.i \in Nat /\ Len(script.entries) \in Nat /\ mgr.i <= Len(script.entries)
    BY Fields DEF Typed, Progress
<1>2. CASE script.mode = "none"
    BY <1>1, <1>2 DEF NextCommand, Managers, ManagerPcs
<1>3. CASE script.mode # "none" /\ mgr.i = Len(script.entries)
    BY <1>1, <1>3 DEF NextCommand, Managers, ManagerPcs, Reading, Parts
<1>4. CASE script.mode # "none" /\ mgr.i # Len(script.entries)
    <2> DEFINE to == IF script.entries[mgr.i + 1].delay THEN "drain" ELSE "build"
    <2>1. to \in {"drain", "build"}
        OBVIOUS
    <2>2. m = [mgr EXCEPT !.i = @ + 1, !.part = "length", !.pc = to]
        BY <1>4 DEF NextCommand
    <2> HIDE DEF to
    <2>3. mgr.i + 1 \in Nat /\ mgr.i + 1 <= Len(script.entries)
        BY <1>1, <1>4
    <2>4. m \in Managers /\ m.seq_id = mgr.seq_id /\ m.pc = to /\ m.i = mgr.i + 1 /\ m.part = "length"
        BY <1>1, <2>1, <2>2, <2>3 DEF Managers, ManagerPcs, Reading, Parts
    <2> QED
        BY <2>1, <2>3, <2>4
<1> QED
    BY <1>2, <1>3, <1>4

LEMMA PeersInitIInv == PeersInit => PeersIInv
<1> SUFFICES ASSUME PeersInit PROVE PeersIInv
    OBVIOUS
<1>1. PICK kv \in Occupancies :
        eng = [pc |-> "start", part |-> "length", out |-> NoMessage, kv |-> kv, state |-> "Running", beats |-> 0]
    BY DEF PeersInit
<1>2. /\ script \in Scripts
      /\ mgr = [pc |-> "start", part |-> "length", i |-> 0, seq_id |-> 0]
      /\ to_engine = <<>> /\ to_manager = <<>> /\ replies = <<>> /\ timed_out = {}
      /\ did = <<>> /\ swallowed = FALSE
    BY DEF PeersInit
<1>3. Typed
    <2>1. eng \in Engines
        BY <1>1, MockPeersAssumption DEF Engines, EnginePcs
    <2>2. mgr \in Managers
        BY <1>2 DEF Managers, ManagerPcs, Parts
    <2>3. /\ to_engine \in Seq([part : {"length", "payload"}, msg : Directives])
          /\ to_manager \in Seq([part : {"length", "payload"}, msg : Outputs])
          /\ replies \in Seq([expected : Nat, seq_id : Nat, results : Results, valid : BOOLEAN])
          /\ did \in Seq([seq_id : Nat, results : Results])
        BY <1>2
    <2> QED
        BY <1>2, <2>1, <2>2, <2>3 DEF Typed
<1>4. Progress
    BY <1>2, <1>3, Fields DEF Progress, Reading
<1>5. /\ Len(to_engine) = 0 /\ Len(to_manager) = 0 /\ Len(replies) = 0 /\ Len(did) = 0
      /\ Cardinality(timed_out) = 0
    BY <1>2, FS_EmptySet
<1>6. InSequence /\ Executed
    BY <1>1, <1>2, <1>5 DEF InSequence, Executed, Consumed, Written
<1>7. Framed /\ Answering /\ Answers
    BY <1>1, <1>2, <1>5 DEF Framed, Alternating, Aligned, NotLost, Answering, Answers, AnswersInOrder
<1>8. Waits /\ Taken
    BY <1>2, <1>5 DEF Waits, Taken, Awaited
<1>9. timed_out \subseteq 1..mgr.seq_id
    BY <1>2
<1> QED
    BY <1>3, <1>4, <1>6, <1>7, <1>8, <1>9 DEF PeersIInv

-----------------------------------------------------------------------------
(* Steps of the engine.                                                    *)

\* Steps that move no piece: the engine connects, falls idle, starts a heartbeat, gives up.
LEMMA IdleIInv ==
    ASSUME PeersIInv,
           UNCHANGED <<script, to_engine, to_manager, replies, timed_out, swallowed, did>>,
           mgr' = mgr \/ (mgr.pc = "listen" /\ mgr' = [mgr EXCEPT !.pc = "wait"]),
           eng' \in Engines, eng'.pc # "send_payload",
           \/ eng'.pc = "exit"
           \/ /\ eng.pc # "exit" /\ Consumed' = Consumed
              /\ eng.pc # "send_payload" \/ ManagerGone,
           eng'.pc = "send" => eng'.out = HeartbeatMsg
    PROVE  PeersIInv'
<1>1. /\ mgr'.i = mgr.i /\ mgr'.seq_id = mgr.seq_id /\ mgr'.part = mgr.part /\ mgr' \in Managers
      /\ mgr'.pc = mgr.pc \/ (mgr.pc = "listen" /\ mgr'.pc = "wait")
    BY DEF PeersIInv, Typed, Managers, ManagerPcs, Reading
<1>2. Typed'
    BY <1>1 DEF PeersIInv, Typed
<1>3. Progress'
    BY <1>1 DEF PeersIInv, Progress, Reading
<1>4. InSequence'
    <2>1. Written' = Written /\ \A x, q : IsPiece(x, q)' <=> IsPiece(x, q)
        BY <1>1 DEF Written, IsPiece, Directive
    <2>2. CASE eng'.pc = "exit"
        BY <2>2 DEF InSequence
    <2>3. CASE eng.pc # "exit" /\ Consumed' = Consumed
        BY <2>1, <2>3 DEF PeersIInv, InSequence
    <2> QED
        BY <2>2, <2>3
<1>5. Executed'
    BY <1>1 DEF PeersIInv, Executed
<1>6. Framed'
    <2>1. ManagerGone' <=> ManagerGone
        BY <1>1 DEF ManagerGone
    <2> SUFFICES ASSUME ~ManagerGone PROVE Alternating' /\ Aligned' /\ NotLost'
        BY <2>1 DEF Framed
    <2>2. Alternating'
        BY DEF PeersIInv, Framed, Alternating
    <2>3. Aligned'
        BY <1>1 DEF PeersIInv, Framed, Aligned
    <2>4. NotLost'
        BY <1>1 DEF PeersIInv, Framed, NotLost
    <2> QED
        BY <2>2, <2>3, <2>4
<1>7. Answering'
    BY DEF Answering, HeartbeatMsg, NoMessage
<1>8. Answers'
    <2>1. ManagerGone' <=> ManagerGone
        BY <1>1 DEF ManagerGone
    <2>2. \A j : Answer(j)' <=> Answer(j)
        BY DEF Answer
    <2>3. ~(eng'.pc \in {"send", "send_payload"} /\ eng'.out.type = "Response")
        BY DEF HeartbeatMsg
    <2> QED
        BY <2>1, <2>2, <2>3 DEF PeersIInv, Answers, AnswersInOrder
<1>9. Waits'
    BY <1>1 DEF PeersIInv, Waits, Awaited
<1>10. Taken'
    BY <1>1 DEF PeersIInv, Taken
<1>11. timed_out' \subseteq 1..mgr'.seq_id
    BY <1>1 DEF PeersIInv
<1> QED
    BY <1>2, <1>3, <1>4, <1>5, <1>6, <1>7, <1>8, <1>9, <1>10, <1>11 DEF PeersIInv

\* The engine's steps that move no piece.
LEMMA EngineIdles ==
    ASSUME PeersIInv, Connect \/ BeatDue \/ Poll \/ TimeUp \/ Kill \/ EngineTimeout
    PROVE  PeersIInv'
<1>1. eng \in Engines /\ MaxHeartbeats \in Nat
    BY MockPeersAssumption DEF PeersIInv, Typed
<1>2. UNCHANGED <<script, to_engine, to_manager, replies, timed_out, swallowed, did>>
    BY DEF Connect, BeatDue, Poll, TimeUp, Kill, EngineTimeout, EngineOnly
<1>3. mgr' = mgr \/ (mgr.pc = "listen" /\ mgr' = [mgr EXCEPT !.pc = "wait"])
    BY DEF Connect, BeatDue, Poll, TimeUp, Kill, EngineTimeout, EngineOnly
<1>4. CASE EngineExit
    <2>1. eng' \in Engines /\ eng'.pc = "exit"
        BY <1>1, <1>4 DEF EngineExit, Engines, EnginePcs
    <2> QED
        BY <1>2, <1>3, <2>1, IdleIInv
<1>5. CASE eng.pc = "start" /\ eng' = [eng EXCEPT !.pc = "loop"]
    <2>1. eng' \in Engines /\ eng'.pc = "loop"
        BY <1>1, <1>5 DEF Engines, EnginePcs
    <2>2. Consumed' = Consumed
        BY <1>2, <1>5, <2>1 DEF Consumed
    <2> QED
        BY <1>2, <1>3, <1>5, <2>1, <2>2, IdleIInv
<1>6. CASE /\ eng.pc = "loop" /\ eng.beats < MaxHeartbeats
           /\ eng' = [eng EXCEPT !.pc = "send", !.out = HeartbeatMsg, !.beats = @ + 1]
    <2>1. eng' \in Engines /\ eng'.pc = "send" /\ eng'.out = HeartbeatMsg
        <3>1. eng.beats + 1 \in 0..MaxHeartbeats
            BY <1>1, <1>6 DEF Engines
        <3>2. HeartbeatMsg \in Outputs \cup {NoMessage} /\ "send" \in EnginePcs
            BY DEF Outputs, EnginePcs
        <3> QED
            BY <1>1, <1>6, <3>1, <3>2 DEF Engines
    <2>2. Consumed' = Consumed
        BY <1>2, <1>6, <2>1 DEF Consumed
    <2> QED
        BY <1>2, <1>3, <1>6, <2>1, <2>2, IdleIInv
<1>7. CASE eng.pc = "loop" /\ eng' = [eng EXCEPT !.pc = "recv", !.part = "length"]
    <2>1. eng' \in Engines /\ eng'.pc = "recv" /\ eng'.part = "length"
        BY <1>1, <1>7 DEF Engines, EnginePcs
    <2>2. Consumed' = Consumed
        BY <1>2, <1>7, <2>1 DEF Consumed
    <2> QED
        BY <1>2, <1>3, <1>7, <2>1, <2>2, IdleIInv
<1>8. CASE eng.pc = "recv" /\ eng.part = "length" /\ eng' = [eng EXCEPT !.pc = "loop"]
    <2>1. eng' \in Engines /\ eng'.pc = "loop"
        BY <1>1, <1>8 DEF Engines, EnginePcs
    <2>2. Consumed' = Consumed
        BY <1>2, <1>8, <2>1 DEF Consumed
    <2> QED
        BY <1>2, <1>3, <1>8, <2>1, <2>2, IdleIInv
<1> QED
    BY <1>4, <1>5, <1>6, <1>7, <1>8 DEF Connect, BeatDue, Poll, TimeUp, Kill, EngineTimeout

\* The first element of a stream, and the rest.
LEMMA TailFacts ==
    ASSUME NEW S, NEW w \in Seq(S), w # <<>>
    PROVE  /\ Tail(w) \in Seq(S) /\ Len(Tail(w)) = Len(w) - 1 /\ Len(w) \in Nat /\ Len(w) > 0
           /\ Head(w) = w[1] /\ w[1] \in S
           /\ \A j \in 1..Len(w) - 1 : Tail(w)[j] = w[j + 1]
OBVIOUS

\* A stream with one more element.
LEMMA AppendFacts ==
    ASSUME NEW S, NEW w \in Seq(S), NEW x \in S
    PROVE  /\ Append(w, x) \in Seq(S) /\ Len(Append(w, x)) = Len(w) + 1 /\ Len(w) \in Nat
           /\ Append(w, x)[Len(w) + 1] = x
           /\ \A j \in 1..Len(w) : Append(w, x)[j] = w[j]
OBVIOUS

\* The engine reads the next piece.
LEMMA SequenceShifts ==
    ASSUME Typed, Progress, InSequence, eng.pc # "exit", to_engine # <<>>,
           to_engine' = Tail(to_engine), Consumed' = Consumed + 1,
           script' = script, mgr' = mgr
    PROVE  InSequence'
<1> DEFINE w == to_engine
           S == [part : {"length", "payload"}, msg : Directives]
<1>1. /\ w \in Seq(S) /\ Consumed \in Nat /\ Written' = Written
      /\ \A x, q : IsPiece(x, q)' <=> IsPiece(x, q)
    BY Numbers DEF Typed, Written, IsPiece, Directive
<1>2. /\ Len(Tail(w)) = Len(w) - 1 /\ Len(w) \in Nat /\ Len(w) > 0
      /\ \A j \in 1..Len(w) - 1 : Tail(w)[j] = w[j + 1]
    <2> HIDE DEF S
    <2> QED
        BY <1>1, TailFacts
<1>3. Consumed' + Len(to_engine') = Written'
    BY <1>1, <1>2 DEF InSequence
<1>4. ASSUME NEW j \in 1..Len(w) - 1 PROVE IsPiece(Tail(w)[j], Consumed + 1 + j)
    <2>1. j + 1 \in 1..Len(w) /\ Consumed + (j + 1) = Consumed + 1 + j
        BY <1>1, <1>2
    <2>2. IsPiece(w[j + 1], Consumed + (j + 1))
        BY <2>1 DEF InSequence
    <2> QED
        BY <1>2, <2>1, <2>2
<1> QED
    BY <1>1, <1>2, <1>3, <1>4 DEF InSequence

\* What the engine is about to read.
LEMMA NextPiece ==
    ASSUME PeersIInv, eng.pc = "recv", to_engine # <<>>
    PROVE  /\ Len(did) + 1 \in 1..mgr.seq_id
           /\ Head(to_engine) = Piece(eng.part, Directive(Len(did) + 1))
           /\ Directive(Len(did) + 1) \in Directives
           /\ script.entries[Len(did) + 1] \in Commands
<1>1. /\ Typed /\ Progress /\ Len(did) \in Nat /\ mgr.seq_id \in Nat /\ mgr.i \in Nat
      /\ mgr.seq_id <= mgr.i /\ mgr.i <= Len(script.entries) /\ Len(script.entries) \in Nat
      /\ script.entries \in Seq(Commands) /\ eng.part \in {"length", "payload"}
    BY Fields DEF PeersIInv, Progress
<1>2. Head(to_engine) = to_engine[1] /\ 1 \in 1..Len(to_engine)
    BY <1>1 DEF Typed
<1>3. IsPiece(Head(to_engine), Consumed + 1)
    BY <1>2 DEF PeersIInv, InSequence
<1>4. PICK k \in 1..mgr.seq_id :
        \/ Consumed + 1 = 2 * k - 1 /\ Head(to_engine) = Piece("length", Directive(k))
        \/ Consumed + 1 = 2 * k /\ Head(to_engine) = Piece("payload", Directive(k))
    BY <1>3 DEF IsPiece
<1>5. k = Len(did) + 1 /\ Head(to_engine) = Piece(eng.part, Directive(k))
    <2>1. CASE eng.part = "length"
        <3>1. Consumed = 2 * Len(did)
            BY <2>1 DEF Consumed
        <3> QED
            BY <1>1, <1>4, <2>1, <3>1
    <2>2. CASE eng.part = "payload"
        <3>1. Consumed = 2 * Len(did) + 1
            BY <2>2 DEF Consumed
        <3> QED
            BY <1>1, <1>4, <2>2, <3>1
    <2> QED
        BY <1>1, <2>1, <2>2
<1>6. k \in Nat /\ script.entries[k] \in Commands
    BY <1>1
<1>7. Directive(k) \in Directives
    BY <1>6 DEF Directive, DirectiveMsg, Directives
<1> QED
    BY <1>5, <1>6, <1>7

\* The engine reads a length.
LEMMA ReadLength ==
    ASSUME PeersIInv, EngineRead, eng.part = "length"
    PROVE  PeersIInv'
<1>1. /\ eng.pc = "recv" /\ to_engine # <<>> /\ to_engine' = Tail(to_engine)
      /\ UNCHANGED <<script, mgr, replies, timed_out, swallowed, to_manager, did>>
    BY DEF EngineRead, EngineOnly
<1>2. eng' = [eng EXCEPT !.part = "payload"]
    <2>1. Head(to_engine).part = "length"
        BY <1>1, NextPiece DEF Piece
    <2>2. eng' = [eng EXCEPT !.part = PartAfter(@, Head(to_engine))]
        BY DEF EngineRead
    <2>3. eng \in Engines
        BY DEF PeersIInv, Typed
    <2> QED
        BY <2>1, <2>2, <2>3 DEF PartAfter, Engines
<1>3. /\ eng' \in Engines /\ eng'.pc = eng.pc /\ eng'.part = "payload" /\ eng'.out = eng.out
    BY <1>2 DEF PeersIInv, Typed, Engines
<1>4. to_engine' \in Seq([part : {"length", "payload"}, msg : Directives])
    BY <1>1 DEF PeersIInv, Typed
<1>5. Typed'
    BY <1>1, <1>3, <1>4 DEF PeersIInv, Typed
<1>6. Progress'
    BY <1>1 DEF PeersIInv, Progress
<1>7. InSequence'
    <2>1. Consumed' = Consumed + 1
        <3>1. Len(did) \in Nat
            BY Fields DEF PeersIInv
        <3> QED
            BY <1>1, <1>3, <3>1 DEF Consumed
    <2> QED
        BY <1>1, <2>1, SequenceShifts DEF PeersIInv
<1>8. Executed'
    BY <1>1 DEF PeersIInv, Executed
<1>9. Framed'
    BY <1>1, <1>3 DEF PeersIInv, Framed, ManagerGone, Alternating, Aligned, NotLost
<1>10. Answering' /\ Answers'
    BY <1>1, <1>3 DEF PeersIInv, ManagerGone, Answering, Answers, AnswersInOrder, Answer
<1>11. Waits' /\ Taken' /\ timed_out' \subseteq 1..mgr'.seq_id
    BY <1>1 DEF PeersIInv, Waits, Awaited, Taken
<1> QED
    BY <1>5, <1>6, <1>7, <1>8, <1>9, <1>10, <1>11 DEF PeersIInv

\* The engine reads a payload: the directive is executed and an answer made.
LEMMA ReadPayload ==
    ASSUME PeersIInv, EngineRead, eng.part = "payload"
    PROVE  PeersIInv'
<1> DEFINE n == Len(did)
           d == Directive(n + 1)
           h == handle_directive(eng, d)
           entry == [seq_id |-> n + 1, results |-> h.results]
<1>1. /\ eng.pc = "recv" /\ to_engine # <<>> /\ to_engine' = Tail(to_engine)
      /\ UNCHANGED <<script, mgr, replies, timed_out, swallowed, to_manager>>
    BY DEF EngineRead, EngineOnly
<1>2. /\ n + 1 \in 1..mgr.seq_id /\ n \in Nat
      /\ Head(to_engine).msg = d /\ d \in Directives
      /\ d.seq_id = n + 1 /\ d.commands = <<script.entries[n + 1]>>
      /\ script.entries[n + 1] \in Commands
    BY <1>1, NextPiece, Fields DEF Piece, Directive, DirectiveMsg, PeersIInv
<1>3. /\ eng' = [h.eng EXCEPT !.pc = "send", !.out = Response(n + 1, h.results)]
      /\ did' = Append(did, entry)
    BY <1>2 DEF EngineRead
<1>4. /\ Moved(eng, h.eng) /\ h.results \in Results /\ Len(h.results) = 1
    <2>1. eng \in Engines
        BY DEF PeersIInv, Typed
    <2> HIDE DEF d
    <2> QED
        BY <1>2, <2>1, HandleOne
<1> HIDE DEF h, d
<1>5. /\ eng' \in Engines /\ eng'.pc = "send" /\ eng'.out = Response(n + 1, h.results)
      /\ eng'.part = "payload"
    <2>1. Response(n + 1, h.results) \in Outputs
        BY <1>2, <1>4 DEF Response, Outputs, Responses
    <2> QED
        BY <1>3, <1>4, <2>1 DEF Moved, Engines, EnginePcs
<1>6. /\ did' \in Seq([seq_id : Nat, results : Results]) /\ Len(did') = n + 1
      /\ did'[n + 1] = entry /\ \A k \in 1..n : did'[k] = did[k]
    <2> DEFINE S == [seq_id : Nat, results : Results]
    <2>1. did \in Seq(S) /\ entry \in S
        BY <1>2, <1>4 DEF PeersIInv, Typed
    <2> HIDE DEF S, entry
    <2>2. did' \in Seq(S) /\ Len(did') = n + 1 /\ did'[n + 1] = entry /\ \A k \in 1..n : did'[k] = did[k]
        BY <1>3, <2>1, AppendFacts
    <2> QED
        BY <2>2 DEF S
<1> HIDE DEF n
<1>7. Typed'
    <2>1. to_engine' \in Seq([part : {"length", "payload"}, msg : Directives])
        BY <1>1 DEF PeersIInv, Typed
    <2> QED
        BY <1>1, <1>5, <1>6, <2>1 DEF PeersIInv, Typed
<1>8. Progress'
    BY <1>1 DEF PeersIInv, Progress
<1>9. InSequence'
    <2>1. Consumed = 2 * n + 1
        BY <1>1 DEF Consumed, n
    <2>2. Consumed' = 2 * (n + 1)
        BY <1>5, <1>6 DEF Consumed
    <2>3. Consumed' = Consumed + 1
        BY <1>2, <2>1, <2>2
    <2> QED
        BY <1>1, <2>3, SequenceShifts DEF PeersIInv
<1>10. Executed'
    <2>1. \A k \in 1..n : did'[k].seq_id = k /\ Len(did'[k].results) = 1
        BY <1>6 DEF PeersIInv, Executed, n
    <2>2. did'[n + 1].seq_id = n + 1 /\ Len(did'[n + 1].results) = 1
        BY <1>4, <1>6
    <2>3. \A k \in 1..n + 1 : k \in 1..n \/ k = n + 1
        BY <1>2
    <2> QED
        BY <1>1, <1>2, <1>6, <2>1, <2>2, <2>3 DEF Executed
<1>11. Framed'
    BY <1>1, <1>5 DEF PeersIInv, Framed, ManagerGone, Alternating, Aligned, NotLost
<1>12. Answering'
    BY <1>2, <1>5, <1>6 DEF Answering, Response, NoMessage
<1>13. Answers'
    <2> SUFFICES ASSUME ~ManagerGone PROVE AnswersInOrder'
        BY <1>1 DEF Answers, ManagerGone
    <2>1. AnswersInOrder /\ \A j : Answer(j)' <=> Answer(j)
        BY <1>1 DEF PeersIInv, Answers, Answer
    <2>2. ASSUME NEW j \in 1..Len(to_manager), Answer(j)
          PROVE  /\ to_manager[j].msg.seq_id \in 1..n + 1
                 /\ to_manager[j].msg.seq_id < n + 1
                 /\ to_manager[j].msg.results = did'[to_manager[j].msg.seq_id].results
        <3>1. to_manager[j].msg.seq_id \in 1..n
            BY <2>1, <2>2 DEF AnswersInOrder, n
        <3> QED
            BY <1>2, <1>6, <2>1, <2>2, <3>1 DEF AnswersInOrder
    <2>3. \A m \in 1..Len(replies) : replies[m].seq_id < n + 1
        <3> SUFFICES ASSUME NEW m \in 1..Len(replies) PROVE replies[m].seq_id < n + 1
            OBVIOUS
        <3>1. replies[m].seq_id \in m..n
            BY DEF PeersIInv, Taken, n
        <3> QED
            BY <1>2, <3>1
    <2>4. eng'.out.seq_id = n + 1
        BY <1>5 DEF Response
    <2> QED
        BY <1>1, <1>6, <2>1, <2>2, <2>3, <2>4 DEF AnswersInOrder
<1>14. Waits' /\ timed_out' \subseteq 1..mgr'.seq_id
    BY <1>1 DEF PeersIInv, Waits, Awaited
<1>15. Taken'
    <2> SUFFICES ASSUME NEW m \in 1..Len(replies)
                 PROVE  /\ replies[m].seq_id \in m..n + 1
                        /\ replies[m].results = did'[replies[m].seq_id].results
        BY <1>1, <1>6 DEF PeersIInv, Taken
    <2>1. replies[m].seq_id \in m..n /\ replies[m].results = did[replies[m].seq_id].results
        BY DEF PeersIInv, Taken, n
    <2>2. m \in Nat \ {0}
        OBVIOUS
    <2>3. replies[m].seq_id \in 1..n /\ replies[m].seq_id \in m..n + 1
        BY <1>2, <2>1, <2>2
    <2> QED
        BY <1>6, <2>1, <2>3
<1> QED
    BY <1>7, <1>8, <1>9, <1>10, <1>11, <1>12, <1>13, <1>14, <1>15 DEF PeersIInv

\* The engine gives up a message: nobody reads it any more.
LEMMA SendFails ==
    ASSUME PeersIInv, EngineSend, ManagerGone
    PROVE  PeersIInv'
<1>1. /\ eng.pc \in {"send", "send_payload"}
      /\ UNCHANGED <<script, mgr, to_engine, to_manager, replies, timed_out, swallowed, did>>
    BY DEF EngineSend, EngineOnly
<1>2. PICK to \in {"exit", "loop"} : eng' = [eng EXCEPT !.pc = to, !.out = NoMessage]
    BY DEF EngineSend
<1>3. eng' \in Engines /\ eng'.pc = to
    BY <1>2 DEF PeersIInv, Typed, Engines, EnginePcs
<1>4. to = "loop" => Consumed' = Consumed
    BY <1>1, <1>3 DEF Consumed
<1> QED
    BY <1>1, <1>3, <1>4, IdleIInv

\* The engine writes a length.
LEMMA SendLength ==
    ASSUME PeersIInv, EngineSend, ~ManagerGone, eng.pc = "send"
    PROVE  PeersIInv'
<1> DEFINE n == Len(to_manager)
           x == Piece("length", eng.out)
<1>1. /\ to_manager' = Append(to_manager, x)
      /\ eng' = [eng EXCEPT !.pc = "send_payload"]
      /\ UNCHANGED <<script, mgr, to_engine, replies, timed_out, swallowed, did>>
    BY DEF EngineSend, EngineOnly
<1>2. eng' \in Engines /\ eng'.pc = "send_payload" /\ eng'.out = eng.out
    BY <1>1 DEF PeersIInv, Typed, Engines, EnginePcs
<1>3. eng.out \in Outputs
    BY Fields DEF PeersIInv, Answering
<1>4. /\ to_manager' \in Seq([part : {"length", "payload"}, msg : Outputs]) /\ Len(to_manager') = n + 1
      /\ n \in Nat /\ to_manager'[n + 1] = x /\ \A j \in 1..n : to_manager'[j] = to_manager[j]
    <2> DEFINE S == [part : {"length", "payload"}, msg : Outputs]
    <2>1. to_manager \in Seq(S) /\ x \in S
        BY <1>3 DEF PeersIInv, Typed, Piece
    <2> HIDE DEF S, x
    <2>2. /\ to_manager' \in Seq(S) /\ Len(to_manager') = n + 1 /\ n \in Nat
          /\ to_manager'[n + 1] = x /\ \A j \in 1..n : to_manager'[j] = to_manager[j]
        BY <1>1, <2>1, AppendFacts
    <2> QED
        BY <2>2 DEF S
<1>5. Typed'
    BY <1>1, <1>2, <1>4 DEF PeersIInv, Typed
<1>6. Progress' /\ Executed'
    BY <1>1 DEF PeersIInv, Progress, Executed
<1>7. InSequence'
    <2>1. Consumed' = Consumed
        BY <1>1, <1>2 DEF Consumed
    <2> QED
        BY <1>1, <2>1 DEF PeersIInv, InSequence, Written, IsPiece, Directive
<1>8. to_manager = <<>> <=> n = 0
    BY DEF PeersIInv, Typed
<1>9. Framed'
    <2>1. Alternating /\ Aligned /\ NotLost
        BY DEF PeersIInv, Framed
    <2>2. /\ x.part = "length"
          /\ \A j \in 1..n + 1 : j \in 1..n \/ j = n + 1
          /\ n # 0 => n \in 1..n /\ to_manager[n].part # "length"
        BY <1>4, <1>8, <2>1 DEF Alternating, Piece
    <2>3. to_manager' # <<>>
        BY <1>4
    <2> HIDE DEF n, x
    <2>4. Alternating'
        <3>1. ASSUME NEW j \in 1..n + 1, j + 1 \in 1..n + 1
              PROVE  to_manager'[j].part # to_manager'[j + 1].part
            <4>1. j \in 1..n
                BY <1>4, <3>1
            <4>2. CASE j = n
                BY <1>4, <2>2, <4>1, <4>2
            <4>3. CASE j # n
                <5>1. j + 1 \in 1..n
                    BY <1>4, <4>1, <4>3
                <5> QED
                    BY <1>4, <2>1, <4>1, <5>1 DEF Alternating, n
            <4> QED
                BY <4>2, <4>3
        <3>2. to_manager'[Len(to_manager')].part = "length" /\ eng'.pc = "send_payload"
            BY <1>2, <1>4, <2>2
        <3> QED
            BY <1>4, <3>1, <3>2 DEF Alternating
    <2>5. Aligned'
        <3>1. CASE n = 0
            BY <1>1, <1>8, <2>1, <3>1 DEF Aligned
        <3>2. CASE n # 0
            <4>1. 1 \in 1..n
                BY <1>4, <3>2
            <4> QED
                BY <1>1, <1>4, <1>8, <2>1, <2>3, <3>2, <4>1 DEF Aligned
        <3> QED
            BY <3>1, <3>2
    <2>6. NotLost'
        <3>1. CASE n = 0
            <4>1. to_manager'[1].part = "length"
                BY <1>4, <2>2, <3>1
            <4> QED
                BY <1>1, <2>1, <2>3, <4>1 DEF NotLost
        <3>2. CASE n # 0
            <4>1. 1 \in 1..n
                BY <1>4, <3>2
            <4> QED
                BY <1>1, <1>4, <1>8, <2>1, <2>3, <3>2, <4>1 DEF NotLost
        <3> QED
            BY <3>1, <3>2
    <2> QED
        BY <2>4, <2>5, <2>6 DEF Framed
<1>10. Answering'
    BY <1>1, <1>2 DEF PeersIInv, Answering
<1>11. Answers'
    <2>1. AnswersInOrder
        BY DEF PeersIInv, Answers
    <2>2. \A j \in 1..n + 1 : Answer(j)' => j \in 1..n /\ Answer(j)
        BY <1>4 DEF Answer, Piece
    <2> HIDE DEF n, x
    <2>3. 1..Len(to_manager) = 1..n
        BY DEF n
    <2> QED
        BY <1>1, <1>2, <1>4, <2>1, <2>2, <2>3 DEF Answers, AnswersInOrder
<1>12. Waits' /\ Taken' /\ timed_out' \subseteq 1..mgr'.seq_id
    BY <1>1 DEF PeersIInv, Waits, Awaited, Taken
<1> QED
    BY <1>5, <1>6, <1>7, <1>9, <1>10, <1>11, <1>12 DEF PeersIInv

\* The engine writes a payload.
LEMMA SendPayload ==
    ASSUME PeersIInv, EngineSend, ~ManagerGone, eng.pc = "send_payload"
    PROVE  PeersIInv'
<1> DEFINE n == Len(to_manager)
           x == Piece("payload", eng.out)
<1>1. /\ to_manager' = Append(to_manager, x)
      /\ UNCHANGED <<script, mgr, to_engine, replies, timed_out, swallowed, did>>
    BY DEF EngineSend, EngineOnly
<1>2. PICK to \in {"recv", "loop"} : eng' = [eng EXCEPT !.pc = to, !.part = "length", !.out = NoMessage]
    BY DEF EngineSend
<1>3. eng' \in Engines /\ eng'.pc \in {"recv", "loop"} /\ eng'.part = "length"
    BY <1>2 DEF PeersIInv, Typed, Engines, EnginePcs
<1>4. eng.out \in Outputs
    BY Fields DEF PeersIInv, Answering
<1>5. /\ to_manager' \in Seq([part : {"length", "payload"}, msg : Outputs]) /\ Len(to_manager') = n + 1
      /\ n \in Nat /\ to_manager'[n + 1] = x /\ \A j \in 1..n : to_manager'[j] = to_manager[j]
    <2> DEFINE S == [part : {"length", "payload"}, msg : Outputs]
    <2>1. to_manager \in Seq(S) /\ x \in S
        BY <1>4 DEF PeersIInv, Typed, Piece
    <2> HIDE DEF S, x
    <2>2. /\ to_manager' \in Seq(S) /\ Len(to_manager') = n + 1 /\ n \in Nat
          /\ to_manager'[n + 1] = x /\ \A j \in 1..n : to_manager'[j] = to_manager[j]
        BY <1>1, <2>1, AppendFacts
    <2> QED
        BY <2>2 DEF S
<1>6. Typed'
    BY <1>1, <1>3, <1>5 DEF PeersIInv, Typed
<1>7. Progress' /\ Executed'
    BY <1>1 DEF PeersIInv, Progress, Executed
<1>8. InSequence'
    <2>1. Consumed' = Consumed
        BY <1>1, <1>3 DEF Consumed
    <2> QED
        BY <1>1, <2>1 DEF PeersIInv, InSequence, Written, IsPiece, Directive
<1>9. to_manager = <<>> <=> n = 0
    BY DEF PeersIInv, Typed
<1>10. Framed'
    <2>1. Alternating /\ Aligned /\ NotLost
        BY DEF PeersIInv, Framed
    <2>2. /\ x.part = "payload"
          /\ n # 0 => n \in 1..n /\ to_manager[n].part = "length"
        BY <1>5, <1>9, <2>1 DEF Alternating, Piece
    <2>3. to_manager' # <<>>
        BY <1>5
    <2> HIDE DEF n, x
    <2>4. Alternating'
        <3>1. ASSUME NEW j \in 1..n + 1, j + 1 \in 1..n + 1
              PROVE  to_manager'[j].part # to_manager'[j + 1].part
            <4>1. j \in 1..n
                BY <1>5, <3>1
            <4>2. CASE j = n
                BY <1>5, <2>2, <4>1, <4>2
            <4>3. CASE j # n
                <5>1. j + 1 \in 1..n
                    BY <1>5, <4>1, <4>3
                <5> QED
                    BY <1>5, <2>1, <4>1, <5>1 DEF Alternating, n
            <4> QED
                BY <4>2, <4>3
        <3>2. to_manager'[Len(to_manager')].part # "length" /\ eng'.pc # "send_payload"
            BY <1>3, <1>5, <2>2
        <3> QED
            BY <1>5, <3>1, <3>2 DEF Alternating
    <2>5. Aligned'
        <3>1. CASE n = 0
            <4>1. to_manager'[1].part = "payload"
                BY <1>5, <2>2, <3>1
            <4> QED
                BY <1>1, <2>3, <4>1 DEF Aligned
        <3>2. CASE n # 0
            <4>1. 1 \in 1..n
                BY <1>5, <3>2
            <4> QED
                BY <1>1, <1>5, <1>9, <2>1, <2>3, <3>2, <4>1 DEF Aligned
        <3> QED
            BY <3>1, <3>2
    <2>6. NotLost'
        <3>1. CASE n = 0
            BY <1>1, <1>9, <2>1, <3>1 DEF NotLost
        <3>2. CASE n # 0
            <4>1. 1 \in 1..n
                BY <1>5, <3>2
            <4> QED
                BY <1>1, <1>5, <1>9, <2>1, <2>3, <3>2, <4>1 DEF NotLost
        <3> QED
            BY <3>1, <3>2
    <2> QED
        BY <2>4, <2>5, <2>6 DEF Framed
<1>11. Answering'
    BY <1>3 DEF Answering
<1>12. Answers'
    <2>1. AnswersInOrder
        BY DEF PeersIInv, Answers
    <2>2. \A j \in 1..n + 1 : Answer(j)' =>
             \/ j \in 1..n /\ Answer(j) /\ to_manager'[j] = to_manager[j]
             \/ j = n + 1 /\ eng.out.type = "Response" /\ to_manager'[j].msg = eng.out
        BY <1>5 DEF Answer, Piece
    <2>3. eng.out.type = "Response" =>
             /\ eng.out.seq_id = Len(did) /\ Len(did) > 0 /\ Len(did) \in Nat
             /\ eng.out.results = did[Len(did)].results
             /\ \A j \in 1..n : Answer(j) => to_manager[j].msg.seq_id < eng.out.seq_id
             /\ \A m \in 1..Len(replies) : replies[m].seq_id < eng.out.seq_id
        BY <2>1, Fields DEF PeersIInv, Answering, AnswersInOrder
    <2> HIDE DEF x
    <2>4. ASSUME NEW j \in 1..n + 1, Answer(j)'
          PROVE  /\ to_manager'[j].msg.seq_id \in 1..Len(did)
                 /\ to_manager'[j].msg.results = did[to_manager'[j].msg.seq_id].results
                 /\ \A m \in 1..Len(replies) : replies[m].seq_id < to_manager'[j].msg.seq_id
        BY <2>1, <2>2, <2>3, <2>4 DEF AnswersInOrder
    <2>5. ASSUME NEW j \in 1..n + 1, NEW k \in 1..n + 1, j < k, Answer(j)', Answer(k)'
          PROVE  to_manager'[j].msg.seq_id < to_manager'[k].msg.seq_id
        <3>1. j \in 1..n /\ j # n + 1
            BY <1>5, <2>5
        <3>2. Answer(j) /\ to_manager'[j] = to_manager[j]
            BY <2>2, <2>5, <3>1
        <3> QED
            BY <2>1, <2>2, <2>3, <2>5, <3>1, <3>2 DEF AnswersInOrder
    <2> HIDE DEF n
    <2> QED
        BY <1>1, <1>3, <1>5, <2>4, <2>5 DEF Answers, AnswersInOrder
<1>13. Waits' /\ Taken' /\ timed_out' \subseteq 1..mgr'.seq_id
    BY <1>1 DEF PeersIInv, Waits, Awaited, Taken
<1> QED
    BY <1>6, <1>7, <1>8, <1>10, <1>11, <1>12, <1>13 DEF PeersIInv

-----------------------------------------------------------------------------
(* Steps of the manager.                                                   *)

\* Steps that move no piece: the manager goes on to something else between two messages, gives
\* up, or gives up a message only.
LEMMA TurnIInv ==
    ASSUME PeersIInv, Typed', Progress', Waits', ~ManagerGone,
           UNCHANGED <<script, eng, did, to_engine, to_manager, replies>>,
           mgr'.seq_id >= mgr.seq_id, mgr'.part = "length",
           Written' = Written \/ eng.pc = "exit",
           swallowed' = swallowed \/ swallowed',
           swallowed' \/ mgr.part = "length" \/ ManagerGone',
           timed_out' = timed_out \/ timed_out' = timed_out \cup {mgr.seq_id},
           timed_out' \subseteq 1..mgr'.seq_id
    PROVE  PeersIInv'
<1>1. mgr.seq_id \in Nat /\ mgr'.seq_id \in Nat
    BY DEF PeersIInv, Typed, Managers
<1>2. InSequence'
    <2>1. Consumed' = Consumed
        BY DEF Consumed
    <2>2. \A x, q : IsPiece(x, q) => IsPiece(x, q)'
        <3>1. \A k \in 1..mgr.seq_id : k \in 1..mgr'.seq_id
            BY <1>1
        <3> QED
            BY <3>1 DEF IsPiece, Directive
    <2> QED
        BY <2>1, <2>2 DEF PeersIInv, InSequence
<1>3. Executed'
    <2>1. Len(did) \in Nat
        BY Fields DEF PeersIInv
    <2> QED
        BY <1>1, <2>1 DEF PeersIInv, Executed
<1>4. Framed'
    <2> SUFFICES ASSUME ~ManagerGone' PROVE Alternating' /\ Aligned' /\ NotLost'
        BY DEF Framed
    <2>1. Alternating'
        BY DEF PeersIInv, Framed, Alternating
    <2>2. Aligned'
        BY DEF Aligned
    <2>3. NotLost'
        BY DEF PeersIInv, Framed, NotLost
    <2> QED
        BY <2>1, <2>2, <2>3
<1>5. Answering'
    BY DEF PeersIInv, Answering
<1>6. Answers'
    BY DEF PeersIInv, Answers, AnswersInOrder, Answer
<1>7. Taken'
    <2> SUFFICES ASSUME NEW m \in 1..Len(replies)
                 PROVE  /\ replies[m].expected <= mgr'.seq_id
                        /\ timed_out' \cap 1..(replies[m].expected - 1)
                              = timed_out \cap 1..(replies[m].expected - 1)
        BY DEF PeersIInv, Taken
    <2>1. replies[m].expected \in Nat /\ replies[m].expected <= mgr.seq_id
        <3> DEFINE S == [expected : Nat, seq_id : Nat, results : Results, valid : BOOLEAN]
        <3>1. replies[m] \in S
            <4>1. replies \in Seq(S)
                BY DEF PeersIInv, Typed
            <4> HIDE DEF S
            <4> QED
                BY <4>1
        <3>2. replies[m].expected <= mgr.seq_id
            BY DEF PeersIInv, Taken
        <3> QED
            BY <3>1, <3>2
    <2>2. mgr.seq_id \notin 1..(replies[m].expected - 1)
        BY <1>1, <2>1
    <2> QED
        BY <1>1, <2>1, <2>2
<1> QED
    BY <1>2, <1>3, <1>4, <1>5, <1>6, <1>7 DEF PeersIInv

\* The manager gives up.
LEMMA FailIInv ==
    ASSUME PeersIInv, ~ManagerGone,
           UNCHANGED <<script, eng, did, to_engine, to_manager, replies, timed_out, swallowed>>,
           mgr' = [mgr EXCEPT !.pc = "failed", !.part = "length"],
           mgr.pc \notin {"send", "send_payload"} \/ eng.pc = "exit"
    PROVE  PeersIInv'
<1>1. /\ mgr' \in Managers /\ mgr'.pc = "failed" /\ mgr'.part = "length"
      /\ mgr'.i = mgr.i /\ mgr'.seq_id = mgr.seq_id
    BY DEF PeersIInv, Typed, Managers, ManagerPcs, Parts
<1>2. Typed'
    BY <1>1 DEF PeersIInv, Typed
<1>3. Progress'
    BY <1>1 DEF PeersIInv, Progress
<1>4. Waits'
    BY <1>1 DEF Waits
<1>5. Written' = Written \/ eng.pc = "exit"
    BY <1>1 DEF Written
<1>6. mgr'.seq_id >= mgr.seq_id /\ timed_out' \subseteq 1..mgr'.seq_id /\ ManagerGone'
    BY <1>1, Fields DEF PeersIInv, ManagerGone
<1> QED
    BY <1>1, <1>2, <1>3, <1>4, <1>5, <1>6, TurnIInv

\* Listening.
LEMMA ListenIInv == PeersIInv /\ Listen => PeersIInv'
<1> SUFFICES ASSUME PeersIInv, Listen PROVE PeersIInv'
    OBVIOUS
<1>1. /\ mgr.pc = "start" /\ mgr' = [mgr EXCEPT !.pc = "listen", !.part = "length"]
      /\ UNCHANGED <<script, eng, did, to_engine, to_manager, replies, timed_out, swallowed>>
    BY DEF Listen, Goto, ManagerOnly
<1>2. /\ mgr' \in Managers /\ mgr'.pc = "listen" /\ mgr'.part = "length"
      /\ mgr'.i = mgr.i /\ mgr'.seq_id = mgr.seq_id
    BY <1>1 DEF PeersIInv, Typed, Managers, ManagerPcs, Parts
<1>3. Typed'
    BY <1>1, <1>2 DEF PeersIInv, Typed
<1>4. Progress'
    BY <1>1, <1>2 DEF PeersIInv, Progress
<1>5. Waits' /\ Written' = Written
    BY <1>1, <1>2 DEF PeersIInv, Waits, Awaited, Written
<1>6. ~ManagerGone /\ mgr.part = "length"
    BY <1>1 DEF PeersIInv, ManagerGone, Progress, Reading
<1>7. mgr'.seq_id >= mgr.seq_id /\ timed_out' \subseteq 1..mgr'.seq_id
    BY <1>1, <1>2, Fields DEF PeersIInv
<1> QED
    BY <1>1, <1>2, <1>3, <1>4, <1>5, <1>6, <1>7, TurnIInv

\* A directive is built, or the run ends.
LEMMA BuildIInv == PeersIInv /\ Build => PeersIInv'
<1> SUFFICES ASSUME PeersIInv, Build PROVE PeersIInv'
    OBVIOUS
<1>1. /\ mgr.pc = "build"
      /\ UNCHANGED <<script, eng, did, to_engine, to_manager, replies, timed_out, swallowed>>
    BY DEF Build, ManagerOnly
<1>2. /\ ~ManagerGone /\ mgr.part = "length" /\ mgr \in Managers
      /\ mgr.i \in Nat /\ mgr.seq_id \in Nat /\ mgr.i = mgr.seq_id + 1 /\ mgr.i <= Len(script.entries)
    BY <1>1, Fields DEF PeersIInv, ManagerGone, Progress, Reading, Typed
<1>3. CASE mgr' = [mgr EXCEPT !.pc = "failed"]
    <2>1. mgr' = [mgr EXCEPT !.pc = "failed", !.part = "length"]
        BY <1>2, <1>3 DEF Managers
    <2> QED
        BY <1>1, <1>2, <2>1, FailIInv
<1>4. CASE mgr' = [mgr EXCEPT !.pc = "send", !.seq_id = @ + 1]
    <2>1. mgr.seq_id + 1 \in Nat
        BY <1>2
    <2>2. /\ mgr' \in Managers /\ mgr'.pc = "send" /\ mgr'.part = "length"
          /\ mgr'.i = mgr.i /\ mgr'.seq_id = mgr.seq_id + 1
        BY <1>2, <1>4, <2>1 DEF Managers, ManagerPcs
    <2>3. Typed'
        BY <1>1, <2>2 DEF PeersIInv, Typed
    <2>4. Progress'
        BY <1>1, <1>2, <2>2 DEF PeersIInv, Progress
    <2>5. Awaited' = Awaited /\ Written' = Written
        BY <1>1, <1>2, <2>2 DEF Awaited, Written
    <2>6. Waits'
        BY <1>1, <2>2, <2>5 DEF PeersIInv, Waits
    <2>7. timed_out' \subseteq 1..mgr'.seq_id /\ mgr'.seq_id >= mgr.seq_id
        <3>1. 1..mgr.seq_id \subseteq 1..(mgr.seq_id + 1) /\ mgr.seq_id + 1 >= mgr.seq_id
            BY <1>2
        <3> QED
            BY <1>1, <2>2, <3>1 DEF PeersIInv
    <2> QED
        BY <1>1, <1>2, <2>2, <2>3, <2>4, <2>5, <2>6, <2>7, TurnIInv
<1> QED
    BY <1>3, <1>4 DEF Build

\* An error while reading.
LEMMA ErrorIInv == PeersIInv /\ ManagerError => PeersIInv'
<1> SUFFICES ASSUME PeersIInv, ManagerError PROVE PeersIInv'
    OBVIOUS
<1>1. /\ mgr.pc \in Reading
      /\ UNCHANGED <<script, eng, did, to_engine, to_manager, replies, timed_out>>
    BY DEF ManagerError, ManagerOnly
<1>2. ~ManagerGone /\ mgr.pc \notin {"send", "send_payload"}
    BY <1>1 DEF Reading, ManagerGone
<1>3. CASE mgr.pc # "drain"
    BY <1>1, <1>2, <1>3, FailIInv DEF ManagerError, Fails, Goto
<1>4. CASE mgr.pc = "drain"
    <2>1. mgr' = [mgr EXCEPT !.pc = "drain", !.part = "length"] /\ swallowed' = TRUE
        BY <1>4 DEF ManagerError, Fails, Goto
    <2>2. /\ mgr' \in Managers /\ mgr'.pc = mgr.pc /\ mgr'.part = "length"
          /\ mgr'.i = mgr.i /\ mgr'.seq_id = mgr.seq_id
        BY <1>4, <2>1 DEF PeersIInv, Typed, Managers, Parts
    <2>3. Typed'
        BY <1>1, <2>1, <2>2 DEF PeersIInv, Typed
    <2>4. Progress'
        BY <1>1, <2>2 DEF PeersIInv, Progress
    <2>5. Waits' /\ Written' = Written
        BY <1>1, <2>2 DEF PeersIInv, Waits, Awaited, Written
    <2>6. mgr'.seq_id >= mgr.seq_id /\ timed_out' \subseteq 1..mgr'.seq_id
        BY <1>1, <2>2, Fields DEF PeersIInv
    <2> QED
        BY <1>1, <1>2, <2>1, <2>2, <2>3, <2>4, <2>5, <2>6, TurnIInv
<1> QED
    BY <1>3, <1>4

\* A deadline passes.
LEMMA DeadlineIInv == PeersIInv /\ Deadline => PeersIInv'
<1> SUFFICES ASSUME PeersIInv, Deadline PROVE PeersIInv'
    OBVIOUS
<1>1. /\ mgr.pc \in Reading /\ mgr.part = "length"
      /\ UNCHANGED <<script, eng, did, to_engine, to_manager, replies, swallowed>>
    BY DEF Deadline, ManagerOnly, Expires
<1>2. /\ ~ManagerGone /\ mgr \in Managers /\ Typed /\ Progress
      /\ mgr.i \in Nat /\ mgr.seq_id \in Nat /\ mgr.seq_id <= mgr.i /\ mgr.i <= Len(script.entries)
    BY <1>1, Fields DEF PeersIInv, ManagerGone, Progress, Reading, Typed
<1>3. CASE mgr.pc \in {"drain", "observe"}
    <2>1. PICK to \in {"build", "done"} :
            /\ mgr' = [mgr EXCEPT !.pc = to]
            /\ to = "build" => mgr.pc = "drain"
            /\ to = "done" => mgr.pc = "observe"
        BY <1>3 DEF Deadline
    <2>2. timed_out' = timed_out
        BY <1>3 DEF Deadline
    <2>3. /\ mgr' \in Managers /\ mgr'.pc = to /\ mgr'.part = "length"
          /\ mgr'.i = mgr.i /\ mgr'.seq_id = mgr.seq_id
        BY <1>1, <1>2, <2>1 DEF Managers, ManagerPcs
    <2>4. Typed'
        BY <1>1, <2>2, <2>3 DEF PeersIInv, Typed
    <2>5. Progress'
        BY <1>1, <2>1, <2>3 DEF PeersIInv, Progress
    <2>6. Waits' /\ Written' = Written
        BY <1>1, <1>3, <2>1, <2>2, <2>3 DEF PeersIInv, Waits, Awaited, Written
    <2>7. mgr'.seq_id >= mgr.seq_id /\ timed_out' \subseteq 1..mgr'.seq_id
        BY <1>2, <2>2, <2>3 DEF PeersIInv
    <2> QED
        BY <1>1, <1>2, <2>2, <2>3, <2>4, <2>5, <2>6, <2>7, TurnIInv
<1>4. CASE mgr.pc \in {"wait", "response"}
    <2>1. mgr' = NextCommand(mgr)
        BY <1>4 DEF Deadline
    <2>2. /\ mgr' \in Managers /\ mgr'.seq_id = mgr.seq_id
          /\ \/ mgr'.pc = "failed" /\ mgr'.i = mgr.i /\ mgr'.part = mgr.part /\ script.mode = "none"
             \/ mgr'.pc = "observe" /\ mgr'.i = mgr.i /\ mgr'.i = Len(script.entries) /\ mgr'.part = "length"
             \/ /\ mgr'.pc \in {"drain", "build"} /\ mgr'.i = mgr.i + 1 /\ mgr'.i <= Len(script.entries)
                /\ mgr'.part = "length"
        BY <1>2, <1>4, <2>1, AfterWait
    <2>3. CASE script.mode = "none"
        <3>1. mgr.pc = "wait" /\ mgr' = [mgr EXCEPT !.pc = "failed"] /\ timed_out' = timed_out
            BY <1>2, <1>4, <2>1, <2>3 DEF Progress, NextCommand, Deadline
        <3>2. mgr' = [mgr EXCEPT !.pc = "failed", !.part = "length"]
            BY <1>1, <1>2, <3>1 DEF Managers
        <3> QED
            BY <1>1, <1>2, <3>1, <3>2, FailIInv
    <2>4. CASE script.mode # "none"
        <3>1. mgr.i = mgr.seq_id
            BY <1>2, <1>4 DEF Progress
        <3>2. mgr'.pc \in {"observe", "drain", "build"} /\ mgr'.part = "length"
            BY <2>2, <2>4
        <3>3. Progress'
            BY <1>1, <1>2, <2>2, <2>4, <3>1 DEF Progress, Reading
        <3>4. Awaited' = mgr.seq_id /\ Written' = Written
            BY <1>4, <2>2, <3>2 DEF Awaited, Written
        <3>5. CASE mgr.pc = "wait"
            <4>1. timed_out' = timed_out
                BY <3>5 DEF Deadline
            <4>2. Typed'
                BY <1>1, <2>2, <4>1 DEF PeersIInv, Typed
            <4>3. Waits'
                BY <1>1, <3>4, <3>5, <4>1 DEF PeersIInv, Waits, Awaited
            <4>4. mgr'.seq_id >= mgr.seq_id /\ timed_out' \subseteq 1..mgr'.seq_id
                BY <1>2, <2>2, <4>1 DEF PeersIInv
            <4> QED
                BY <1>1, <1>2, <2>2, <3>2, <3>3, <3>4, <4>1, <4>2, <4>3, <4>4, TurnIInv
        <3>6. CASE mgr.pc = "response"
            <4>1. timed_out' = timed_out \cup {mgr.seq_id}
                BY <3>6 DEF Deadline
            <4>2. /\ timed_out \subseteq 1..(mgr.seq_id - 1) /\ mgr.seq_id > 0
                  /\ Len(replies) + Cardinality(timed_out) = mgr.seq_id - 1
                BY <1>2, <3>6 DEF PeersIInv, Waits, Awaited, Progress
            <4>3. IsFiniteSet(timed_out) /\ mgr.seq_id \notin timed_out
                <5>1. mgr.seq_id - 1 \in Int /\ 1 \in Int
                    BY <1>2
                <5>3. IsFiniteSet(1..(mgr.seq_id - 1))
                    BY <5>1, FS_Interval
                <5>2. mgr.seq_id \notin 1..(mgr.seq_id - 1)
                    BY <1>2
                <5> QED
                    BY <4>2, <5>2, <5>3, FS_Subset
            <4>4. Cardinality(timed_out') = Cardinality(timed_out) + 1 /\ Cardinality(timed_out) \in Nat
                BY <4>1, <4>3, FS_AddElement, FS_CardinalityType
            <4>5. timed_out' \subseteq 1..mgr.seq_id /\ timed_out' \in SUBSET Nat
                <5>1. 1..(mgr.seq_id - 1) \subseteq 1..mgr.seq_id /\ mgr.seq_id \in 1..mgr.seq_id
                    BY <1>2, <4>2
                <5>2. 1..mgr.seq_id \subseteq Nat
                    BY <1>2
                <5> QED
                    BY <4>1, <4>2, <5>1, <5>2
            <4>6. Typed'
                BY <1>1, <2>2, <4>5 DEF PeersIInv, Typed
            <4>7. Len(replies) + Cardinality(timed_out') = mgr.seq_id
                BY <1>2, <4>2, <4>4, Fields
            <4>8. Waits'
                BY <1>1, <3>4, <4>5, <4>7 DEF Waits
            <4>9. mgr'.seq_id >= mgr.seq_id /\ timed_out' \subseteq 1..mgr'.seq_id
                BY <1>2, <2>2, <4>5
            <4> QED
                BY <1>1, <1>2, <2>2, <3>2, <3>3, <3>4, <4>1, <4>6, <4>8, <4>9, TurnIInv
        <3> QED
            BY <1>4, <3>5, <3>6
    <2> QED
        BY <2>3, <2>4
<1> QED
    BY <1>1, <1>3, <1>4 DEF Reading

\* The manager writes the next piece of its directive.
LEMMA SendPiece ==
    ASSUME PeersIInv, eng.pc # "exit", NEW part \in {"length", "payload"}, NEW to,
           \/ mgr.pc = "send" /\ part = "length" /\ to = "send_payload"
           \/ mgr.pc = "send_payload" /\ part = "payload" /\ to = "response",
           to_engine' = Append(to_engine, Piece(part, Directive(mgr.seq_id))),
           mgr' = [mgr EXCEPT !.pc = to, !.part = "length"],
           UNCHANGED <<script, eng, did, to_manager, replies, timed_out, swallowed>>
    PROVE  PeersIInv'
<1> DEFINE n == Len(to_engine)
           s == mgr.seq_id
           x == Piece(part, Directive(s))
<1>1. /\ mgr' \in Managers /\ mgr'.pc = to /\ mgr'.part = "length"
      /\ mgr'.i = mgr.i /\ mgr'.seq_id = s
    BY DEF PeersIInv, Typed, Managers, ManagerPcs, Parts, Reading
<1>2. /\ s \in Nat /\ s > 0 /\ mgr.i = s /\ s <= Len(script.entries) /\ Len(script.entries) \in Nat
      /\ script.entries \in Seq(Commands) /\ mgr.part = "length"
    BY Fields DEF PeersIInv, Progress, Reading
<1>3. s \in 1..Len(script.entries) /\ script.entries[s] \in Commands
    BY <1>2
<1>4. x \in [part : {"length", "payload"}, msg : Directives]
    BY <1>2, <1>3 DEF Piece, Directive, DirectiveMsg, Directives
<1>5. /\ to_engine' \in Seq([part : {"length", "payload"}, msg : Directives]) /\ Len(to_engine') = n + 1
      /\ n \in Nat /\ to_engine'[n + 1] = x /\ \A j \in 1..n : to_engine'[j] = to_engine[j]
    <2> DEFINE S == [part : {"length", "payload"}, msg : Directives]
    <2>1. to_engine \in Seq(S) /\ x \in S
        BY <1>4 DEF PeersIInv, Typed
    <2> HIDE DEF S, x
    <2>2. /\ to_engine' \in Seq(S) /\ Len(to_engine') = n + 1 /\ n \in Nat
          /\ to_engine'[n + 1] = x /\ \A j \in 1..n : to_engine'[j] = to_engine[j]
        <3>1. to_engine' = Append(to_engine, x)
            BY DEF x
        <3> QED
            BY <2>1, <3>1, AppendFacts
    <2> QED
        BY <2>2 DEF S
<1>6. Typed'
    BY <1>1, <1>5 DEF PeersIInv, Typed
<1>7. Progress'
    BY <1>1 DEF PeersIInv, Progress
<1>8. InSequence'
    <2>1. /\ Consumed' = Consumed /\ Consumed \in Nat /\ Written \in Nat
          /\ Consumed + n = Written
          /\ \A j \in 1..n : IsPiece(to_engine[j], Consumed + j)
        BY Numbers DEF Consumed, PeersIInv, InSequence
    <2>2. \A y, q : IsPiece(y, q)' <=> IsPiece(y, q)
        BY <1>1 DEF IsPiece, Directive
    <2>3. /\ mgr.pc = "send" => Written = 2 * s - 2 /\ Written' = 2 * s - 1
          /\ mgr.pc = "send_payload" => Written = 2 * s - 1 /\ Written' = 2 * s
        BY <1>1 DEF Written
    <2>4. Written' = Written + 1
        BY <1>2, <2>3
    <2>5. IsPiece(x, Consumed + (n + 1))
        <3>1. s \in 1..mgr.seq_id
            BY <1>2
        <3>2. \/ Consumed + (n + 1) = 2 * s - 1 /\ x = Piece("length", Directive(s))
              \/ Consumed + (n + 1) = 2 * s /\ x = Piece("payload", Directive(s))
            <4> HIDE DEF n
            <4>1. Consumed + (n + 1) = Written + 1
                BY <1>5, <2>1
            <4>2. CASE mgr.pc = "send"
                <5>1. x = Piece("length", Directive(s)) /\ Written + 1 = 2 * s - 1
                    BY <1>2, <2>3, <4>2
                <5> QED
                    BY <4>1, <5>1
            <4>3. CASE mgr.pc = "send_payload"
                <5>1. x = Piece("payload", Directive(s)) /\ Written + 1 = 2 * s
                    BY <1>2, <2>3, <4>3
                <5> QED
                    BY <4>1, <5>1
            <4> QED
                BY <4>2, <4>3
        <3> QED
            BY <3>1, <3>2 DEF IsPiece
    <2> HIDE DEF x, n
    <2>6. ASSUME NEW j \in 1..n + 1 PROVE IsPiece(to_engine'[j], Consumed + j)
        BY <1>5, <2>1, <2>5
    <2>7. Consumed + (n + 1) = Written'
        BY <1>5, <2>1, <2>4
    <2> QED
        BY <1>5, <2>1, <2>2, <2>6, <2>7 DEF InSequence
<1>9. Executed'
    BY <1>1 DEF PeersIInv, Executed
<1>10. ~ManagerGone /\ ~ManagerGone'
    BY <1>1 DEF ManagerGone
<1>11. Framed'
    <2>1. Alternating /\ Aligned /\ NotLost
        BY <1>10 DEF PeersIInv, Framed
    <2> QED
        BY <1>1, <1>2, <2>1 DEF Framed, Alternating, Aligned, NotLost
<1>12. Answering' /\ Answers'
    BY <1>10 DEF PeersIInv, Answering, Answers, AnswersInOrder, Answer
<1>13. Waits'
    <2>1. Awaited' = Awaited /\ mgr'.pc # "failed" /\ mgr.pc # "failed"
        BY <1>1 DEF Awaited
    <2> QED
        BY <2>1 DEF PeersIInv, Waits
<1>14. Taken' /\ timed_out' \subseteq 1..mgr'.seq_id
    BY <1>1 DEF PeersIInv, Taken
<1> QED
    BY <1>6, <1>7, <1>8, <1>9, <1>11, <1>12, <1>13, <1>14 DEF PeersIInv

LEMMA ManagerSendIInv == PeersIInv /\ ManagerSend => PeersIInv'
<1> SUFFICES ASSUME PeersIInv, ManagerSend PROVE PeersIInv'
    OBVIOUS
<1>1. /\ mgr.pc \in {"send", "send_payload"} /\ ~ManagerGone
      /\ UNCHANGED <<script, eng, did, to_manager, replies, timed_out, swallowed>>
    BY DEF ManagerSend, ManagerOnly, ManagerGone
<1>2. CASE EngineGone
    BY <1>1, <1>2, FailIInv DEF ManagerSend, Goto, EngineGone
<1>3. CASE ~EngineGone
    <2>1. DirectiveMsg(mgr.seq_id, <<script.entries[mgr.i]>>) = Directive(mgr.seq_id)
        BY <1>1 DEF PeersIInv, Progress, Directive
    <2>2. CASE mgr.pc = "send"
        <3>1. /\ to_engine' = Append(to_engine, Piece("length", Directive(mgr.seq_id)))
              /\ mgr' = [mgr EXCEPT !.pc = "send_payload", !.part = "length"]
            BY <1>3, <2>1, <2>2 DEF ManagerSend, Goto
        <3> QED
            BY <1>1, <1>3, <2>2, <3>1, SendPiece DEF EngineGone
    <2>3. CASE mgr.pc = "send_payload"
        <3>1. /\ to_engine' = Append(to_engine, Piece("payload", Directive(mgr.seq_id)))
              /\ mgr' = [mgr EXCEPT !.pc = "response", !.part = "length"]
            BY <1>3, <2>1, <2>3 DEF ManagerSend, Goto
        <3> QED
            BY <1>1, <1>3, <2>3, <3>1, SendPiece DEF EngineGone
    <2> QED
        BY <1>1, <2>2, <2>3
<1> QED
    BY <1>2, <1>3

\* The stream to the manager after a read.
LEMMA StreamShifts ==
    ASSUME PeersIInv, to_manager # <<>>, to_manager' = Tail(to_manager)
    PROVE  /\ to_manager' \in Seq([part : {"length", "payload"}, msg : Outputs])
           /\ Len(to_manager') = Len(to_manager) - 1 /\ Len(to_manager) \in Nat /\ Len(to_manager) > 0
           /\ Head(to_manager) = to_manager[1]
           /\ to_manager[1] \in [part : {"length", "payload"}, msg : Outputs]
           /\ \A j \in 1..Len(to_manager) - 1 :
                 j + 1 \in 1..Len(to_manager) /\ to_manager'[j] = to_manager[j + 1]
           /\ to_manager' = <<>> <=> Len(to_manager) = 1
<1> DEFINE S == [part : {"length", "payload"}, msg : Outputs]
<1>1. to_manager \in Seq(S)
    BY DEF PeersIInv, Typed
<1> HIDE DEF S
<1>2. /\ to_manager' \in Seq(S) /\ Len(to_manager') = Len(to_manager) - 1 /\ Len(to_manager) \in Nat
      /\ Len(to_manager) > 0 /\ Head(to_manager) = to_manager[1] /\ to_manager[1] \in S
      /\ \A j \in 1..Len(to_manager) - 1 : to_manager'[j] = to_manager[j + 1]
    BY <1>1, TailFacts
<1>3. \A j \in 1..Len(to_manager) - 1 : j + 1 \in 1..Len(to_manager)
    BY <1>2
<1>4. to_manager' = <<>> <=> Len(to_manager) = 1
    <2>1. to_manager' = <<>> <=> Len(to_manager') = 0
        BY <1>2
    <2> QED
        BY <1>2, <2>1
<1> QED
    BY <1>2, <1>3, <1>4 DEF S

\* A read keeps lengths and payloads apart, unless an error was swallowed before.
LEMMA ReadFramed ==
    ASSUME PeersIInv, ~ManagerGone, to_manager # <<>>, to_manager' = Tail(to_manager),
           eng' = eng, swallowed' = swallowed,
           mgr'.part = IF mgr.part = "payload" THEN "length" ELSE PartAfter(mgr.part, to_manager[1])
    PROVE  Framed'
<1>1. Alternating /\ Aligned /\ NotLost
    BY DEF PeersIInv, Framed
<1> DEFINE n == Len(to_manager)
<1>2. /\ Len(to_manager') = n - 1 /\ n \in Nat /\ n > 0
      /\ to_manager[1].part \in {"length", "payload"}
      /\ \A j \in 1..n - 1 : j + 1 \in 1..n /\ to_manager'[j] = to_manager[j + 1]
      /\ to_manager' = <<>> <=> n = 1
    BY StreamShifts
<1>3. mgr.part \in {"length", "payload", "garbage"}
    BY Fields DEF PeersIInv, Parts
<1>4. n # 1 => /\ 1 \in 1..n /\ 1 + 1 \in 1..n /\ 1 \in 1..n - 1 /\ n - 1 \in 1..n - 1
               /\ to_manager'[1] = to_manager[1 + 1] /\ to_manager'[n - 1] = to_manager[n]
    <2>1. n # 1 => 1 \in 1..n /\ 1 + 1 \in 1..n /\ 1 \in 1..n - 1 /\ n - 1 \in 1..n - 1 /\ (n - 1) + 1 = n
        BY <1>2
    <2> QED
        BY <1>2, <2>1
<1>5. n # 1 => to_manager'[1].part # to_manager[1].part
    BY <1>1, <1>4 DEF Alternating
<1>6. Alternating'
    <2>1. ASSUME NEW j \in 1..n - 1, j + 1 \in 1..n - 1
          PROVE  to_manager'[j].part # to_manager'[j + 1].part
        <3>1. j + 1 \in 1..n /\ (j + 1) + 1 \in 1..n
            BY <1>2, <2>1
        <3> QED
            BY <1>1, <1>2, <2>1, <3>1 DEF Alternating
    <2>2. n # 1 /\ eng.pc # "exit" =>
             (to_manager'[n - 1].part = "length" <=> eng.pc = "send_payload")
        BY <1>1, <1>4 DEF Alternating
    <2> QED
        BY <1>2, <2>1, <2>2 DEF Alternating
<1>7. n = 1 /\ eng.pc # "exit" => (to_manager[1].part = "length" <=> eng.pc = "send_payload")
    BY <1>1 DEF Alternating
<1>8. eng.pc \in EnginePcs
    BY Fields DEF PeersIInv
<1>9. to_manager'[1].part \in {"length", "payload"} \/ n = 1
    <2> DEFINE S == [part : {"length", "payload"}, msg : Outputs]
    <2>1. to_manager' \in Seq(S)
        BY StreamShifts
    <2>2. n # 1 => 1 \in 1..Len(to_manager')
        BY <1>2, <1>4
    <2>3. n # 1 => to_manager'[1] \in S
        <3> HIDE DEF S
        <3> QED
            BY <2>1, <2>2
    <2> QED
        BY <2>3
<1> HIDE DEF n
<1>10. Aligned' /\ NotLost'
    <2>1. CASE mgr.part = "payload"
        <3>1. to_manager[1].part = "payload" /\ mgr'.part = "length"
            BY <1>1, <2>1 DEF Aligned
        <3> QED
            BY <1>2, <1>5, <1>7, <1>9, <3>1 DEF Aligned, NotLost
    <2>2. CASE mgr.part = "length" /\ to_manager[1].part = "length"
        <3>1. mgr'.part = "payload"
            BY <2>2 DEF PartAfter
        <3> QED
            BY <1>2, <1>5, <1>7, <1>9, <2>2, <3>1 DEF Aligned, NotLost
    <2>3. CASE mgr.part = "length" /\ to_manager[1].part = "payload"
        <3>1. mgr'.part = "garbage" /\ swallowed
            BY <1>1, <2>3 DEF PartAfter, NotLost
        <3> QED
            BY <3>1 DEF Aligned, NotLost
    <2>4. CASE mgr.part = "garbage"
        <3>1. mgr'.part = "garbage" /\ swallowed
            BY <1>1, <2>4 DEF PartAfter, NotLost
        <3> QED
            BY <3>1 DEF Aligned, NotLost
    <2> QED
        BY <1>2, <1>3, <2>1, <2>2, <2>3, <2>4
<1> QED
    BY <1>6, <1>10 DEF Framed

\* The manager reads a piece that is not an answer it waits for.
LEMMA ReadOnly ==
    ASSUME PeersIInv, ManagerRead, ~(mgr.part = "payload" /\ Wanted(Head(to_manager).msg, mgr.pc))
    PROVE  PeersIInv'
<1>1. /\ mgr.pc \in Reading /\ to_manager # <<>> /\ to_manager' = Tail(to_manager)
      /\ UNCHANGED <<script, eng, did, to_engine, replies, timed_out, swallowed>>
    BY DEF ManagerRead, ManagerOnly
<1>2. Head(to_manager) = to_manager[1] /\ to_manager[1].part \in {"length", "payload"}
    BY <1>1, StreamShifts
<1>3. PICK part : /\ mgr' = [mgr EXCEPT !.part = part]
                  /\ part = IF mgr.part = "payload" THEN "length" ELSE PartAfter(mgr.part, to_manager[1])
    <2>1. mgr \in Managers
        BY DEF PeersIInv, Typed
    <2> QED
        BY <1>2, <2>1 DEF ManagerRead, Managers
<1>4. part \in Parts
    BY <1>2, <1>3, Fields DEF PeersIInv, Parts, PartAfter
<1>5. /\ mgr' \in Managers /\ mgr'.pc = mgr.pc /\ mgr'.i = mgr.i /\ mgr'.seq_id = mgr.seq_id
      /\ mgr'.part = part
    BY <1>3, <1>4 DEF PeersIInv, Typed, Managers
<1>6. Typed'
    BY <1>1, <1>5, StreamShifts DEF PeersIInv, Typed
<1>7. Progress' /\ Executed'
    BY <1>1, <1>5 DEF PeersIInv, Progress, Executed
<1>8. InSequence'
    BY <1>1, <1>5 DEF PeersIInv, InSequence, Consumed, Written, IsPiece, Directive
<1>9. ~ManagerGone /\ ~ManagerGone'
    BY <1>1, <1>5 DEF ManagerGone, Reading
<1>10. Framed'
    BY <1>1, <1>3, <1>5, <1>9, ReadFramed
<1>11. Answering'
    BY <1>1 DEF PeersIInv, Answering
<1>12. Answers'
    <2> DEFINE n == Len(to_manager)
    <2>1. AnswersInOrder
        BY <1>9 DEF PeersIInv, Answers
    <2>2. /\ Len(to_manager') = n - 1 /\ n \in Nat
          /\ \A j \in 1..n - 1 : j + 1 \in 1..n /\ to_manager'[j] = to_manager[j + 1]
        BY <1>1, StreamShifts
    <2> HIDE DEF n
    <2>3. \A j \in 1..n - 1 : Answer(j)' => Answer(j + 1)
        BY <2>2 DEF Answer
    <2>4. ASSUME NEW j \in 1..n - 1, NEW k \in 1..n - 1, j < k, Answer(j)', Answer(k)'
          PROVE  to_manager'[j].msg.seq_id < to_manager'[k].msg.seq_id
        <3>1. j + 1 \in 1..n /\ k + 1 \in 1..n /\ j + 1 < k + 1
            BY <2>2, <2>4
        <3> QED
            BY <2>1, <2>2, <2>3, <2>4, <3>1 DEF AnswersInOrder, n
    <2>5. ASSUME NEW j \in 1..n - 1, Answer(j)'
          PROVE  /\ to_manager'[j].msg.seq_id \in 1..Len(did)
                 /\ to_manager'[j].msg.results = did[to_manager'[j].msg.seq_id].results
                 /\ \A m \in 1..Len(replies) : replies[m].seq_id < to_manager'[j].msg.seq_id
                 /\ eng.pc \in {"send", "send_payload"} /\ eng.out.type = "Response"
                       => to_manager'[j].msg.seq_id < eng.out.seq_id
        <3>1. j + 1 \in 1..n /\ Answer(j + 1) /\ to_manager'[j] = to_manager[j + 1]
            BY <2>2, <2>3, <2>5
        <3> QED
            BY <2>1, <3>1 DEF AnswersInOrder, n
    <2> QED
        BY <1>1, <2>1, <2>2, <2>4, <2>5 DEF Answers, AnswersInOrder
<1>13. Waits'
    BY <1>1, <1>5 DEF PeersIInv, Waits, Awaited
<1>14. Taken' /\ timed_out' \subseteq 1..mgr'.seq_id
    BY <1>1, <1>5 DEF PeersIInv, Taken
<1> QED
    BY <1>6, <1>7, <1>8, <1>10, <1>11, <1>12, <1>13, <1>14 DEF PeersIInv

\* The manager takes a response for the answer it waits for.
LEMMA ReadAnswer ==
    ASSUME PeersIInv, ManagerRead, mgr.part = "payload", Wanted(Head(to_manager).msg, mgr.pc)
    PROVE  PeersIInv'
<1> DEFINE msg == to_manager[1].msg
           s == mgr.seq_id
           l == Len(replies)
           C == Cardinality(timed_out)
           entry == [expected |-> s, seq_id |-> msg.seq_id, results |-> msg.results,
                     valid |-> validate_response(s, msg, 1)]
<1>1. /\ mgr.pc = "response" /\ to_manager # <<>> /\ to_manager' = Tail(to_manager)
      /\ UNCHANGED <<script, eng, did, to_engine, timed_out, swallowed>>
    BY DEF ManagerRead, ManagerOnly, Wanted
<1>2. ~ManagerGone
    BY <1>1 DEF ManagerGone
<1>3. /\ Head(to_manager) = to_manager[1] /\ 1 \in 1..Len(to_manager)
      /\ to_manager[1].part = "payload" /\ msg \in Outputs /\ msg.type = "Response"
    <2>1. Head(to_manager) = to_manager[1] /\ 1 \in 1..Len(to_manager) /\ msg \in Outputs
        BY <1>1, StreamShifts
    <2>2. to_manager[1].part = "payload"
        BY <1>1, <1>2 DEF PeersIInv, Framed, Aligned
    <2> QED
        BY <2>1, <2>2 DEF Wanted
<1>4. Answer(1) /\ msg.seq_id \in Nat /\ msg.results \in Results
    BY <1>3 DEF Answer, Outputs, Responses, HeartbeatMsg
<1>5. /\ replies' = Append(replies, entry) /\ mgr' = NextCommand(mgr)
    BY <1>3 DEF ManagerRead
<1>6. /\ s \in Nat /\ l \in Nat /\ Len(did) \in Nat /\ Len(did) <= s /\ mgr.i \in Nat /\ s > 0 /\ mgr.i = s
      /\ Len(script.entries) \in Nat
    BY <1>1, Fields DEF PeersIInv, Executed, Progress
<1>7. /\ mgr' \in Managers /\ mgr'.seq_id = s /\ mgr'.part = "length"
      /\ \/ mgr'.pc = "observe" /\ mgr'.i = mgr.i /\ mgr'.i = Len(script.entries)
         \/ mgr'.pc \in {"drain", "build"} /\ mgr'.i = mgr.i + 1 /\ mgr'.i <= Len(script.entries)
    <2>1. Typed /\ Progress /\ script.mode # "none"
        BY <1>1 DEF PeersIInv, Progress
    <2> QED
        BY <1>1, <1>5, <2>1, AfterWait
<1>8. /\ AnswersInOrder /\ msg.seq_id \in 1..Len(did)
      /\ msg.results = did[msg.seq_id].results
      /\ \A m \in 1..l : replies[m].seq_id < msg.seq_id
    BY <1>2, <1>3, <1>4 DEF PeersIInv, Answers, AnswersInOrder
<1>9. entry.valid \in BOOLEAN /\ (entry.valid <=> entry.seq_id = entry.expected)
    <2>1. Len(msg.results) = 1
        BY <1>8 DEF PeersIInv, Executed
    <2>2. validate_response(s, msg, 1) <=> msg.seq_id = s
        BY <2>1 DEF validate_response
    <2>3. validate_response(s, msg, 1) \in BOOLEAN
        BY DEF validate_response
    <2> QED
        BY <2>2, <2>3
<1>10. /\ replies' \in Seq([expected : Nat, seq_id : Nat, results : Results, valid : BOOLEAN])
       /\ Len(replies') = l + 1 /\ replies'[l + 1] = entry /\ \A m \in 1..l : replies'[m] = replies[m]
    <2> DEFINE S == [expected : Nat, seq_id : Nat, results : Results, valid : BOOLEAN]
    <2>1. entry \in S
        BY <1>4, <1>6, <1>9
    <2>2. replies \in Seq(S)
        BY DEF PeersIInv, Typed
    <2> HIDE DEF S, entry
    <2>3. /\ replies' \in Seq(S) /\ Len(replies') = l + 1
          /\ replies'[l + 1] = entry /\ \A m \in 1..l : replies'[m] = replies[m]
        BY <1>5, <2>1, <2>2, AppendFacts
    <2> QED
        BY <2>3 DEF S
<1>11. /\ timed_out \subseteq 1..(s - 1) /\ l + C = s - 1 /\ C \in Nat
    <2>1. timed_out \subseteq 1..(s - 1) /\ l + C = s - 1
        BY <1>1 DEF PeersIInv, Waits, Awaited
    <2>2. s - 1 \in Int /\ 1 \in Int
        BY <1>6
    <2>3. IsFiniteSet(1..(s - 1))
        BY <2>2, FS_Interval
    <2>4. C \in Nat
        BY <2>1, <2>3, FS_Subset, FS_CardinalityType
    <2> QED
        BY <2>1, <2>4
<1>12. entry.expected = s /\ entry.seq_id = msg.seq_id /\ entry.results = msg.results
    OBVIOUS
<1> HIDE DEF entry
<1>13. Typed'
    BY <1>1, <1>7, <1>10, StreamShifts DEF PeersIInv, Typed
<1>14. Progress'
    BY <1>1, <1>6, <1>7 DEF PeersIInv, Progress, Reading
<1>15. Executed'
    BY <1>1, <1>7 DEF PeersIInv, Executed
<1>16. InSequence'
    <2>1. Written' = Written
        BY <1>1, <1>7 DEF Written
    <2> QED
        BY <1>1, <1>7, <2>1 DEF PeersIInv, InSequence, Consumed, IsPiece, Directive
<1>17. Framed'
    BY <1>1, <1>2, <1>7, ReadFramed
<1>18. Answering'
    BY <1>1 DEF PeersIInv, Answering
<1>19. Answers'
    <2> DEFINE n == Len(to_manager)
    <2>1. /\ Len(to_manager') = n - 1 /\ n \in Nat
          /\ \A j \in 1..n - 1 : j + 1 \in 1..n /\ to_manager'[j] = to_manager[j + 1]
        BY <1>1, StreamShifts
    <2> HIDE DEF n
    <2>2. \A j \in 1..n - 1 : Answer(j)' => Answer(j + 1)
        BY <2>1 DEF Answer
    <2>3. ASSUME NEW j \in 1..n - 1, NEW k \in 1..n - 1, j < k, Answer(j)', Answer(k)'
          PROVE  to_manager'[j].msg.seq_id < to_manager'[k].msg.seq_id
        <3>1. j + 1 \in 1..n /\ k + 1 \in 1..n /\ j + 1 < k + 1
            BY <2>1, <2>3
        <3> QED
            BY <1>8, <2>1, <2>2, <2>3, <3>1 DEF AnswersInOrder, n
    <2>4. \A m \in 1..l + 1 : m \in 1..l \/ m = l + 1
        BY <1>6
    <2>5. ASSUME NEW j \in 1..n - 1, Answer(j)'
          PROVE  /\ to_manager'[j].msg.seq_id \in 1..Len(did)
                 /\ to_manager'[j].msg.results = did[to_manager'[j].msg.seq_id].results
                 /\ \A m \in 1..l + 1 : replies'[m].seq_id < to_manager'[j].msg.seq_id
                 /\ eng.pc \in {"send", "send_payload"} /\ eng.out.type = "Response"
                       => to_manager'[j].msg.seq_id < eng.out.seq_id
        <3>1. j + 1 \in 1..n /\ 1 < j + 1 /\ Answer(j + 1) /\ to_manager'[j] = to_manager[j + 1]
            BY <2>1, <2>2, <2>5
        <3>2. msg.seq_id < to_manager[j + 1].msg.seq_id
            BY <1>3, <1>4, <1>8, <3>1 DEF AnswersInOrder, n
        <3>3. /\ \A m \in 1..l : replies[m].seq_id < to_manager[j + 1].msg.seq_id
              /\ to_manager[j + 1].msg.seq_id \in 1..Len(did)
              /\ to_manager[j + 1].msg.results = did[to_manager[j + 1].msg.seq_id].results
              /\ eng.pc \in {"send", "send_payload"} /\ eng.out.type = "Response"
                       => to_manager[j + 1].msg.seq_id < eng.out.seq_id
            BY <1>8, <3>1 DEF AnswersInOrder, n
        <3> QED
            BY <1>10, <1>12, <2>4, <3>1, <3>2, <3>3
    <2>6. eng.pc \in {"send", "send_payload"} /\ eng.out.type = "Response" =>
             \A m \in 1..l + 1 : replies'[m].seq_id < eng.out.seq_id
        <3>1. eng.pc \in {"send", "send_payload"} /\ eng.out.type = "Response" =>
                 msg.seq_id < eng.out.seq_id /\ \A m \in 1..l : replies[m].seq_id < eng.out.seq_id
            BY <1>3, <1>4, <1>8 DEF AnswersInOrder
        <3> QED
            BY <1>10, <1>12, <2>4, <3>1
    <2> HIDE DEF l
    <2> QED
        BY <1>1, <1>10, <2>1, <2>3, <2>5, <2>6 DEF Answers, AnswersInOrder
<1>20. timed_out' \subseteq 1..mgr'.seq_id
    BY <1>1, <1>7 DEF PeersIInv
<1>21. Waits'
    <2>1. Awaited' = s
        BY <1>7 DEF Awaited
    <2>2. (l + 1) + C = s
        BY <1>6, <1>11
    <2> QED
        BY <1>1, <1>7, <1>10, <1>20, <2>1, <2>2 DEF Waits
<1>22. Taken'
    <2>1. l + 1 <= msg.seq_id
        <3>1. CASE l = 0
            BY <1>8, <3>1
        <3>2. CASE l # 0
            <4>1. l \in 1..l /\ replies[l].seq_id \in l..Len(did)
                <5>1. l \in 1..l
                    BY <1>6, <3>2
                <5> QED
                    BY <5>1 DEF PeersIInv, Taken
            <4> QED
                BY <1>6, <1>8, <4>1
        <3> QED
            BY <3>1, <3>2
    <2>2. msg.seq_id \in (l + 1)..Len(did) /\ msg.seq_id <= s
        BY <1>6, <1>8, <2>1
    <2>3. s = (l + 1) + Cardinality(timed_out \cap 1..(s - 1))
        <3>1. timed_out \cap 1..(s - 1) = timed_out
            BY <1>11
        <3>2. s = (l + 1) + C
            BY <1>6, <1>11
        <3> QED
            BY <3>1, <3>2
    <2> HIDE DEF msg, l, s
    <2>4. ASSUME NEW m \in 1..l + 1, NEW k \in 1..l + 1, m < k
          PROVE  replies'[m].seq_id < replies'[k].seq_id
        <3>1. m \in 1..l
            BY <1>6, <2>4
        <3>2. CASE k \in 1..l
            BY <1>10, <2>4, <3>1, <3>2 DEF PeersIInv, Taken, l
        <3>3. CASE k = l + 1
            BY <1>8, <1>10, <1>12, <3>1, <3>3
        <3> QED
            BY <1>6, <3>2, <3>3
    <2>5. ASSUME NEW m \in 1..l
          PROVE  /\ replies[m].seq_id \in m..Len(did)
                 /\ replies[m].results = did[replies[m].seq_id].results
                 /\ replies[m].valid <=> replies[m].seq_id = replies[m].expected
                 /\ replies[m].seq_id <= replies[m].expected /\ replies[m].expected <= s
                 /\ replies[m].expected = m + Cardinality(timed_out \cap 1..(replies[m].expected - 1))
        BY DEF PeersIInv, Taken, l, s
    <2>6. \A m \in 1..l + 1 : m \in 1..l \/ m = l + 1
        BY <1>6
    <2>7. ASSUME NEW m \in 1..l + 1
          PROVE  /\ replies'[m].seq_id \in m..Len(did)
                 /\ replies'[m].results = did[replies'[m].seq_id].results
                 /\ replies'[m].valid <=> replies'[m].seq_id = replies'[m].expected
                 /\ replies'[m].seq_id <= replies'[m].expected /\ replies'[m].expected <= s
                 /\ replies'[m].expected = m + Cardinality(timed_out \cap 1..(replies'[m].expected - 1))
        <3>1. CASE m \in 1..l
            BY <1>10, <2>5, <3>1
        <3>2. CASE m = l + 1
            <4>1. /\ entry.seq_id \in (l + 1)..Len(did)
                  /\ entry.results = did[entry.seq_id].results
                  /\ entry.seq_id <= entry.expected /\ entry.expected <= s
                  /\ entry.expected = (l + 1) + Cardinality(timed_out \cap 1..(entry.expected - 1))
                BY <1>6, <1>8, <1>12, <2>2, <2>3
            <4> QED
                BY <1>9, <1>10, <3>2, <4>1
        <3> QED
            BY <2>6, <3>1, <3>2
    <2> QED
        BY <1>1, <1>7, <1>10, <2>4, <2>7 DEF Taken
<1> QED
    BY <1>13, <1>14, <1>15, <1>16, <1>17, <1>18, <1>19, <1>20, <1>21, <1>22 DEF PeersIInv

-----------------------------------------------------------------------------
(* The theorems.                                                           *)

LEMMA PeersNextIInv == PeersIInv /\ [PeersNext]_peerVars => PeersIInv'
<1> SUFFICES ASSUME PeersIInv, [PeersNext]_peerVars PROVE PeersIInv'
    OBVIOUS
<1>1. CASE Connect \/ BeatDue \/ Poll \/ TimeUp \/ Kill \/ EngineTimeout
    BY <1>1, EngineIdles
<1>2. CASE EngineSend
    <2>1. eng.pc = "send" \/ eng.pc = "send_payload"
        BY <1>2 DEF EngineSend
    <2>2. CASE ManagerGone
        BY <1>2, <2>2, SendFails
    <2>3. CASE ~ManagerGone /\ eng.pc = "send"
        BY <1>2, <2>3, SendLength
    <2>4. CASE ~ManagerGone /\ eng.pc = "send_payload"
        BY <1>2, <2>4, SendPayload
    <2> QED
        BY <2>1, <2>2, <2>3, <2>4
<1>3. CASE EngineRead
    <2>1. eng.part \in {"length", "payload"}
        BY Fields DEF PeersIInv
    <2> QED
        BY <1>3, <2>1, ReadLength, ReadPayload
<1>4. CASE Listen \/ Build \/ ManagerError \/ Deadline
    BY <1>4, ListenIInv, BuildIInv, ErrorIInv, DeadlineIInv
<1>5. CASE ManagerSend
    BY <1>5, ManagerSendIInv
<1>6. CASE ManagerRead
    BY <1>6, ReadOnly, ReadAnswer
<1>7. CASE UNCHANGED peerVars
    <2>1. (Typed' <=> Typed) /\ (Progress' <=> Progress) /\ (Waits' <=> Waits) /\ (Taken' <=> Taken)
        BY <1>7 DEF peerVars, Typed, Progress, Waits, Awaited, Taken
    <2>2. (InSequence' <=> InSequence) /\ (Executed' <=> Executed)
        BY <1>7 DEF peerVars, InSequence, Consumed, Written, IsPiece, Directive, Executed
    <2>3. Framed' <=> Framed
        BY <1>7 DEF peerVars, Framed, ManagerGone, Alternating, Aligned, NotLost
    <2>4. (Answering' <=> Answering) /\ (Answers' <=> Answers)
        BY <1>7 DEF peerVars, Answering, Answers, ManagerGone, AnswersInOrder, Answer
    <2>5. timed_out' \subseteq 1..mgr'.seq_id
        BY <1>7 DEF peerVars, PeersIInv
    <2> QED
        BY <2>1, <2>2, <2>3, <2>4, <2>5 DEF PeersIInv
<1> QED
    BY <1>1, <1>2, <1>3, <1>4, <1>5, <1>6, <1>7 DEF PeersNext, EngineStep, ManagerStep

LEMMA PeersInvariant == PeersSpec => []PeersIInv
<1>1. PeersInit /\ [][PeersNext]_peerVars => []PeersIInv
    BY PeersInitIInv, PeersNextIInv, PTL
<1> QED
    BY <1>1, PTL DEF PeersSpec

(***************************************************************************)
(* For every script, however timeouts, heartbeats and the death of the     *)
(* engine fall between the writes: the mock engine executes the            *)
(* directives of the mock manager once and in order, never takes a payload *)
(* for a length, and the manager does so only after an error it swallowed. *)
(***************************************************************************)
THEOREM PeersAlwaysInStep == PeersSpec => []InStep
<1>1. PeersIInv => InStep
    <2> SUFFICES ASSUME PeersIInv PROVE InStep
        OBVIOUS
    <2>1. PeersTypeOK
        <3>1. eng.kv \in 1..100 /\ eng.beats \in 0..MaxHeartbeats
            BY DEF PeersIInv, Typed, Engines
        <3>2. mgr.i \in 0..Len(script.entries) /\ mgr.seq_id \in 0..mgr.i
            BY Fields DEF PeersIInv, Progress
        <3> QED
            BY <3>1, <3>2, Fields DEF PeersIInv, PeersTypeOK, ManagerPcs, EnginePcs, Parts
    <2>2. ExecutedInOrder
        <3>1. DOMAIN did = 1..Len(did)
            BY DEF PeersIInv, Typed
        <3> QED
            BY <3>1 DEF PeersIInv, Executed, ExecutedInOrder
    <2>3. eng.part # "garbage"
        BY Fields DEF PeersIInv
    <2>4. mgr.part = "garbage" => swallowed
        BY DEF PeersIInv, Framed, NotLost, ManagerGone, Progress, Reading
    <2> QED
        BY <2>1, <2>2, <2>3, <2>4 DEF InStep
<1> QED
    BY <1>1, PeersInvariant, PTL

(***************************************************************************)
(* For every script: a mismatch the mock manager reports (INV-023) is a    *)
(* right answer of the engine that came late, behind by no more than the   *)
(* waits that timed out before, and no answer is taken twice.              *)
(***************************************************************************)
THEOREM MismatchAlwaysLate == PeersSpec => []MismatchIsLate
<1>1. PeersIInv => MismatchIsLate
    <2> SUFFICES ASSUME PeersIInv PROVE MismatchIsLate
        OBVIOUS
    <2>1. DOMAIN replies = 1..Len(replies) /\ DOMAIN did = 1..Len(did) /\ Len(did) \in Nat
        BY DEF PeersIInv, Typed
    <2>2. ASSUME NEW m \in 1..Len(replies)
          PROVE  /\ \E k \in 1..Len(did) :
                       did[k] = [seq_id |-> replies[m].seq_id, results |-> replies[m].results]
                 /\ replies[m].valid <=> replies[m].seq_id = replies[m].expected
                 /\ replies[m].expected - replies[m].seq_id
                       \in 0..Cardinality(timed_out \cap 1..(replies[m].expected - 1))
        <3> DEFINE q == replies[m].seq_id
                   e == replies[m].expected
                   T == timed_out \cap 1..(e - 1)
                   S == [seq_id : Nat, results : Results]
        <3>1. /\ q \in m..Len(did) /\ replies[m].results = did[q].results
              /\ q <= e /\ e <= mgr.seq_id /\ e = m + Cardinality(T)
            BY DEF PeersIInv, Taken
        <3>2. q \in 1..Len(did)
            BY <2>1, <3>1
        <3>3. did[q] \in S
            <4>1. did \in Seq(S)
                BY DEF PeersIInv, Typed
            <4> HIDE DEF S, q
            <4> QED
                BY <3>2, <4>1
        <3>4. did[q] = [seq_id |-> q, results |-> replies[m].results]
            <4>1. did[q].seq_id = q
                BY <3>2 DEF PeersIInv, Executed
            <4> HIDE DEF q
            <4> QED
                BY <3>1, <3>3, <4>1
        <3>5. Cardinality(T) \in Nat
            <4>1. timed_out \subseteq 1..mgr.seq_id /\ mgr.seq_id \in Nat
                BY Fields DEF PeersIInv
            <4>2. 1 \in Int /\ mgr.seq_id \in Int
                BY <4>1
            <4>3. IsFiniteSet(1..mgr.seq_id)
                BY <4>2, FS_Interval
            <4>4. T \subseteq 1..mgr.seq_id
                BY <4>1
            <4> QED
                BY <4>3, <4>4, FS_Subset, FS_CardinalityType
        <3>6. e - q \in 0..Cardinality(T)
            <4> HIDE DEF q, e, T
            <4> QED
                BY <3>1, <3>2, <3>5
        <3>7. replies[m].valid <=> replies[m].seq_id = replies[m].expected
            BY DEF PeersIInv, Taken
        <3> QED
            BY <3>2, <3>4, <3>6, <3>7
    <2>3. \A m, k \in 1..Len(replies) : m < k => replies[m].seq_id < replies[k].seq_id
        BY DEF PeersIInv, Taken
    <2> QED
        BY <2>1, <2>2, <2>3 DEF MismatchIsLate
<1> QED
    BY <1>1, PeersInvariant, PTL

(***************************************************************************)
(* For every script: a run of the mock manager that ends without a timeout *)
(* has had every command executed and answered under its own seq_id.       *)
(***************************************************************************)
THEOREM CleanRunAlwaysConclusive == PeersSpec => []CleanRunConclusive
<1>1. PeersIInv => CleanRunConclusive
    <2> SUFFICES ASSUME PeersIInv, mgr.pc = "done", timed_out = {}
                 PROVE  /\ [i \in DOMAIN replies |-> replies[i].seq_id] = [i \in DOMAIN script.entries |-> i]
                        /\ \A i \in DOMAIN replies : replies[i].valid
                        /\ Len(did) = Len(script.entries)
        BY DEF CleanRunConclusive
    <2> DEFINE N == Len(script.entries)
    <2>1. DOMAIN replies = 1..Len(replies) /\ DOMAIN script.entries = 1..N
        BY Fields DEF PeersIInv, Typed
    <2>2. /\ N \in Nat /\ Len(did) \in Nat /\ Len(replies) \in Nat
          /\ mgr.seq_id = N /\ Len(did) <= N
        BY Fields DEF PeersIInv, Progress, Executed
    <2>3. Cardinality({}) = 0 /\ \A S : timed_out \cap S = {}
        BY FS_EmptySet
    <2>4. Len(replies) = N
        BY <2>2, <2>3 DEF PeersIInv, Waits, Awaited
    <2>5. ASSUME NEW m \in 1..N
          PROVE  replies[m].seq_id = m /\ replies[m].seq_id <= Len(did) /\ replies[m].valid
        <3>1. /\ replies[m].seq_id \in m..Len(did) /\ replies[m].seq_id <= replies[m].expected
              /\ replies[m].expected = m + Cardinality(timed_out \cap 1..(replies[m].expected - 1))
              /\ replies[m].valid <=> replies[m].seq_id = replies[m].expected
            BY <2>4 DEF PeersIInv, Taken
        <3>2. replies[m].expected = m + 0
            BY <2>3, <3>1
        <3>3. replies[m].seq_id = m /\ replies[m].seq_id <= Len(did) /\ replies[m].expected = m
            BY <2>2, <3>1, <3>2
        <3> QED
            BY <3>1, <3>3
    <2>6. Len(did) = N
        <3>1. CASE N = 0
            BY <2>2, <3>1
        <3>2. CASE N # 0
            <4>1. N \in 1..N
                BY <2>2, <3>2
            <4> QED
                BY <2>2, <2>5, <4>1
        <3> QED
            BY <3>1, <3>2
    <2> QED
        BY <2>1, <2>4, <2>5, <2>6
<1> QED
    BY <1>1, PeersInvariant, PTL

=============================================================================
