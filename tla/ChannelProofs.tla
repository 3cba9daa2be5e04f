--------------------------- MODULE ChannelProofs ---------------------------
(***************************************************************************)
(* The engine channel keeps the engine's frames in order, for every number *)
(* of connections and frames and every inbox capacity, over both           *)
(* transports, with or without faults of the operating system.             *)
(***************************************************************************)
EXTENDS Channel, SequenceTheorems, FiniteSetTheorems, TLAPS

\* Frames of c taken or waiting in the inbox.
Delivered(c) == IF conn = c THEN Len(taken[c]) + Len(inbox) ELSE Len(taken[c])

\* The reader of c has yet to start, or reads for the current connection.
Pending(c) == reader[c] = "none" \/ (conn = c /\ reader[c] = "running")

\* What the engine sent and no one has read continues what was delivered; a frame that
\* does not parse is the last one.
StreamContinues(c) ==
    \A i \in 1..Len(toManager[c]) :
        \/ toManager[c][i] = <<c, Delivered(c) + i>> /\ Delivered(c) + i <= frames[c]
        \/ toManager[c][i] = <<c, 0>> /\ i = Len(toManager[c]) /\ c \in garbled

\* Nothing is missing between what was delivered and what was sent.
StreamComplete(c) ==
    IF c \in garbled
    THEN /\ Len(toManager[c]) > 0
         /\ toManager[c][Len(toManager[c])] = <<c, 0>>
         /\ Delivered(c) + Len(toManager[c]) = frames[c] + 1
    ELSE Delivered(c) + Len(toManager[c]) = frames[c]

\* The order of the frames of c, from the policy back to the engine.
Ordered(c) ==
    /\ \A i \in 1..Len(taken[c]) : taken[c][i] = <<c, i>>
    /\ conn = c => \A i \in 1..Len(inbox) : inbox[i] = <<c, Len(taken[c]) + i>>
    /\ Delivered(c) <= frames[c]
    /\ Pending(c) => StreamContinues(c)
    /\ Pending(c) /\ (peer[c] = "open" \/ transport = "unix") => StreamComplete(c)

\* A reader leaves the current connection only when there is nothing left to deliver.
LeftDrained(c) ==
    conn = c /\ reader[c] = "exited"
        => /\ toManager[c] = <<>>
           /\ c \in garbled \/ peer[c] = "closed"
           /\ transport = "unix" => Delivered(c) = frames[c]

\* A connection is queued once, before it has a reader.
Queued ==
    /\ \A i \in 1..Len(backlog) : reader[backlog[i]] = "none" /\ peer[backlog[i]] # "unused"
    /\ \A i, j \in 1..Len(backlog) : backlog[i] = backlog[j] => i = j

Lifecycle ==
    /\ state = "Connected" <=> conn # NoConn
    /\ conn # NoConn => reader[conn] # "none"
    /\ conn = NoConn => inbox = <<>>
    /\ \A c \in Conns : reader[c] = "none" => taken[c] = <<>>
    /\ \A c \in Conns : peer[c] = "unused" => reader[c] = "none"
    /\ \A c \in Conns : peer[c] = "unused" => toManager[c] = <<>> /\ frames[c] = 0 /\ c \notin garbled

ChanIInv ==
    /\ ChanTypeOK
    /\ Queued
    /\ Lifecycle
    /\ \A c \in Conns : Ordered(c) /\ LeftDrained(c)

-----------------------------------------------------------------------------
\* The numbers the invariant speaks of.
LEMMA Counts ==
    ASSUME ChanTypeOK, NEW c \in Conns
    PROVE  /\ c \in Nat \ {0} /\ c # NoConn
           /\ taken[c] \in Seq(Frame) /\ Len(taken[c]) \in Nat
           /\ toManager[c] \in Seq(Frame) /\ Len(toManager[c]) \in Nat
           /\ inbox \in Seq(Frame) /\ Len(inbox) \in Nat
           /\ frames[c] \in 0..MaxFrames /\ frames[c] \in Nat /\ MaxFrames \in Nat
           /\ Delivered(c) \in Nat
           /\ Len(taken[c]) <= Delivered(c)
<1>1. c \in Nat \ {0} /\ c # NoConn /\ MaxFrames \in Nat
    BY ChannelAssumption DEF Conns, NoConn
<1>2. taken[c] \in Seq(Frame) /\ toManager[c] \in Seq(Frame) /\ inbox \in Seq(Frame)
    BY DEF ChanTypeOK
<1>3. Len(taken[c]) \in Nat /\ Len(toManager[c]) \in Nat /\ Len(inbox) \in Nat
    BY <1>2
<1>4. frames[c] \in 0..MaxFrames /\ frames[c] \in Nat
    BY <1>1 DEF ChanTypeOK
<1>5. Delivered(c) \in Nat /\ Len(taken[c]) <= Delivered(c)
    BY <1>3 DEF Delivered
<1> QED
    BY <1>1, <1>2, <1>3, <1>4, <1>5

\* A step that leaves connection d alone leaves its part of the invariant alone.
LEMMA OthersKept ==
    ASSUME NEW d \in Conns, Ordered(d), LeftDrained(d),
           taken'[d] = taken[d], frames'[d] = frames[d], toManager'[d] = toManager[d],
           reader'[d] = reader[d], peer'[d] = peer[d], transport' = transport,
           conn' = d <=> conn = d, conn = d => inbox' = inbox,
           d \in garbled' <=> d \in garbled
    PROVE  Ordered(d)' /\ LeftDrained(d)'
<1>1. Delivered(d)' = Delivered(d)
    BY DEF Delivered
<1>2. Pending(d)' <=> Pending(d)
    BY DEF Pending
<1>3. StreamContinues(d) => StreamContinues(d)'
    BY <1>1 DEF StreamContinues
<1>4. StreamComplete(d) => StreamComplete(d)'
    BY <1>1 DEF StreamComplete
<1> QED
    BY <1>1, <1>2, <1>3, <1>4 DEF Ordered, LeftDrained

\* Once its connection is given up a reader delivers nothing; what was taken stays.
LEMMA GivenUp ==
    ASSUME ChanTypeOK, NEW d \in Conns, Ordered(d),
           taken'[d] = taken[d], frames'[d] = frames[d],
           reader'[d] # "none", conn' # d
    PROVE  Ordered(d)' /\ LeftDrained(d)'
<1>1. Delivered(d)' = Len(taken[d]) /\ ~Pending(d)'
    BY Counts DEF Delivered, Pending
<1>2. Len(taken[d]) <= frames[d]
    BY Counts DEF Ordered
<1> QED
    BY <1>1, <1>2 DEF Ordered, LeftDrained

\* The engine sends on a connection only while the bound leaves room for a frame.
LEMMA RoomForFrame ==
    ASSUME ChanTypeOK, NEW c \in Conns, Cardinality(Sent) < MaxFrames
    PROVE  frames[c] + 1 \in 0..MaxFrames /\ <<c, frames[c] + 1>> \in Frame
<1> DEFINE n == frames[c]
           S == 1..n
<1>1. n \in 0..MaxFrames /\ n \in Nat /\ MaxFrames \in Nat /\ MaxConns \in Nat
    BY Counts, ChannelAssumption
<1>2. IsFiniteSet(S) /\ Cardinality(S) = n
    <2> HIDE DEF n
    <2>1. IsFiniteSet(1..n) /\ Cardinality(1..n) = IF 1 > n THEN 0 ELSE n - 1 + 1
        BY <1>1, FS_Interval
    <2> QED
        BY <1>1, <2>1
<1>3. IsFiniteSet(Conns) /\ IsFiniteSet(0..MaxFrames)
    BY <1>1, FS_Interval DEF Conns
<1>4. IsFiniteSet(Frame)
    BY <1>3, FS_Product DEF Frame
<1>5. IsFiniteSet(Sent)
    BY <1>4, FS_Subset DEF Sent
<1> DEFINE f == [i \in S |-> <<c, i>>]
<1>6. f \in [S -> Sent]
    <2> SUFFICES ASSUME NEW i \in S PROVE <<c, i>> \in Sent
        OBVIOUS
    <2>1. i \in 0..MaxFrames /\ i # 0 /\ i <= n
        BY <1>1
    <2> QED
        BY <2>1 DEF Sent, Frame, Parses
<1>7. f \in Injection(S, Sent)
    <2>1. \A i, j \in S : f[i] = f[j] => i = j
        OBVIOUS
    <2> HIDE DEF f, S
    <2> QED
        BY <1>6, <2>1 DEF Injection, IsInjective
<1> HIDE DEF f, S, n
<1>8. Cardinality(S) <= Cardinality(Sent)
    BY <1>5, <1>7, FS_Injection
<1>9. Cardinality(Sent) \in Nat
    BY <1>5, FS_CardinalityType
<1>10. n + 1 \in 0..MaxFrames
    BY <1>1, <1>2, <1>8, <1>9
<1> QED
    BY <1>10 DEF n, Frame

-----------------------------------------------------------------------------
(* The steps of the engine process.                                        *)

\* A connection joins the queue with nothing sent on it.
LEMMA ConnectIInv ==
    ASSUME ChanIInv, NEW c \in Conns, EngineConnect(c)
    PROVE  ChanIInv'
<1>1. /\ peer[c] = "unused" /\ peer' = [peer EXCEPT ![c] = "open"]
      /\ backlog' = Append(backlog, c)
      /\ UNCHANGED <<transport, phase, state, conn, inbox, reader, toManager, toEngine,
                     garbled, frames, taken>>
    BY DEF EngineConnect, mainVars, histVars
<1>2. backlog \in Seq(Conns) /\ peer \in [Conns -> {"unused", "open", "closed"}]
    BY DEF ChanIInv, ChanTypeOK
<1>3. ChanTypeOK'
    BY <1>1, <1>2 DEF ChanIInv, ChanTypeOK
<1>4. /\ Len(backlog') = Len(backlog) + 1 /\ Len(backlog) \in Nat
      /\ backlog'[Len(backlog) + 1] = c
      /\ \A i \in 1..Len(backlog) : backlog'[i] = backlog[i]
      /\ \A d \in Conns : d # c => peer'[d] = peer[d]
      /\ peer'[c] = "open"
    BY <1>1, <1>2
<1>5. \A i \in 1..Len(backlog) : backlog[i] # c /\ backlog[i] \in Conns
    BY <1>1, <1>2 DEF ChanIInv, Queued
<1>6. reader[c] = "none" /\ toManager[c] = <<>> /\ c \notin garbled /\ taken[c] = <<>>
    BY <1>1 DEF ChanIInv, Lifecycle
<1>7. Queued'
    BY <1>1, <1>4, <1>5, <1>6 DEF ChanIInv, Queued
<1>8. Lifecycle'
    BY <1>1, <1>4, <1>6 DEF ChanIInv, Lifecycle
<1>9. ASSUME NEW d \in Conns, d # c PROVE Ordered(d)' /\ LeftDrained(d)'
    BY <1>1, <1>4, <1>9, OthersKept DEF ChanIInv
<1>10. Ordered(c)' /\ LeftDrained(c)'
    <2>1. Delivered(c)' = 0 /\ Delivered(c) = 0 /\ conn # c
        <3>1. conn # c
            BY <1>6, Counts DEF ChanIInv, Lifecycle
        <3> QED
            BY <1>1, <1>6, <3>1 DEF Delivered
    <2>2. Pending(c) /\ Ordered(c)
        BY <1>6 DEF Pending, ChanIInv
    <2>3. frames[c] = 0
        BY <1>1 DEF ChanIInv, Lifecycle
    <2> QED
        BY <1>1, <1>6, <2>1, <2>2, <2>3, Counts DEF Ordered, LeftDrained, StreamContinues, StreamComplete
<1> QED
    BY <1>3, <1>7, <1>8, <1>9, <1>10 DEF ChanIInv

\* A frame continues the stream: nothing was sent in between, nothing is lost before it.
LEMMA SendIInv ==
    ASSUME ChanIInv, NEW c \in Conns, EngineSend(c)
    PROVE  ChanIInv'
<1> DEFINE x == <<c, frames[c] + 1>>
<1>1. /\ peer[c] = "open" /\ c \notin garbled
      /\ frames' = [frames EXCEPT ![c] = @ + 1]
      /\ toManager' = [toManager EXCEPT ![c] = Append(@, x)]
      /\ UNCHANGED <<transport, phase, state, conn, inbox, backlog, reader, peer, toEngine,
                     garbled, taken>>
    BY DEF EngineSend, mainVars
<1>2. frames[c] + 1 \in 0..MaxFrames /\ x \in Frame
    BY RoomForFrame DEF ChanIInv, EngineSend
<1>3. toManager \in [Conns -> Seq(Frame)] /\ frames \in [Conns -> 0..MaxFrames]
    BY DEF ChanIInv, ChanTypeOK
<1>4. /\ frames'[c] = frames[c] + 1 /\ toManager'[c] = Append(toManager[c], x)
      /\ \A d \in Conns : d # c => frames'[d] = frames[d] /\ toManager'[d] = toManager[d]
    BY <1>1, <1>3
<1>5. ChanTypeOK'
    <2>1. Append(toManager[c], x) \in Seq(Frame)
        BY <1>2, <1>3
    <2>2. toManager' \in [Conns -> Seq(Frame)] /\ frames' \in [Conns -> 0..MaxFrames]
        BY <1>1, <1>2, <1>3, <2>1
    <2> QED
        BY <1>1, <2>2 DEF ChanIInv, ChanTypeOK
<1>6. Queued'
    BY <1>1 DEF ChanIInv, Queued
<1>7. Lifecycle'
    BY <1>1, <1>4 DEF ChanIInv, Lifecycle
<1>8. ASSUME NEW d \in Conns, d # c PROVE Ordered(d)' /\ LeftDrained(d)'
    BY <1>1, <1>4, <1>8, OthersKept DEF ChanIInv
<1>9. Ordered(c)' /\ LeftDrained(c)'
    <2> HIDE DEF x
    <2>1. /\ toManager[c] \in Seq(Frame) /\ Len(toManager[c]) \in Nat /\ frames[c] \in Nat
          /\ Delivered(c) \in Nat
        BY Counts DEF ChanIInv
    <2>2. /\ Len(toManager'[c]) = Len(toManager[c]) + 1
          /\ toManager'[c][Len(toManager[c]) + 1] = x
          /\ \A i \in 1..Len(toManager[c]) : toManager'[c][i] = toManager[c][i]
        BY <1>2, <1>4, <2>1
    <2>3. Delivered(c)' = Delivered(c) /\ (Pending(c)' <=> Pending(c))
        BY <1>1 DEF Delivered, Pending
    <2>4. Ordered(c) /\ LeftDrained(c)
        BY DEF ChanIInv
    <2>5. CASE Pending(c)
        <3>1. Delivered(c) + Len(toManager[c]) = frames[c] /\ StreamContinues(c)
            BY <1>1, <2>4, <2>5 DEF Ordered, StreamComplete
        <3>2. StreamComplete(c)'
            BY <1>1, <1>4, <2>1, <2>2, <2>3, <3>1 DEF StreamComplete
        <3>3. StreamContinues(c)'
            <4> SUFFICES ASSUME NEW i \in 1..Len(toManager'[c])
                         PROVE  /\ toManager'[c][i] = <<c, Delivered(c) + i>>
                                /\ Delivered(c) + i <= frames'[c]
                BY <2>3 DEF StreamContinues
            <4>1. CASE i = Len(toManager[c]) + 1
                <5>1. Delivered(c) + i = frames[c] + 1
                    BY <2>1, <3>1, <4>1
                <5>2. toManager'[c][i] = x
                    BY <2>2, <4>1
                <5>3. Delivered(c) + i <= frames'[c]
                    BY <1>4, <2>1, <5>1
                <5> QED
                    BY <5>1, <5>2, <5>3 DEF x
            <4>2. CASE i \in 1..Len(toManager[c])
                BY <1>1, <1>4, <2>1, <2>2, <3>1, <4>2 DEF StreamContinues
            <4> QED
                BY <2>1, <2>2, <4>1, <4>2
        <3>4. Delivered(c)' <= frames'[c]
            BY <1>4, <2>1, <2>3, <2>4 DEF Ordered
        <3>5. LeftDrained(c)'
            BY <1>1, <2>5, <2>4 DEF Pending, LeftDrained
        <3> QED
            BY <1>1, <2>4, <3>2, <3>3, <3>4, <3>5 DEF Ordered
    <2>6. CASE ~Pending(c)
        <3>1. Delivered(c)' <= frames'[c]
            BY <1>4, <2>1, <2>3, <2>4 DEF Ordered
        <3>2. ~(conn = c /\ reader[c] = "exited")
            BY <1>1, <2>4 DEF LeftDrained
        <3> QED
            BY <1>1, <2>3, <2>4, <2>6, <3>1, <3>2 DEF Ordered, LeftDrained
    <2> QED
        BY <2>5, <2>6
<1> QED
    BY <1>5, <1>6, <1>7, <1>8, <1>9 DEF ChanIInv

\* A frame that does not parse ends the stream.
LEMMA SendGarbledIInv ==
    ASSUME ChanIInv, NEW c \in Conns, EngineSendGarbled(c)
    PROVE  ChanIInv'
<1> DEFINE x == <<c, 0>>
<1>1. /\ peer[c] = "open" /\ c \notin garbled
      /\ garbled' = garbled \cup {c}
      /\ toManager' = [toManager EXCEPT ![c] = Append(@, x)]
      /\ UNCHANGED <<transport, phase, state, conn, inbox, backlog, reader, peer, toEngine,
                     frames, taken>>
    BY DEF EngineSendGarbled, mainVars
<1>2. x \in Frame
    BY ChannelAssumption DEF Frame
<1>3. toManager \in [Conns -> Seq(Frame)]
    BY DEF ChanIInv, ChanTypeOK
<1>4. /\ toManager'[c] = Append(toManager[c], x) /\ c \in garbled'
      /\ \A d \in Conns : d # c => /\ toManager'[d] = toManager[d]
                                   /\ d \in garbled' <=> d \in garbled
    BY <1>1, <1>3
<1>5. ChanTypeOK'
    <2>1. Append(toManager[c], x) \in Seq(Frame)
        BY <1>2, <1>3
    <2>2. toManager' \in [Conns -> Seq(Frame)] /\ garbled' \in SUBSET Conns
        BY <1>1, <1>3, <2>1 DEF ChanIInv, ChanTypeOK
    <2> QED
        BY <1>1, <2>2 DEF ChanIInv, ChanTypeOK
<1>6. Queued'
    BY <1>1 DEF ChanIInv, Queued
<1>7. Lifecycle'
    BY <1>1, <1>4 DEF ChanIInv, Lifecycle
<1>8. ASSUME NEW d \in Conns, d # c PROVE Ordered(d)' /\ LeftDrained(d)'
    BY <1>1, <1>4, <1>8, OthersKept DEF ChanIInv
<1>9. Ordered(c)' /\ LeftDrained(c)'
    <2> HIDE DEF x
    <2>1. /\ toManager[c] \in Seq(Frame) /\ Len(toManager[c]) \in Nat /\ frames[c] \in Nat
          /\ Delivered(c) \in Nat
        BY Counts DEF ChanIInv
    <2>2. /\ Len(toManager'[c]) = Len(toManager[c]) + 1
          /\ toManager'[c][Len(toManager[c]) + 1] = x
          /\ \A i \in 1..Len(toManager[c]) : toManager'[c][i] = toManager[c][i]
        BY <1>2, <1>4, <2>1
    <2>3. Delivered(c)' = Delivered(c) /\ (Pending(c)' <=> Pending(c))
        BY <1>1 DEF Delivered, Pending
    <2>4. Ordered(c) /\ LeftDrained(c)
        BY DEF ChanIInv
    <2>5. CASE Pending(c)
        <3>1. Delivered(c) + Len(toManager[c]) = frames[c] /\ StreamContinues(c)
            BY <1>1, <2>4, <2>5 DEF Ordered, StreamComplete
        <3>2. StreamComplete(c)'
            <4>1. Len(toManager'[c]) > 0 /\ toManager'[c][Len(toManager'[c])] = <<c, 0>>
                BY <2>1, <2>2 DEF x
            <4>2. Delivered(c)' + Len(toManager'[c]) = frames'[c] + 1
                BY <1>1, <2>1, <2>2, <2>3, <3>1
            <4> QED
                BY <1>4, <4>1, <4>2 DEF StreamComplete
        <3>3. StreamContinues(c)'
            <4> SUFFICES ASSUME NEW i \in 1..Len(toManager'[c])
                         PROVE  \/ /\ toManager'[c][i] = <<c, Delivered(c) + i>>
                                   /\ Delivered(c) + i <= frames'[c]
                                \/ /\ toManager'[c][i] = <<c, 0>>
                                   /\ i = Len(toManager'[c]) /\ c \in garbled'
                BY <2>3 DEF StreamContinues
            <4>1. CASE i = Len(toManager[c]) + 1
                BY <1>4, <2>2, <4>1 DEF x
            <4>2. CASE i \in 1..Len(toManager[c])
                BY <1>1, <2>2, <3>1, <4>2 DEF StreamContinues
            <4> QED
                BY <2>1, <2>2, <4>1, <4>2
        <3>4. LeftDrained(c)'
            BY <1>1, <2>5, <2>4 DEF Pending, LeftDrained
        <3> QED
            BY <1>1, <2>3, <2>4, <3>2, <3>3, <3>4 DEF Ordered
    <2>6. CASE ~Pending(c)
        <3>1. ~(conn = c /\ reader[c] = "exited")
            BY <1>1, <2>4 DEF LeftDrained
        <3> QED
            BY <1>1, <2>3, <2>4, <2>6, <3>1 DEF Ordered, LeftDrained
    <2> QED
        BY <2>5, <2>6
<1> QED
    BY <1>5, <1>6, <1>7, <1>8, <1>9 DEF ChanIInv

\* The engine's end closes: what was not read by the manager stays readable over a unix
\* socket and may be gone over TCP.
LEMMA CloseIInv ==
    ASSUME ChanIInv, NEW c \in Conns, EngineClose(c)
    PROVE  ChanIInv'
<1>1. /\ peer[c] = "open" /\ peer' = [peer EXCEPT ![c] = "closed"]
      /\ toEngine' = [toEngine EXCEPT ![c] = <<>>]
      /\ \/ toManager' = toManager
         \/ transport = "tcp" /\ toManager' = [toManager EXCEPT ![c] = <<>>]
      /\ UNCHANGED <<transport, phase, state, conn, inbox, backlog, reader, garbled, frames, taken>>
    BY DEF EngineClose, mainVars, histVars
<1>2. /\ toManager \in [Conns -> Seq(Frame)] /\ toEngine \in [Conns -> Seq(Directives)]
      /\ peer \in [Conns -> {"unused", "open", "closed"}]
    BY DEF ChanIInv, ChanTypeOK
<1>3. /\ peer'[c] = "closed"
      /\ \A d \in Conns : d # c => toManager'[d] = toManager[d] /\ peer'[d] = peer[d]
      /\ toManager'[c] = toManager[c] \/ (transport = "tcp" /\ toManager'[c] = <<>>)
    BY <1>1, <1>2
<1>4. ChanTypeOK'
    <2>1. /\ toManager' \in [Conns -> Seq(Frame)] /\ toEngine' \in [Conns -> Seq(Directives)]
          /\ peer' \in [Conns -> {"unused", "open", "closed"}]
        <3>1. <<>> \in Seq(Frame) /\ <<>> \in Seq(Directives)
            OBVIOUS
        <3>2. toManager' \in [Conns -> Seq(Frame)]
            BY <1>1, <1>2, <3>1
        <3>3. toEngine' \in [Conns -> Seq(Directives)]
            BY <1>1, <1>2, <3>1
        <3>4. peer' \in [Conns -> {"unused", "open", "closed"}]
            BY <1>1, <1>2
        <3> QED
            BY <3>2, <3>3, <3>4
    <2> QED
        BY <1>1, <2>1 DEF ChanIInv, ChanTypeOK
<1>5. Queued'
    <2>1. backlog \in Seq(Conns)
        BY DEF ChanIInv, ChanTypeOK
    <2>2. \A i \in 1..Len(backlog) : backlog[i] \in Conns
        BY <2>1
    <2> QED
        BY <1>1, <1>3, <2>2 DEF ChanIInv, Queued
<1>6. Lifecycle'
    BY <1>1, <1>3 DEF ChanIInv, Lifecycle
<1>7. ASSUME NEW d \in Conns, d # c PROVE Ordered(d)' /\ LeftDrained(d)'
    BY <1>1, <1>3, <1>7, OthersKept DEF ChanIInv
<1>8. Ordered(c)' /\ LeftDrained(c)'
    <2>1. Delivered(c)' = Delivered(c) /\ (Pending(c)' <=> Pending(c))
        BY <1>1 DEF Delivered, Pending
    <2>2. Ordered(c) /\ LeftDrained(c)
        BY DEF ChanIInv
    <2>3. CASE toManager'[c] = toManager[c]
        <3>1. (StreamContinues(c) => StreamContinues(c)') /\ (StreamComplete(c) => StreamComplete(c)')
            BY <1>1, <2>1, <2>3 DEF StreamContinues, StreamComplete
        <3> QED
            BY <1>1, <1>3, <2>1, <2>2, <2>3, <3>1 DEF Ordered, LeftDrained
    <2>4. CASE transport = "tcp" /\ toManager'[c] = <<>>
        <3>1. StreamContinues(c)'
            BY <2>4 DEF StreamContinues
        <3> QED
            BY <1>1, <1>3, <2>1, <2>2, <2>4, <3>1 DEF Ordered, LeftDrained
    <2> QED
        BY <1>3, <2>3, <2>4
<1> QED
    BY <1>4, <1>5, <1>6, <1>7, <1>8 DEF ChanIInv

\* Directives on their way to the engine, and the phase, play no part in the order.
LEMMA QuietIInv ==
    ASSUME ChanIInv, ChanTypeOK',
           UNCHANGED <<transport, state, conn, inbox, backlog, reader, peer, toManager,
                       garbled, frames, taken>>
    PROVE  ChanIInv'
<1>1. Queued'
    BY DEF ChanIInv, Queued
<1>2. Lifecycle'
    BY DEF ChanIInv, Lifecycle
<1>3. ASSUME NEW d \in Conns PROVE Ordered(d)' /\ LeftDrained(d)'
    BY OthersKept DEF ChanIInv
<1> QED
    BY <1>1, <1>2, <1>3 DEF ChanIInv

\* The engine reads a directive.
LEMMA ReadIInv ==
    ASSUME ChanIInv, NEW c \in Conns, EngineRead(c)
    PROVE  ChanIInv'
<1>1. /\ toEngine[c] # <<>> /\ toEngine' = [toEngine EXCEPT ![c] = Tail(@)]
      /\ UNCHANGED <<transport, phase, state, conn, inbox, backlog, reader, peer, toManager,
                     garbled, frames, taken>>
    BY DEF EngineRead, mainVars, histVars
<1>2. toEngine \in [Conns -> Seq(Directives)] /\ Tail(toEngine[c]) \in Seq(Directives)
    BY <1>1 DEF ChanIInv, ChanTypeOK
<1>3. toEngine' \in [Conns -> Seq(Directives)]
    BY <1>1, <1>2
<1>4. ChanTypeOK'
    BY <1>1, <1>3 DEF ChanIInv, ChanTypeOK
<1> QED
    BY <1>1, <1>4, QuietIInv

-----------------------------------------------------------------------------
(* The steps of the reader threads.                                        *)

\* The next frame of the stream moves to the end of the inbox.
LEMMA DeliversIInv ==
    ASSUME ChanIInv, NEW c \in Conns, ReaderDelivers(c)
    PROVE  ChanIInv'
<1> DEFINE h == Head(toManager[c])
<1>1. /\ reader[c] = "running" /\ toManager[c] # <<>> /\ Parses(h)
      /\ conn = c /\ Len(inbox) < InboxCap
      /\ inbox' = Append(inbox, h)
      /\ toManager' = [toManager EXCEPT ![c] = Tail(@)]
      /\ UNCHANGED <<transport, phase, state, conn, backlog, reader, peer, toEngine,
                     garbled, frames, taken>>
    BY DEF ReaderDelivers, InboxHasRoom, histVars
<1>2. /\ toManager \in [Conns -> Seq(Frame)] /\ toManager[c] \in Seq(Frame)
      /\ inbox \in Seq(Frame) /\ Len(inbox) \in Nat /\ InboxCap \in Nat
      /\ Len(taken[c]) \in Nat /\ Len(toManager[c]) \in Nat /\ frames[c] \in Nat
    BY ChannelAssumption, Counts DEF ChanIInv, ChanTypeOK
<1>3. /\ h = toManager[c][1] /\ h \in Frame /\ Len(toManager[c]) >= 1
      /\ Tail(toManager[c]) \in Seq(Frame)
      /\ Len(Tail(toManager[c])) = Len(toManager[c]) - 1
      /\ \A i \in 1..Len(toManager[c]) - 1 : Tail(toManager[c])[i] = toManager[c][i + 1]
    BY <1>1, <1>2
<1>4. /\ toManager'[c] = Tail(toManager[c])
      /\ \A d \in Conns : d # c => toManager'[d] = toManager[d]
    BY <1>1, <1>2
<1> HIDE DEF h
<1>5. /\ Append(inbox, h) \in Seq(Frame) /\ Len(inbox') = Len(inbox) + 1
      /\ inbox'[Len(inbox) + 1] = h
      /\ \A i \in 1..Len(inbox) : inbox'[i] = inbox[i]
    BY <1>1, <1>2, <1>3
<1>6. ChanTypeOK'
    <2>1. toManager' \in [Conns -> Seq(Frame)]
        BY <1>1, <1>2, <1>3
    <2>2. inbox' \in Seq(Frame) /\ Len(inbox') <= InboxCap
        BY <1>1, <1>2, <1>5
    <2> QED
        BY <1>1, <2>1, <2>2 DEF ChanIInv, ChanTypeOK
<1>7. Queued'
    BY <1>1 DEF ChanIInv, Queued
<1>8. Lifecycle'
    <2>1. c # NoConn /\ peer[c] # "unused"
        BY <1>1, Counts DEF ChanIInv, Lifecycle
    <2> QED
        BY <1>1, <1>4, <2>1 DEF ChanIInv, Lifecycle
<1>9. ASSUME NEW d \in Conns, d # c PROVE Ordered(d)' /\ LeftDrained(d)'
    BY <1>1, <1>4, <1>9, OthersKept DEF ChanIInv
<1>10. Ordered(c)' /\ LeftDrained(c)'
    <2>1. Pending(c) /\ Pending(c)' /\ Ordered(c) /\ StreamContinues(c)
        BY <1>1 DEF Pending, ChanIInv, Ordered
    <2>a. Len(taken[c]) + (Len(inbox) + 1) = Len(taken[c]) + Len(inbox) + 1
        <3>1. \A a, b \in Nat : a + (b + 1) = a + b + 1
            OBVIOUS
        <3> QED
            BY <1>2, <3>1
    <2>0. Delivered(c) = Len(taken[c]) + Len(inbox)
        BY <1>1 DEF Delivered
    <2>2. Delivered(c)' = Delivered(c) + 1 /\ Delivered(c) \in Nat
        <3>1. Delivered(c)' = Len(taken[c]) + Len(inbox')
            BY <1>1 DEF Delivered
        <3>2. Len(inbox') = Len(inbox) + 1
            BY <1>5
        <3>3. Delivered(c) \in Nat
            BY Counts DEF ChanIInv
        <3> QED
            BY <2>0, <2>a, <3>1, <3>2, <3>3, Zenon
    <2>3. h = <<c, Delivered(c) + 1>> /\ Delivered(c) + 1 <= frames[c]
        <3>1. 1 \in 1..Len(toManager[c])
            BY <1>2, <1>3
        <3>2. toManager[c][1] # <<c, 0>>
            BY <1>1, <1>3 DEF Parses
        <3> QED
            BY <1>3, <2>1, <3>1, <3>2 DEF StreamContinues
    <2>4. \A i \in 1..Len(inbox') : inbox'[i] = <<c, Len(taken[c]) + i>>
        <3> SUFFICES ASSUME NEW i \in 1..Len(inbox') PROVE inbox'[i] = <<c, Len(taken[c]) + i>>
            OBVIOUS
        <3>1. CASE i = Len(inbox) + 1
            <4>1. Len(taken[c]) + i = Delivered(c) + 1
                BY <2>0, <2>a, <3>1, Zenon
            <4> QED
                BY <1>5, <2>3, <3>1, <4>1
        <3>2. CASE i \in 1..Len(inbox)
            BY <1>1, <1>5, <2>1, <3>2 DEF Ordered
        <3> QED
            BY <1>2, <1>5, <3>1, <3>2
    <2>5. StreamContinues(c)'
        <3> SUFFICES ASSUME NEW i \in 1..Len(toManager'[c])
                     PROVE  \/ /\ toManager'[c][i] = <<c, Delivered(c) + 1 + i>>
                               /\ Delivered(c) + 1 + i <= frames[c]
                            \/ /\ toManager'[c][i] = <<c, 0>>
                               /\ i = Len(toManager'[c]) /\ c \in garbled
            BY <1>1, <2>2 DEF StreamContinues
        <3>0. /\ Len(toManager'[c]) = Len(toManager[c]) - 1
              /\ Len(toManager[c]) \in Nat
            BY <1>2, <1>3, <1>4
        <3>1. i \in Nat /\ i \in 1..Len(toManager[c]) - 1 /\ i + 1 \in 1..Len(toManager[c])
            BY <3>0
        <3>2. toManager'[c][i] = toManager[c][i + 1]
            BY <1>3, <1>4, <3>1
        <3>3. \/ /\ toManager[c][i + 1] = <<c, Delivered(c) + (i + 1)>>
                 /\ Delivered(c) + (i + 1) <= frames[c]
              \/ /\ toManager[c][i + 1] = <<c, 0>>
                 /\ i + 1 = Len(toManager[c]) /\ c \in garbled
            BY <2>1, <3>1 DEF StreamContinues
        <3>4. Delivered(c) + (i + 1) = Delivered(c) + 1 + i
            BY <2>2, <3>1
        <3>5. i + 1 = Len(toManager[c]) => i = Len(toManager'[c])
            BY <3>0, <3>1
        <3> QED
            BY <3>2, <3>3, <3>4, <3>5
    <2>6. StreamComplete(c) => StreamComplete(c)'
        <3>1. Delivered(c)' + Len(toManager'[c]) = Delivered(c) + Len(toManager[c])
            BY <1>2, <1>3, <1>4, <2>2
        <3>2. CASE c \notin garbled
            BY <1>1, <3>1, <3>2 DEF StreamComplete
        <3>3. CASE c \in garbled
            <4> SUFFICES ASSUME StreamComplete(c) PROVE StreamComplete(c)'
                OBVIOUS
            <4>1. toManager[c][Len(toManager[c])] = <<c, 0>>
                BY <3>3 DEF StreamComplete
            <4>2. toManager[c][1] # <<c, 0>>
                BY <1>1, <1>3 DEF Parses
            <4>3. Len(toManager[c]) # 1
                BY <4>1, <4>2
            <4>4. Len(toManager'[c]) > 0
                BY <1>2, <1>3, <1>4, <4>3
            <4>5. toManager'[c][Len(toManager'[c])] = <<c, 0>>
                <5>1. Len(toManager'[c]) \in 1..Len(toManager[c]) - 1
                    BY <1>2, <1>3, <1>4, <4>4
                <5>2. toManager'[c][Len(toManager'[c])] = toManager[c][Len(toManager'[c]) + 1]
                    BY <1>3, <1>4, <5>1
                <5>3. Len(toManager'[c]) + 1 = Len(toManager[c])
                    BY <1>2, <1>3, <1>4
                <5> QED
                    BY <4>1, <5>2, <5>3
            <4> QED
                BY <1>1, <3>1, <3>3, <4>4, <4>5 DEF StreamComplete
        <3> QED
            BY <3>2, <3>3
    <2> QED
        BY <1>1, <2>1, <2>2, <2>3, <2>4, <2>5, <2>6 DEF Ordered, LeftDrained
<1> QED
    BY <1>6, <1>7, <1>8, <1>9, <1>10 DEF ChanIInv

\* A reader leaves the current connection behind a frame that does not parse or at the
\* end of the stream; in both cases the rest of the stream has been delivered.
LEMMA StopsIInv ==
    ASSUME ChanIInv, NEW c \in Conns, ReaderStops(c)
    PROVE  ChanIInv'
<1>1. /\ reader[c] = "running"
      /\ \/ toManager[c] # <<>> /\ (conn # c \/ ~Parses(Head(toManager[c])))
         \/ toManager[c] = <<>> /\ peer[c] = "closed"
      /\ reader' = [reader EXCEPT ![c] = "exited"]
      /\ toManager' = [toManager EXCEPT ![c] = <<>>]
      /\ UNCHANGED <<transport, phase, state, conn, inbox, backlog, peer, toEngine,
                     garbled, frames, taken>>
    BY DEF ReaderStops, StreamEnded, ReaderExits, mainVars, histVars
<1>2. /\ toManager \in [Conns -> Seq(Frame)] /\ reader \in [Conns -> {"none", "running", "exited"}]
      /\ toManager[c] \in Seq(Frame) /\ Len(toManager[c]) \in Nat /\ frames[c] \in Nat
      /\ Delivered(c) \in Nat
    BY Counts DEF ChanIInv, ChanTypeOK
<1>3. /\ toManager'[c] = <<>> /\ reader'[c] = "exited"
      /\ \A d \in Conns : d # c => toManager'[d] = toManager[d] /\ reader'[d] = reader[d]
    BY <1>1, <1>2
<1>4. ChanTypeOK'
    <2>1. <<>> \in Seq(Frame)
        OBVIOUS
    <2>2. toManager' \in [Conns -> Seq(Frame)] /\ reader' \in [Conns -> {"none", "running", "exited"}]
        BY <1>1, <1>2, <2>1
    <2> QED
        BY <1>1, <2>2 DEF ChanIInv, ChanTypeOK
<1>5. Queued'
    <2>1. \A i \in 1..Len(backlog) : backlog[i] \in Conns /\ backlog[i] # c
        <3>1. backlog \in Seq(Conns)
            BY DEF ChanIInv, ChanTypeOK
        <3> QED
            BY <1>1, <3>1 DEF ChanIInv, Queued
    <2> QED
        BY <1>1, <1>3, <2>1 DEF ChanIInv, Queued
<1>6. Lifecycle'
    <2>1. conn = NoConn \/ conn \in Conns
        BY DEF ChanIInv, ChanTypeOK
    <2> QED
        BY <1>1, <1>3, <2>1 DEF ChanIInv, Lifecycle
<1>7. ASSUME NEW d \in Conns, d # c PROVE Ordered(d)' /\ LeftDrained(d)'
    BY <1>1, <1>3, <1>7, OthersKept DEF ChanIInv
<1>8. CASE conn # c
    <2>1. Ordered(c)' /\ LeftDrained(c)'
        BY <1>1, <1>3, <1>8, GivenUp DEF ChanIInv
    <2> QED
        BY <1>4, <1>5, <1>6, <1>7, <2>1 DEF ChanIInv
<1>9. CASE conn = c
    <2>1. Pending(c) /\ ~Pending(c)' /\ Ordered(c) /\ Delivered(c)' = Delivered(c)
        BY <1>1, <1>3, <1>9 DEF Pending, ChanIInv, Delivered
    <2>2. StreamContinues(c)
        BY <2>1 DEF Ordered
    <2>3. (c \in garbled \/ peer[c] = "closed") /\ (StreamComplete(c) => Delivered(c) = frames[c])
        <3>1. CASE toManager[c] # <<>>
            <4>1. /\ ~Parses(toManager[c][1]) /\ 1 \in 1..Len(toManager[c])
                BY <1>1, <1>2, <1>9, <3>1
            <4>2. toManager[c][1] # <<c, Delivered(c) + 1>>
                BY <1>2, <4>1 DEF Parses
            <4>3. Len(toManager[c]) = 1 /\ c \in garbled
                BY <2>2, <4>1, <4>2 DEF StreamContinues
            <4> QED
                BY <1>2, <4>3 DEF StreamComplete
        <3>2. CASE toManager[c] = <<>>
            BY <1>1, <1>2, <3>2 DEF StreamComplete
        <3> QED
            BY <3>1, <3>2
    <2>4. transport = "unix" => Delivered(c) = frames[c]
        BY <2>1, <2>3 DEF Ordered
    <2>5. Ordered(c)' /\ LeftDrained(c)'
        BY <1>1, <1>3, <2>1, <2>3, <2>4 DEF Ordered, LeftDrained
    <2> QED
        BY <1>4, <1>5, <1>6, <1>7, <2>5 DEF ChanIInv
<1> QED
    BY <1>8, <1>9

-----------------------------------------------------------------------------
(* The steps of the main thread.                                           *)

\* The connection accept() returns has no reader yet and leaves the queue for good.
LEMMA QueueHead ==
    ASSUME ChanIInv, backlog # <<>>
    PROVE  /\ Head(backlog) \in Conns /\ Tail(backlog) \in Seq(Conns)
           /\ reader[Head(backlog)] = "none" /\ peer[Head(backlog)] # "unused"
           /\ taken[Head(backlog)] = <<>> /\ conn # Head(backlog)
           /\ \A i \in 1..Len(Tail(backlog)) :
                 /\ Tail(backlog)[i] \in Conns /\ Tail(backlog)[i] # Head(backlog)
                 /\ reader[Tail(backlog)[i]] = "none" /\ peer[Tail(backlog)[i]] # "unused"
           /\ \A i, j \in 1..Len(Tail(backlog)) : Tail(backlog)[i] = Tail(backlog)[j] => i = j
<1> DEFINE h == Head(backlog)
           t == Tail(backlog)
<1>1. backlog \in Seq(Conns) /\ Len(backlog) \in Nat
    BY DEF ChanIInv, ChanTypeOK
<1>2. /\ h = backlog[1] /\ 1 \in 1..Len(backlog) /\ h \in Conns
      /\ t \in Seq(Conns) /\ Len(t) = Len(backlog) - 1
      /\ \A i \in 1..Len(t) : t[i] = backlog[i + 1]
    BY <1>1
<1> HIDE DEF h, t
<1>3. reader[h] = "none" /\ peer[h] # "unused"
    BY <1>2 DEF ChanIInv, Queued
<1>4. taken[h] = <<>> /\ conn # h
    <2>1. h # NoConn
        BY <1>2, Counts DEF ChanIInv
    <2> QED
        BY <1>2, <1>3, <2>1 DEF ChanIInv, Lifecycle
<1>5. \A i \in 1..Len(t) : i \in Nat /\ i + 1 \in 1..Len(backlog) /\ i + 1 # 1
    BY <1>1, <1>2
<1>6. \A i \in 1..Len(t) : t[i] # h /\ reader[t[i]] = "none" /\ peer[t[i]] # "unused"
    BY <1>2, <1>5 DEF ChanIInv, Queued
<1>7. \A i, j \in 1..Len(t) : t[i] = t[j] => i = j
    <2> SUFFICES ASSUME NEW i \in 1..Len(t), NEW j \in 1..Len(t), t[i] = t[j] PROVE i = j
        OBVIOUS
    <2>1. i + 1 = j + 1
        BY <1>2, <1>5 DEF ChanIInv, Queued
    <2> QED
        BY <1>5, <2>1
<1>8. \A i \in 1..Len(t) : t[i] \in Conns
    BY <1>2
<1> QED
    BY <1>2, <1>3, <1>4, <1>6, <1>7, <1>8 DEF h, t

\* A fresh connection starts with an empty inbox and a reader at its first frame.
LEMMA AcceptIInv ==
    ASSUME ChanIInv, ChanTypeOK', NEW ok \in BOOLEAN, TransitionToConnected(ok),
           UNCHANGED <<transport, peer, toManager, garbled, frames, taken>>
    PROVE  ChanIInv'
<1>0. PICK c \in Conns : c = Head(backlog)
    BY QueueHead DEF TransitionToConnected
<1>1. /\ backlog # <<>> /\ backlog' = Tail(backlog) /\ inbox' = <<>>
      /\ \/ state' = "Connected" /\ conn' = c /\ reader' = [reader EXCEPT ![c] = "running"]
         \/ state' = "Disconnected" /\ conn' = NoConn /\ reader' = reader
    BY <1>0 DEF TransitionToConnected, FreshInbox
<1>2. /\ c \in Conns /\ reader[c] = "none" /\ peer[c] # "unused" /\ taken[c] = <<>> /\ conn # c
      /\ c # NoConn
      /\ \A i \in 1..Len(backlog') :
            /\ backlog'[i] \in Conns /\ backlog'[i] # c
            /\ reader[backlog'[i]] = "none" /\ peer[backlog'[i]] # "unused"
      /\ \A i, j \in 1..Len(backlog') : backlog'[i] = backlog'[j] => i = j
    BY <1>0, <1>1, QueueHead, Counts DEF ChanIInv
<1>3. reader \in [Conns -> {"none", "running", "exited"}] /\ ChanTypeOK
    BY DEF ChanIInv, ChanTypeOK
<1>4. /\ \A d \in Conns : d # c => reader'[d] = reader[d]
      /\ \/ state' = "Connected" /\ conn' = c /\ reader'[c] = "running"
         \/ state' = "Disconnected" /\ conn' = NoConn /\ reader'[c] = reader[c]
    BY <1>1, <1>2, <1>3
<1>5. Queued'
    BY <1>2, <1>4 DEF Queued
<1>6. Lifecycle'
    BY <1>1, <1>2, <1>4 DEF ChanIInv, Lifecycle
<1>7. ASSUME NEW d \in Conns, d # c PROVE Ordered(d)' /\ LeftDrained(d)'
    <2>1. conn' # d /\ reader'[d] = reader[d]
        BY <1>3, <1>4, <1>7, Counts
    <2>2. CASE conn = d
        <3>1. reader[d] # "none"
            BY <1>3, <2>2, Counts DEF ChanIInv, Lifecycle
        <3> QED
            BY <1>3, <2>1, <3>1, GivenUp DEF ChanIInv
    <2>3. CASE conn # d
        BY <2>1, <2>3, OthersKept DEF ChanIInv
    <2> QED
        BY <2>2, <2>3
<1>8. Ordered(c)' /\ LeftDrained(c)'
    <2>1. Delivered(c)' = 0 /\ Delivered(c) = 0
        BY <1>1, <1>2, <1>4 DEF Delivered
    <2>2. Pending(c) /\ Ordered(c) /\ reader'[c] # "exited"
        BY <1>2, <1>4 DEF Pending, ChanIInv
    <2>3. (StreamContinues(c) => StreamContinues(c)') /\ (StreamComplete(c) => StreamComplete(c)')
        BY <2>1 DEF StreamContinues, StreamComplete
    <2>4. frames[c] \in Nat /\ Len(<<>>) = 0
        BY <1>2, <1>3, Counts
    <2> QED
        BY <1>1, <1>2, <2>1, <2>2, <2>3, <2>4 DEF Ordered, LeftDrained
<1> QED
    BY <1>5, <1>6, <1>7, <1>8 DEF ChanIInv

\* The current connection, if any, is given up.
LEMMA DisconnectIInv ==
    ASSUME ChanIInv, ChanTypeOK', Disconnect,
           UNCHANGED <<transport, backlog, reader, peer, toManager, garbled, frames, taken>>
    PROVE  ChanIInv'
<1>1. state' = "Disconnected" /\ conn' = NoConn /\ inbox' = <<>>
    BY DEF Disconnect, FreshInbox
<1>2. Queued'
    BY DEF ChanIInv, Queued
<1>3. Lifecycle'
    BY <1>1 DEF ChanIInv, Lifecycle
<1>4. ASSUME NEW d \in Conns PROVE Ordered(d)' /\ LeftDrained(d)'
    <2>1. conn' # d /\ d # NoConn /\ ChanTypeOK
        BY <1>1, Counts DEF ChanIInv
    <2>2. CASE conn = d
        <3>1. reader[d] # "none"
            BY <2>1, <2>2 DEF ChanIInv, Lifecycle
        <3> QED
            BY <2>1, <3>1, GivenUp DEF ChanIInv
    <2>3. CASE conn # d
        BY <2>1, <2>3, OthersKept DEF ChanIInv
    <2> QED
        BY <2>2, <2>3
<1> QED
    BY <1>2, <1>3, <1>4 DEF ChanIInv

\* A reconnection whose first write fails: the reader is left behind without a receiver.
LEMMA LostOnReconnectIInv ==
    ASSUME ChanIInv, ChanTypeOK', Disconnect, backlog # <<>>, backlog' = Tail(backlog),
           reader' = [reader EXCEPT ![Head(backlog)] = "running"],
           UNCHANGED <<transport, peer, toManager, garbled, frames, taken>>
    PROVE  ChanIInv'
<1>0. PICK c \in Conns : c = Head(backlog)
    BY QueueHead
<1>1. state' = "Disconnected" /\ conn' = NoConn /\ inbox' = <<>>
    BY DEF Disconnect, FreshInbox
<1>2. /\ c \in Conns /\ reader[c] = "none" /\ peer[c] # "unused" /\ taken[c] = <<>> /\ conn # c
      /\ \A i \in 1..Len(backlog') :
            /\ backlog'[i] \in Conns /\ backlog'[i] # c
            /\ reader[backlog'[i]] = "none" /\ peer[backlog'[i]] # "unused"
      /\ \A i, j \in 1..Len(backlog') : backlog'[i] = backlog'[j] => i = j
    BY <1>0, QueueHead
<1>3. reader \in [Conns -> {"none", "running", "exited"}] /\ ChanTypeOK
    BY DEF ChanIInv, ChanTypeOK
<1>4. reader'[c] = "running" /\ \A d \in Conns : d # c => reader'[d] = reader[d]
    BY <1>0, <1>2, <1>3
<1>5. Queued'
    BY <1>2, <1>4 DEF Queued
<1>6. Lifecycle'
    BY <1>1, <1>2, <1>4 DEF ChanIInv, Lifecycle
<1>7. ASSUME NEW d \in Conns PROVE Ordered(d)' /\ LeftDrained(d)'
    <2>1. conn' # d /\ d # NoConn
        BY <1>1, <1>3, Counts
    <2>2. CASE conn = d \/ d = c
        <3>1. reader'[d] # "none"
            BY <1>2, <1>4, <2>1, <2>2 DEF ChanIInv, Lifecycle
        <3> QED
            BY <1>3, <2>1, <3>1, GivenUp DEF ChanIInv
    <2>3. CASE conn # d /\ d # c
        BY <1>4, <2>1, <2>3, OthersKept DEF ChanIInv
    <2> QED
        BY <2>2, <2>3
<1> QED
    BY <1>5, <1>6, <1>7 DEF ChanIInv

\* try_recv moves the oldest message of the inbox to the policy.
LEMMA TakeIInv ==
    ASSUME ChanIInv, TryRecvMessage
    PROVE  ChanIInv'
<1>1. PICK c \in Conns : c = conn
    BY DEF TryRecvMessage, ChanIInv, ChanTypeOK, Lifecycle
<1> DEFINE h == Head(inbox)
<1>2. /\ inbox # <<>> /\ inbox' = Tail(inbox)
      /\ taken' = [taken EXCEPT ![c] = Append(@, h)]
      /\ UNCHANGED <<transport, phase, state, conn, backlog, reader, peer, toManager, toEngine,
                     garbled, frames>>
    BY <1>1 DEF TryRecvMessage
<1>3. /\ inbox \in Seq(Frame) /\ Len(inbox) \in Nat /\ taken \in [Conns -> Seq(Frame)]
      /\ taken[c] \in Seq(Frame) /\ Len(taken[c]) \in Nat /\ frames[c] \in Nat
      /\ InboxCap \in Nat /\ Len(inbox) <= InboxCap
    BY ChannelAssumption, Counts DEF ChanIInv, ChanTypeOK
<1>4. /\ h = inbox[1] /\ h \in Frame /\ 1 \in 1..Len(inbox)
      /\ inbox' \in Seq(Frame) /\ Len(inbox') = Len(inbox) - 1
      /\ \A i \in 1..Len(inbox') : inbox'[i] = inbox[i + 1]
    BY <1>2, <1>3
<1> HIDE DEF h
<1>5. /\ taken'[c] = Append(taken[c], h)
      /\ \A d \in Conns : d # c => taken'[d] = taken[d]
    BY <1>2, <1>3
<1>6. /\ Append(taken[c], h) \in Seq(Frame) /\ Len(taken'[c]) = Len(taken[c]) + 1
      /\ taken'[c][Len(taken[c]) + 1] = h
      /\ \A i \in 1..Len(taken[c]) : taken'[c][i] = taken[c][i]
    BY <1>3, <1>4, <1>5
<1>7. ChanTypeOK'
    <2>1. taken' \in [Conns -> Seq(Frame)]
        BY <1>2, <1>3, <1>6
    <2>2. Len(inbox') <= InboxCap
        BY <1>3, <1>4
    <2> QED
        BY <1>2, <1>4, <2>1, <2>2 DEF ChanIInv, ChanTypeOK
<1>8. Queued'
    BY <1>2 DEF ChanIInv, Queued
<1>9. Lifecycle'
    <2>1. c # NoConn /\ reader[c] # "none"
        BY <1>1, Counts DEF ChanIInv, Lifecycle
    <2> QED
        BY <1>1, <1>2, <1>5, <2>1 DEF ChanIInv, Lifecycle
<1>10. ASSUME NEW d \in Conns, d # c PROVE Ordered(d)' /\ LeftDrained(d)'
    BY <1>1, <1>2, <1>5, <1>10, OthersKept DEF ChanIInv
<1>11. Ordered(c)' /\ LeftDrained(c)'
    <2>1. Ordered(c) /\ LeftDrained(c) /\ (Pending(c)' <=> Pending(c))
        BY <1>2 DEF ChanIInv, Pending
    <2>2. Delivered(c)' = Delivered(c) /\ Delivered(c) \in Nat
        <3>1. Delivered(c) = Len(taken[c]) + Len(inbox)
            BY <1>1 DEF Delivered
        <3>2. Delivered(c)' = Len(taken'[c]) + Len(inbox')
            BY <1>1, <1>2 DEF Delivered
        <3>3. \A a, b \in Nat : a + 1 + (b - 1) = a + b
            OBVIOUS
        <3>4. Delivered(c) \in Nat
            BY Counts DEF ChanIInv
        <3>5. Len(taken'[c]) = Len(taken[c]) + 1 /\ Len(inbox') = Len(inbox) - 1
            BY <1>4, <1>6
        <3>6. Len(taken[c]) \in Nat /\ Len(inbox) \in Nat
            BY <1>3
        <3>7. Len(taken[c]) + 1 + (Len(inbox) - 1) = Len(taken[c]) + Len(inbox)
            BY <3>3, <3>6, Zenon
        <3> QED
            BY <3>1, <3>2, <3>4, <3>5, <3>7, Zenon
    <2>3. (StreamContinues(c) => StreamContinues(c)') /\ (StreamComplete(c) => StreamComplete(c)')
        BY <1>2, <2>2 DEF StreamContinues, StreamComplete
    <2>4. \A i \in 1..Len(taken'[c]) : taken'[c][i] = <<c, i>>
        <3> SUFFICES ASSUME NEW i \in 1..Len(taken'[c]) PROVE taken'[c][i] = <<c, i>>
            OBVIOUS
        <3>1. CASE i = Len(taken[c]) + 1
            BY <1>1, <1>4, <1>6, <2>1, <3>1 DEF Ordered
        <3>2. CASE i \in 1..Len(taken[c])
            BY <1>6, <2>1, <3>2 DEF Ordered
        <3> QED
            BY <1>3, <1>6, <3>1, <3>2
    <2>5. \A i \in 1..Len(inbox') : inbox'[i] = <<c, Len(taken'[c]) + i>>
        <3> SUFFICES ASSUME NEW i \in 1..Len(inbox') PROVE inbox'[i] = <<c, Len(taken'[c]) + i>>
            OBVIOUS
        <3>1. i + 1 \in 1..Len(inbox) /\ i \in Nat
            BY <1>3, <1>4
        <3>2. inbox'[i] = <<c, Len(taken[c]) + (i + 1)>>
            BY <1>1, <1>4, <2>1, <3>1 DEF Ordered
        <3>3. Len(taken[c]) + (i + 1) = Len(taken'[c]) + i
            <4>1. \A a, b \in Nat : a + (b + 1) = a + 1 + b
                OBVIOUS
            <4>2. Len(taken[c]) + (i + 1) = Len(taken[c]) + 1 + i
                BY <1>3, <3>1, <4>1
            <4> QED
                BY <1>6, <4>2, Zenon
        <3> QED
            BY <3>2, <3>3
    <2> QED
        BY <1>2, <2>1, <2>2, <2>3, <2>4, <2>5 DEF Ordered, LeftDrained
<1> QED
    BY <1>7, <1>8, <1>9, <1>10, <1>11 DEF ChanIInv

\* A write reaches the socket of an open connection or leaves the sockets alone.
LEMMA WriteTyped ==
    ASSUME ChanTypeOK, NEW c \in Conns, NEW d \in Directives, WriteOk(c, d) \/ WriteFails(c)
    PROVE  toEngine' \in [Conns -> Seq(Directives)]
<1>1. toEngine \in [Conns -> Seq(Directives)]
    BY DEF ChanTypeOK
<1>2. Append(toEngine[c], d) \in Seq(Directives)
    BY <1>1
<1> QED
    BY <1>1, <1>2 DEF WriteOk, WriteFails

\* The types after an accept or a disconnection.
LEMMA SwitchTyped ==
    ASSUME ChanIInv,
           \/ \E ok \in BOOLEAN : TransitionToConnected(ok)
           \/ Disconnect /\ UNCHANGED <<backlog, reader>>
           \/ /\ Disconnect /\ backlog # <<>> /\ backlog' = Tail(backlog)
              /\ reader' = [reader EXCEPT ![Head(backlog)] = "running"]
    PROVE  /\ state' \in {"Listening", "Connected", "Disconnected"}
           /\ conn' \in Conns \cup {NoConn}
           /\ inbox' \in Seq(Frame) /\ Len(inbox') <= InboxCap
           /\ backlog' \in Seq(Conns)
           /\ reader' \in [Conns -> {"none", "running", "exited"}]
<1>1. /\ backlog \in Seq(Conns) /\ reader \in [Conns -> {"none", "running", "exited"}]
      /\ InboxCap \in Nat
    BY ChannelAssumption DEF ChanIInv, ChanTypeOK
<1>2. <<>> \in Seq(Frame) /\ Len(<<>>) = 0 /\ 0 <= InboxCap
    BY <1>1
<1>3. CASE \E ok \in BOOLEAN : TransitionToConnected(ok)
    <2>1. /\ backlog # <<>> /\ backlog' = Tail(backlog) /\ inbox' = <<>>
          /\ \/ /\ state' = "Connected" /\ conn' = Head(backlog)
                /\ reader' = [reader EXCEPT ![Head(backlog)] = "running"]
             \/ state' = "Disconnected" /\ conn' = NoConn /\ reader' = reader
        BY <1>3 DEF TransitionToConnected, FreshInbox
    <2>2. Head(backlog) \in Conns /\ Tail(backlog) \in Seq(Conns)
        BY <2>1, QueueHead
    <2> QED
        BY <1>1, <1>2, <2>1, <2>2
<1>4. CASE Disconnect /\ UNCHANGED <<backlog, reader>>
    BY <1>1, <1>2, <1>4 DEF Disconnect, FreshInbox
<1>5. CASE /\ Disconnect /\ backlog # <<>> /\ backlog' = Tail(backlog)
           /\ reader' = [reader EXCEPT ![Head(backlog)] = "running"]
    <2>1. Head(backlog) \in Conns /\ Tail(backlog) \in Seq(Conns)
        BY <1>5, QueueHead
    <2> QED
        BY <1>1, <1>2, <1>5, <2>1 DEF Disconnect, FreshInbox
<1> QED
    BY <1>3, <1>4, <1>5

\* emit_directive, whichever of its outcomes it takes.
LEMMA EmitIInv ==
    ASSUME ChanIInv, NEW d \in Directives, EmitDirective(d)
    PROVE  ChanIInv'
<1>1. UNCHANGED <<transport, phase, peer, toManager, garbled, frames, taken>>
    BY DEF EmitDirective, histVars
<1>2. CASE EmitOnCurrent(d)
    <2>1. conn \in Conns
        BY <1>2 DEF EmitOnCurrent, ChanIInv, ChanTypeOK, Lifecycle
    <2>2. UNCHANGED <<backlog, reader>> /\ toEngine' \in [Conns -> Seq(Directives)]
        BY <1>2, <2>1, WriteTyped DEF EmitOnCurrent, ChanIInv
    <2>3. CASE UNCHANGED <<state, conn, inbox>>
        <3>1. ChanTypeOK'
            BY <1>1, <2>2, <2>3 DEF ChanIInv, ChanTypeOK
        <3> QED
            BY <1>1, <2>2, <2>3, <3>1, QuietIInv
    <2>4. CASE Disconnect
        <3>1. ChanTypeOK'
            BY <1>1, <2>2, <2>4, SwitchTyped DEF ChanIInv, ChanTypeOK
        <3> QED
            BY <1>1, <2>2, <2>4, <3>1, DisconnectIInv
    <2> QED
        BY <1>2, <2>3, <2>4 DEF EmitOnCurrent
<1>3. CASE EmitOnReconnect(d)
    <2>1. backlog # <<>> /\ Head(backlog) \in Conns
        BY <1>3, QueueHead DEF EmitOnReconnect, CanReconnect
    <2>2. toEngine' \in [Conns -> Seq(Directives)]
        BY <1>3, <2>1, WriteTyped DEF EmitOnReconnect, ChanIInv, ChanTypeOK
    <2>3. CASE \E ok \in BOOLEAN : TransitionToConnected(ok)
        <3>1. ChanTypeOK'
            BY <1>1, <2>2, <2>3, SwitchTyped DEF ChanIInv, ChanTypeOK
        <3> QED
            BY <1>1, <2>3, <3>1, AcceptIInv
    <2>4. CASE /\ Disconnect /\ backlog' = Tail(backlog)
               /\ reader' = [reader EXCEPT ![Head(backlog)] = "running"]
        <3>1. ChanTypeOK'
            BY <1>1, <2>1, <2>2, <2>4, SwitchTyped DEF ChanIInv, ChanTypeOK
        <3> QED
            BY <1>1, <2>1, <2>4, <3>1, LostOnReconnectIInv
    <2> QED
        BY <1>3, <2>3, <2>4 DEF EmitOnReconnect
<1>4. CASE EmitDropped
    <2>1. UNCHANGED <<state, conn, inbox, backlog, reader, toEngine>>
        BY <1>4 DEF EmitDropped
    <2>2. ChanTypeOK'
        BY <1>1, <2>1 DEF ChanIInv, ChanTypeOK
    <2> QED
        BY <1>1, <2>1, <2>2, QuietIInv
<1> QED
    BY <1>2, <1>3, <1>4 DEF EmitDirective

\* wait_for_client accepts, or gives up.
LEMMA WaitIInv ==
    ASSUME ChanIInv, Wait
    PROVE  ChanIInv'
<1>1. CASE WaitTimeout
    <2>1. /\ phase' \in {"running", "bailed"}
          /\ UNCHANGED <<transport, state, conn, inbox, backlog, reader, peer, toManager, toEngine,
                         garbled, frames, taken>>
        BY <1>1 DEF WaitTimeout, histVars
    <2>2. ChanTypeOK'
        BY <2>1 DEF ChanIInv, ChanTypeOK
    <2> QED
        BY <2>1, <2>2, QuietIInv
<1>2. ASSUME NEW ok \in BOOLEAN, WaitAccept(ok) PROVE ChanIInv'
    <2>1. /\ phase' = "running" /\ TransitionToConnected(ok)
          /\ UNCHANGED <<transport, peer, toManager, toEngine, garbled, frames, taken>>
        BY <1>2 DEF WaitAccept, histVars
    <2>2. ChanTypeOK'
        BY <2>1, SwitchTyped DEF ChanIInv, ChanTypeOK
    <2> QED
        BY <2>1, <2>2, AcceptIInv
<1> QED
    BY <1>1, <1>2 DEF Wait

\* try_recv finds the reader gone.
LEMMA LostIInv ==
    ASSUME ChanIInv, TryRecvLost
    PROVE  ChanIInv'
<1>1. /\ Disconnect
      /\ UNCHANGED <<transport, phase, backlog, reader, peer, toManager, toEngine,
                     garbled, frames, taken>>
    BY DEF TryRecvLost, histVars
<1>2. ChanTypeOK'
    BY <1>1, SwitchTyped DEF ChanIInv, ChanTypeOK
<1> QED
    BY <1>1, <1>2, DisconnectIInv

-----------------------------------------------------------------------------
\* Before anyone connects there is nothing to order.
LEMMA ChanInitIInv == ChanInit => ChanIInv
<1> SUFFICES ASSUME ChanInit PROVE ChanIInv
    OBVIOUS
<1>1. /\ phase = "waiting" /\ state = "Listening" /\ conn = NoConn /\ inbox = <<>>
      /\ backlog = <<>> /\ transport \in Transports /\ garbled = {}
      /\ \A c \in Conns : /\ reader[c] = "none" /\ peer[c] = "unused" /\ frames[c] = 0
                           /\ toManager[c] = <<>> /\ taken[c] = <<>>
    BY DEF ChanInit
<1>2. ChanTypeOK
    <2>1. /\ <<>> \in Seq(Frame) /\ <<>> \in Seq(Directives) /\ <<>> \in Seq(Conns)
          /\ Len(<<>>) = 0 /\ 0 <= InboxCap /\ 0 \in 0..MaxFrames
        BY ChannelAssumption
    <2> QED
        BY <2>1 DEF ChanInit, ChanTypeOK
<1>3. Queued /\ Lifecycle
    BY <1>1 DEF Queued, Lifecycle
<1>4. ASSUME NEW c \in Conns PROVE Ordered(c) /\ LeftDrained(c)
    <2>1. Delivered(c) = 0
        BY <1>1, <1>2, Counts DEF Delivered
    <2> QED
        BY <1>1, <1>2, <2>1, Counts DEF Ordered, LeftDrained, StreamContinues, StreamComplete
<1> QED
    BY <1>2, <1>3, <1>4 DEF ChanIInv

\* Every step keeps the frames in order.
LEMMA ChanNextIInv == ChanIInv /\ [ChanNext]_chanVars => ChanIInv'
<1> SUFFICES ASSUME ChanIInv, [ChanNext]_chanVars PROVE ChanIInv'
    OBVIOUS
<1>1. CASE Engine
    BY <1>1, ConnectIInv, SendIInv, SendGarbledIInv, ReadIInv, CloseIInv DEF Engine
<1>2. CASE \E c \in Conns : Reader(c)
    BY <1>2, DeliversIInv, StopsIInv DEF Reader
<1>3. CASE Emit
    BY <1>3, EmitIInv DEF Emit
<1>4. CASE Receive
    BY <1>4, TakeIInv, LostIInv DEF Receive
<1>5. CASE UNCHANGED chanVars
    <2>1. ChanTypeOK'
        BY <1>5 DEF chanVars, ChanIInv, ChanTypeOK
    <2> QED
        BY <1>5, <2>1, QuietIInv DEF chanVars
<1> QED
    BY <1>1, <1>2, <1>3, <1>4, <1>5, WaitIInv DEF ChanNext

\* The invariant holds of every behaviour of the channel, fair or not.
LEMMA ChanInvariance == ChanInit /\ [][ChanNext]_chanVars => []ChanIInv
BY ChanInitIInv, ChanNextIInv, PTL

\* What the invariant says of the messages that reached the policy.
LEMMA OrderedFrames == ChanIInv => FramesInOrder
<1> SUFFICES ASSUME ChanIInv, NEW c \in Conns
             PROVE  /\ ChanTypeOK
                    /\ Len(taken[c]) <= frames[c]
                    /\ \A i \in DOMAIN taken[c] : taken[c][i] = <<c, i>>
    BY DEF FramesInOrder, ChanIInv
<1>1. /\ ChanTypeOK /\ Ordered(c) /\ DOMAIN taken[c] = 1..Len(taken[c])
    BY Counts, LenProperties DEF ChanIInv
<1>2. Len(taken[c]) <= frames[c]
    BY <1>1, Counts DEF Ordered
<1> QED
    BY <1>1, <1>2 DEF Ordered

(***************************************************************************)
(* The policy receives a prefix of what the engine sent on a connection,   *)
(* in order, whatever connects, exits, fails to parse or fails to be       *)
(* accepted, and however small the inbox.                                  *)
(***************************************************************************)
THEOREM FramesAlwaysInOrder == ChanSpec => []FramesInOrder
BY ChanInvariance, OrderedFrames, PTL DEF ChanSpec

\* What the invariant says of a connection try_recv gives up.
LEMMA LastWordsHeard ==
    ChanIInv => [TryRecvLost /\ transport = "unix" => Len(taken[conn]) = frames[conn]]_chanVars
<1> SUFFICES ASSUME ChanIInv, TryRecvLost, transport = "unix"
             PROVE  Len(taken[conn]) = frames[conn]
    OBVIOUS
<1>1. PICK c \in Conns : c = conn
    BY DEF TryRecvLost, ChanIInv, ChanTypeOK, Lifecycle
<1>2. inbox = <<>> /\ reader[c] = "exited"
    BY <1>1 DEF TryRecvLost, InboxDisconnected
<1>3. Delivered(c) = frames[c]
    BY <1>1, <1>2 DEF ChanIInv, LeftDrained
<1>4. Delivered(c) = Len(taken[c]) + 0 /\ Len(taken[c]) \in Nat
    BY <1>1, <1>2, Counts DEF Delivered, ChanIInv
<1> QED
    BY <1>1, <1>3, <1>4

(***************************************************************************)
(* The engine's last words are heard: when try_recv gives a unix           *)
(* connection up, every well-formed frame sent on it, ahead of one that    *)
(* does not parse, was handed over.                                        *)
(***************************************************************************)
THEOREM AlwaysDrainedBeforeLost == ChanSpec => DrainedBeforeLost
BY ChanInvariance, LastWordsHeard, PTL DEF ChanSpec, DrainedBeforeLost

=============================================================================
