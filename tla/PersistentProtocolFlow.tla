----------------------- MODULE PersistentProtocolFlow -----------------------
(***************************************************************************)
(* Theorems about the flow of PersistentProtocol while open sockets lose   *)
(* nothing: what a peer lacks is under way to it, it never sees a gap, and *)
(* a Disconnect comes after the messages sent before it.                   *)
(***************************************************************************)
EXTENDS PersistentProtocolFrames, TLAPS

-----------------------------------------------------------------------------
(* Sequences of frames that are in order.                                  *)

NoneOf(q, t) == \A i \in 1..Len(q) : q[i].type # t

IsMessage(m, k) == m.type = "Regular" /\ m.id = k

Carries(q, k) == \E i \in 1..Len(q) : IsMessage(q[i], k)

\* A peer that has received inc messages and reads the frames q sees no gap,
\* sees a Disconnect only after the first f messages, and is not asked for a
\* replay.
Orderly(q, inc, f) ==
    \A i \in 1..Len(q) :
        /\ q[i].type = "Regular" =>
             q[i].id <= inc + 1 \/ \E j \in 1..(i - 1) : IsMessage(q[j], q[i].id - 1)
        /\ q[i].type = "Disconnect" =>
             \A k \in 1..f : k <= inc \/ \E j \in 1..(i - 1) : IsMessage(q[j], k)
        /\ q[i].type # "ReplayRequest"

\* More received messages leave no new gap.
LEMMA OrderlyMonotone ==
    ASSUME NEW q \in Seq(Msg), NEW inc \in Nat, NEW jnc \in Nat, NEW f \in Nat, inc <= jnc,
           Orderly(q, inc, f)
    PROVE  Orderly(q, jnc, f)
  <1> SUFFICES ASSUME NEW i \in 1..Len(q)
               PROVE  /\ q[i].type = "Regular" =>
                           \/ q[i].id <= jnc + 1
                           \/ \E j \in 1..(i - 1) : IsMessage(q[j], q[i].id - 1)
                      /\ q[i].type = "Disconnect" =>
                           \A k \in 1..f : k <= jnc \/ \E j \in 1..(i - 1) : IsMessage(q[j], k)
                      /\ q[i].type # "ReplayRequest"
    BY DEF Orderly
  <1>0. q[i] \in Msg
    OBVIOUS
  <1>1. q[i].id \in Nat
    BY <1>0 DEF Msg
  <1> QED BY <1>1 DEF Orderly

\* Without a Disconnect it does not matter what was sent before one.
LEMMA OrderlyFarewell ==
    ASSUME NEW q, NEW inc, NEW f, NEW g, NoneOf(q, "Disconnect"), Orderly(q, inc, f)
    PROVE  Orderly(q, inc, g)
  BY DEF Orderly, NoneOf

\* A prefix.
LEMMA OrderlyPrefix ==
    ASSUME NEW q \in Seq(Msg), q # <<>>, NEW inc, NEW f, Orderly(q, inc, f)
    PROVE  Orderly(SubSeq(q, 1, Len(q) - 1), inc, f)
  <1> DEFINE r == SubSeq(q, 1, Len(q) - 1)
  <1>0. PICK n \in Nat : Len(q) = n + 1
    OBVIOUS
  <1>1. /\ Len(r) = n
        /\ \A i \in 1..n : r[i] = q[i]
        /\ \A i \in 1..n : i \in 1..Len(q)
    <2>1. r = SubSeq(q, 1, n)
      BY <1>0
    <2> QED BY <1>0, <2>1
  <1>2. \A i \in 1..Len(r) : \A j \in 1..(i - 1) : r[j] = q[j]
    BY <1>1
  <1> HIDE DEF r
  <1>3. Orderly(r, inc, f)
    BY <1>1, <1>2 DEF Orderly
  <1> QED BY <1>3 DEF r

\* What is left after the first frame was read: a message that was received.
LEMMA OrderlyTail ==
    ASSUME NEW q \in Seq(Msg), q # <<>>, NEW inc \in Nat, NEW jnc \in Nat, NEW f \in Nat,
           inc <= jnc, Head(q).type = "Regular" => Head(q).id <= jnc, Orderly(q, inc, f)
    PROVE  Orderly(Tail(q), jnc, f)
  <1> DEFINE r == Tail(q)
  <1>1. /\ r \in Seq(Msg) /\ Len(r) = Len(q) - 1 /\ Head(q) = q[1]
        /\ \A i \in 1..Len(r) : r[i] = q[i + 1] /\ i + 1 \in 1..Len(q)
    OBVIOUS
  <1> HIDE DEF r
  <1>2. ASSUME NEW i \in 1..Len(r), NEW k \in Int, k > jnc,
               \E j \in 1..i : IsMessage(q[j], k)
        PROVE  \E j \in 1..(i - 1) : IsMessage(r[j], k)
    <2>1. PICK j \in 1..i : IsMessage(q[j], k)
      BY <1>2
    <2>2. j # 1
      BY <1>1, <1>2, <2>1 DEF IsMessage
    <2>3. j - 1 \in 1..(i - 1) /\ j - 1 \in 1..Len(r) /\ r[j - 1] = q[j]
      BY <1>1, <2>2
    <2> QED BY <2>1, <2>3
  <1>3. ASSUME NEW i \in 1..Len(r)
        PROVE  /\ r[i].type = "Regular" =>
                    \/ r[i].id <= jnc + 1
                    \/ \E j \in 1..(i - 1) : IsMessage(r[j], r[i].id - 1)
               /\ r[i].type = "Disconnect" =>
                    \A k \in 1..f : k <= jnc \/ \E j \in 1..(i - 1) : IsMessage(r[j], k)
               /\ r[i].type # "ReplayRequest"
    <2>0. r[i] \in Msg
      BY <1>1
    <2>1. r[i] = q[i + 1] /\ i + 1 \in 1..Len(q) /\ (i + 1) - 1 = i
      BY <1>1
    <2>5. r[i].id \in Nat
      BY <2>0 DEF Msg
    <2>2. /\ r[i].type = "Regular" =>
               r[i].id <= inc + 1 \/ \E j \in 1..i : IsMessage(q[j], r[i].id - 1)
          /\ r[i].type = "Disconnect" =>
               \A k \in 1..f : k <= inc \/ \E j \in 1..i : IsMessage(q[j], k)
          /\ r[i].type # "ReplayRequest"
      BY <2>1 DEF Orderly
    <2>3. ASSUME r[i].type = "Regular", ~(r[i].id <= jnc + 1)
          PROVE  \E j \in 1..(i - 1) : IsMessage(r[j], r[i].id - 1)
      <3>1. r[i].id - 1 \in Int /\ r[i].id - 1 > jnc /\ ~(r[i].id <= inc + 1)
        BY <2>5, <2>3
      <3> QED BY <1>2, <2>2, <2>3, <3>1
    <2>4. ASSUME r[i].type = "Disconnect", NEW k \in 1..f, ~(k <= jnc)
          PROVE  \E j \in 1..(i - 1) : IsMessage(r[j], k)
      <3>1. k \in Int /\ k > jnc /\ ~(k <= inc)
        BY <2>4
      <3> QED BY <1>2, <2>2, <2>4, <3>1
    <2> QED BY Zenon, <2>2, <2>3, <2>4
  <1> QED BY Zenon, <1>3 DEF Orderly, r

\* Two sequences of frames, one after the other.
LEMMA FramesConcat ==
    ASSUME NEW q \in Seq(Msg), NEW r \in Seq(Msg)
    PROVE  /\ q \o r \in Seq(Msg)
           /\ Len(q \o r) = Len(q) + Len(r)
           /\ \A i \in 1..Len(q) : (q \o r)[i] = q[i] /\ i \in 1..Len(q \o r)
           /\ \A i \in 1..Len(r) :
                (q \o r)[Len(q) + i] = r[i] /\ Len(q) + i \in 1..Len(q \o r)
           /\ \A i \in 1..Len(q \o r) : i \in 1..Len(q) \/ i - Len(q) \in 1..Len(r)
  OBVIOUS

\* Frames appended in two goes are the frames appended in one.
LEMMA FramesAssociate ==
    ASSUME NEW q \in Seq(Msg), NEW r \in Seq(Msg), NEW s \in Seq(Msg)
    PROVE  q \o (r \o s) = (q \o r) \o s
  OBVIOUS

\* Consuming the first frame leaves what was appended after it.
LEMMA FramesTail ==
    ASSUME NEW q \in Seq(Msg), NEW r \in Seq(Msg), q # <<>>
    PROVE  /\ q \o r # <<>> /\ Head(q \o r) = Head(q)
           /\ Tail(q \o r) = Tail(q) \o r
  <1>1. Len(q) \in Nat \ {0} /\ Len(r) \in Nat
    OBVIOUS
  <1> DEFINE s == Tail(q \o r)
             t == Tail(q) \o r
  <1>2. /\ Len(q \o r) = Len(q) + Len(r) /\ q \o r \in Seq(Msg)
        /\ (q \o r)[1] = q[1] /\ q \o r # <<>>
    BY <1>1
  <1>3. s \in Seq(Msg) /\ Len(s) = Len(q) + Len(r) - 1
    BY <1>2
  <1>4. t \in Seq(Msg) /\ Len(t) = Len(q) + Len(r) - 1
    BY <1>1
  <1>5. ASSUME NEW i \in 1..Len(s) PROVE s[i] = t[i]
    <2>1. s[i] = (q \o r)[i + 1]
      BY <1>1, <1>2, <1>3
    <2>2. CASE i + 1 <= Len(q)
      BY <1>1, <1>3, <2>1, <2>2
    <2>3. CASE i + 1 > Len(q)
      BY <1>1, <1>3, <2>1, <2>3
    <2> QED BY <1>1, <1>3, <2>2, <2>3
  <1> HIDE DEF s, t
  <1>6. s = t
    BY <1>3, <1>4, <1>5
  <1> QED BY <1>2, <1>6 DEF s, t

\* A type that neither part holds is not in the whole.
LEMMA NoneOfConcat ==
    ASSUME NEW q \in Seq(Msg), NEW r \in Seq(Msg), NEW t, NoneOf(q, t), NoneOf(r, t)
    PROVE  NoneOf(q \o r, t)
  BY DEF NoneOf

\* A type that is not in the queue is not in what is left of it either.
LEMMA NoneOfShorter ==
    ASSUME NEW q \in Seq(Msg), q # <<>>, NEW t, NoneOf(q, t)
    PROVE  /\ NoneOf(Tail(q), t) /\ Head(q).type # t
           /\ NoneOf(SubSeq(q, 1, Len(q) - 1), t)
  <1>1. NoneOf(Tail(q), t) /\ Head(q).type # t
    BY DEF NoneOf
  <1>2. PICK n \in Nat : Len(q) = n + 1
    OBVIOUS
  <1>3. SubSeq(q, 1, Len(q) - 1) = SubSeq(q, 1, n)
    BY <1>2
  <1>4. NoneOf(SubSeq(q, 1, n), t)
    BY <1>2 DEF NoneOf
  <1> QED BY <1>1, <1>3, <1>4

\* A message that one part carries is carried by the whole.
LEMMA CarriesConcat ==
    ASSUME NEW q \in Seq(Msg), NEW r \in Seq(Msg), NEW k
    PROVE  Carries(q, k) \/ Carries(r, k) => Carries(q \o r, k)
  <1>1. ASSUME Carries(q, k) PROVE Carries(q \o r, k)
    BY Zenon, <1>1, FramesConcat DEF Carries
  <1>2. ASSUME Carries(r, k) PROVE Carries(q \o r, k)
    <2>1. PICK i \in 1..Len(r) : IsMessage(r[i], k)
      BY <1>2 DEF Carries
    <2>2. (q \o r)[Len(q) + i] = r[i] /\ Len(q) + i \in 1..Len(q \o r)
      BY FramesConcat
    <2> QED BY Zenon, <2>1, <2>2 DEF Carries
  <1> QED BY <1>1, <1>2

\* A message that is not the first frame is still there when that was read.
LEMMA CarriesTail ==
    ASSUME NEW q \in Seq(Msg), q # <<>>, NEW k, Carries(q, k), ~IsMessage(Head(q), k)
    PROVE  Carries(Tail(q), k)
  <1>1. PICK i \in 1..Len(q) : IsMessage(q[i], k)
    BY DEF Carries
  <1>2. i # 1
    BY <1>1
  <1>3. i - 1 \in 1..Len(Tail(q)) /\ Tail(q)[i - 1] = q[i]
    BY <1>2
  <1> QED BY <1>1, <1>3 DEF Carries

\* Frames may follow q if each of their messages is the next one, for the
\* reader, for q or among themselves, and a Disconnect comes after q's.
MayFollow(q, r, inc, f) ==
    \A i \in 1..Len(r) :
        /\ r[i].type = "Regular" =>
             \/ r[i].id <= inc + 1 \/ Carries(q, r[i].id - 1)
             \/ \E j \in 1..(i - 1) : IsMessage(r[j], r[i].id - 1)
        /\ r[i].type = "Disconnect" => \A k \in 1..f : k <= inc \/ Carries(q, k)
        /\ r[i].type # "ReplayRequest"

\* Frames that may follow are in order behind those that are.
LEMMA OrderlyConcat ==
    ASSUME NEW q \in Seq(Msg), NEW r \in Seq(Msg), NEW inc, NEW f,
           Orderly(q, inc, f), MayFollow(q, r, inc, f)
    PROVE  Orderly(q \o r, inc, f)
  <1> DEFINE s == q \o r
  <1>0. /\ Len(s) = Len(q) + Len(r) /\ Len(q) \in Nat /\ Len(r) \in Nat
        /\ \A i \in 1..Len(q) : s[i] = q[i]
        /\ \A i \in 1..Len(r) : s[Len(q) + i] = r[i]
    BY FramesConcat
  <1> HIDE DEF s
  <1> DEFINE Fits(i) ==
        /\ s[i].type = "Regular" =>
             s[i].id <= inc + 1 \/ \E j \in 1..(i - 1) : IsMessage(s[j], s[i].id - 1)
        /\ s[i].type = "Disconnect" =>
             \A k \in 1..f : k <= inc \/ \E j \in 1..(i - 1) : IsMessage(s[j], k)
        /\ s[i].type # "ReplayRequest"
  <1>1. ASSUME NEW i \in 1..Len(q) PROVE Fits(i)
    <2>1. s[i] = q[i] /\ \A j \in 1..(i - 1) : s[j] = q[j]
      BY <1>0
    <2> QED BY <2>1 DEF Orderly
  <1>2. ASSUME NEW n \in 1..Len(r) PROVE Fits(Len(q) + n)
    <2> DEFINE i == Len(q) + n
    <2>1. s[i] = r[n]
      BY <1>0
    <2>2. \A k : Carries(q, k) => \E j \in 1..(i - 1) : IsMessage(s[j], k)
      <3>1. \A j \in 1..Len(q) : j \in 1..(i - 1) /\ s[j] = q[j]
        BY <1>0
      <3> QED BY Zenon, <3>1 DEF Carries
    <2>3. \A k : (\E j \in 1..(n - 1) : IsMessage(r[j], k)) =>
                    \E j \in 1..(i - 1) : IsMessage(s[j], k)
      <3>1. \A j \in 1..(n - 1) : Len(q) + j \in 1..(i - 1) /\ s[Len(q) + j] = r[j]
        BY <1>0
      <3> QED BY Zenon, <3>1
    <2> HIDE DEF i
    <2>4. Fits(i)
      BY Zenon, <2>1, <2>2, <2>3 DEF MayFollow
    <2> QED BY <2>4 DEF i
  <1>3. \A i \in 1..Len(s) : Fits(i)
    <2> SUFFICES ASSUME NEW i \in 1..Len(s) PROVE Fits(i)
      OBVIOUS
    <2> HIDE DEF Fits
    <2>1. CASE i > Len(q)
      <3>1. i - Len(q) \in 1..Len(r) /\ Len(q) + (i - Len(q)) = i
        BY <1>0, <2>1
      <3>2. Fits(Len(q) + (i - Len(q)))
        BY Zenon, <1>2, <3>1
      <3> QED BY <3>1, <3>2
    <2>2. CASE i <= Len(q)
      <3>1. i \in 1..Len(q)
        BY <1>0, <2>2
      <3> QED BY <1>1, <3>1
    <2> QED BY <1>0, <2>1, <2>2
  <1> QED BY <1>3 DEF Orderly, s

\* Some frame of q acknowledges message a or a later one.
Acks(q, a) == \E i \in 1..Len(q) : q[i].ack >= a

\* An acknowledgement in one part is in the whole.
LEMMA AcksConcat ==
    ASSUME NEW q \in Seq(Msg), NEW r \in Seq(Msg), NEW a
    PROVE  Acks(q, a) \/ Acks(r, a) => Acks(q \o r, a)
  <1>1. ASSUME Acks(q, a) PROVE Acks(q \o r, a)
    BY Zenon, <1>1, FramesConcat DEF Acks
  <1>2. ASSUME Acks(r, a) PROVE Acks(q \o r, a)
    <2>1. PICK i \in 1..Len(r) : r[i].ack >= a
      BY <1>2 DEF Acks
    <2>2. (q \o r)[Len(q) + i] = r[i] /\ Len(q) + i \in 1..Len(q \o r)
      BY FramesConcat
    <2> QED BY Zenon, <2>1, <2>2 DEF Acks
  <1> QED BY <1>1, <1>2

\* The acknowledgement under way is in the first frame or behind it.
LEMMA AcksTail ==
    ASSUME NEW q \in Seq(Msg), q # <<>>, NEW a, Acks(q, a)
    PROVE  Acks(Tail(q), a) \/ Head(q).ack >= a
  <1>1. PICK i \in 1..Len(q) : q[i].ack >= a
    BY DEF Acks
  <1>2. CASE i = 1
    BY <1>1, <1>2
  <1>3. CASE i # 1
    <2>1. i - 1 \in 1..Len(Tail(q)) /\ Tail(q)[i - 1] = q[i]
      BY <1>3
    <2> QED BY Zenon, <1>1, <2>1 DEF Acks
  <1> QED BY <1>2, <1>3

-----------------------------------------------------------------------------
(* The inductive invariant.                                                *)

\* The client uses the last socket, only that one can be open, and the server
\* uses it if it has accepted it; the client ends no reconnection before.
SocketsAgree ==
    /\ socket["client"] = opened
    /\ open \subseteq {opened}
    /\ taken["server"] \subseteq 1..opened
    /\ socket["server"] \in taken["server"]
    /\ \A c \in taken["server"] \cap open : socket["server"] = c
    /\ ~isReconnecting["client"] => socket["client"] \in taken["server"]

\* The frames of x are in order, on every socket and up to those it buffers
\* for an open one.  None is a message before the end of a reconnection, or on
\* a socket that the server has not accepted, where the handshake reads it.
Sender(x) ==
    /\ \A c \in Sockets : Orderly(wire[c][x], incomingMsgId[Other(x)], farewell[x])
    /\ socket[x] \in open => Orderly(Pipeline(x), incomingMsgId[Other(x)], farewell[x])
    /\ isReconnecting[x] => NoneOf(data[x], "Regular") /\ NoneOf(wire[socket[x]][x], "Regular")
    /\ \A c \in Sockets \ taken["server"] : NoneOf(wire[c][x], "Regular")
    /\ ~didSendDisconnect[x] => /\ NoneOf(data[x], "Disconnect")
                                /\ \A c \in Sockets : NoneOf(wire[c][x], "Disconnect")

\* The conjuncts of UndeliveredIsUnderWay and AckIsUnderWay about x.
UnderWay(x) ==
    Connected(x) =>
        /\ \A k \in incomingMsgId[Other(x)] + 1 .. outgoingMsgId[x] : Carries(Pipeline(x), k)
        /\ outgoingAckId[Other(x)] >= incomingAckId[x] \/ Acks(Pipeline(x), incomingAckId[x])

FlowInv ==
    /\ SocketsAgree
    /\ drops = 0 => \A x \in Peers : Sender(x) /\ UnderWay(x)

\* The types of what the invariant is about.
LEMMA FlowTypes ==
    ASSUME IInv, NEW x \in Peers
    PROVE  /\ Other(x) \in Peers /\ Other(x) # x /\ Other(Other(x)) = x
           /\ socket[x] \in Sockets
           /\ \A c \in Sockets : wire[c][x] \in Seq(Msg)
           /\ wire[socket[x]][x] \in Seq(Msg) /\ data[x] \in Seq(Msg)
           /\ Pipeline(x) \in Seq(Msg)
           /\ incomingMsgId[Other(x)] \in Nat /\ incomingMsgId[x] \in Nat
           /\ incomingAckId[x] \in Nat /\ incomingAckId[x] <= incomingMsgId[x]
           /\ outgoingMsgId[x] \in Nat /\ farewell[x] \in Nat
           /\ outgoingAckId[x] \in Nat /\ outgoingAckId[Other(x)] \in Nat
           /\ incomingMsgId[Other(x)] <= outgoingMsgId[x]
           /\ outgoingAckId[x] <= incomingMsgId[Other(x)]
  <1>1. Other(x) \in Peers /\ Other(x) # x /\ Other(Other(x)) = x
    BY Zenon DEF Peers, Other
  <1>2. /\ socket[x] \in Sockets
        /\ \A c \in Sockets : wire[c][x] \in Seq(Msg)
        /\ wire[socket[x]][x] \in Seq(Msg) /\ data[x] \in Seq(Msg)
        /\ incomingMsgId[Other(x)] \in Nat /\ incomingMsgId[x] \in Nat
        /\ incomingAckId[x] \in Nat /\ outgoingMsgId[x] \in Nat /\ farewell[x] \in Nat
        /\ outgoingAckId[x] \in Nat /\ outgoingAckId[Other(x)] \in Nat
    BY Zenon, <1>1 DEF IInv, TypeOK
  <1>3. Pipeline(x) \in Seq(Msg)
    BY <1>2 DEF Pipeline
  <1>4. /\ outgoingAckId[x] <= Len(delivered[Other(x)])
        /\ Len(delivered[Other(x)]) = incomingMsgId[Other(x)]
        /\ Len(delivered[Other(x)]) <= Len(sent[x])
        /\ Len(sent[x]) = outgoingMsgId[x]
        /\ incomingAckId[x] <= incomingMsgId[x]
    BY Zenon, <1>1 DEF IInv, CountersAgree, AckedWasDelivered, InOrderExactlyOnce
  <1> QED BY Zenon, <1>1, <1>2, <1>3, <1>4

\* A step that leaves the frames of x alone, and may acknowledge some, break a
\* socket or accept one.
Kept(x) ==
    /\ \A c \in Sockets : wire'[c][x] = wire[c][x]
    /\ UNCHANGED <<data[x], socket[x], isReconnecting[x], didSendDisconnect[x], farewell[x],
                   incomingMsgId[Other(x)], incomingAckId[x], outgoingMsgId[x]>>
    /\ outgoingAckId'[Other(x)] \in Nat
    /\ outgoingAckId'[Other(x)] >= outgoingAckId[Other(x)]
    /\ open' \subseteq open
    /\ taken["server"] \subseteq taken'["server"]
    /\ Connected(x)' => Connected(x)

\* A step that leaves the frames of x and what answers them alone.
LEMMA KeptFlow ==
    ASSUME IInv, NEW x \in Peers, Sender(x), UnderWay(x), Kept(x)
    PROVE  Sender(x)' /\ UnderWay(x)'
  <1>0. /\ socket[x] \in Sockets /\ outgoingAckId[Other(x)] \in Nat /\ incomingAckId[x] \in Nat
    BY Zenon, FlowTypes
  <1>1. /\ wire'[socket[x]][x] = wire[socket[x]][x] /\ data'[x] = data[x]
        /\ socket'[x] = socket[x] /\ Pipeline(x)' = Pipeline(x)
    BY Zenon, <1>0 DEF Kept, Pipeline
  <1>2. Sender(x)'
    <2>1. socket'[x] \in open' => socket[x] \in open
      BY Zenon, <1>1 DEF Kept
    <2>2. \A c \in Sockets \ taken'["server"] : c \in Sockets \ taken["server"]
      BY Zenon DEF Kept
    <2> QED BY Zenon, <1>1, <2>1, <2>2 DEF Sender, Kept
  <1>3. ASSUME Connected(x)'
        PROVE  /\ \A k \in incomingMsgId'[Other(x)] + 1 .. outgoingMsgId'[x] :
                    Carries(Pipeline(x)', k)
               /\ \/ outgoingAckId'[Other(x)] >= incomingAckId'[x]
                  \/ Acks(Pipeline(x)', incomingAckId'[x])
    <2>1. Connected(x)
      BY Zenon, <1>3 DEF Kept
    <2>2. /\ UNCHANGED <<incomingMsgId[Other(x)], outgoingMsgId[x], incomingAckId[x]>>
          /\ outgoingAckId'[Other(x)] \in Nat
          /\ outgoingAckId'[Other(x)] >= outgoingAckId[Other(x)]
      BY Zenon DEF Kept
    <2>3. \/ outgoingAckId[Other(x)] >= incomingAckId[x]
          \/ Acks(Pipeline(x), incomingAckId[x])
      BY Zenon, <2>1 DEF UnderWay
    <2>4. outgoingAckId'[Other(x)] >= incomingAckId'[x] \/ Acks(Pipeline(x)', incomingAckId'[x])
      BY <1>0, <1>1, <2>2, <2>3
    <2>5. \A k \in incomingMsgId'[Other(x)] + 1 .. outgoingMsgId'[x] : Carries(Pipeline(x)', k)
      BY Zenon, <1>1, <2>1, <2>2 DEF UnderWay
    <2> QED BY Zenon, <2>4, <2>5
  <1> QED BY Zenon, <1>2, <1>3 DEF UnderWay

\* A step of p that writes or buffers frames, or ends a reconnection.
StepOf(p) ==
    /\ UNCHANGED <<socket, taken, opened, open, drops, incomingMsgId, outgoingAckId>>
    /\ \A x \in Peers \ {p} :
         /\ \A c \in Sockets : wire'[c][x] = wire[c][x]
         /\ UNCHANGED <<data[x], isReconnecting[x], didSendDisconnect[x], farewell[x],
                        incomingAckId[x], outgoingMsgId[x], disposed[x]>>

\* Such a step need only be looked at from the side of p.
LEMMA StepOfFlow ==
    ASSUME IInv, FlowInv, NEW p \in Peers, StepOf(p),
           p = "client" /\ ~isReconnecting'[p] => socket[p] \in taken["server"],
           drops = 0 /\ Sender(p) /\ UnderWay(p) => Sender(p)' /\ UnderWay(p)'
    PROVE  FlowInv'
  <1>1. SocketsAgree'
    <2>1. UNCHANGED <<socket, taken, opened, open>>
      BY Zenon DEF StepOf
    <2>2. ~isReconnecting'["client"] => socket["client"] \in taken["server"]
      BY Zenon DEF StepOf, FlowInv, SocketsAgree, Peers
    <2> QED BY Zenon, <2>1, <2>2 DEF FlowInv, SocketsAgree
  <1>2. ASSUME drops' = 0, NEW x \in Peers PROVE Sender(x)' /\ UnderWay(x)'
    <2>1. drops = 0 /\ Sender(x) /\ UnderWay(x)
      BY Zenon, <1>2 DEF StepOf, FlowInv
    <2>2. CASE x = p
      BY Zenon, <2>1, <2>2
    <2>3. CASE x # p
      <3>1. outgoingAckId[Other(x)] \in Nat
        BY Zenon, FlowTypes
      <3>2. /\ UNCHANGED <<socket, open, taken, drops, incomingMsgId, outgoingAckId>>
            /\ UNCHANGED <<isReconnecting[x], disposed[x]>>
        BY Zenon, <2>3 DEF StepOf
      <3>3. Connected(x)' => Connected(x)
        BY Zenon, <3>2 DEF Connected
      <3>4. Kept(x)
        BY <2>3, <3>1, <3>2, <3>3 DEF Kept, StepOf
      <3> QED BY Zenon, <2>1, <3>4, KeptFlow
    <2> QED BY Zenon, <2>2, <2>3
  <1> QED BY Zenon, <1>1, <1>2 DEF FlowInv

\* write() of frames that may follow what is under way.
LEMMA AppendsInOrder ==
    ASSUME IInv, NEW p \in Peers, Sender(p), NEW ms \in Seq(Msg), Headers(ms) = ms,
           Write(p, ms), UNCHANGED <<wire, socket, taken, open, incomingMsgId>>,
           UNCHANGED <<didSendDisconnect[p], farewell[p]>>,
           NoneOf(ms, "Disconnect"),
           isReconnecting'[p] => isReconnecting[p] /\ NoneOf(ms, "Regular"),
           socket[p] \in open /\ ~disposed[p] =>
              MayFollow(Pipeline(p), ms, incomingMsgId[Other(p)], farewell[p])
    PROVE  Sender(p)' /\ (~disposed[p] => Pipeline(p)' = Pipeline(p) \o ms)
  <1>0. wire[socket[p]][p] \in Seq(Msg) /\ data[p] \in Seq(Msg) /\ Pipeline(p) \in Seq(Msg)
    BY Zenon, FlowTypes
  <1>1. CASE disposed[p]
    <2>1. data'[p] = data[p]
      BY Zenon, <1>1 DEF Write, IInv, TypeOK
    <2>2. Pipeline(p)' = Pipeline(p)
      BY Zenon, <2>1 DEF Pipeline
    <2> QED BY Zenon, <1>1, <2>1, <2>2 DEF Sender
  <1>2. CASE ~disposed[p]
    <2>1. data'[p] = data[p] \o ms
      BY Zenon, <1>2 DEF Write, IInv, TypeOK
    <2>2. Pipeline(p)' = Pipeline(p) \o ms
      <3>1. Pipeline(p)' = wire[socket[p]][p] \o (data[p] \o ms)
        BY Zenon, <2>1 DEF Pipeline
      <3>2. wire[socket[p]][p] \o (data[p] \o ms) = (wire[socket[p]][p] \o data[p]) \o ms
        BY Zenon, <1>0, FramesAssociate
      <3> QED BY Zenon, <3>1, <3>2 DEF Pipeline
    <2>3. socket[p] \in open =>
            Orderly(Pipeline(p) \o ms, incomingMsgId[Other(p)], farewell[p])
      BY Zenon, <1>0, <1>2, OrderlyConcat DEF Sender
    <2>4. isReconnecting'[p] => NoneOf(data[p] \o ms, "Regular")
      BY Zenon, <1>0, NoneOfConcat DEF Sender
    <2>5. ~didSendDisconnect[p] => NoneOf(data[p] \o ms, "Disconnect")
      BY Zenon, <1>0, NoneOfConcat DEF Sender
    <2>6. Sender(p)'
      BY Zenon, <2>1, <2>2, <2>3, <2>4, <2>5 DEF Sender
    <2> QED BY Zenon, <2>2, <2>6
  <1> QED BY Zenon, <1>1, <1>2

\* What was under way still is, and so are the new messages; the frames
\* acknowledge what p now considers acknowledged, unless that is as before.
LEMMA AppendsUnderWay ==
    ASSUME IInv, NEW p \in Peers, NEW ms \in Seq(Msg),
           UNCHANGED <<incomingMsgId, outgoingAckId>>,
           Connected(p)' => Pipeline(p)' = Pipeline(p) \o ms,
           Connected(p)' =>
              \A k \in incomingMsgId[Other(p)] + 1 .. outgoingMsgId'[p] :
                 Carries(Pipeline(p), k) \/ Carries(ms, k),
           Connected(p)' =>
              \/ Acks(ms, incomingAckId'[p])
              \/ /\ UNCHANGED incomingAckId[p]
                 /\ \/ outgoingAckId[Other(p)] >= incomingAckId[p]
                    \/ Acks(Pipeline(p), incomingAckId[p])
    PROVE  UnderWay(p)'
  <1>0. Pipeline(p) \in Seq(Msg)
    BY Zenon, FlowTypes
  <1>1. \A k : Carries(Pipeline(p), k) \/ Carries(ms, k) => Carries(Pipeline(p) \o ms, k)
    BY Zenon, <1>0, CarriesConcat
  <1>2. \A a : Acks(Pipeline(p), a) \/ Acks(ms, a) => Acks(Pipeline(p) \o ms, a)
    BY Zenon, <1>0, AcksConcat
  <1> QED BY Zenon, <1>1, <1>2 DEF UnderWay

\* A frame outside the flow of messages: Control, Pause, Resume, Ack, KeepAlive.
Plain(m) == m.type \in {"Control", "Pause", "Resume", "Ack", "KeepAlive"}

\* A frame that is neither a message nor a disconnect may follow anything.
LEMMA PlainFollows ==
    ASSUME NEW m, Plain(m), NEW q, NEW inc, NEW f
    PROVE  /\ MayFollow(q, <<m>>, inc, f) /\ NoneOf(<<m>>, "Regular")
           /\ NoneOf(<<m>>, "Disconnect")
  BY DEF Plain, MayFollow, NoneOf

\* sendControl(), sendPause(), sendResume(), _sendKeepAlive() and the timer
\* of _sendAckCheck().
LEMMA PlainWrite ==
    ASSUME IInv, FlowInv, NEW p \in Peers, NEW m \in Msg, Plain(m), Header(m) = m,
           Write(p, <<m>>), UNCHANGED <<wire, socketVars, open, drops, disconnectVars>>,
           UNCHANGED <<isReconnecting, incomingMsgId, outgoingMsgId, outgoingAckId>>,
           \A x \in Peers \ {p} : UNCHANGED incomingAckId[x],
           \/ UNCHANGED incomingAckId[p]
           \/ m.ack >= incomingAckId'[p]
    PROVE  FlowInv'
  <1>0. Headers(<<m>>) = <<m>> /\ <<m>> \in Seq(Msg)
    BY DEF Headers
  <1>1. StepOf(p)
    <2>1. \A x \in Peers \ {p} : data'[x] = data[x]
      BY Zenon DEF Write, IInv, TypeOK
    <2> QED BY Zenon, <2>1 DEF StepOf, socketVars, disconnectVars
  <1>2. p = "client" /\ ~isReconnecting'[p] => socket[p] \in taken["server"]
    BY Zenon DEF FlowInv, SocketsAgree
  <1>3. ASSUME drops = 0, Sender(p), UnderWay(p) PROVE Sender(p)' /\ UnderWay(p)'
    <2>1. Sender(p)' /\ (~disposed[p] => Pipeline(p)' = Pipeline(p) \o <<m>>)
      BY Zenon, <1>0, <1>3, PlainFollows, AppendsInOrder DEF socketVars, disconnectVars
    <2>2. Connected(p)' => Connected(p) /\ ~disposed[p]
      BY Zenon DEF Connected, socketVars
    <2>3. UnderWay(p)'
      <3>1. m.ack >= incomingAckId'[p] => Acks(<<m>>, incomingAckId'[p])
        BY DEF Acks
      <3> QED BY Zenon, <1>0, <1>3, <2>1, <2>2, <3>1, AppendsUnderWay DEF UnderWay
    <2> QED BY Zenon, <2>1, <2>3
  <1> QED BY Zenon, <1>1, <1>2, <1>3, StepOfFlow

\* An open socket is used by both peers, unless a reconnection is under way.
LEMMA OpenIsConnected ==
    ASSUME IInv, SocketsAgree, NEW p \in Peers, socket[p] \in open, ~isReconnecting[p],
           ~disposed[p], drops = 0
    PROVE  Connected(p)
  <1>1. CASE p = "client"
    BY Zenon, <1>1 DEF SocketsAgree, Connected, Other
  <1>2. CASE p = "server"
    BY Zenon, <1>2 DEF SocketsAgree, Connected, Other
  <1> QED BY Zenon, <1>1, <1>2 DEF Peers

\* send()
LEMMA SendFlow ==
    ASSUME IInv, FlowInv, NEW p \in Peers, NEW d \in Data, Send(p, d)
    PROVE  FlowInv'
  <1> DEFINE id == outgoingMsgId[p] + 1
             m == ProtocolMessage("Regular", id, incomingMsgId[p], d)
             inc == incomingMsgId[Other(p)]
  <1>0. /\ incomingMsgId[p] \in Nat /\ outgoingMsgId[p] \in Nat /\ inc \in Nat
        /\ inc <= outgoingMsgId[p] /\ Pipeline(p) \in Seq(Msg)
    BY Zenon, FlowTypes
  <1>1. /\ m \in Msg /\ m.type = "Regular" /\ m.id = id /\ m.ack = incomingMsgId[p]
        /\ <<m>> \in Seq(Msg)
    BY <1>0 DEF ProtocolMessage, Msg, Types, Payloads
  <1>2. Headers(<<m>>) = <<m>>
    <2>1. id <= MaxMsgs[p] /\ MaxMsgs[p] \in Nat /\ MaxMsgs[p] < IdLimit /\ IdLimit \in Nat
      BY Zenon, BoundsAssumption DEF Send
    <2>2. id < IdLimit /\ incomingMsgId[p] < IdLimit
      BY <1>0, <2>1, Limits
    <2> HIDE DEF m, id
    <2>3. \A i \in 1..Len(<<m>>) : <<m>>[i].id < IdLimit /\ <<m>>[i].ack < IdLimit
      BY <1>1, <2>2
    <2> QED BY Zenon, <1>1, <2>3, HeadersIdentity
  <1>3. /\ outgoingMsgId' = [outgoingMsgId EXCEPT ![p] = id]
        /\ incomingAckId' = [incomingAckId EXCEPT ![p] = incomingMsgId[p]]
        /\ UNCHANGED <<isReconnecting, disconnectVars, outgoingAckId, incomingMsgId,
                       socketVars, netVars>>
        /\ IF isReconnecting[p] THEN UNCHANGED data ELSE Write(p, <<m>>)
    BY Zenon DEF Send
  <1> HIDE DEF m
  <1>4. /\ outgoingMsgId'[p] = id /\ incomingAckId'[p] = incomingMsgId[p]
        /\ \A x \in Peers \ {p} : UNCHANGED <<outgoingMsgId[x], incomingAckId[x], data[x]>>
    BY Zenon, <1>3 DEF Write, IInv, TypeOK
  <1>5. StepOf(p)
    BY Zenon, <1>3, <1>4 DEF StepOf, socketVars, disconnectVars, netVars
  <1>6. p = "client" /\ ~isReconnecting'[p] => socket[p] \in taken["server"]
    BY Zenon, <1>3 DEF FlowInv, SocketsAgree
  <1>7. ASSUME drops = 0, Sender(p), UnderWay(p), isReconnecting[p]
        PROVE  Sender(p)' /\ UnderWay(p)'
    <2>1. UNCHANGED <<wire, data, socket, taken, open, isReconnecting, disconnectVars,
                      incomingMsgId>>
      BY Zenon, <1>3, <1>7 DEF socketVars, netVars
    <2>2. Sender(p)'
      BY Zenon, <1>7, <2>1 DEF Sender, Pipeline, disconnectVars
    <2>3. ~Connected(p)'
      BY Zenon, <1>7, <2>1 DEF Connected
    <2> QED BY Zenon, <2>2, <2>3 DEF UnderWay
  <1>8. ASSUME drops = 0, Sender(p), UnderWay(p), ~isReconnecting[p]
        PROVE  Sender(p)' /\ UnderWay(p)'
    <2>1. /\ Write(p, <<m>>)
          /\ UNCHANGED <<wire, socket, taken, open, disposed, drops, incomingMsgId,
                         isReconnecting>>
          /\ UNCHANGED <<didSendDisconnect[p], farewell[p]>>
          /\ ~isReconnecting'[p]
      BY Zenon, <1>3, <1>8 DEF socketVars, netVars, disconnectVars
    <2>2. NoneOf(<<m>>, "Disconnect")
      BY <1>1 DEF NoneOf
    <2>3. ASSUME Connected(p), NEW k \in inc + 1 .. outgoingMsgId[p]
          PROVE  Carries(Pipeline(p), k)
      BY Zenon, <1>8, <2>3 DEF UnderWay
    <2>4. ASSUME socket[p] \in open, ~disposed[p]
          PROVE  MayFollow(Pipeline(p), <<m>>, inc, farewell[p])
      <3>1. Connected(p)
        BY Zenon, <1>8, <2>4, OpenIsConnected DEF FlowInv
      <3>2. m.id <= inc + 1 \/ Carries(Pipeline(p), m.id - 1)
        BY <1>0, <1>1, <2>3, <3>1
      <3> QED BY <1>1, <3>2 DEF MayFollow
    <2>5. Sender(p)' /\ (~disposed[p] => Pipeline(p)' = Pipeline(p) \o <<m>>)
      BY Zenon, <1>1, <1>2, <1>8, <2>1, <2>2, <2>4, AppendsInOrder
    <2>6. Connected(p)' => Connected(p) /\ ~disposed[p]
      BY Zenon, <2>1 DEF Connected
    <2>7. Carries(<<m>>, id) /\ Acks(<<m>>, incomingAckId'[p])
      BY <1>0, <1>1, <1>4 DEF Carries, Acks, IsMessage
    <2>8. ASSUME Connected(p), NEW k \in inc + 1 .. outgoingMsgId'[p]
          PROVE  Carries(Pipeline(p), k) \/ Carries(<<m>>, k)
      <3>1. k = id \/ k \in inc + 1 .. outgoingMsgId[p]
        BY <1>0, <1>4
      <3> QED BY Zenon, <2>3, <2>7, <2>8, <3>1
    <2>9. UNCHANGED <<incomingMsgId, outgoingAckId>>
      BY Zenon, <1>3
    <2>10. UnderWay(p)'
      BY Zenon, <1>1, <2>5, <2>6, <2>7, <2>8, <2>9, AppendsUnderWay
    <2> QED BY Zenon, <2>5, <2>10
  <1> QED BY Zenon, <1>5, <1>6, <1>7, <1>8, StepOfFlow

\* What endAcceptReconnection() writes may follow frames that are no messages:
\* the queue starts at or before the message that the other peer lacks.
LEMMA ResendFollows ==
    ASSUME IInv, NEW p \in Peers
    PROVE  /\ Resend(p) \in Seq(Msg) /\ Headers(Resend(p)) = Resend(p)
           /\ NoneOf(Resend(p), "Disconnect")
           /\ \A q \in Seq(Msg) :
                MayFollow(q, Resend(p), incomingMsgId[Other(p)], farewell[p])
           /\ \A k \in incomingMsgId[Other(p)] + 1 .. outgoingMsgId[p] : Carries(Resend(p), k)
           /\ Acks(Resend(p), incomingMsgId[p])
  <1> DEFINE m == ProtocolMessage("Ack", 0, incomingMsgId[p], NoData)
             q == outgoingUnackMsg[p]
             r == <<m>> \o q
             a == outgoingAckId[p]
             inc == incomingMsgId[Other(p)]
             out == outgoingMsgId[p]
  <1>0. /\ incomingMsgId[p] \in Nat /\ a \in Nat /\ inc \in Nat /\ a <= inc /\ inc <= out
        /\ out \in Nat
    BY Zenon, FlowTypes
  <1>1. /\ m \in Msg /\ m.type = "Ack" /\ m.id = 0 /\ m.ack = incomingMsgId[p]
    BY Zenon, <1>0 DEF ProtocolMessage, Msg, Types, Payloads
  <1>2. /\ q \in Seq(Msg) /\ Len(q) = out - a
        /\ \A i \in 1..Len(q) : q[i].id = a + i
        /\ \A i \in 1..Len(q) : Genuine(sent[p], incomingMsgId[p], q[i])
    BY Zenon DEF IInv, TypeOK, UnackWindow, FramesGenuine, AllGenuine
  <1>3. Resend(p) = r
    BY Zenon DEF Resend
  <1>4. /\ Len(sent[p]) \in Nat /\ Len(sent[p]) < IdLimit /\ incomingMsgId[p] < IdLimit
        /\ IdLimit \in Nat
    BY Limits, BoundsAssumption
  <1> HIDE DEF m, q, a, inc, out
  <1>5. \A i \in 1..Len(q) : /\ q[i].type = "Regular" /\ q[i].id = a + i
                             /\ q[i].id < IdLimit /\ q[i].ack < IdLimit
    <2> SUFFICES ASSUME NEW i \in 1..Len(q)
                 PROVE  /\ q[i].type = "Regular" /\ q[i].id = a + i
                        /\ q[i].id < IdLimit /\ q[i].ack < IdLimit
      BY Zenon
    <2>1. q[i] \in Msg /\ q[i].id = a + i /\ Genuine(sent[p], incomingMsgId[p], q[i])
      BY <1>2
    <2>2. q[i].id \in Nat /\ q[i].ack \in Nat
      BY Zenon, <2>1 DEF Msg
    <2>3. /\ q[i].ack <= incomingMsgId[p] /\ q[i].id <= Len(sent[p])
          /\ q[i].type = "Regular" <=> q[i].id > 0
      BY Zenon, <2>1 DEF Genuine
    <2>4. i \in Nat /\ i > 0
      BY <1>2
    <2> HIDE DEF Msg
    <2> QED BY <1>0, <1>4, <2>1, <2>2, <2>3, <2>4
  <1>6. /\ r \in Seq(Msg) /\ Len(r) = Len(q) + 1 /\ Len(q) \in Nat
        /\ r[1] = m /\ \A i \in 1..Len(q) : r[i + 1] = q[i]
        /\ \A i \in 1..Len(r) : i = 1 \/ i - 1 \in 1..Len(q)
    BY <1>1, <1>2
  <1> HIDE DEF r
  <1>7. \A i \in 2..Len(r) : /\ r[i].type = "Regular" /\ r[i].id = a + i - 1
                             /\ r[i].id < IdLimit /\ r[i].ack < IdLimit
    <2> SUFFICES ASSUME NEW i \in 2..Len(r)
                 PROVE  /\ r[i].type = "Regular" /\ r[i].id = a + i - 1
                        /\ r[i].id < IdLimit /\ r[i].ack < IdLimit
      BY Zenon
    <2>1. i - 1 \in 1..Len(q) /\ (i - 1) + 1 = i
      BY <1>6
    <2>2. r[i] = q[i - 1]
      BY Zenon, <1>6, <2>1
    <2> QED BY Zenon, <1>0, <1>5, <2>1, <2>2
  <1>8. r[1] = m /\ 1 \in 1..Len(r) /\ \A i \in 1..Len(r) : i = 1 \/ i \in 2..Len(r)
    BY <1>6
  <1>9. Headers(r) = r
    <2>1. \A i \in 1..Len(r) : r[i].id < IdLimit /\ r[i].ack < IdLimit
      BY <1>1, <1>4, <1>7, <1>8
    <2> QED BY Zenon, <1>6, <2>1, HeadersIdentity
  <1>10. NoneOf(r, "Disconnect")
    BY Zenon, <1>1, <1>7, <1>8 DEF NoneOf
  <1>11. ASSUME NEW s \in Seq(Msg) PROVE MayFollow(s, r, inc, farewell[p])
    <2> SUFFICES ASSUME NEW i \in 2..Len(r)
                 PROVE  \/ r[i].id <= inc + 1
                        \/ \E j \in 1..(i - 1) : IsMessage(r[j], r[i].id - 1)
      BY Zenon, <1>1, <1>7, <1>8 DEF MayFollow
    <2>1. CASE i = 2
      BY <1>0, <1>7, <2>1
    <2>2. CASE i # 2
      <3>1. i - 1 \in 2..Len(r) /\ i - 1 \in 1..(i - 1) /\ a + (i - 1) - 1 = (a + i - 1) - 1
        BY <1>0, <1>6, <2>2
      <3> QED BY Zenon, <1>7, <3>1 DEF IsMessage
    <2> QED BY Zenon, <2>1, <2>2
  <1>12. ASSUME NEW k \in inc + 1 .. out PROVE Carries(r, k)
    <2>1. k - a + 1 \in 2..Len(r) /\ a + (k - a + 1) - 1 = k /\ k - a + 1 \in 1..Len(r)
      BY <1>0, <1>2, <1>6
    <2> QED BY Zenon, <1>7, <2>1 DEF Carries, IsMessage
  <1>13. Acks(r, incomingMsgId[p])
    BY <1>0, <1>1, <1>8 DEF Acks
  <1> QED BY Zenon, <1>3, <1>6, <1>9, <1>10, <1>11, <1>12, <1>13 DEF inc, out

\* endAcceptReconnection()
LEMMA EndFlow ==
    ASSUME IInv, FlowInv, NEW p \in Peers, MayEnd(p), EndAcceptReconnection(p)
    PROVE  FlowInv'
  <1>1. /\ incomingAckId' = [incomingAckId EXCEPT ![p] = incomingMsgId[p]]
        /\ isReconnecting' = [isReconnecting EXCEPT ![p] = FALSE]
        /\ Write(p, Resend(p))
        /\ UNCHANGED <<wire, socket, taken, opened, open, disposed, drops, disconnectVars,
                       incomingMsgId, outgoingMsgId, outgoingAckId>>
    BY Zenon DEF EndAcceptReconnection, sendVars, socketVars, netVars
  <1>2. /\ incomingAckId'[p] = incomingMsgId[p] /\ ~isReconnecting'[p]
        /\ \A x \in Peers \ {p} : UNCHANGED <<isReconnecting[x], incomingAckId[x], data[x]>>
    BY Zenon, <1>1 DEF Write, IInv, TypeOK
  <1>3. StepOf(p)
    BY Zenon, <1>1, <1>2 DEF StepOf, disconnectVars
  <1>4. p = "client" /\ ~isReconnecting'[p] => socket[p] \in taken["server"]
    BY Zenon DEF MayEnd
  <1>5. ASSUME drops = 0, Sender(p), UnderWay(p) PROVE Sender(p)' /\ UnderWay(p)'
    <2> DEFINE ms == Resend(p)
    <2>1. /\ ms \in Seq(Msg) /\ Headers(ms) = ms /\ NoneOf(ms, "Disconnect")
          /\ MayFollow(Pipeline(p), ms, incomingMsgId[Other(p)], farewell[p])
          /\ \A k \in incomingMsgId[Other(p)] + 1 .. outgoingMsgId[p] : Carries(ms, k)
          /\ Acks(ms, incomingMsgId[p])
      BY Zenon, FlowTypes, ResendFollows
    <2>2. /\ Write(p, ms)
          /\ UNCHANGED <<wire, socket, taken, open, incomingMsgId, outgoingAckId>>
          /\ UNCHANGED <<didSendDisconnect[p], farewell[p]>>
          /\ UNCHANGED outgoingMsgId[p]
      BY Zenon, <1>1 DEF disconnectVars
    <2> HIDE DEF ms
    <2>3. Sender(p)' /\ (~disposed[p] => Pipeline(p)' = Pipeline(p) \o ms)
      BY Zenon, <1>2, <1>5, <2>1, <2>2, AppendsInOrder
    <2>4. Connected(p)' => ~disposed[p]
      BY Zenon, <1>1 DEF Connected
    <2>5. UnderWay(p)'
      BY Zenon, <1>2, <2>1, <2>2, <2>3, <2>4, AppendsUnderWay
    <2> QED BY Zenon, <2>3, <2>5
  <1> QED BY Zenon, <1>3, <1>4, <1>5, StepOfFlow

\* A step of p after which its frames are those of q on the socket and those
\* of d in the buffer, all of them in order.
Moves(p, q, d) ==
    /\ wire'[socket[p]][p] = q
    /\ \A c \in Sockets \ {socket[p]} : wire'[c][p] = wire[c][p]
    /\ data'[p] = d
    /\ UNCHANGED <<socket, taken, open, incomingMsgId>>
    /\ UNCHANGED isReconnecting[p]
    /\ isReconnecting[p] => NoneOf(q, "Regular") /\ NoneOf(d, "Regular")
    /\ ~didSendDisconnect'[p] => /\ NoneOf(q, "Disconnect") /\ NoneOf(d, "Disconnect")
                                 /\ ~didSendDisconnect[p]
    /\ ~didSendDisconnect[p] \/ UNCHANGED farewell[p]
    /\ Orderly(q, incomingMsgId[Other(p)], farewell'[p])
    /\ socket[p] \in open => Orderly(q \o d, incomingMsgId[Other(p)], farewell'[p])

\* Such a step keeps the frames of p in order.
LEMMA MovedFlow ==
    ASSUME IInv, SocketsAgree, NEW p \in Peers, Sender(p), NEW q \in Seq(Msg), NEW d \in Seq(Msg),
           Moves(p, q, d)
    PROVE  Sender(p)' /\ Pipeline(p)' = q \o d
  <1> SUFFICES ASSUME wire'[socket[p]][p] = q,
                  \A c \in Sockets \ {socket[p]} : wire'[c][p] = wire[c][p],
                  data'[p] = d,
                  UNCHANGED <<socket, taken, open, incomingMsgId>>,
                  UNCHANGED isReconnecting[p],
                  isReconnecting[p] => NoneOf(q, "Regular") /\ NoneOf(d, "Regular"),
                  ~didSendDisconnect'[p] => /\ NoneOf(q, "Disconnect") /\ NoneOf(d, "Disconnect")
                                            /\ ~didSendDisconnect[p],
                  ~didSendDisconnect[p] \/ UNCHANGED farewell[p],
                  Orderly(q, incomingMsgId[Other(p)], farewell'[p]),
                  socket[p] \in open => Orderly(q \o d, incomingMsgId[Other(p)], farewell'[p])
               PROVE  Sender(p)' /\ Pipeline(p)' = q \o d
    BY Zenon DEF Moves
  <1>0. socket[p] \in Sockets
    BY Zenon, FlowTypes
  <1>1. Pipeline(p)' = q \o d /\ wire'[socket[p]][p] = q
    BY Zenon, <1>0 DEF Pipeline
  <1>2. ASSUME NEW c \in Sockets
        PROVE  Orderly(wire'[c][p], incomingMsgId[Other(p)], farewell'[p])
    <2>1. CASE c = socket[p]
      BY Zenon, <1>1, <2>1
    <2>2. CASE c # socket[p]
      <3>1. wire'[c][p] = wire[c][p]
        BY Zenon, <2>2
      <3>2. Orderly(wire[c][p], incomingMsgId[Other(p)], farewell[p])
        BY Zenon DEF Sender
      <3>3. CASE ~didSendDisconnect[p]
        BY Zenon, <3>1, <3>2, <3>3, OrderlyFarewell DEF Sender
      <3>4. CASE UNCHANGED farewell[p]
        BY Zenon, <3>1, <3>2, <3>4
      <3> QED BY Zenon, <3>3, <3>4
    <2> QED BY Zenon, <2>1, <2>2
  <1>3. ASSUME NEW c \in Sockets \ taken["server"] PROVE NoneOf(wire'[c][p], "Regular")
    <2>1. CASE c = socket[p]
      <3>1. isReconnecting[p]
        BY Zenon, <2>1, <1>3 DEF SocketsAgree, Peers
      <3> QED BY Zenon, <1>1, <2>1, <3>1
    <2>2. CASE c # socket[p]
      BY Zenon, <2>2 DEF Sender
    <2> QED BY Zenon, <2>1, <2>2
  <1>4. ASSUME ~didSendDisconnect'[p], NEW c \in Sockets
        PROVE  NoneOf(wire'[c][p], "Disconnect")
    <2>1. CASE c = socket[p]
      BY Zenon, <1>1, <1>4, <2>1
    <2>2. CASE c # socket[p]
      BY Zenon, <1>4, <2>2 DEF Sender
    <2> QED BY Zenon, <2>1, <2>2
  <1> QED BY Zenon, <1>1, <1>2, <1>3, <1>4 DEF Sender

\* The sockets w hold what they held, and ms after the frames of p on its socket.
Appended(w, p, ms) ==
    /\ socket[p] \in open => w[socket[p]][p] = wire[socket[p]][p] \o ms
    /\ socket[p] \notin open => w[socket[p]][p] = wire[socket[p]][p]
    /\ \A c \in Sockets \ {socket[p]} : w[c][p] = wire[c][p]
    /\ \A x \in Peers \ {p} : \A c \in Sockets : w[c][x] = wire[c][x]

\* socket.write() appends to the socket of the writer and leaves the others alone.
LEMMA Written ==
    ASSUME IInv, NEW p \in Peers, NEW ms \in Seq(Msg)
    PROVE  Appended(SocketWrite(wire, socket[p], p, ms), p, ms)
  <1>1. wire \in [Sockets -> [Peers -> Seq(Msg)]] /\ socket[p] \in Sockets
    BY Zenon DEF IInv, TypeOK
  <1>2. CASE socket[p] \in open
    BY Zenon, <1>1, <1>2 DEF Appended, SocketWrite
  <1>3. CASE socket[p] \notin open
    BY Zenon, <1>3 DEF Appended, SocketWrite
  <1> QED BY Zenon, <1>2, <1>3

\* The timer of ProtocolWriter, flush(), and dispose(), which flushes.
LEMMA FlushFlow ==
    ASSUME IInv, FlowInv, NEW p \in Peers,
           wire' = SocketWrite(wire, socket[p], p, Flushed(p, data[p])),
           data' = [data EXCEPT ![p] = IF paused[p] THEN data[p] ELSE <<>>],
           UNCHANGED <<isReconnecting, didSendDisconnect, farewell, incomingMsgId,
                       incomingAckId, outgoingMsgId, outgoingAckId>>,
           UNCHANGED <<socket, taken, opened, open, drops>>,
           \A x \in Peers \ {p} : UNCHANGED disposed[x],
           ~disposed'[p] => ~disposed[p]
    PROVE  FlowInv'
  <1> DEFINE ms == Flushed(p, data[p])
             q == IF socket[p] \in open THEN wire[socket[p]][p] \o ms ELSE wire[socket[p]][p]
             d == IF paused[p] THEN data[p] ELSE <<>>
             inc == incomingMsgId[Other(p)]
             f == farewell[p]
  <1>0. /\ wire[socket[p]][p] \in Seq(Msg) /\ data[p] \in Seq(Msg) /\ socket[p] \in Sockets
        /\ ms \in Seq(Msg) /\ d \in Seq(Msg) /\ q \in Seq(Msg)
    BY FlowTypes DEF Flushed
  <1>1. /\ wire'[socket[p]][p] = q /\ \A c \in Sockets \ {socket[p]} : wire'[c][p] = wire[c][p]
        /\ \A x \in Peers \ {p} : \A c \in Sockets : wire'[c][x] = wire[c][x]
    <2>1. Appended(SocketWrite(wire, socket[p], p, ms), p, ms)
      BY Zenon, <1>0, Written
    <2>2. Appended(wire', p, ms)
      BY Zenon, <2>1
    <2> HIDE DEF ms
    <2>3. /\ socket[p] \in open => wire'[socket[p]][p] = wire[socket[p]][p] \o ms
          /\ socket[p] \notin open => wire'[socket[p]][p] = wire[socket[p]][p]
          /\ \A c \in Sockets \ {socket[p]} : wire'[c][p] = wire[c][p]
          /\ \A x \in Peers \ {p} : \A c \in Sockets : wire'[c][x] = wire[c][x]
      BY Zenon, <2>2 DEF Appended
    <2>4. wire'[socket[p]][p] = q
      BY Zenon, <2>3
    <2> HIDE DEF q
    <2> QED BY Zenon, <2>3, <2>4
  <1>2. data'[p] = d /\ \A x \in Peers \ {p} : UNCHANGED data[x]
    BY Zenon DEF IInv, TypeOK
  <1>3. StepOf(p)
    BY Zenon, <1>1, <1>2 DEF StepOf
  <1>4. p = "client" /\ ~isReconnecting'[p] => socket[p] \in taken["server"]
    BY Zenon DEF FlowInv, SocketsAgree
  <1>5. /\ socket[p] \in open => q \o d = Pipeline(p) /\ (q = Pipeline(p) \/ q = wire[socket[p]][p])
        /\ socket[p] \notin open => q = wire[socket[p]][p]
    <2>1. \A v \in Seq(Msg) : v \o <<>> = v
      OBVIOUS
    <2>2. CASE paused[p]
      BY Zenon, <1>0, <2>1, <2>2 DEF Flushed, Pipeline
    <2>3. CASE ~paused[p]
      <3>1. ms = data[p] /\ d = <<>>
        BY Zenon, <2>3 DEF Flushed
      <3>2. Pipeline(p) \o <<>> = Pipeline(p)
        BY Zenon, <2>1, FlowTypes
      <3> HIDE DEF ms, d
      <3> QED BY Zenon, <3>1, <3>2 DEF Pipeline
    <2> QED BY Zenon, <2>2, <2>3
  <1>6. ASSUME NEW t, NoneOf(data[p], t), NoneOf(wire[socket[p]][p], t)
        PROVE  NoneOf(q, t) /\ NoneOf(d, t)
    <2>1. NoneOf(ms, t) /\ NoneOf(d, t)
      BY <1>6 DEF NoneOf, Flushed
    <2> QED BY Zenon, <1>0, <1>6, <2>1, NoneOfConcat
  <1> HIDE DEF ms, q, d
  <1>7. ASSUME drops = 0, Sender(p), UnderWay(p) PROVE Sender(p)' /\ UnderWay(p)'
    <2>1. /\ Orderly(q, inc, f) /\ (socket[p] \in open => Orderly(q \o d, inc, f))
          /\ isReconnecting[p] => NoneOf(q, "Regular") /\ NoneOf(d, "Regular")
          /\ ~didSendDisconnect[p] => NoneOf(q, "Disconnect") /\ NoneOf(d, "Disconnect")
      BY Zenon, <1>0, <1>5, <1>6, <1>7 DEF Sender
    <2>2. Sender(p)' /\ Pipeline(p)' = q \o d
      <3>1. /\ Orderly(q, incomingMsgId[Other(p)], farewell'[p])
            /\ socket[p] \in open => Orderly(q \o d, incomingMsgId[Other(p)], farewell'[p])
            /\ ~didSendDisconnect'[p] => /\ NoneOf(q, "Disconnect") /\ NoneOf(d, "Disconnect")
                                         /\ ~didSendDisconnect[p]
            /\ UNCHANGED <<socket, taken, open, incomingMsgId>>
            /\ UNCHANGED isReconnecting[p]
            /\ ~didSendDisconnect[p] \/ UNCHANGED farewell[p]
        BY Zenon, <2>1
      <3>2. SocketsAgree
        BY Zenon DEF FlowInv
      <3>3. /\ q \in Seq(Msg) /\ d \in Seq(Msg) /\ data'[p] = d
            /\ wire'[socket[p]][p] = q
            /\ \A c \in Sockets \ {socket[p]} : wire'[c][p] = wire[c][p]
            /\ isReconnecting[p] => NoneOf(q, "Regular") /\ NoneOf(d, "Regular")
        BY Zenon, <1>0, <1>1, <1>2, <2>1
      <3>4. Moves(p, q, d)
        BY Zenon, <3>1, <3>3 DEF Moves
      <3> QED BY Zenon, <1>7, <3>2, <3>3, <3>4, MovedFlow
    <2>3. Connected(p)' => Connected(p) /\ Pipeline(p)' = Pipeline(p)
      BY Zenon, <1>5, <2>2 DEF Connected
    <2>4. UnderWay(p)'
      BY Zenon, <1>7, <2>3 DEF UnderWay
    <2> QED BY Zenon, <2>2, <2>4
  <1> QED BY Zenon, <1>3, <1>4, <1>7, StepOfFlow

\* sendDisconnect()
LEMMA DisconnectFlow ==
    ASSUME IInv, FlowInv, NEW p \in Peers, SendDisconnect(p)
    PROVE  FlowInv'
  <1> DEFINE m == ProtocolMessage("Disconnect", 0, 0, NoData)
             ms == IF disposed[p] THEN <<>> ELSE Flushed(p, data[p] \o <<m>>)
             d == IF disposed[p] THEN data[p]
                  ELSE IF paused[p] THEN data[p] \o <<m>> ELSE <<>>
             w == wire[socket[p]][p]
             q == IF socket[p] \in open THEN w \o ms ELSE w
             inc == incomingMsgId[Other(p)]
             f == IF isReconnecting[p] THEN 0 ELSE outgoingMsgId[p]
             out == outgoingMsgId[p]
  <1>0. /\ w \in Seq(Msg) /\ data[p] \in Seq(Msg) /\ socket[p] \in Sockets
        /\ Pipeline(p) \in Seq(Msg) /\ inc \in Nat /\ out \in Nat
    BY Zenon, FlowTypes
  <1>1. m \in Msg /\ m.type = "Disconnect" /\ <<m>> \in Seq(Msg)
    BY DEF ProtocolMessage, Msg, Types, Payloads
  <1>2. /\ ~didSendDisconnect[p]
        /\ didSendDisconnect' = [didSendDisconnect EXCEPT ![p] = TRUE]
        /\ farewell' = [farewell EXCEPT ![p] = f]
        /\ data' = IF disposed[p] THEN data
                   ELSE [data EXCEPT ![p] = IF paused[p] THEN data[p] \o <<m>> ELSE <<>>]
        /\ wire' = IF disposed[p] THEN wire
                   ELSE SocketWrite(wire, socket[p], p, Flushed(p, data[p] \o <<m>>))
        /\ UNCHANGED <<isReconnecting, incomingMsgId, incomingAckId, outgoingMsgId,
                       outgoingAckId, disposed, socket, taken, opened, open, drops>>
    BY Zenon DEF SendDisconnect, WithDisconnect, sendVars, recvVars, socketVars
  <1> HIDE DEF m
  <1>3. ms \in Seq(Msg) /\ d \in Seq(Msg) /\ q \in Seq(Msg)
    BY <1>0, <1>1 DEF Flushed
  <1>4. /\ wire'[socket[p]][p] = q /\ \A c \in Sockets \ {socket[p]} : wire'[c][p] = wire[c][p]
        /\ \A x \in Peers \ {p} : \A c \in Sockets : wire'[c][x] = wire[c][x]
    <2>1. CASE disposed[p]
      <3>1. wire' = wire /\ ms = <<>>
        BY Zenon, <1>2, <2>1
      <3>2. w \o <<>> = w
        BY <1>0
      <3>3. q = w
        BY Zenon, <3>1, <3>2
      <3> HIDE DEF q
      <3> QED BY Zenon, <3>1, <3>3
    <2>2. CASE ~disposed[p]
      <3>1. ms = Flushed(p, data[p] \o <<m>>)
        BY Zenon, <2>2
      <3> HIDE DEF ms
      <3>2. Appended(SocketWrite(wire, socket[p], p, ms), p, ms)
        BY Zenon, <1>3, Written
      <3>3. Appended(wire', p, ms)
        BY Zenon, <1>2, <2>2, <3>1, <3>2
      <3>4. /\ socket[p] \in open => wire'[socket[p]][p] = wire[socket[p]][p] \o ms
            /\ socket[p] \notin open => wire'[socket[p]][p] = wire[socket[p]][p]
            /\ \A c \in Sockets \ {socket[p]} : wire'[c][p] = wire[c][p]
            /\ \A x \in Peers \ {p} : \A c \in Sockets : wire'[c][x] = wire[c][x]
        BY Zenon, <3>3 DEF Appended
      <3>5. wire'[socket[p]][p] = q
        BY Zenon, <3>4
      <3> HIDE DEF q
      <3> QED BY Zenon, <3>4, <3>5
    <2> QED BY Zenon, <2>1, <2>2
  <1>5. /\ data'[p] = d /\ didSendDisconnect'[p] /\ farewell'[p] = f
        /\ \A x \in Peers \ {p} : UNCHANGED <<data[x], didSendDisconnect[x], farewell[x]>>
    BY Zenon, <1>2 DEF IInv, TypeOK
  <1>6. StepOf(p)
    BY Zenon, <1>2, <1>4, <1>5 DEF StepOf
  <1>7. p = "client" /\ ~isReconnecting'[p] => socket[p] \in taken["server"]
    BY Zenon, <1>2 DEF FlowInv, SocketsAgree
  <1>8. /\ socket[p] \in open /\ ~disposed[p] =>
             /\ q \o d = Pipeline(p) \o <<m>>
             /\ q = w \/ q = Pipeline(p) \o <<m>>
        /\ socket[p] \in open /\ disposed[p] => q \o d = Pipeline(p) /\ q = w
        /\ socket[p] \notin open => q = w
    <2> DEFINE r == data[p] \o <<m>>
    <2>0. Pipeline(p) = w \o data[p]
      BY Zenon DEF Pipeline
    <2>1. w \o r = Pipeline(p) \o <<m>>
      <3>1. w \o (data[p] \o <<m>>) = (w \o data[p]) \o <<m>>
        BY Zenon, <1>0, <1>1, FramesAssociate
      <3> QED BY Zenon, <2>0, <3>1
    <2>2. w \o <<>> = w /\ (w \o r) \o <<>> = w \o r
      <3>1. \A v \in Seq(Msg) : v \o <<>> = v
        OBVIOUS
      <3>2. w \o r \in Seq(Msg)
        <4>1. w \in Seq(Msg) /\ r \in Seq(Msg)
          BY <1>0, <1>1
        <4> HIDE DEF w, r
        <4> QED BY <4>1
      <3> QED BY Zenon, <1>0, <3>1, <3>2
    <2>3. ms = IF disposed[p] \/ paused[p] THEN <<>> ELSE r
      BY Zenon DEF Flushed
    <2>4. d = IF disposed[p] THEN data[p] ELSE IF paused[p] THEN r ELSE <<>>
      BY Zenon
    <2> HIDE DEF r, ms, d, w
    <2> QED BY Zenon, <2>0, <2>1, <2>2, <2>3, <2>4
  <1>9. ASSUME NoneOf(data[p], "Regular"), NoneOf(w, "Regular")
        PROVE  NoneOf(q, "Regular") /\ NoneOf(d, "Regular")
    <2>1. NoneOf(<<m>>, "Regular") /\ NoneOf(<<>>, "Regular")
      BY <1>1 DEF NoneOf
    <2>2. NoneOf(data[p] \o <<m>>, "Regular")
      BY Zenon, <1>0, <1>1, <1>9, <2>1, NoneOfConcat
    <2>3. NoneOf(ms, "Regular") /\ NoneOf(d, "Regular")
      BY Zenon, <1>9, <2>1, <2>2 DEF Flushed
    <2> HIDE DEF ms, d
    <2> QED BY Zenon, <1>0, <1>3, <1>9, <2>3, NoneOfConcat
  <1> HIDE DEF ms, q, d, w
  <1>10. ASSUME drops = 0, Sender(p), UnderWay(p) PROVE Sender(p)' /\ UnderWay(p)'
    <2>1. Orderly(w, inc, f)
      BY Zenon, <1>0, <1>2, <1>10, OrderlyFarewell DEF Sender, w
    <2>2. socket[p] \in open => Orderly(Pipeline(p), inc, f)
      <3>1. NoneOf(Pipeline(p), "Disconnect")
        BY Zenon, <1>0, <1>2, <1>10, NoneOfConcat DEF Sender, Pipeline, w
      <3> QED BY Zenon, <1>10, <3>1, OrderlyFarewell DEF Sender
    <2>3. ASSUME socket[p] \in open, ~disposed[p] PROVE Orderly(Pipeline(p) \o <<m>>, inc, f)
      <3>1. \A k \in 1..f : k <= inc \/ Carries(Pipeline(p), k)
        <4>1. CASE isReconnecting[p]
          BY <4>1
        <4>2. CASE ~isReconnecting[p]
          <5>1. Connected(p)
            BY Zenon, <1>10, <2>3, <4>2, OpenIsConnected DEF FlowInv
          <5>2. \A k \in inc + 1 .. out : Carries(Pipeline(p), k)
            BY Zenon, <1>10, <5>1 DEF UnderWay
          <5>3. \A k \in 1..f : k <= inc \/ k \in inc + 1 .. out
            BY <1>0, <4>2
          <5> QED BY Zenon, <5>2, <5>3
        <4> QED BY Zenon, <4>1, <4>2
      <3>2. MayFollow(Pipeline(p), <<m>>, inc, f)
        BY <1>1, <3>1 DEF MayFollow
      <3> QED BY Zenon, <1>0, <1>1, <2>2, <2>3, <3>2, OrderlyConcat
    <2>4. /\ Orderly(q, inc, f) /\ (socket[p] \in open => Orderly(q \o d, inc, f))
          /\ isReconnecting[p] => NoneOf(q, "Regular") /\ NoneOf(d, "Regular")
      BY Zenon, <1>8, <1>9, <1>10, <2>1, <2>2, <2>3 DEF Sender, w
    <2>5. Sender(p)' /\ Pipeline(p)' = q \o d
      <3>1. /\ Orderly(q, incomingMsgId[Other(p)], farewell'[p])
            /\ socket[p] \in open => Orderly(q \o d, incomingMsgId[Other(p)], farewell'[p])
            /\ UNCHANGED <<socket, taken, open, incomingMsgId>>
            /\ UNCHANGED isReconnecting[p]
            /\ ~didSendDisconnect[p] /\ didSendDisconnect'[p] /\ data'[p] = d
        BY Zenon, <1>2, <1>5, <2>4
      <3>2. SocketsAgree
        BY Zenon DEF FlowInv
      <3>3. /\ q \in Seq(Msg) /\ d \in Seq(Msg) /\ wire'[socket[p]][p] = q
            /\ \A c \in Sockets \ {socket[p]} : wire'[c][p] = wire[c][p]
            /\ isReconnecting[p] => NoneOf(q, "Regular") /\ NoneOf(d, "Regular")
        BY Zenon, <1>3, <1>4, <2>4
      <3>4. Moves(p, q, d)
        BY Zenon, <3>1, <3>3 DEF Moves
      <3> QED BY Zenon, <1>10, <3>2, <3>3, <3>4, MovedFlow
    <2>6. Connected(p)' => Connected(p) /\ Pipeline(p)' = Pipeline(p) \o <<m>>
      BY Zenon, <1>2, <1>8, <2>5 DEF Connected
    <2>7. UNCHANGED <<incomingMsgId, outgoingAckId>> /\ UNCHANGED incomingAckId[p]
          /\ UNCHANGED outgoingMsgId[p]
      BY Zenon, <1>2
    <2>8. UnderWay(p)'
      BY Zenon, <1>1, <1>10, <2>6, <2>7, AppendsUnderWay DEF UnderWay
    <2> QED BY Zenon, <2>5, <2>8
  <1> QED BY Zenon, <1>6, <1>7, <1>10, StepOfFlow

=============================================================================
