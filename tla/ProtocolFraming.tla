-------------------------- MODULE ProtocolFraming --------------------------
(***************************************************************************)
(* How messages become bytes and bytes become messages: ProtocolWriter,    *)
(* ChunkStream and ProtocolReader of base/parts/ipc/common/ipc.net.ts, and *)
(* the way the server hands a socket from the protocol of the handshake to *)
(* the one of the connection (server/node/remoteExtensionHostAgentServer). *)
(*                                                                         *)
(* One socket is modelled, from a client to the server.  The client writes *)
(* an AuthRequest and a ConnectionTypeRequest, which are Control messages, *)
(* and, once the server has answered, Regular ones.  Messages without a    *)
(* body (Ack, KeepAlive, Disconnect) it writes at any time.  TCP cuts the  *)
(* bytes where it likes.  (The first connection of type Management keeps   *)
(* its protocol; every other one is handed over.)                          *)
(*                                                                         *)
(* A byte is a pair: the number of its message, and its place in it.       *)
(***************************************************************************)
EXTENDS Naturals, Sequences, SequencesExt

CONSTANTS
    HeaderLength,   \* 13
    MaxBody,        \* bound: bytes of a body
    MaxMessages     \* bound: messages written

VARIABLES
    connectionType,  \* what the client is going to ask for
    written,      \* the messages written: the type and the length of the body
    wire,         \* bytes on the way
    chunks,       \* ChunkStream._chunks
    totalLength,  \* ChunkStream._totalLength
    readHead, readLen, message,  \* ProtocolReader._state
    server,       \* which protocol reads: "handshake", also while it "waits", or
                  \* "connection"
    delivered     \* what onMessage has fired, and for which protocol

vars == <<connectionType, written, wire, chunks, totalLength, readHead, readLen,
          message, server, delivered>>

None == 0

Init ==
    /\ connectionType \in {"Management", "ExtensionHost"}
    /\ written = <<>>
    /\ wire = <<>>
    /\ chunks = <<>>
    /\ totalLength = 0
    /\ readHead = TRUE
    /\ readLen = HeaderLength
    /\ message = None
    /\ server = "handshake"
    /\ delivered = <<>>

-----------------------------------------------------------------------------
(* The client.                                                             *)

\* ProtocolWriter: a header and a body, or a header only.
Bytes(i, n) == [p \in 1..(HeaderLength + n) |-> <<i, p>>]

Write(type, n) ==
    /\ Len(written) < MaxMessages
    /\ written' = Append(written, [type |-> type, length |-> n])
    /\ wire' = wire \o Bytes(Len(written) + 1, n)
    /\ UNCHANGED <<connectionType, chunks, totalLength, readHead, readLen, message,
                   server, delivered>>

ControlMessages(seq) == SelectSeq(seq, LAMBDA m : m.type = "Control")

\* The AuthRequest, and a ConnectionTypeRequest as the answer to a SignRequest.
SendControl ==
    /\ \/ ControlMessages(written) = <<>>
       \/ Len(ControlMessages(written)) = 1 /\ Len(ControlMessages(delivered)) = 1
    /\ \E n \in 1..MaxBody : Write("Control", n)

\* PersistentProtocol.send() writes nothing before the end of a reconnection, and
\* nobody has a new protocol before that of the connection.
MaySend == server = "connection"

SendRegular ==
    /\ MaySend
    /\ \E n \in 0..MaxBody : Write("Regular", n)

\* An ack, a keep-alive or a farewell.
SendEmpty == Write("Empty", 0)

-----------------------------------------------------------------------------
(* The server: ChunkStream and ProtocolReader.                             *)

\* ChunkStream.acceptChunk()
AcceptChunk(chunk) ==
    /\ chunks' = Append(chunks, chunk)
    /\ totalLength' = totalLength + Len(chunk)

\* The length of the first i chunks.
LengthOf(i) == Len(FlattenSeq(SubSeq(chunks, 1, i)))

\* The number of chunks that a reading of n bytes reads entirely.
Whole(n) ==
    CHOOSE i \in 0..Len(chunks) :
        LengthOf(i) <= n /\ (i < Len(chunks) => LengthOf(i + 1) > n)

\* What ChunkStream.read() leaves: the chunks that are read entirely are removed,
\* and the one where the reading ends is cut.
Rest(n) ==
    LET rest == SubSeq(chunks, Whole(n) + 1, Len(chunks))
        part == n - LengthOf(Whole(n))
    IN  IF part = 0 THEN rest
        ELSE <<SubSeq(Head(rest), part + 1, Len(Head(rest)))>> \o Tail(rest)

\* The first n bytes, which ChunkStream.read() returns.
Buffer(n) == SubSeq(FlattenSeq(chunks), 1, n)

Read(n) ==
    /\ chunks' = Rest(n)
    /\ totalLength' = totalLength - n

\* The loop of ProtocolReader.acceptChunk() runs until there is too little to read.
Reading == totalLength >= readLen

\* Some bytes arrive.
ReceiveData ==
    /\ ~Reading
    /\ \E n \in 1..Len(wire) :
          /\ AcceptChunk(SubSeq(wire, 1, n))
          /\ wire' = SubSeq(wire, n + 1, Len(wire))
    /\ UNCHANGED <<connectionType, written, readHead, readLen, message, server, delivered>>

\* The header tells the type and the length of the body.
ReadHeader ==
    /\ Reading
    /\ readHead
    /\ Read(readLen)
    /\ readHead' = FALSE
    /\ message' = Head(Buffer(readLen))[1]
    /\ readLen' = written[message'].length
    /\ UNCHANGED <<connectionType, written, wire, server, delivered>>

MutantForgottenBuffer(stream) == <<>>

\* readEntireBuffer(): the new protocol starts with the bytes that the old one has
\* not read, as one chunk.
EntireBuffer(stream) ==
    IF FlattenSeq(stream) = <<>> THEN <<>> ELSE <<FlattenSeq(stream)>>

\* The protocol of the handshake is disposed, and that of the connection reads on.
HandOver(stream) ==
    /\ server' = "connection"
    /\ chunks' = EntireBuffer(stream)
    /\ totalLength' = Len(FlattenSeq(chunks'))

\* Before the server answers, it looks for a debug port.
Waits == connectionType = "ExtensionHost"

\* The body is there: onMessage fires.  When it was a ConnectionTypeRequest, the
\* server goes on with the connection at once, in the listener, or later.
ReadBody ==
    /\ Reading
    /\ ~readHead
    /\ readHead' = TRUE
    /\ readLen' = HeaderLength
    /\ message' = None
    /\ delivered' = Append(delivered, [type |-> written[message].type,
                                       id |-> message,
                                       body |-> Buffer(readLen),
                                       to |-> server])
    /\ IF server = "handshake" /\ Len(ControlMessages(delivered')) = 2
       THEN IF Waits
            THEN server' = "waits" /\ Read(readLen)
            ELSE HandOver(Rest(readLen))
       ELSE Read(readLen) /\ UNCHANGED server
    /\ UNCHANGED <<connectionType, written, wire>>

\* _updateWithFreeDebugPort() is done.
FoundPort ==
    /\ ~Reading
    /\ server = "waits"
    /\ HandOver(chunks)
    /\ readHead' = TRUE
    /\ readLen' = HeaderLength
    /\ message' = None
    /\ UNCHANGED <<connectionType, written, wire, delivered>>

-----------------------------------------------------------------------------

Next ==
    \/ SendControl
    \/ SendRegular
    \/ SendEmpty
    \/ ReceiveData
    \/ ReadHeader
    \/ ReadBody
    \/ FoundPort

Spec == Init /\ [][Next]_vars

-----------------------------------------------------------------------------
(* Properties.                                                             *)

\* The bytes of message i, and those of its header.
BytesOf(i) == Bytes(i, written[i].length)
HeaderOf(i) == SubSeq(BytesOf(i), 1, HeaderLength)

\* No byte is lost, doubled or read out of order, wherever TCP cuts the stream and
\* whenever another reader takes over: what the readers have consumed, what is
\* buffered and what is on the way make up what was written.  In particular,
\* readEntireBuffer() is never called when the old reader has taken a header.
StreamIsIntact ==
    FlattenSeq([i \in 1..Len(delivered) |-> HeaderOf(delivered[i].id) \o delivered[i].body])
      \o (IF readHead THEN <<>> ELSE HeaderOf(message))
      \o FlattenSeq(chunks) \o wire
    = FlattenSeq([i \in 1..Len(written) |-> BytesOf(i)])

\* Messages are delivered once and in order, each with its own body, and Regular
\* ones not by the protocol of the handshake, which would drop them.
MessagesInOrder ==
    \A i \in 1..Len(delivered) :
        /\ delivered[i].id = i
        /\ HeaderOf(i) \o delivered[i].body = BytesOf(i)
        /\ delivered[i].type = "Regular" => delivered[i].to = "connection"

\* A message that has arrived is delivered: the loop never stops at a message that
\* is complete, not even after one without a body or after the handover.
NothingStuck ==
    ~Reading /\ wire = <<>> => Len(delivered) = Len(written)

=============================================================================
