------------------------------ MODULE TcpStream ------------------------------
(***************************************************************************)
(* One direction of a TCP stream between two devices: threads of one write *)
(* frames, a length and a packet, to the nonblocking socket, and the       *)
(* stream handler of the other cuts the bytes into frames again            *)
(* (device/mod.rs, register_tcp_stream_handler; device/tcp_framing.rs).    *)
(*                                                                         *)
(* The two ends of a connection keep two descriptors each, behind a mutex  *)
(* each: the one in tcp_connections, that all threads write packets to,    *)
(* and the one of the stream handler, that it reads and that it writes     *)
(* cookie replies to.                                                      *)
(***************************************************************************)
EXTENDS Integers, Sequences, SequencesExt

CONSTANTS
    Writers,        \* the threads that write to the socket of tcp_connections
    CookieWriters,  \* the stream handler, when it writes cookie replies
    BASE,           \* values of a byte (256)
    BUFFER,         \* MAX_DATAGRAM_SIZE (65535)
    SNDBUF,         \* bytes the two socket buffers hold
    MAX_ITR,        \* packets a handler processes in one call (100)
    Datagrams,      \* the packets, as sequences of bytes
    MaxFrames       \* bound: frames written

HEADER_LEN == 2

Senders == Writers \cup CookieWriters

Bytes == 0..(BASE - 1)

\* A packet and its length fit the receive buffer: a UDP payload is at most
\* 65527 bytes long.
ASSUME StreamAssumption ==
    /\ BASE \in Nat \ {0, 1}
    /\ BUFFER \in Nat /\ BUFFER > HEADER_LEN
    /\ SNDBUF \in Nat \ {0}
    /\ MAX_ITR \in Nat \ {0}
    /\ MaxFrames \in Nat
    /\ Datagrams \subseteq Seq(Bytes) \ {<<>>}
    /\ \A p \in Datagrams : HEADER_LEN + Len(p) <= BUFFER /\ Len(p) < BASE * BASE

VARIABLES
    writing,        \* the packet each sender has written the length of, or NoPacket
    stream,         \* bytes in the socket buffers
    buffer,         \* TcpFraming.buffer[..unprocessed_i]
    bytes_consumed, \* bytes of it that the handler has processed in this call
    processed,      \* packets_processed in this call
    handling,       \* the handler is in its loop over the frames
    closed,         \* read has returned 0
    written,        \* history: the packets written, in the order of their lengths
    handed,         \* history: the packets peek_packet returned
    torn            \* history: a write was cut short, or came between the two
                    \* writes of another sender

NoPacket == <<>>

reader == <<buffer, bytes_consumed, processed, handling, closed, handed>>
streamVars == <<writing, stream, reader, written, torn>>

StreamInit ==
    /\ writing = [w \in Senders |-> NoPacket]
    /\ stream = <<>>
    /\ buffer = <<>>
    /\ bytes_consumed = 0
    /\ processed = 0
    /\ handling = FALSE
    /\ closed = FALSE
    /\ written = <<>>
    /\ handed = <<>>
    /\ torn = FALSE

Least(a, b) == IF a <= b THEN a ELSE b

-----------------------------------------------------------------------------
(* Writing a frame.                                                        *)

\* Big-endian.
Header(p) == <<Len(p) \div BASE, Len(p) % BASE>>

\* The mutex a sender holds while it writes a frame.
SameMutex(v, w) == v \in CookieWriters <=> w \in CookieWriters

\* What the socket takes of bytes; the count that write returns is ignored.
WriteBytes(w, bytes) ==
    LET n == Least(Len(bytes), SNDBUF - Len(stream)) IN
    /\ stream' = stream \o SubSeq(bytes, 1, n)
    /\ torn' = \/ torn
               \/ n < Len(bytes)
               \/ \E v \in Senders \ {w} : writing[v] # NoPacket

WriteLength(w, p) ==
    /\ ~closed
    /\ \A v \in Senders : SameMutex(v, w) => writing[v] = NoPacket
    /\ Len(written) < MaxFrames
    /\ WriteBytes(w, Header(p))
    /\ writing' = [writing EXCEPT ![w] = p]
    /\ written' = Append(written, p)
    /\ UNCHANGED reader

WritePacket(w) ==
    /\ ~closed
    /\ writing[w] # NoPacket
    /\ WriteBytes(w, writing[w])
    /\ writing' = [writing EXCEPT ![w] = NoPacket]
    /\ UNCHANGED <<reader, written>>

-----------------------------------------------------------------------------
(* The stream handler.                                                     *)

\* Where the frame that starts after the first i bytes ends.
PacketEnd(i) ==
    i + HEADER_LEN + BASE * buffer[i + 1] + buffer[i + 2]

Packet(i) == SubSeq(buffer, i + HEADER_LEN + 1, PacketEnd(i))

\* Mutant: a frame is complete when more bytes follow it.
CompleteAfter(i) ==
    /\ Len(buffer) >= i + HEADER_LEN
    /\ Len(buffer) > PacketEnd(i)

\* peek_packet returns Some.
Complete(i) ==
    /\ Len(buffer) >= i + HEADER_LEN
    /\ Len(buffer) >= PacketEnd(i)

\* The socket can be read, into what is left of the buffer.
Read ==
    /\ ~handling /\ ~closed
    /\ stream # <<>>
    /\ \E n \in 1..Least(Len(stream), BUFFER - Len(buffer)) :
        /\ buffer' = buffer \o SubSeq(stream, 1, n)
        /\ stream' = SubSeq(stream, n + 1, Len(stream))
    /\ handling' = TRUE
    /\ bytes_consumed' = 0
    /\ processed' = 0
    /\ UNCHANGED <<writing, closed, written, handed, torn>>

\* Nothing is left of the buffer: read returns 0, which means the end elsewhere.
ReadNothing ==
    /\ ~handling /\ ~closed
    /\ stream # <<>>
    /\ Len(buffer) = BUFFER
    /\ closed' = TRUE
    /\ UNCHANGED <<writing, stream, buffer, bytes_consumed, processed, handling, written, handed, torn>>

\* The next frame; one that the rate limiter refuses does not count.
HandleFrame ==
    /\ handling
    /\ processed < MAX_ITR
    /\ Complete(bytes_consumed)
    /\ handed' = Append(handed, Packet(bytes_consumed))
    /\ bytes_consumed' = PacketEnd(bytes_consumed)
    /\ processed' \in {processed, processed + 1}
    /\ UNCHANGED <<writing, stream, buffer, handling, closed, written, torn>>

\* Mutant: compact drops what follows the consumed frames.
CompactAll ==
    /\ handling
    /\ processed = MAX_ITR \/ ~Complete(bytes_consumed)
    /\ handling' = FALSE
    /\ buffer' = IF bytes_consumed > 0 THEN <<>> ELSE buffer
    /\ UNCHANGED <<writing, stream, bytes_consumed, processed, closed, written, handed, torn>>

\* No frame is complete, or enough are handled: compact.
Compact ==
    /\ handling
    /\ processed = MAX_ITR \/ ~Complete(bytes_consumed)
    /\ handling' = FALSE
    /\ buffer' = SubSeq(buffer, bytes_consumed + 1, Len(buffer))
    /\ UNCHANGED <<writing, stream, bytes_consumed, processed, closed, written, handed, torn>>

StreamNext ==
    \/ \E w \in Senders, p \in Datagrams : WriteLength(w, p)
    \/ \E w \in Senders : WritePacket(w)
    \/ Read \/ ReadNothing \/ HandleFrame \/ Compact

StreamSpec == StreamInit /\ [][StreamNext]_streamVars

\* Threads run on while they hold a mutex; a socket that can be read is reported.
Fairness ==
    /\ \A w \in Senders : WF_streamVars(WritePacket(w))
    /\ WF_streamVars(Read) /\ WF_streamVars(HandleFrame) /\ WF_streamVars(Compact)

FairSpec == StreamSpec /\ Fairness

-----------------------------------------------------------------------------
(* Properties.                                                             *)

\* The packets come out as they were written, however the bytes are split into
\* reads and whatever is left in the buffer between two calls of the handler.
FramesAsWritten == ~torn => IsPrefix(handed, written)

\* A call of the handler stopped at MAX_ITR and left a whole frame in the buffer:
\* it waits until the socket has more bytes.
FrameLeftBehind == ~handling /\ processed = MAX_ITR /\ Complete(0)

\* Every packet arrives, unless it, or one before it, is left behind.
PacketsArrive ==
    \A i \in 1..MaxFrames :
        (Len(written) >= i) ~> (Len(handed) >= i \/ torn \/ FrameLeftBehind)
==============================================================================
