------------------------------ MODULE BgpWire ------------------------------
(***************************************************************************)
(* The receive side of a BGP session on one TCP connection               *)
(* (src/daemon/bgp_daemon.go): recvMessageloop calls recvMessageWithError, *)
(* which reads a 19-byte header with readAll, decodes the length field and *)
(* reads the body with readAll again.                                     *)
(*                                                                         *)
(* The peer writes the messages of Sent, serialized; TCP delivers the byte *)
(* stream in segments of any size (arrived), and conn.Read returns what    *)
(* has arrived and not yet been read, at most len(buf) bytes, blocking     *)
(* while nothing has.  Bytes are kept as values 0..255 because the header  *)
(* length field is decoded from them.                                     *)
(***************************************************************************)
EXTENDS Naturals, Sequences, SequencesExt

CONSTANTS
    Sent,      \* the messages the peer writes: [len, type, body]; len is the header's Len field
    BodyByte   \* value of the body bytes the peer writes

HeaderLen == 19   \* bgp.BGP_HEADER_LENGTH

\* BGPHeader.Serialize and the body: 16 marker bytes 0xff, Len (big endian), Type
Bytes(m) == [k \in 1..16 |-> 255] \o << m.len \div 256, m.len % 256, m.type >>
                \o [k \in 1..m.body |-> BodyByte]

Stream == FlattenSeq([i \in DOMAIN Sent |-> Bytes(Sent[i])])

Zeros(n) == [k \in 1..n |-> 0]   \* make([]byte, n)

Least(a, b) == IF a < b THEN a ELSE b

VARIABLES
    arrived,   \* bytes of Stream that TCP has delivered to the socket
    closed,    \* the peer closed the connection
    consumed,  \* bytes of Stream returned by conn.Read so far
    rpc,       \* receive goroutine: "header", "body" (in readAll), "done", "panicked"
    want,      \* readAll's length argument
    cur,       \* readAll's cur
    buf,       \* readAll's buf
    hdr,       \* headerBuf, while the body is read
    delivered  \* header and body bytes of each message passed to ParseBGPBody

vars == <<arrived, closed, consumed, rpc, want, cur, buf, hdr, delivered>>

Init ==
    /\ arrived = 0 /\ closed = FALSE /\ consumed = 0
    /\ rpc = "header" /\ want = HeaderLen /\ cur = 0 /\ buf = Zeros(HeaderLen)
    /\ hdr = <<>> /\ delivered = <<>>

\* a TCP segment arrives
Arrive ==
    /\ arrived < Len(Stream)
    /\ \E k \in arrived + 1 .. Len(Stream) : arrived' = k
    /\ UNCHANGED <<closed, consumed, rpc, want, cur, buf, hdr, delivered>>

\* the peer closes the connection after writing everything
PeerClose ==
    /\ arrived = Len(Stream) /\ ~closed
    /\ closed' = TRUE
    /\ UNCHANGED <<arrived, consumed, rpc, want, cur, buf, hdr, delivered>>

\* readAll: num, err := conn.Read(buf); cur += num. Read fills buf from
\* offset 0 with up to len(buf) bytes, whatever cur already holds.
ReadAllRead ==
    /\ rpc \in {"header", "body"} /\ cur < want /\ consumed < arrived
    /\ LET n == Least(want, arrived - consumed) IN
         /\ buf' = [k \in 1..want |-> IF k <= n THEN Stream[consumed + k] ELSE buf[k]]
         /\ consumed' = consumed + n
         /\ cur' = cur + n
    /\ UNCHANGED <<arrived, closed, rpc, want, hdr, delivered>>

\* conn.Read returns io.EOF: readAll fails, errorCh <- true, and
\* recvMessageloop returns
ReadAllEOF ==
    /\ rpc \in {"header", "body"} /\ cur < want /\ consumed = arrived /\ closed
    /\ rpc' = "done"
    /\ UNCHANGED <<arrived, closed, consumed, want, cur, buf, hdr, delivered>>

\* header read: DecodeFromBytes never fails on 19 bytes; the body is read
\* with readAll(int(hd.Len) - 19), whose make panics when that is negative
HeaderRead ==
    /\ rpc = "header" /\ cur >= want
    /\ LET len == buf[17] * 256 + buf[18] IN
         IF len < HeaderLen
           THEN rpc' = "panicked" /\ UNCHANGED <<want, cur, buf, hdr>>
           ELSE /\ hdr' = buf /\ rpc' = "body"
                /\ want' = len - HeaderLen /\ cur' = 0 /\ buf' = Zeros(len - HeaderLen)
    /\ UNCHANGED <<arrived, closed, consumed, delivered>>

\* ParseBGPBody and ValidateBGPMessage, abstracted: a frame that is the
\* serialization of a message the peer could send parses; any other is an
\* error, which is sent on msgCh and ends recvMessageloop
Parses(f) == \E i \in DOMAIN Sent : f = Bytes(Sent[i])

\* body read: the message (or the parse error) goes to msgCh; on success
\* recvMessageloop calls recvMessageWithError again
BodyRead ==
    /\ rpc = "body" /\ cur >= want
    /\ delivered' = Append(delivered, hdr \o buf)
    /\ IF Parses(hdr \o buf)
         THEN rpc' = "header" /\ want' = HeaderLen /\ cur' = 0 /\ buf' = Zeros(HeaderLen)
         ELSE rpc' = "done" /\ UNCHANGED <<want, cur, buf>>
    /\ UNCHANGED <<arrived, closed, consumed, hdr>>

Next ==
    \/ Arrive \/ PeerClose
    \/ ReadAllRead \/ ReadAllEOF \/ HeaderRead \/ BodyRead

Spec == Init /\ [][Next]_vars

-----------------------------------------------------------------------------

TypeOK ==
    /\ arrived \in 0..Len(Stream) /\ consumed \in 0..arrived /\ closed \in BOOLEAN
    /\ rpc \in {"header", "body", "done", "panicked"}
    /\ cur \in Nat /\ want \in Nat /\ buf \in Seq(0..255) /\ hdr \in Seq(0..255)
    /\ delivered \in Seq(Seq(0..255))

(* Spec section 4.1: decoding frames the stream exactly and fails fast     *)
(* without panicking. Each frame recvMessageWithError hands to             *)
(* ParseBGPBody is the next message the peer wrote, whatever the TCP       *)
(* segmentation, and a header it cannot use never crashes the goroutine.  *)
RecvFramed ==
    /\ rpc # "panicked"
    /\ \A i \in DOMAIN delivered : i <= Len(Sent) /\ delivered[i] = Bytes(Sent[i])

====
