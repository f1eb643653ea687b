------------------------------ MODULE BgpAsPath ------------------------------
(***************************************************************************)
(* Decoding of the AS_PATH path attribute of an UPDATE                     *)
(* (src/third-party/github.com/gobgp/packet/bgp.go), which ParseBGPBody     *)
(* runs in the receive goroutine of the neighbor's FSM handler.            *)
(*                                                                         *)
(* The attribute's value is a sequence of segments: a type byte, a count   *)
(* byte Num, then Num AS numbers of 2 or 4 bytes. isValidAspath guesses    *)
(* the AS width by trying 4 bytes, then 2; the segments are then decoded   *)
(* with AsPathParam or As4PathParam. Both compute Num * width in uint8,     *)
(* the type of Num, so the product wraps at 256.                          *)
(*                                                                         *)
(* Values are sequences of bytes 0..255; the result of a decode is "ok",   *)
(* "error" (a *MessageError) or "panic" (an index out of range in          *)
(* binary.BigEndian).                                                      *)
(***************************************************************************)
EXTENDS Naturals, Sequences

\* arithmetic on a Go uint8
Uint8(x) == x % 256

\* d[k:]
Skip(d, k) == SubSeq(d, k + 1, Len(d))

\* isValidAspath's tryParse: a segment needs a header, a type 1..4 and a
\* count other than 0; segLength := asNum; segLength *= w stays a uint8
RECURSIVE TryParse(_, _)
TryParse(d, w) ==
    \/ d = <<>>
    \/ /\ Len(d) >= 2 /\ d[1] \in 1..4 /\ d[2] # 0
       /\ Uint8(d[2] * w) <= Len(d) - 2
       /\ TryParse(Skip(d, 2 + Uint8(d[2] * w)), w)

\* isValidAspath: an odd length is an error; otherwise the width whose
\* tryParse succeeds, 4 first; 0 when neither does (an error)
AsWidth(v) ==
    CASE Len(v) % 2 # 0  -> 0
      [] TryParse(v, 4)  -> 4
      [] TryParse(v, 2)  -> 2
      [] OTHER           -> 0

\* AsPathParam.DecodeFromBytes (w = 2) and As4PathParam.DecodeFromBytes
\* (w = 4) on d: the length check uses int(a.Num*w), computed in uint8;
\* the loop then reads Num AS numbers of w bytes, and panics when d holds
\* fewer than the Num * w bytes the check should have required
ParamResult(d, w) ==
    CASE Len(d) < 2                    -> "error"
      [] Len(d) - 2 < Uint8(d[2] * w)  -> "error"
      [] Len(d) - 2 < d[2] * w         -> "panic"
      [] OTHER                         -> "ok"

\* the loop of PathAttributeAsPath.DecodeFromBytes: decode a segment, then
\* v = v[tuple.Len():] with Len() = 2 + len(AS) * w
RECURSIVE DecodeSegments(_, _)
DecodeSegments(v, w) ==
    IF v = <<>> THEN "ok"
    ELSE LET r == ParamResult(v, w) IN
         IF r = "ok" THEN DecodeSegments(Skip(v, 2 + v[2] * w), w) ELSE r

\* PathAttributeAsPath.DecodeFromBytes for the attribute value v: an empty
\* value (iBGP) is accepted; isValidAspath's error is returned
AsPathDecode(v) ==
    CASE v = <<>>        -> "ok"
      [] AsWidth(v) = 0  -> "error"
      [] OTHER           -> DecodeSegments(v, AsWidth(v))

====
