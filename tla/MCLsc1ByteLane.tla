--------------------------- MODULE MCLsc1ByteLane ---------------------------
(***************************************************************************)
(* Lsc1ByteLane with four byte values, payloads of at most two bytes and a *)
(* checksum that notices any one changed byte.  Every frame is considered, *)
(* with SOF in its payload and checksum too.                               *)
(***************************************************************************)
EXTENDS Lsc1ByteLane

MCChecksum(body) ==
    LET sum[n \in 0..Len(body)] == IF n = 0 THEN 1 ELSE (sum[n - 1] + body[n]) % 4
    IN  sum[Len(body)]

Encode(payload) ==
    LET body == <<SOF, Len(payload)>> \o payload
    IN  Append(body, MCChecksum(body))

MCFrames == {Encode(payload) : payload \in UNION {[1..n -> Byte] : n \in 0..MaxPayload}}
=============================================================================
