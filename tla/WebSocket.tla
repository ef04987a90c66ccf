------------------------------- MODULE WebSocket -------------------------------
(* src/06_networking/04_websocket_basics after the upgrade: a connection as   *)
(* the bytes on their way, the handler's loop of readFrame and writeFrame,   *)
(* and a client.  Codes have 3 bits instead of 7: Extended and the top code  *)
(* stand for 126 and 127, MaskBit for 0x80.  Payload bytes are 0 or 1.       *)
EXTENDS Integers, Sequences, SequencesExt

CONSTANTS Lengths, Bytes,   \* of the payloads the client sends
          MaxSent           \* and how many of them (a bound)

VARIABLES inbound, outbound,  \* bytes to the server, bytes it wrote
          closed,     \* the client is gone; what it sent may be cut short
          handling,   \* handleWS has not returned
          sent,       \* history: the messages the client sent
          msgs        \* the messages readFrame returned

vars == <<inbound, outbound, closed, handling, sent, msgs>>

Extended == 6
MaskBit == 8
Opcode == 9
Key == <<0, 1, 1, 0>>
Prefix == <<1>>              \* "[echo] "

(* io.ReadFull: on a short read the rest of the slice stays zero.            *)
ReadFull(buf, k) == [i \in 1..k |-> IF i <= Len(buf) THEN buf[i] ELSE 0]

Rest(buf, k) == SubSeq(buf, k + 1, Len(buf))

Xor(payload, key) == [i \in DOMAIN payload |-> (payload[i] + key[((i - 1) % 4) + 1]) % 2]

Masked(buf) == buf[2] >= MaskBit

LengthBytes(buf) == IF buf[2] % MaskBit = Extended THEN 2 ELSE 0

PayloadLength(buf) ==
    LET ext == ReadFull(Rest(buf, 2), 2)
    IN IF LengthBytes(buf) = 2 THEN ext[1] * 256 + ext[2] ELSE buf[2] % MaskBit

HeaderLength(buf) == 2 + LengthBytes(buf) + IF Masked(buf) THEN 4 ELSE 0

BugFrameLength(buf) == 2 + PayloadLength(buf) + IF Masked(buf) THEN 4 ELSE 0

FrameLength(buf) == HeaderLength(buf) + PayloadLength(buf)

(* Only the header's read is checked for an error.                           *)
Payload(buf) ==
    LET key == ReadFull(Rest(buf, HeaderLength(buf) - 4), 4)
        payload == ReadFull(Rest(buf, HeaderLength(buf)), PayloadLength(buf))
    IN IF Masked(buf) THEN Xor(payload, key) ELSE payload

(* writeFrame: no length at all from 126 bytes on.                           *)
ServerFrame(msg) ==
    <<Opcode>> \o (IF Len(msg) < Extended THEN <<Len(msg)>> ELSE <<>>) \o msg

Init == /\ inbound = <<>> /\ outbound = <<>> /\ closed = FALSE /\ handling = TRUE
        /\ sent = <<>> /\ msgs = <<>>

(* A frame as RFC 6455 describes it, masked (by a client) or not.            *)
ClientFrame(msg, masked) ==
    LET mask == IF masked THEN MaskBit ELSE 0
        header == IF Len(msg) < Extended THEN <<Opcode, Len(msg) + mask>>
                  ELSE <<Opcode, Extended + mask, Len(msg) \div 256, Len(msg) % 256>>
    IN header \o IF masked THEN Key \o Xor(msg, Key) ELSE msg

ClientSends(msg, masked) ==
    /\ ~closed /\ Len(sent) < MaxSent
    /\ inbound' = inbound \o ClientFrame(msg, masked)
    /\ sent' = Append(sent, msg)
    /\ UNCHANGED <<outbound, closed, handling, msgs>>

(* The connection breaks; the last lost bytes never arrive.                  *)
ClientCloses(lost) == /\ ~closed
                      /\ closed' = TRUE
                      /\ inbound' = SubSeq(inbound, 1, Len(inbound) - lost)
                      /\ UNCHANGED <<outbound, handling, sent, msgs>>

(* readFrame waits for all bytes of the frame unless the stream has ended.   *)
Serve == /\ handling /\ Len(inbound) >= 2
         /\ closed \/ Len(inbound) >= FrameLength(inbound)
         /\ msgs' = Append(msgs, Payload(inbound))
         /\ outbound' = outbound \o ServerFrame(Prefix \o Payload(inbound))
         /\ inbound' = Rest(inbound, FrameLength(inbound))
         /\ UNCHANGED <<closed, handling, sent>>

(* A read error in the header, or a failed write, ends the handler.          *)
HandlerReturns == /\ handling /\ closed
                  /\ handling' = FALSE
                  /\ UNCHANGED <<inbound, outbound, closed, sent, msgs>>

Next == \/ \E len \in Lengths, masked \in BOOLEAN :
              \E msg \in [1..len -> Bytes] : ClientSends(msg, masked)
        \/ \E lost \in 0..2 : lost <= Len(inbound) /\ ClientCloses(lost)
        \/ Serve \/ HandlerReturns

Spec == Init /\ [][Next]_vars
-----------------------------------------------------------------------------
(* Frame by frame: what a conforming client reads back from the start of the *)
(* stream is the echoes of its messages, up to the first that is too long.   *)
Frames(msgSeq) ==
    LET upTo[k \in 0..Len(msgSeq)] ==
          IF k = 0 THEN <<>>
          ELSE upTo[k - 1] \o <<Opcode, Len(msgSeq[k]) + 1>> \o Prefix \o msgSeq[k]
    IN upTo[Len(msgSeq)]

Short == \A i \in DOMAIN sent : Len(sent[i]) + Len(Prefix) < Extended

(* Reader and writer stay in step with the stream: the server reads exactly  *)
(* the messages sent, in order, masked or not, with a short or a two-byte    *)
(* length, until the connection breaks; and as long as all echoes are short  *)
(* what it writes is their frames and nothing else.                          *)
StaysInStep == ~closed => /\ IsPrefix(msgs, sent)
                          /\ Short => outbound = Frames(msgs)
=============================================================================
