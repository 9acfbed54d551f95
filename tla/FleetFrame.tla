----------------------------- MODULE FleetFrame -----------------------------
(***************************************************************************)
(* Framing on the UART of the mesh link: fleetFrameEncode and the byte-    *)
(* wise parser of src/main/fleet/fleet_frame.c, with fleetLinkSend as the  *)
(* source of frames and fleetLinkUpdate feeding the parser.  On the way a  *)
(* byte may be changed or lost (noise, or an overrun of the receive        *)
(* buffer), a limited number of times.                                     *)
(*                                                                         *)
(* The CRC is the constant operator Update, of which only what the         *)
(* polynomial guarantees is assumed: no two bytes, and no two registers,   *)
(* give the same result.                                                   *)
(***************************************************************************)
EXTENDS Integers, Sequences

CONSTANTS
    Byte,              \* the values of a byte, a range of naturals from 0
    SYNC,              \* FLEET_FRAME_SYNC
    MAX_PAYLOAD,       \* FLEET_FRAME_MAX_PAYLOAD
    Update(_, _),      \* crc8_dvb_s2_update for one byte
    Payloads,          \* what is sent
    MaxNoise           \* bound: bytes changed or lost

ASSUME ByteAssumption ==
    /\ MAX_PAYLOAD \in Nat \ {0} /\ MaxNoise \in Nat
    /\ Byte \subseteq Nat /\ 0..MAX_PAYLOAD \subseteq Byte
    /\ SYNC \in Byte /\ SYNC > MAX_PAYLOAD
ASSUME CrcAssumption ==
    \A c, b \in Byte :
        /\ Update(c, b) \in Byte
        /\ \A e \in Byte \ {b} : Update(c, b) # Update(c, e) /\ Update(b, c) # Update(e, c)
ASSUME PayloadAssumption == \A p \in Payloads : p \in Seq(Byte) /\ Len(p) <= MAX_PAYLOAD

VARIABLES
    parser,        \* fleetFrameParser_t: state, len, index, crc and payload
    frame, sent,   \* the payload being sent, and how many bytes of its frame are out
    inSync,        \* history: the parser was between frames when this frame began
    harm,          \* history: what has happened to this frame on the way
    got,           \* history: what the parser has returned during this frame
    noise

sender == <<frame, sent, inSync>>
vars == <<parser, sender, harm, got, noise>>

\* Nothing returned yet; a payload that nobody sends.
Nothing == <<-1>>

-----------------------------------------------------------------------------
(* fleetFrameEncode *)

\* The register after each of the bytes.
Registers(bytes) ==
    LET crc[i \in 0..Len(bytes)] == IF i = 0 THEN 0 ELSE Update(crc[i - 1], bytes[i])
    IN  crc

\* The bytes the CRC covers.
Covered(p) == <<Len(p)>> \o p

Crc(bytes) == Registers(bytes)[Len(bytes)]

Encode(p) == <<SYNC, Len(p)>> \o p \o <<Crc(Covered(p))>>

-----------------------------------------------------------------------------
(* fleetFrameParseByte *)

Resync(byte) == IF byte = SYNC THEN "LEN" ELSE "SYNC"

\* Mutant: the parser stays in the frame after a mismatch.
AfterMismatch_Stay(byte) == "CRC"

AfterMismatch(byte) == Resync(byte)

\* Mutant: lengths are limited to what a byte holds, not to the buffer.
LenOK_NoLimit(byte) == TRUE

LenOK(byte) == byte <= MAX_PAYLOAD

\* Mutant: the CRC does not cover the payload.
PayloadCrc_Left(byte) == parser.crc

PayloadCrc(byte) == Update(parser.crc, byte)

\* Mutant: the CRC is not looked at.
Accepts_Any(byte) == TRUE

Accepts(byte) == byte = parser.crc

ParseSync(byte) ==
    /\ parser.state = "SYNC"
    /\ parser' = [parser EXCEPT !.state = IF byte = SYNC THEN "LEN" ELSE "SYNC"]

ParseLen(byte) ==
    /\ parser.state = "LEN"
    /\ parser' =
          IF LenOK(byte)
          THEN [parser EXCEPT !.len = byte, !.index = 0, !.crc = Update(0, byte),
                              !.state = IF byte = 0 THEN "CRC" ELSE "PAYLOAD"]
          ELSE [parser EXCEPT !.state = Resync(byte)]

ParsePayload(byte) ==
    /\ parser.state = "PAYLOAD"
    /\ parser' = [parser EXCEPT
                     !.payload[parser.index + 1] = byte,
                     !.index = @ + 1,
                     !.crc = PayloadCrc(byte),
                     !.state = IF parser.index + 1 >= parser.len THEN "CRC" ELSE "PAYLOAD"]

\* A complete frame: its payload is returned to fleetLinkUpdate.
ParseCrc(byte) ==
    /\ parser.state = "CRC"
    /\ parser' = [parser EXCEPT
                     !.state = IF Accepts(byte) THEN "SYNC" ELSE AfterMismatch(byte)]

Parse(byte) ==
    /\ ParseSync(byte) \/ ParseLen(byte) \/ ParsePayload(byte) \/ ParseCrc(byte)
    /\ got' = IF parser.state = "CRC" /\ Accepts(byte)
              THEN SubSeq(parser.payload, 1, parser.len) ELSE got

-----------------------------------------------------------------------------
(* The UART *)

Over == sent = Len(frame) + 3

Init ==
    /\ parser = [state |-> "SYNC", len |-> 0, index |-> 0, crc |-> 0,
                 payload |-> [i \in 1..MAX_PAYLOAD |-> 0]]
    /\ frame \in Payloads /\ sent = 0
    /\ inSync = TRUE /\ harm = "none" /\ got = Nothing /\ noise = 0

\* fleetLinkSend writes the next frame.
NextFrame ==
    /\ Over
    /\ frame' \in Payloads /\ sent' = 0
    /\ inSync' = (parser.state = "SYNC") /\ harm' = "none" /\ got' = Nothing
    /\ UNCHANGED <<parser, noise>>

Carry ==
    /\ ~Over
    /\ sent' = sent + 1
    /\ \E byte \in Byte : byte = Encode(frame)[sent + 1] /\ Parse(byte)
    /\ UNCHANGED <<frame, inSync, harm, noise>>

\* One changed byte of the payload or the CRC is "corrupt", anything else "broken".
CorruptTo(byte) ==
    /\ ~Over /\ noise < MaxNoise
    /\ byte # Encode(frame)[sent + 1]
    /\ sent' = sent + 1 /\ noise' = noise + 1
    /\ Parse(byte)
    /\ harm' = IF harm = "none" /\ sent >= 2 THEN "corrupt" ELSE "broken"
    /\ UNCHANGED <<frame, inSync>>

Corrupt == \E byte \in Byte : CorruptTo(byte)

Lose ==
    /\ ~Over /\ noise < MaxNoise
    /\ sent' = sent + 1 /\ noise' = noise + 1
    /\ harm' = "broken"
    /\ UNCHANGED <<parser, frame, inSync, got>>

Next == NextFrame \/ Carry \/ Corrupt \/ Lose

Spec == Init /\ [][Next]_vars

\* Bytes keep coming.
FairSpec == Spec /\ WF_vars(NextFrame) /\ WF_vars(Carry)

-----------------------------------------------------------------------------
(* Properties *)

\* Types; whatever the line delivers, the parser writes only inside its buffer.
TypeOK ==
    /\ parser \in [state : {"SYNC", "LEN", "PAYLOAD", "CRC"}, len : 0..MAX_PAYLOAD,
                   index : 0..MAX_PAYLOAD, crc : Byte, payload : [1..MAX_PAYLOAD -> Byte]]
    /\ parser.state = "PAYLOAD" => parser.index < parser.len
    /\ frame \in Payloads /\ sent \in 0..(Len(frame) + 3)
    /\ inSync \in BOOLEAN /\ harm \in {"none", "corrupt", "broken"}
    /\ noise \in 0..MaxNoise

\* A frame that starts between frames and is not harmed arrives as it was sent,
\* and leaves the parser between frames: bytes of its payload that look like SYNC or
\* like a frame do no harm.
CleanFrameArrives ==
    Over /\ inSync /\ harm = "none" => got = frame /\ parser.state = "SYNC"

\* A single changed byte in the payload or the CRC never gets through.
CorruptionIsCaught == Over /\ inSync /\ harm = "corrupt" => got = Nothing

Holds(p, byte) == \E i \in 2..(Len(p) + 3) : Encode(p)[i] = byte

\* fleet_frame.h:62, "The parser resyncs automatically on a bad length or CRC": once
\* the noise is over, frames arrive again, if those sent hold SYNC only where they
\* begin.  (A SYNC inside a payload that is sent again and again may be taken for the
\* beginning of a frame every time.)
Recovers == <>[]~Holds(frame, SYNC) => []<>(Over /\ got = frame)
=============================================================================
