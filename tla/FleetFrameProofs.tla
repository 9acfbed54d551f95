-------------------------- MODULE FleetFrameProofs --------------------------
(***************************************************************************)
(* Theorems about FleetFrame for every buffer size, CRC and line.          *)
(***************************************************************************)
EXTENDS FleetFrame, SequenceTheorems, WellFoundedInduction, TLAPS

ParserType ==
    [state : {"SYNC", "LEN", "PAYLOAD", "CRC"}, len : 0..MAX_PAYLOAD,
     index : 0..MAX_PAYLOAD, crc : Byte, payload : [1..MAX_PAYLOAD -> Byte]]

ParserOK ==
    /\ parser \in ParserType
    /\ parser.state = "PAYLOAD" => parser.index < parser.len

\* Any byte, in any state, leaves the parser inside its buffer.
LEMMA ParseStep ==
    ASSUME ParserOK, NEW byte \in Byte, Parse(byte)
    PROVE  ParserOK'
<1>1. /\ byte \in Nat /\ parser.len \in Nat /\ parser.index \in Nat
      /\ MAX_PAYLOAD \in Nat /\ 0 \in Byte
  BY ByteAssumption DEF ParserOK, ParserType
<1>2. CASE ParseSync(byte)
  BY <1>2 DEF ParseSync, ParserOK, ParserType
<1>3. CASE ParseLen(byte)
  <2>1. Update(0, byte) \in Byte
    BY <1>1, CrcAssumption
  <2>2. CASE byte <= MAX_PAYLOAD
    <3> DEFINE next == IF byte = 0 THEN "CRC" ELSE "PAYLOAD"
    <3>1. parser' = [parser EXCEPT !.len = byte, !.index = 0, !.crc = Update(0, byte),
                                   !.state = next]
      BY <1>3, <2>2 DEF ParseLen, LenOK
    <3>2. byte \in 0..MAX_PAYLOAD /\ 0 \in 0..MAX_PAYLOAD
      BY <1>1, <2>2
    <3>3. next \in {"SYNC", "LEN", "PAYLOAD", "CRC"} /\ (next = "PAYLOAD" => 0 < byte)
      BY <1>1
    <3> HIDE DEF next
    <3>4. parser' \in ParserType
      BY <2>1, <3>1, <3>2, <3>3 DEF ParserOK, ParserType
    <3>5. parser'.state = next /\ parser'.index = 0 /\ parser'.len = byte
      BY <3>1 DEF ParserOK, ParserType
    <3> QED
      BY <3>3, <3>4, <3>5 DEF ParserOK
  <2>3. CASE ~(byte <= MAX_PAYLOAD)
    BY <1>3, <2>3 DEF ParseLen, LenOK, Resync, ParserOK, ParserType
  <2> QED
    BY <2>2, <2>3
<1>4. CASE ParsePayload(byte)
  <2>1. Update(parser.crc, byte) \in Byte
    BY CrcAssumption DEF ParserOK, ParserType
  <2>2. parser.index + 1 \in 1..MAX_PAYLOAD
    BY <1>1, <1>4 DEF ParsePayload, ParserOK, ParserType
  <2> DEFINE next == IF parser.index + 1 >= parser.len THEN "CRC" ELSE "PAYLOAD"
             buffer == [parser.payload EXCEPT ![parser.index + 1] = byte]
  <2>3. parser' = [parser EXCEPT !.payload = buffer, !.index = parser.index + 1,
                                 !.crc = Update(parser.crc, byte), !.state = next]
    BY <1>4 DEF ParsePayload, PayloadCrc
  <2>4. buffer \in [1..MAX_PAYLOAD -> Byte]
    BY <2>2 DEF ParserOK, ParserType
  <2>5. /\ next \in {"SYNC", "LEN", "PAYLOAD", "CRC"}
        /\ next = "PAYLOAD" => parser.index + 1 < parser.len
        /\ parser.index + 1 \in 0..MAX_PAYLOAD
    BY <1>1, <2>2
  <2> HIDE DEF next, buffer
  <2>6. parser' \in ParserType
    BY <2>1, <2>3, <2>4, <2>5 DEF ParserOK, ParserType
  <2>7. /\ parser'.state = next /\ parser'.index = parser.index + 1
        /\ parser'.len = parser.len
    BY <2>3 DEF ParserOK, ParserType
  <2> QED
    BY <2>5, <2>6, <2>7 DEF ParserOK
<1>5. CASE ParseCrc(byte)
  BY <1>5 DEF ParseCrc, Accepts, AfterMismatch, Resync, ParserOK, ParserType
<1> QED
  BY <1>2, <1>3, <1>4, <1>5 DEF Parse

LEMMA SenderStep ==
    ASSUME TypeOK, [Next]_vars
    PROVE  /\ frame' \in Payloads /\ sent' \in 0..(Len(frame') + 3)
           /\ inSync' \in BOOLEAN /\ harm' \in {"none", "corrupt", "broken"}
           /\ noise' \in 0..MaxNoise
<1>1. \A p \in Payloads : Len(p) \in Nat
  BY PayloadAssumption
<1>2. CASE NextFrame
  <2>1. inSync' \in BOOLEAN
    BY <1>2, Zenon DEF NextFrame
  <2> QED
    BY <1>1, <1>2, <2>1 DEF NextFrame, TypeOK
<1>3. CASE Carry
  BY <1>1, <1>3 DEF Carry, Over, TypeOK
<1>4. CASE Corrupt
  BY <1>1, <1>4, ByteAssumption DEF Corrupt, CorruptTo, Over, TypeOK
<1>5. CASE Lose
  BY <1>1, <1>5, ByteAssumption DEF Lose, Over, TypeOK
<1>6. CASE UNCHANGED vars
  BY <1>6 DEF vars, sender, TypeOK
<1> QED
  BY <1>2, <1>3, <1>4, <1>5, <1>6 DEF Next

LEMMA ParserStep == ASSUME ParserOK, [Next]_vars PROVE ParserOK'
<1>1. CASE UNCHANGED parser
  BY <1>1 DEF ParserOK
<1>2. CASE \E byte \in Byte : Parse(byte)
  BY <1>2, ParseStep
<1> QED
  BY <1>1, <1>2 DEF Next, NextFrame, Carry, Corrupt, CorruptTo, Lose, vars

\* fleetFrameParseByte never writes outside its buffer of FLEET_FRAME_MAX_PAYLOAD
\* bytes, whatever bytes the line delivers (fleet_frame.c:65-85).
THEOREM ParserInBounds == Spec => []TypeOK
<1>1. Init => TypeOK
  <2> SUFFICES ASSUME Init PROVE TypeOK
    OBVIOUS
  <2>1. Len(frame) \in Nat
    BY PayloadAssumption DEF Init
  <2> QED
    BY <2>1, ByteAssumption DEF Init, TypeOK
<1>2. TypeOK /\ [Next]_vars => TypeOK'
  BY SenderStep, ParserStep DEF TypeOK, ParserOK, ParserType
<1> QED
  BY <1>1, <1>2, PTL DEF Spec

-----------------------------------------------------------------------------
(* What fleetFrameEncode puts on the line *)

\* The CRC is computed byte by byte.
LEMMA RegistersStep ==
    ASSUME NEW bytes \in Seq(Byte)
    PROVE  /\ Registers(bytes) \in [0..Len(bytes) -> Byte]
           /\ Registers(bytes)[0] = 0
           /\ \A i \in 1..Len(bytes) :
                 Registers(bytes)[i] = Update(Registers(bytes)[i - 1], bytes[i])
<1> DEFINE Runs(n) ==
       {g \in [0..n -> Byte] : g = [i \in 0..n |-> IF i = 0 THEN 0
                                                   ELSE Update(g[i - 1], bytes[i])]}
           Bad == {n \in Nat : n <= Len(bytes) /\ Runs(n) = {}}
<1>1. Bad = {}
  <2> SUFFICES ASSUME Bad # {} PROVE FALSE
    OBVIOUS
  <2>1. PICK n \in Bad : \A m \in Bad : <<m, n>> \notin OpToRel(<, Nat)
    <3>1. Bad \subseteq Nat
      OBVIOUS
    <3> HIDE DEF Bad
    <3> QED
      BY <3>1, NatLessThanWellFounded, WFMin
  <2>2. n \in Nat /\ n <= Len(bytes) /\ Runs(n) = {}
    OBVIOUS
  <2>3. CASE n = 0
    <3> DEFINE g == [i \in 0..0 |-> 0]
    <3>1. g \in [0..0 -> Byte]
      BY ByteAssumption
    <3>2. g = [i \in 0..0 |-> IF i = 0 THEN 0 ELSE Update(g[i - 1], bytes[i])]
      OBVIOUS
    <3> HIDE DEF g
    <3>3. g \in Runs(0)
      BY <3>1, <3>2
    <3> QED
      BY <2>2, <2>3, <3>3
  <2>4. CASE n > 0
    <3>1. Runs(n - 1) # {}
      <4>1. n - 1 \in Nat /\ n - 1 < n /\ n - 1 <= Len(bytes)
        BY <2>2, <2>4
      <4>2. n - 1 \notin Bad
        <5> HIDE DEF Bad
        <5> QED
          BY <2>1, <2>2, <4>1 DEF OpToRel
      <4> QED
        BY <4>1, <4>2
    <3>2. PICK h \in [0..(n - 1) -> Byte] :
             h = [i \in 0..(n - 1) |-> IF i = 0 THEN 0 ELSE Update(h[i - 1], bytes[i])]
      BY <3>1
    <3>3. bytes[n] \in Byte /\ h[n - 1] \in Byte
      BY <2>2, <2>4
    <3>4. Update(h[n - 1], bytes[n]) \in Byte
      BY <3>3, CrcAssumption
    <3> DEFINE g == [i \in 0..n |-> IF i = n THEN Update(h[n - 1], bytes[n]) ELSE h[i]]
    <3>5. g \in [0..n -> Byte]
      BY <2>2, <3>4
    <3>6. ASSUME NEW i \in 0..n
          PROVE  g[i] = IF i = 0 THEN 0 ELSE Update(g[i - 1], bytes[i])
      <4>1. CASE i = n
        BY <2>2, <2>4, <4>1
      <4>2. CASE i # n
        <5>1. i \in 0..(n - 1) /\ g[i] = h[i]
          BY <2>2, <4>2
        <5>2. i # 0 => g[i - 1] = h[i - 1]
          BY <2>2, <4>2
        <5> HIDE DEF g
        <5> QED
          BY <3>2, <5>1, <5>2
      <4> QED
        BY <4>1, <4>2
    <3>7. g = [i \in 0..n |-> g[i]]
      OBVIOUS
    <3> HIDE DEF g
    <3>8. g = [i \in 0..n |-> IF i = 0 THEN 0 ELSE Update(g[i - 1], bytes[i])]
      BY <3>6, <3>7
    <3>9. g \in Runs(n)
      BY <3>5, <3>8
    <3> QED
      BY <2>2, <3>9
  <2> QED
    BY <2>2, <2>3, <2>4
<1>2. Len(bytes) \in Nat
  OBVIOUS
<1>3. Runs(Len(bytes)) # {}
  BY <1>1, <1>2
<1> DEFINE r == Registers(bytes)
<1>4. r = [i \in 0..Len(bytes) |-> IF i = 0 THEN 0 ELSE Update(r[i - 1], bytes[i])]
  BY <1>3 DEF Registers
<1> HIDE DEF r
<1>5. r[0] = 0
  BY <1>2, <1>4
<1>6. ASSUME NEW i \in 1..Len(bytes) PROVE r[i] = Update(r[i - 1], bytes[i])
  BY <1>2, <1>4
<1>7. \A i \in 0..Len(bytes) : r[i] \in Byte
  <2> DEFINE Strays == {i \in Nat : i <= Len(bytes) /\ r[i] \notin Byte}
  <2> SUFFICES ASSUME Strays # {} PROVE FALSE
    OBVIOUS
  <2>1. PICK n \in Strays : \A m \in Strays : ~(m < n)
    <3>1. Strays \subseteq Nat
      OBVIOUS
    <3> HIDE DEF Strays
    <3>2. PICK n \in Strays : \A m \in Strays : <<m, n>> \notin OpToRel(<, Nat)
      BY <3>1, NatLessThanWellFounded, WFMin
    <3> QED
      BY <3>1, <3>2 DEF OpToRel
  <2>2. n # 0
    BY <1>5, ByteAssumption
  <2>3. n - 1 \in Nat /\ n - 1 < n /\ n - 1 <= Len(bytes) /\ n \in 1..Len(bytes)
    BY <1>2, <2>2
  <2>4. r[n - 1] \in Byte
    BY <2>1, <2>3
  <2>5. r[n] \in Byte
    BY <1>6, <2>3, <2>4, CrcAssumption
  <2> QED
    BY <2>5
<1>8. r \in [0..Len(bytes) -> Byte]
  BY <1>4, <1>7
<1> QED
  BY <1>5, <1>6, <1>8 DEF r

LEMMA CoveredLayout ==
    ASSUME NEW p \in Payloads
    PROVE  /\ Covered(p) \in Seq(Byte) /\ Len(Covered(p)) = Len(p) + 1
           /\ Covered(p)[1] = Len(p)
           /\ \A i \in 1..Len(p) : Covered(p)[i + 1] = p[i]
<1>1. p \in Seq(Byte) /\ Len(p) <= MAX_PAYLOAD /\ Len(p) \in Nat
  BY PayloadAssumption
<1>2. <<Len(p)>> \in Seq(Byte)
  BY <1>1, ByteAssumption
<1>3. Covered(p) \in Seq(Byte)
  BY <1>1, <1>2, ConcatProperties DEF Covered
<1>4. /\ Len(Covered(p)) = Len(p) + 1 /\ Covered(p)[1] = Len(p)
      /\ \A i \in 1..Len(p) : Covered(p)[i + 1] = p[i]
  BY <1>1 DEF Covered
<1> QED
  BY <1>3, <1>4

\* A frame: SYNC, length, payload, CRC.
LEMMA FrameLayout ==
    ASSUME NEW p \in Payloads
    PROVE  /\ Len(p) \in 0..MAX_PAYLOAD /\ Len(p) \in Byte
           /\ Encode(p)[1] = SYNC /\ Encode(p)[2] = Len(p)
           /\ \A i \in 1..Len(p) : Encode(p)[i + 2] = p[i] /\ p[i] \in Byte
           /\ Encode(p)[Len(p) + 3] = Registers(Covered(p))[Len(p) + 1]
<1>1. p \in Seq(Byte) /\ Len(p) <= MAX_PAYLOAD /\ Len(p) \in Nat
  BY PayloadAssumption
<1>2. Len(Covered(p)) = Len(p) + 1
  BY CoveredLayout
<1>3. Len(p) \in 0..MAX_PAYLOAD /\ Len(p) \in Byte
  BY <1>1, ByteAssumption
<1> DEFINE c == Crc(Covered(p))
<1>4. c = Registers(Covered(p))[Len(p) + 1]
  BY <1>2 DEF Crc
<1> HIDE DEF c
<1>5. Encode(p) = <<SYNC, Len(p)>> \o p \o <<c>>
  BY DEF Encode, c
<1>6. /\ Encode(p)[1] = SYNC /\ Encode(p)[2] = Len(p)
      /\ \A i \in 1..Len(p) : Encode(p)[i + 2] = p[i]
      /\ Encode(p)[Len(p) + 3] = c
  BY <1>1, <1>5
<1> QED
  BY <1>1, <1>3, <1>4, <1>6

\* The register of fleetFrameEncode after the length and the first n bytes of the payload.
After(p, n) == Registers(Covered(p))[n + 1]

LEMMA AfterStep ==
    ASSUME NEW p \in Payloads
    PROVE  /\ After(p, 0) = Update(0, Len(p))
           /\ \A i \in 1..Len(p) : After(p, i) = Update(After(p, i - 1), p[i])
           /\ Encode(p)[Len(p) + 3] = After(p, Len(p))
<1>1. Len(p) \in Nat /\ Covered(p) \in Seq(Byte) /\ Len(Covered(p)) = Len(p) + 1
  BY FrameLayout, CoveredLayout
<1>2. After(p, 0) = Update(0, Len(p))
  <2>1. 1 \in 1..Len(Covered(p))
    BY <1>1
  <2> QED
    BY <1>1, <2>1, RegistersStep, CoveredLayout DEF After
<1>3. ASSUME NEW i \in 1..Len(p) PROVE After(p, i) = Update(After(p, i - 1), p[i])
  <2>1. i + 1 \in 1..Len(Covered(p)) /\ (i + 1) - 1 = i /\ (i - 1) + 1 = i
    BY <1>1
  <2>2. Registers(Covered(p))[i + 1] = Update(Registers(Covered(p))[i], Covered(p)[i + 1])
    BY <1>1, <2>1, RegistersStep
  <2> QED
    BY <2>1, <2>2, CoveredLayout DEF After
<1> QED
  BY <1>2, <1>3, FrameLayout DEF After

LEMMA AfterIsByte == ASSUME NEW p \in Payloads, NEW n \in 0..Len(p) PROVE After(p, n) \in Byte
<1>1. Covered(p) \in Seq(Byte) /\ n + 1 \in 0..Len(Covered(p))
  BY CoveredLayout, FrameLayout
<1> QED
  BY <1>1, RegistersStep DEF After

-----------------------------------------------------------------------------
(* Frames that meet the parser between frames *)

\* The parser has taken the header and the first n bytes of the payload of the frame.
InPayload(n) ==
    /\ parser.state = IF n < Len(frame) THEN "PAYLOAD" ELSE "CRC"
    /\ parser.len = Len(frame) /\ parser.index = n

\* An unharmed frame: the parser has what has been sent of it.
InStep ==
    /\ sent = 0 => parser.state = "SYNC"
    /\ sent = 1 => parser.state = "LEN"
    /\ sent \in 2..(Len(frame) + 2) =>
          /\ InPayload(sent - 2) /\ parser.crc = After(frame, sent - 2)
          /\ \A i \in 1..(sent - 2) : parser.payload[i] = frame[i]
    /\ IF Over THEN got = frame /\ parser.state = "SYNC" ELSE got = Nothing

\* A frame with a changed byte behind its length: the parser counts as if nothing had
\* happened, and its register differs from the one it should have.
Damaged ==
    /\ sent \in 3..(Len(frame) + 3) /\ got = Nothing
    /\ ~Over => InPayload(sent - 2) /\ parser.crc # After(frame, sent - 2)

\* What the parser knows of a frame that began between frames.
FrameInv ==
    /\ inSync /\ harm = "none" => InStep
    /\ inSync /\ harm = "corrupt" => Damaged

\* One byte of the payload.
LEMMA PayloadByte ==
    ASSUME ParserOK, NEW n \in Nat, n < Len(frame), frame \in Payloads, InPayload(n),
           NEW byte \in Byte, Parse(byte), frame' = frame
    PROVE  /\ InPayload(n + 1)' /\ got' = got
           /\ parser'.crc = Update(parser.crc, byte)
           /\ parser'.payload = [parser.payload EXCEPT ![n + 1] = byte]
           /\ n + 1 \in DOMAIN parser.payload
<1>1. parser.state = "PAYLOAD" /\ parser.index = n /\ parser.len = Len(frame)
  BY DEF InPayload
<1>2. got' = got /\ ParsePayload(byte)
  BY <1>1 DEF Parse, ParseSync, ParseLen, ParseCrc
<1> DEFINE next == IF n + 1 >= Len(frame) THEN "CRC" ELSE "PAYLOAD"
<1>3. parser' = [parser EXCEPT !.payload[n + 1] = byte, !.index = n + 1,
                               !.crc = Update(parser.crc, byte), !.state = next]
  BY <1>1, <1>2 DEF ParsePayload, PayloadCrc
<1>4. next = IF n + 1 < Len(frame) THEN "PAYLOAD" ELSE "CRC"
  BY FrameLayout
<1>5. n + 1 \in DOMAIN parser.payload
  BY FrameLayout, ByteAssumption DEF ParserOK, ParserType
<1> HIDE DEF next
<1> QED
  BY <1>1, <1>2, <1>3, <1>4, <1>5 DEF InPayload, ParserOK, ParserType

\* The byte behind the payload.
LEMMA CrcByte ==
    ASSUME ParserOK, frame \in Payloads, InPayload(Len(frame)),
           NEW byte \in Byte, Parse(byte)
    PROVE  IF byte = parser.crc
           THEN parser'.state = "SYNC" /\ got' = SubSeq(parser.payload, 1, Len(frame))
           ELSE got' = got
<1>1. parser.state = "CRC" /\ parser.len = Len(frame)
  BY FrameLayout DEF InPayload
<1>2. ParseCrc(byte)
  BY <1>1 DEF Parse, ParseSync, ParseLen, ParsePayload
<1> QED
  BY <1>1, <1>2 DEF Parse, ParseCrc, Accepts, ParserOK, ParserType

\* What has been received of an unharmed payload is the payload.
LEMMA PrefixIsFrame ==
    ASSUME ParserOK, frame \in Payloads,
           \A i \in 1..Len(frame) : parser.payload[i] = frame[i]
    PROVE  SubSeq(parser.payload, 1, Len(frame)) = frame
<1>1. frame \in Seq(Byte) /\ Len(frame) \in Nat /\ Len(frame) <= MAX_PAYLOAD
  BY PayloadAssumption
<1>2. parser.payload \in Seq(Byte) /\ Len(parser.payload) = MAX_PAYLOAD
  BY ByteAssumption, IsASeq, LenProperties DEF ParserOK, ParserType
<1> DEFINE s == SubSeq(parser.payload, 1, Len(frame))
<1>3. s \in Seq(Byte) /\ Len(s) = Len(frame)
      /\ \A i \in 1..Len(frame) : s[i] = parser.payload[i]
  BY <1>1, <1>2, SubSeqProperties, ByteAssumption
<1> HIDE DEF s
<1>4. s = frame
  BY <1>1, <1>3, SeqEqual
<1> QED
  BY <1>4 DEF s

\* A byte that arrives as it was sent.
LEMMA CleanByte ==
    ASSUME TypeOK, InStep, ~Over, frame' = frame, sent' = sent + 1,
           NEW byte \in Byte, byte = Encode(frame)[sent + 1], Parse(byte)
    PROVE  InStep'
<1>1. /\ frame \in Payloads /\ ParserOK /\ got = Nothing
      /\ sent \in 0..(Len(frame) + 2) /\ Len(frame) \in 0..MAX_PAYLOAD
      /\ SYNC \in Nat /\ MAX_PAYLOAD \in Nat /\ SYNC > MAX_PAYLOAD
  BY FrameLayout, ByteAssumption DEF TypeOK, ParserOK, ParserType, Over, InStep
<1>2. Over' <=> sent = Len(frame) + 2
  BY <1>1 DEF Over
<1>3. CASE sent = 0
  <2>1. byte = SYNC /\ parser.state = "SYNC"
    BY <1>1, <1>3, FrameLayout DEF InStep
  <2>2. parser'.state = "LEN" /\ got' = Nothing
    BY <1>1, <2>1 DEF Parse, ParseSync, ParseLen, ParsePayload, ParseCrc, ParserOK, ParserType
  <2> QED
    BY <1>1, <1>2, <1>3, <2>2 DEF InStep
<1>4. CASE sent = 1
  <2>1. byte = Len(frame) /\ parser.state = "LEN"
    BY <1>1, <1>4, FrameLayout DEF InStep
  <2>2. ParseLen(byte) /\ got' = Nothing
    BY <1>1, <2>1 DEF Parse, ParseSync, ParsePayload, ParseCrc
  <2> DEFINE next == IF Len(frame) = 0 THEN "CRC" ELSE "PAYLOAD"
  <2>3. parser' = [parser EXCEPT !.len = Len(frame), !.index = 0,
                                 !.crc = Update(0, Len(frame)), !.state = next]
    BY <1>1, <2>1, <2>2 DEF ParseLen, LenOK
  <2>4. next = IF 0 < Len(frame) THEN "PAYLOAD" ELSE "CRC"
    BY <1>1
  <2> HIDE DEF next
  <2>5. InPayload(0)' /\ parser'.crc = After(frame, 0)
    BY <1>1, <2>3, <2>4, AfterStep DEF InPayload, ParserOK, ParserType
  <2>6. sent' - 2 = 0 /\ ~Over'
    BY <1>1, <1>2, <1>4
  <2>7. InPayload(sent - 2)'
    BY <2>5, <2>6 DEF InPayload
  <2> QED
    BY <1>1, <1>4, <2>2, <2>5, <2>6, <2>7 DEF InStep
<1>5. CASE sent \in 2..(Len(frame) + 1)
  <2>1. PICK n \in Nat : n = sent - 2
    BY <1>5
  <2>2. /\ n < Len(frame) /\ n + 1 \in 1..Len(frame) /\ sent' - 2 = n + 1 /\ ~Over'
        /\ sent + 1 = (n + 1) + 2 /\ sent \in 2..(Len(frame) + 2)
    BY <1>1, <1>2, <1>5, <2>1
  <2>3. byte = frame[n + 1]
    BY <1>1, <2>2, FrameLayout
  <2>4. /\ InPayload(n) /\ parser.crc = After(frame, n)
        /\ \A i \in 1..n : parser.payload[i] = frame[i]
    BY <2>1, <2>2 DEF InStep
  <2>5. /\ InPayload(n + 1)' /\ got' = got
        /\ parser'.crc = Update(parser.crc, byte)
        /\ parser'.payload = [parser.payload EXCEPT ![n + 1] = byte]
        /\ n + 1 \in DOMAIN parser.payload
    BY <1>1, <2>2, <2>4, PayloadByte
  <2>6. parser'.crc = After(frame, n + 1)
    BY <1>1, <2>2, <2>3, <2>4, <2>5, AfterStep
  <2>7. \A i \in 1..(n + 1) : parser'.payload[i] = frame[i]
    BY <2>3, <2>4, <2>5
  <2>8. InPayload(sent - 2)'
    BY <2>2, <2>5 DEF InPayload
  <2> QED
    BY <1>1, <2>2, <2>5, <2>6, <2>7, <2>8 DEF InStep
<1>6. CASE sent = Len(frame) + 2
  <2>1. /\ InPayload(Len(frame)) /\ parser.crc = After(frame, Len(frame))
        /\ \A i \in 1..Len(frame) : parser.payload[i] = frame[i]
    <3>1. sent - 2 = Len(frame) /\ sent \in 2..(Len(frame) + 2)
      BY <1>1, <1>6
    <3> QED
      BY <3>1 DEF InStep
  <2>2. byte = parser.crc
    <3>1. sent + 1 = Len(frame) + 3
      BY <1>1, <1>6
    <3> QED
      BY <1>1, <2>1, <3>1, AfterStep
  <2>3. parser'.state = "SYNC" /\ got' = frame
    BY <1>1, <2>1, <2>2, CrcByte, PrefixIsFrame
  <2>4. Over' /\ sent' = Len(frame) + 3
    BY <1>1, <1>2, <1>6
  <2> QED
    BY <1>1, <2>3, <2>4 DEF InStep
<1> QED
  BY <1>1, <1>3, <1>4, <1>5, <1>6

\* The byte that is changed.
LEMMA ChangedByte ==
    ASSUME TypeOK, InStep, ~Over, sent >= 2, frame' = frame, sent' = sent + 1,
           NEW byte \in Byte, byte # Encode(frame)[sent + 1], Parse(byte)
    PROVE  Damaged'
<1>1. /\ frame \in Payloads /\ ParserOK /\ got = Nothing
      /\ sent \in 2..(Len(frame) + 2) /\ Len(frame) \in 0..MAX_PAYLOAD
  BY FrameLayout DEF TypeOK, ParserOK, ParserType, Over, InStep
<1>2. PICK n \in Nat : n = sent - 2
  BY <1>1
<1>3. /\ InPayload(n) /\ parser.crc = After(frame, n) /\ parser.crc \in Byte
      /\ sent + 1 = (n + 1) + 2 /\ sent' - 2 = n + 1 /\ n <= Len(frame)
      /\ sent' \in 3..(Len(frame') + 3)
  BY <1>1, <1>2 DEF InStep, ParserOK, ParserType
<1>4. CASE n < Len(frame)
  <2>1. n + 1 \in 1..Len(frame)
    BY <1>1, <1>4
  <2>2. byte # frame[n + 1] /\ frame[n + 1] \in Byte
    BY <1>1, <1>3, <2>1, FrameLayout
  <2>3. InPayload(n + 1)' /\ got' = got /\ parser'.crc = Update(parser.crc, byte)
    BY <1>1, <1>3, <1>4, PayloadByte
  <2>4. After(frame, n + 1) = Update(parser.crc, frame[n + 1])
    BY <1>1, <1>3, <2>1, AfterStep
  <2>5. parser'.crc # After(frame, n + 1)
    BY <1>3, <2>2, <2>3, <2>4, CrcAssumption
  <2>6. InPayload(sent - 2)'
    BY <1>3, <2>3 DEF InPayload
  <2> QED
    BY <1>1, <1>3, <2>3, <2>5, <2>6 DEF Damaged
<1>5. CASE n = Len(frame)
  <2>1. byte # parser.crc
    <3>1. sent + 1 = Len(frame) + 3
      BY <1>1, <1>2, <1>5
    <3> QED
      BY <1>1, <1>3, <1>5, <3>1, AfterStep
  <2>2. got' = got
    BY <1>1, <1>3, <1>5, <2>1, CrcByte
  <2>3. Over'
    BY <1>1, <1>2, <1>5 DEF Over
  <2> QED
    BY <1>1, <1>3, <2>2, <2>3 DEF Damaged
<1> QED
  BY <1>1, <1>3, <1>4, <1>5

\* Bytes behind the changed one.
LEMMA ByteAfterDamage ==
    ASSUME TypeOK, Damaged, ~Over, frame' = frame, sent' = sent + 1,
           NEW byte \in Byte, byte = Encode(frame)[sent + 1], Parse(byte)
    PROVE  Damaged'
<1>1. /\ frame \in Payloads /\ ParserOK /\ got = Nothing
      /\ sent \in 3..(Len(frame) + 2) /\ Len(frame) \in 0..MAX_PAYLOAD
  BY FrameLayout DEF TypeOK, ParserOK, ParserType, Over, Damaged
<1>2. PICK n \in Nat : n = sent - 2
  BY <1>1
<1>3. /\ InPayload(n) /\ parser.crc # After(frame, n) /\ parser.crc \in Byte
      /\ sent + 1 = (n + 1) + 2 /\ sent' - 2 = n + 1 /\ n <= Len(frame)
      /\ sent' \in 3..(Len(frame') + 3)
  BY <1>1, <1>2 DEF Damaged, ParserOK, ParserType
<1>4. CASE n < Len(frame)
  <2>1. n + 1 \in 1..Len(frame) /\ n \in 0..Len(frame)
    BY <1>1, <1>4
  <2>2. byte = frame[n + 1]
    BY <1>1, <1>3, <2>1, FrameLayout
  <2>3. InPayload(n + 1)' /\ got' = got /\ parser'.crc = Update(parser.crc, byte)
    BY <1>1, <1>3, <1>4, PayloadByte
  <2>4. After(frame, n + 1) = Update(After(frame, n), byte) /\ After(frame, n) \in Byte
    BY <1>1, <1>3, <2>1, <2>2, AfterStep, AfterIsByte
  <2>5. parser'.crc # After(frame, n + 1)
    BY <1>3, <2>3, <2>4, CrcAssumption
  <2>6. InPayload(sent - 2)'
    BY <1>3, <2>3 DEF InPayload
  <2> QED
    BY <1>1, <1>3, <2>3, <2>5, <2>6 DEF Damaged
<1>5. CASE n = Len(frame)
  <2>1. byte # parser.crc
    <3>1. sent + 1 = Len(frame) + 3
      BY <1>1, <1>2, <1>5
    <3> QED
      BY <1>1, <1>3, <1>5, <3>1, AfterStep
  <2>2. got' = got
    BY <1>1, <1>3, <1>5, <2>1, CrcByte
  <2>3. Over'
    BY <1>1, <1>2, <1>5 DEF Over
  <2> QED
    BY <1>1, <1>3, <2>2, <2>3 DEF Damaged
<1> QED
  BY <1>1, <1>3, <1>4, <1>5

LEMMA FrameInvStep == TypeOK /\ FrameInv /\ [Next]_vars => FrameInv'
<1> SUFFICES ASSUME TypeOK, FrameInv, [Next]_vars PROVE FrameInv'
  OBVIOUS
<1>1. CASE NextFrame
  <2>1. Len(frame') \in Nat /\ sent' = 0 /\ ~Over'
    BY <1>1, PayloadAssumption DEF NextFrame, Over
  <2>2. ASSUME inSync' PROVE InStep'
    <3>1. parser'.state = "SYNC" /\ got' = Nothing
      BY <1>1, <2>2 DEF NextFrame
    <3> QED
      BY <2>1, <3>1 DEF InStep
  <2> QED
    BY <1>1, <2>2 DEF NextFrame, FrameInv
<1>2. CASE Carry
  <2>1. PICK byte \in Byte : byte = Encode(frame)[sent + 1] /\ Parse(byte)
    BY <1>2 DEF Carry
  <2>2. CASE inSync /\ harm = "none"
    <3>1. InStep'
      BY <1>2, <2>1, <2>2, CleanByte DEF Carry, FrameInv
    <3> QED
      BY <1>2, <2>2, <3>1 DEF Carry, FrameInv
  <2>3. CASE inSync /\ harm = "corrupt"
    <3>1. Damaged'
      BY <1>2, <2>1, <2>3, ByteAfterDamage DEF Carry, FrameInv
    <3> QED
      BY <1>2, <2>3, <3>1 DEF Carry, FrameInv
  <2> QED
    BY <1>2, <2>2, <2>3 DEF Carry, FrameInv
<1>3. CASE Corrupt
  <2>1. PICK byte \in Byte : CorruptTo(byte)
    BY <1>3 DEF Corrupt
  <2>2. CASE inSync /\ harm = "none" /\ sent >= 2
    <3>1. Damaged'
      BY <2>1, <2>2, ChangedByte DEF CorruptTo, FrameInv
    <3> QED
      BY <2>1, <2>2, <3>1 DEF CorruptTo, FrameInv
  <2> QED
    BY <2>1, <2>2 DEF CorruptTo, FrameInv
<1>4. CASE Lose
  BY <1>4 DEF Lose, FrameInv
<1>5. CASE UNCHANGED vars
  BY <1>5 DEF vars, sender, FrameInv, InStep, Damaged, InPayload, Over
<1> QED
  BY <1>1, <1>2, <1>3, <1>4, <1>5 DEF Next

LEMMA FrameInvariant == Spec => [](TypeOK /\ FrameInv)
<1>1. Init => FrameInv
  <2> SUFFICES ASSUME Init PROVE FrameInv
    OBVIOUS
  <2>1. Len(frame) \in Nat /\ ~Over
    BY PayloadAssumption DEF Init, Over
  <2> QED
    BY <2>1 DEF Init, FrameInv, InStep
<1> QED
  BY <1>1, FrameInvStep, ParserInBounds, PTL DEF Spec

\* A frame that starts between frames and is not harmed arrives as it was sent and
\* leaves the parser between frames, whatever its payload looks like and whatever the
\* line did before (fleet_frame.c:56-99).
THEOREM CleanArrives == Spec => []CleanFrameArrives
<1>1. FrameInv => CleanFrameArrives
  BY DEF FrameInv, InStep, CleanFrameArrives
<1> QED
  BY <1>1, FrameInvariant, PTL

\* One changed byte in the payload or the CRC never gets through, for every CRC that
\* tells two bytes and two registers apart (fleet_frame.c:88).
THEOREM OneChangeIsCaught == Spec => []CorruptionIsCaught
<1>1. FrameInv => CorruptionIsCaught
  BY DEF FrameInv, Damaged, CorruptionIsCaught
<1> QED
  BY <1>1, FrameInvariant, PTL
=============================================================================
