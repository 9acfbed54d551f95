-------------------------- MODULE FleetLinkProofs ---------------------------
(***************************************************************************)
(* Theorems about FleetLink for every alphabet, CRC, line and timeout.     *)
(***************************************************************************)
EXTENDS FleetLink, FleetFrameProofs

\* Every step of the link is a step of the parser and the line, or none.
LEMMA StepIsFrameStep == [LinkNext]_linkVars => [Next]_vars
<1> SUFFICES ASSUME [LinkNext]_linkVars PROVE [Next]_vars
  OBVIOUS
<1>1. CASE LinkCarry
  BY <1>1 DEF LinkCarry, Next
<1>2. CASE LinkNoise
  BY <1>2 DEF LinkNoise, Corrupt, Next
<1>3. CASE LinkFrame
  BY <1>3 DEF LinkFrame, Next
<1>4. CASE rxRelayOnFrame \/ rxRelayUpdate
  BY <1>4 DEF rxRelayOnFrame, rxRelayUpdate
<1>5. CASE YieldId \/ AcquireId \/ Tick
  BY <1>5 DEF YieldId, AcquireId, Tick
<1>6. CASE UNCHANGED linkVars
  BY <1>6 DEF linkVars
<1> QED
  BY <1>1, <1>2, <1>3, <1>4, <1>5, <1>6 DEF LinkNext

\* The link implements the framing: what FleetFrame promises holds of it, whatever
\* dispatch, avoid command and relay do (fleet_link.c:83-98).
THEOREM LinkImplementsFrame == LinkSpec => Spec
<1>1. LinkInit => Init
  BY DEF LinkInit
<1> QED
  BY <1>1, StepIsFrameStep, PTL DEF LinkSpec, Spec

\* A link whose drones come and go parses only inside its buffer (fleet_frame.c:65-85).
THEOREM LinkInBounds == LinkSpec => []TypeOK
BY LinkImplementsFrame, ParserInBounds, PTL

\* A frame that meets the parser of a working link between frames arrives as it was sent
\* (fleet_frame.c:56-99, fleet_link.c:93-96).
THEOREM LinkCleanArrives == LinkSpec => []CleanFrameArrives
BY LinkImplementsFrame, CleanArrives, PTL

\* A working link never takes a frame with one changed byte for a good one
\* (fleet_frame.c:88).
THEOREM LinkOneChangeIsCaught == LinkSpec => []CorruptionIsCaught
BY LinkImplementsFrame, OneChangeIsCaught, PTL

-----------------------------------------------------------------------------
(* The avoid command *)

\* Only the parser decides that a frame is complete: until then nothing is dispatched.
LEMMA DispatchNeedsFrame ==
    ASSUME NEW byte \in Byte, Parse(byte), Dispatched(byte), got = Nothing, got' = frame,
           frame \in Payloads, fleetHasId
    PROVE  Dispatch(frame)
<1>1. frame # Nothing
  <2>1. frame \in Seq(Byte) /\ -1 \notin Byte
    BY PayloadAssumption, ByteAssumption
  <2>2. Nothing[1] = -1 /\ 1 \in 1..Len(Nothing)
    BY DEF Nothing
  <2>3. \A i \in 1..Len(frame) : frame[i] # -1
    BY <2>1
  <2> QED
    BY <2>2, <2>3
<1>2. parser.state = "CRC" /\ Accepts(byte)
  BY <1>1 DEF Parse
<1> QED
  BY <1>2 DEF Dispatched

LEMMA LastByteActs ==
    ASSUME TypeOK, FrameInv, FrameInv', [LinkNext]_linkVars,
           ~Over, Over', inSync, harm' = "none"
    PROVE  IF CommandSent /\ fleetHasId
           THEN commandActive' = FlagActive(frame) /\ sinceRx' = 0
           ELSE UNCHANGED avoid
<1>1. LinkCarry
  <2>1. CASE LinkNoise
    BY <2>1 DEF LinkNoise, CorruptTo, Lose
  <2>2. CASE LinkFrame
    BY <2>2 DEF LinkFrame, NextFrame
  <2>3. CASE rxRelayOnFrame \/ rxRelayUpdate \/ YieldId \/ AcquireId \/ Tick
    BY <2>3 DEF rxRelayOnFrame, rxRelayUpdate, YieldId, AcquireId, Tick, vars, sender, Over
  <2>4. CASE UNCHANGED linkVars
    BY <2>4 DEF linkVars, vars, sender, Over
  <2> QED
    BY <2>1, <2>2, <2>3, <2>4 DEF LinkNext
<1>2. frame' = frame /\ inSync' /\ harm = "none"
  BY <1>1 DEF LinkCarry, Carry
<1>3. got' = frame /\ got = Nothing
  BY <1>2 DEF FrameInv, InStep
<1>4. PICK byte \in Byte : byte = Encode(frame)[sent + 1] /\ Parse(byte) /\ Dispatched(byte)
  BY <1>1 DEF LinkCarry, Carry
<1>5. CASE fleetHasId
  <2>1. Dispatch(frame)
    BY <1>3, <1>4, <1>5, DispatchNeedsFrame DEF TypeOK
  <2> QED
    BY <1>5, <2>1 DEF Dispatch, IsCommand, SinceRx, CommandSent, avoid
<1>6. CASE ~fleetHasId
  BY <1>4, <1>6 DEF Dispatched, Dispatch
<1> QED
  BY <1>5, <1>6

\* From end to end: the last byte of an unharmed command takes effect if the drone has
\* an ID, and no other unharmed message does, whatever came over the line before
\* (fleet_frame.c:56-99, fleet_link.c:44-66, fleet_avoid.c:63-87).
THEOREM CommandActs == LinkSpec => CommandTakesEffect
<1>1. /\ TypeOK /\ FrameInv /\ (TypeOK /\ FrameInv)' /\ [LinkNext]_linkVars
      => [~Over /\ Over' /\ inSync /\ harm' = "none" =>
             IF CommandSent /\ fleetHasId
             THEN commandActive' = FlagActive(frame) /\ sinceRx' = 0
             ELSE UNCHANGED avoid]_linkVars
  BY LastByteActs
<1>2. LinkSpec => [](TypeOK /\ FrameInv)
  BY LinkImplementsFrame, FrameInvariant, PTL
<1> QED
  BY <1>1, <1>2, PTL DEF LinkSpec, CommandTakesEffect

-----------------------------------------------------------------------------
(* The relay *)

\* A frame captured under an ID that was given up is gone before there is another one.
RelayInv ==
    /\ id \in {"held", "lost", "waited"} /\ snapshot \in {"none", "own", "old"}
    /\ id = "held" => snapshot # "old"
    /\ id = "waited" => snapshot = "none"

LEMMA RelayStep == RelayInv /\ [LinkNext]_linkVars => RelayInv'
<1> SUFFICES ASSUME RelayInv, [LinkNext]_linkVars PROVE RelayInv'
  OBVIOUS
<1>1. CASE UNCHANGED <<id, snapshot>>
  BY <1>1 DEF RelayInv
<1>2. CASE rxRelayOnFrame
  BY <1>2 DEF rxRelayOnFrame, fleetHasId, RelayInv
<1>3. CASE rxRelayUpdate
  BY <1>3 DEF rxRelayUpdate, SnapshotAfterRun, fleetHasId, RelayInv
<1>4. CASE YieldId
  BY <1>4 DEF YieldId, fleetHasId, RelayInv
<1>5. CASE AcquireId
  BY <1>5 DEF AcquireId, RelayInv
<1> QED
  BY <1>1, <1>2, <1>3, <1>4, <1>5
     DEF LinkNext, LinkCarry, LinkNoise, LinkFrame, Dispatched, Tick, linkVars

\* An RC frame is only forwarded under the ID it was received with, provided the relay
\* runs before a drone can have another ID (rx_relay.c:88-105).
THEOREM ForwardsOwnFrames == LinkSpec => ForwardsUnderOwnId
<1>1. LinkInit => RelayInv
  BY DEF LinkInit, RelayInv
<1>2. RelayInv /\ [LinkNext]_linkVars => [Forwards => snapshot = "own"]_linkVars
  BY DEF RelayInv, Forwards, rxRelayUpdate, fleetHasId
<1> QED
  BY <1>1, <1>2, RelayStep, PTL DEF LinkSpec, ForwardsUnderOwnId
=============================================================================
