----------------------------- MODULE FleetLink ------------------------------
(***************************************************************************)
(* One end of the mesh link: the parser of FleetFrame, the dispatch of     *)
(* what it returns (fleet_link.c), the avoid command (fleet_avoid.c), and  *)
(* the relay of RC frames into the mesh (rx_relay.c).  The messages of the *)
(* other protocols do nothing here: FleetId, FleetLeader and FleetState    *)
(* say what they do.                                                       *)
(*                                                                         *)
(* The node ID comes and goes as FleetId has it.                           *)
(***************************************************************************)
EXTENDS FleetFrame

CONSTANTS
    AVOID_COMMAND,     \* FLEET_MSG_AVOID_COMMAND, the first byte of such a message
    AVOID_SIZE,        \* sizeof(fleetAvoidMessage_t); its second byte here are the flags
    AVOID_TIMEOUT      \* FLEET_AVOID_TIMEOUT_MS, in clock units

ASSUME AvoidAssumption ==
    /\ AVOID_COMMAND \in Byte /\ AVOID_SIZE \in 2..MAX_PAYLOAD
    /\ AVOID_TIMEOUT \in Nat \ {0}

VARIABLES
    id,                    \* "held", "lost", or "waited": lost, and TASK_RX_RELAY ran since
    commandActive,
    sinceRx,               \* age of lastRxMs, at most AVOID_TIMEOUT
    snapshot               \* the pending RC frame: "none", "own", or "old" when it was
                           \* taken under an ID held before

avoid == <<commandActive, sinceRx>>
linkVars == <<vars, id, avoid, snapshot>>

fleetHasId == id = "held"

LinkInit ==
    /\ Init /\ id \in {"held", "waited"} /\ snapshot = "none"
    /\ commandActive = FALSE /\ sinceRx = AVOID_TIMEOUT

-----------------------------------------------------------------------------
(* fleetLinkDispatch and fleetAvoidReceive *)

\* The bit FLEET_AVOID_FLAG_ACTIVE.
FlagActive(payload) == payload[2] % 2 = 1

\* Mutant: the type is not looked at.
IsCommand_AnyType(payload) == Len(payload) >= AVOID_SIZE

IsCommand(payload) == Len(payload) >= AVOID_SIZE /\ payload[1] = AVOID_COMMAND

\* Mutant: any message is a sign of life of whoever sends commands.
SinceRx_AnyMessage(payload) == 0

SinceRx(payload) == IF IsCommand(payload) THEN 0 ELSE sinceRx

Dispatch(payload) ==
    IF fleetHasId
    THEN /\ commandActive' = IF IsCommand(payload) THEN FlagActive(payload) ELSE commandActive
         /\ sinceRx' = SinceRx(payload)
    ELSE UNCHANGED avoid

\* What fleetLinkUpdate does with the byte after it has been parsed.
Dispatched(byte) ==
    /\ IF parser.state = "CRC" /\ Accepts(byte) THEN Dispatch(got') ELSE UNCHANGED avoid
    /\ UNCHANGED <<id, snapshot>>

LinkCarry == Carry /\ Dispatched(Encode(frame)[sent + 1])

LinkNoise ==
    \/ \E byte \in Byte : CorruptTo(byte) /\ Dispatched(byte)
    \/ Lose /\ UNCHANGED <<id, avoid, snapshot>>

LinkFrame == NextFrame /\ UNCHANGED <<id, avoid, snapshot>>

avoidanceIsLive == commandActive /\ sinceRx < AVOID_TIMEOUT

-----------------------------------------------------------------------------
(* The relay *)

rxRelayOnFrame ==
    /\ fleetHasId
    /\ snapshot' = "own"
    /\ UNCHANGED <<vars, id, avoid>>

\* Mutant: without an ID the pending frame is left for later.
SnapshotAfterRun_Kept == IF fleetHasId THEN "none" ELSE snapshot

SnapshotAfterRun == "none"

\* TASK_RX_RELAY runs when a frame is pending (rxRelayUpdateCheck).
rxRelayUpdate ==
    /\ snapshot # "none"
    /\ snapshot' = SnapshotAfterRun
    /\ id' = IF fleetHasId THEN id ELSE "waited"
    /\ UNCHANGED <<vars, avoid>>

Forwards == rxRelayUpdate /\ fleetHasId

-----------------------------------------------------------------------------
(* The ID and the clock *)

YieldId ==
    /\ fleetHasId
    /\ id' = "lost"
    /\ snapshot' = IF snapshot = "own" THEN "old" ELSE snapshot
    /\ UNCHANGED <<vars, avoid>>

\* Three probes take more than a second: TASK_RX_RELAY has run, if it had to.
AcquireId ==
    /\ id = "waited" \/ (id = "lost" /\ snapshot = "none")
    /\ id' = "held"
    /\ UNCHANGED <<vars, avoid, snapshot>>

Tick ==
    /\ sinceRx < AVOID_TIMEOUT
    /\ sinceRx' = sinceRx + 1
    /\ UNCHANGED <<vars, id, commandActive, snapshot>>

LinkNext ==
    \/ LinkCarry \/ LinkNoise \/ LinkFrame
    \/ rxRelayOnFrame \/ rxRelayUpdate
    \/ YieldId \/ AcquireId \/ Tick

LinkSpec == LinkInit /\ [][LinkNext]_linkVars

\* Bytes keep coming and time passes.
LinkFairSpec ==
    LinkSpec /\ WF_linkVars(LinkFrame) /\ WF_linkVars(LinkCarry) /\ WF_linkVars(Tick)

-----------------------------------------------------------------------------
(* Properties *)

\* What is sent is an avoid command.
CommandSent == Len(frame) >= AVOID_SIZE /\ frame[1] = AVOID_COMMAND

\* From end to end: the last byte of an unharmed command takes effect if the drone has
\* an ID, and no other unharmed message does, whatever came over the line before.
CommandTakesEffect ==
    [][~Over /\ Over' /\ inSync /\ harm' = "none" =>
          IF CommandSent /\ fleetHasId
          THEN commandActive' = FlagActive(frame) /\ sinceRx' = 0
          ELSE UNCHANGED avoid]_linkVars

\* fleet_avoid.c:39-41: avoidance decays on its own.  When no command to avoid is sent
\* any more it ends, though the command to stop was lost or the ID with it, and other
\* messages keep coming.  (A SYNC inside a payload may start a command in its middle.)
LeanEnds ==
    <>[](~Holds(frame, SYNC) /\ ~(CommandSent /\ FlagActive(frame))) => <>[]~avoidanceIsLive

\* An RC frame is only forwarded under the ID it was received with.
ForwardsUnderOwnId == [][Forwards => snapshot = "own"]_linkVars
=============================================================================
