# DroneMesh: a verification project in TLA+

DroneMesh is a Betaflight fork whose flight controllers form a fleet over a
mesh radio.  Its own logic is `src/main/fleet/` and `src/main/rx/rx_relay.c`;
the rest is Betaflight.  This directory models that logic, and of Betaflight
what decides whether a drone that lost its pilot comes down (signal loss,
failsafe, arming) and whether its video transmitter obeys.  It checks the
models with TLC on small instances and proves theorems about them with TLAPS
for every value of their constants.

## Inventory

Every flight controller runs one low-priority task, `TASK_FLEET`
(`fc/tasks.c:373`, 50 Hz), that calls in this order: `fleetLinkUpdate` (which
parses what the UART received and calls the receive handlers),
`fleetIdUpdate`, `fleetLeaderUpdate`, `fleetAvUpdate`, `fleetStateUpdate`,
`fleetAvoidUpdate`.  Boards share nothing but messages.  On one board the
components call each other's queries: everything asks `fleetHasId`, the A/V
gate asks `fleetIsLeader`, the leader publishes `fleetMemberMask`.  The VTX
task (5 Hz) and the pilot act on the same transmitter as the A/V gate.
`TASK_RX` reads the pilot's receiver in three states, one per run (frame,
modes, arming), hands each frame to `TASK_RX_RELAY`, and tells the failsafe
whether the data are valid; the scheduler runs the failsafe every 10 ms between
any two tasks (`scheduler.c:582`).

| component | state | operations | what is hard | correct when |
|---|---|---|---|---|
| node IDs `fleet_id.c` | own UID, ID, lifecycle, probe count and timer, observed IDs and when each was heard | receive a claim, 50 Hz update | concurrent probes, lost and stale claims, restarts, partitions that merge, the ID space at its limit | IDs are unique, a held ID is kept, the fleet converges |
| leadership `fleet_leader.c` | leader flag, believed leader, term, cached live mask, two timers | receive a heartbeat, update, become leader (called by an election outside this code) | step-down by term, late and duplicated heartbeats, IDs lost while leading | one leader per term, followers agree, the newest leader prevails, a dead one is noticed |
| A/V gate `fleet_av.c`, `fc/init.c`, `io/vtx.c`, `io/vtx_tramp.c` | what was last applied per stream; the driver's state, wish and retries | update, VTX task, answers of the device | hook failures, a cached value next to a device others also drive, commands that are lost or held back, late answers | a drone that does not lead is silent, one that leads transmits |
| peer states `fleet_state.c` | eight slots with timers, last collision | receive, broadcast, age, scan | table at its limit, re-used slots, late samples | one slot per node, threats are seen, alarms end |
| collision check `fleet_state.c` | none of its own; the peer's last sample, up to 1 s old | compare the live local state with that sample | boundaries of time and distance, the age of the sample, frames of reference | warnings are real and approaches are seen, up to what the peer can have flown since its sample |
| framing `fleet_frame.c` | parser state, length, index, CRC | encode, parse a byte | resynchronisation after loss and noise | good frames arrive, bad ones do not, the parser stays in its buffer and recovers |
| link `fleet_link.c` | UART port, parser | drain, dispatch, send | RX overrun, noise | each message reaches its handler, nothing else does |
| avoid command `fleet_avoid.c` | angles, time, flag | receive, query | a lost command to stop, an ID lost in between | only a fresh, active command counts, and it ends by itself |
| RC relay `rx_relay.c` | snapshot, pending flag | on frame, update | an ID lost and regained before a snapshot is sent | a frame is forwarded at most under the ID it was received with |
| signal loss `rx/rx.c`, `fc/tasks.c` | signal flag, deadlines, accepted channels | frame, time-out, task states | bad channels, hold and fail values, the switch | what the pilot does not send is not done |
| failsafe `flight/failsafe.c` | phase, link state, timers | valid or failed data, update, reset | timers that race recovery, values read before a loop and used in it | a lost drone comes down, a good link causes no failsafe |
| arming `fc/core.c`, `fc/rc_controls.c` | armed, reasons not to arm | arm, disarm, update | reasons set and cleared between two looks at them | nobody is surprised by a drone that arms |

## Modules

Time is counted by `Tick` in small units.  A timer of the code (the time of an
event) is a variable with its *age*, saturated at the largest value a
comparison tells apart, so behaviours are unbounded in time while states stay
few; a deadline is a countdown.  `Tick` is not enabled while an update that a timer calls for is still
due: `TASK_FLEET` runs at 50 Hz and the shortest interval is 200 ms.  A mesh
is a set of messages on their way.  A *lossy* mesh loses, duplicates, delays
and reorders them; on a *timely* one a message arrives in the time unit it was
sent in.

| module | models |
|---|---|
| `IdService` | what `fleet_id.h` promises its users: unique IDs, acquired and given up |
| `FleetId` | the ID consensus: `Receive` is `fleetIdReceive`, `SendProbe`, `Announce` and `AgeOnly` are the three ways through `fleetIdUpdate`, `Boot` and `Crash` power.  Implements `IdService` through `HeldId` |
| `FleetLeader` | leadership on top of `IdService` (`AcquireId`, `YieldId`): `Receive` is `fleetLeaderReceiveHeartbeat`, `SendHeartbeat` and `DropLeader` are `fleetLeaderUpdate`, `BecomeLeader` is called by an election that the repository announces but does not contain; a term has one winner |
| `FleetAv` | `FleetAvUpdate` is the gate with its hook `fleetAvVtxControl`; `VtxUpdate` is the VTX task: the pilot's VTX PIT MODE switch, then one pass of the Tramp driver; `SendPitMode` is a command that the transmitter obeys, that is lost, or that the VTX CONTROL DISABLE switch holds back (`vtx_tramp.c:177`; queries still go out); `Answer` and `LoseQuery` are the rest of the transmitter |
| `FleetState` | the peer table of one drone, `Self`, with `Broadcast` by its peers, `Receive` and `Update` by itself; a sample is abstracted to whether it threatens `Self` |
| `FleetCollision` | `fleetStateEvaluateCollision` in exact integer arithmetic (the time of closest approach stays a fraction), and two drones that fly (`Fly`) and turn (`Turn`).  One, `Self`, judges its own live state against the last sample it has of the other (`Broadcast`, `Receive`, `Lose`), which nothing puts forward in time (`timestampMs` is never read) and which `ENTRY_TIMEOUT` ends.  `Peer` judges likewise with a sample of another age, so that the two agree is not claimed.  Each sees its own position from its own origin |
| `FleetFrame` | `Encode` and `Parse`, one disjunct per parser state, with a line that carries, changes or loses each byte; the CRC is a recursive function over a constant operator that is only assumed to tell bytes and registers apart |
| `FleetLink` | `FleetFrame` with what is done with its messages: `Dispatch` to the avoid command, `rxRelayOnFrame` and `rxRelayUpdate`, and an ID that comes and goes.  A behaviour of it is one of `FleetFrame` |
| `Failsafe` | `ValidDataReceived` and `ValidDataFailed` (what the RX code reports); `StartPass` is the entry of `failsafeUpdateState` with `failsafeCheckDataFailurePeriod`, and each case of its `do ... while` loop is an action |
| `RcInput` | `Frame` and `LossTimeout` (state CHECK of `TASK_RX`, with the signal-loss detection), `Modes` (arm switch, flight modes), `Update` (`updateArmingStatus`), `SaveConfig`, and `FailsafeTask`, which runs between any two of them; a pilot who moves the arm switch, the failsafe switch and the throttle at will |
| `MC...` | the instances for TLC |
| `...Proofs` | the theorems |

`FleetLeader` and `FleetState` use the ID service instead of the ID protocol:
that the protocol implements the service is checked in `FleetId`.  On a mesh
that is not timely it does not (partitions settle on one ID), and
`LowestUidKeepsId` and `FleetSettles` say what is left then.

## Runs

Every run that passes lists invariants, action properties and liveness
properties; each has a mutant of the code in the module (`X_Variant` next to
`X`) that breaks it.

| run | bounds | shows |
|---|---|---|
| `id_timely` | 3 drones that pick the same first ID, 4 IDs, probe interval 2, 3 probes, announcements every 3, timeout 5, one power loss | the protocol implements the ID service; a held ID is lost only with the power; no live member is expired; the fleet converges |
| `id_merge` | 2 colliding drones, 3 IDs, a lossy mesh that echoes one drone's claims and heals at any moment | the lowest UID keeps its ID whatever is lost or late; after healing the fleet converges, also when both held one ID |
| `id_resolved` | as `id_timely` with 3 IDs | a divergence, see below |
| `leader_mesh` | 2 drones, 2 terms, 3 IDs, timeout of 2 heartbeats, one ID lost or drone restarted, a mesh that is timely or may heal at any moment | one leader per term; followers of a term agree; on a timely mesh a follower that is up to date with its leader (it has heard the last heartbeat or has it coming in) stays so, and keeps it, while it leads; the newest leader prevails; a leader's loss is noticed |
| `av_gate` | 5 changes of leadership, arming, VTX PIT MODE or VTX CONTROL DISABLE, 3 retries, 3 lost commands or queries | a silent transmitter is only switched on for a leader or by the pilot; on the ground it follows the leadership in the end, unless the pilot has overruled the gate or every retry of a wish was lost or held back |
| `av_armed` | 3 changes, both switches left alone, nothing lost | a divergence: a leader that steps down in flight |
| `state_radio` | 2 peers, 3 IDs, 2 slots, broadcasts every unit, timeout 2, delay 1, 2 samples on the air, one change of motion or ID, lossy and timely mesh | one slot per node; a lasting threat is seen although old IDs hold slots; alarms end |
| `collision_sky` | two drones on a strip of 6 x 2 places, four directions at speed 1 and standing still, distance 2, horizon 4, a broadcast every 2, entries dropped at age 3, a lossy or timely mesh, one origin | warnings are real, and no approach is missed whose closest moment is within the horizon, both up to what the peer can have flown since its sample; on a timely mesh fast approaches are seen |
| `collision_frames` | a strip of 5 x 2 places, safety distance 1, horizon 3, a broadcast every unit, entries dropped at age 2, a timely mesh, each drone its own origin | a divergence |
| `link` | bytes 0..3 with SYNC = 3, payloads of 0 and 1 byte and those of 2 that begin with SYNC or are avoid commands, 2 bytes changed or lost, timeout 1, an ID that comes and goes | the parser stays in its buffer; good frames arrive; one changed byte is caught; frames arrive again after the noise; an unharmed avoid command takes effect and nothing else does; avoidance ends by itself; RC frames are forwarded under their own ID |
| `rc` | 4 settings that cover every procedure and every use of the switch, failure period 4, recovery 2, landing 2, throttle delay 2, loss after 1, hold 2, one save | the failsafe's loop ends; a loss is acted on; after a loss nothing arms before the arm switch was off; arming wants a steady link; a good link causes no failsafe; the failsafe ends; a lost drone comes down |
| `rc_rearm` | as `rc`, with the landing procedure on the failsafe switch, no save | a bug, see below |

Why the bounds are enough.  *IDs*: three drones are the smallest fleet in
which two dispute an ID while a third observes; the probe and announcement
intervals keep the order of the code, and the UIDs give different staggers, so
probes cross in every order.  The interval ratio is the code's rounded to
small numbers; the claims about unequal ratios are in the theorems, whose
constants are arbitrary.  *Leaders*: two terms give an old and a new leader;
one lost ID gives a leader that is deaf while its successor is elected.  Two
drones have every state a drone can be in towards a leader; what three of them
can disagree about, the leader of a term, is proved for any number.
*A/V*: five changes cover up, down and up again of the leadership around a
flight or two moves of a switch; three losses, or VTX CONTROL DISABLE, use up
all retries of a wish, fewer also hit the query after a command.  *Peers*: with two slots and two peers, one change of ID already
fills the table with a ghost.  *Geometry*: on the strip
drones meet head on, cross, overtake and pass each other at a side distance of
0 or 1, inside and beyond the horizon; a sample is 0, 1 or 2 units old when it
is used, so the drift of the peer is anything from nothing to the safety
distance; `MaxDen` covers all denominators of the closest approach (at most 4
there).  Other directions, speeds and delays are in the theorems.  *Frames*: every
parser state meets every kind of byte (SYNC, a good length, too large a
length, a message type) at every index.  The real code never has other kinds.
*Failsafe*: the unit is 50 ms; the periods are scaled down in their default
order (loss < hold <= recovery < failure), so each can run out before, with or
after each of the others it can meet; longer ones are in the theorems.

What the runs taught about the code:

* `FLEET_ID_PROBE_COUNT` = 3 is needed: with 2 the run `id_timely` finds two
  drones that settle on one ID because their last probes cross.  The mutant
  `Settles_Early` is this change.
* A fleet with as many drones as IDs does not converge after a restart: the
  ghost of the old ID makes a drone settle on ID 0.  One spare ID suffices.
* If a payload holds SYNC and is sent again and again, the parser can take the
  inside of every frame for a frame, for ever, after one lost byte.  `Recovers`
  is therefore stated for frames that hold SYNC only where they begin.
* A leader whose ID is taken goes on leading and transmitting, though it takes
  no part in leadership any more (`fleet_leader.c:157` against the comment at
  line 128).  `NewestLeaderPrevails` shows that it steps down once it has an ID
  again; `leaderId` (line 85) is a copy of the ID it was promoted under.
* The Tramp driver sends a command at most three times per wish.  When all
  three are lost, or VTX CONTROL DISABLE holds them back (`vtx_tramp.c:177`
  counts them as sent), the driver gives up (`vtx_tramp.c:371`); the gate has
  been told that the wish was taken and does not repeat it.  The transmitter
  stays as it is until the next wish.  `GateReachesDevice` has this case, and
  the pilot's overruling, as its exceptions.
* A warning rests on a sample that is up to 1 s old.  If the peer has turned
  since, it may be wrong both ways, and of two drones one may warn and the
  other not; on one course it is off by what the peer flies in that time.
  `WarningIsReal` and `NoApproachMissed` say by how much.  With a safety
  distance of 2 m that is much: a peer at 10 m/s flies 2 m between two
  broadcasts, one at 2 m/s while an entry lives.  What faster peers can rely on
  is `FastApproachIsSeen`, which loses no distance but needs a timely mesh.
* The period 0 that a switch-induced failsafe sets stays in force
  (`failsafe.c:188`) until the next failsafe that the switch did not cause: a
  link that has just come back may arm at once.  `ArmsOnSteadyLink` has this
  case as its exception.
* Saving the configuration during a failsafe resets its phase but not `active`
  nor `ARMING_DISABLED_FAILSAFE` (`config.c:177`): both stay until a restart.
  `FailsafeEnds` has this case as its exception.
* `receiving` is read before the loop of `failsafeUpdateState`, so the branch of
  `FAILSAFE_RX_LOSS_DETECTED` for a link that is back is never taken, which
  delays recovery by one phase and harms nothing.
* One flight channel that stays bad with good frames makes the receiver flap in
  stage 2, where bad channels do not count as loss (`rx.c:767`): each recovery
  restarts the landing.  `LostDroneLands` is about a drone that hears nothing.
* `rxRelayOnFrame` is also called when the signal timed out (`rx.c:861`), though
  `rx_relay.h:41` speaks of new frames: the last channels are forwarded again,
  every 50 ms, for as long as the pilot is not heard.  A frame that arrives
  before the last one was sent replaces it (`rx_relay.c:72`): the newest wins.
* The command to stop avoiding is ignored by a drone that just lost its ID; the
  lean then ends with its timeout.  The test of freshness is of 32-bit
  milliseconds: a command left active becomes fresh again for `AVOID_TIMEOUT`
  after 49.7 days (`fleet_avoid.c:50`), beyond any flight.

### Divergences from the documentation

Four runs show a promise of the documentation or of a comment broken by the code (`expect: violation`).

* `id_resolved`: `fleetIdIsResolved` is true for a drone that saw every ID
  taken and settled on 0.
* `av_armed`: `vtxUpdate` sends nothing while armed, so a leader that transmits
  and steps down in flight goes on transmitting until it disarms, against
  `fleet_av.h:23`.  In the trace the driver is online, its wish is pit mode and
  it has all retries left.
* `collision_frames`: positions of two drones are compared although each is
  relative to the place where that drone was armed.  `collision_sky`, which
  assumes one origin, says what the algorithm gives when that is repaired.
* `rc_rearm`: `ARMING_DISABLED_FAILSAFE` is there to "prevent accidently
  rearming by an intermittent rx link" (`failsafe.c:393`).  After a failsafe
  caused by the switch the wait for a good link is 0 ms.  If the landing ends
  between the frame that carries the release of the switch and the next one,
  that next frame brings the link up, and if the scheduler then runs the
  failsafe between the states CHECK and MODES of `TASK_RX`, the flag is gone
  before `updateArmingStatus` has ever seen it.  The drone that has just been
  disarmed arms again with the arm switch still on.  After a failsafe that the
  switch did not cause this cannot happen (`NoSurpriseArmingAfterLoss`, proved).

Four more were met while modelling.  No run checks them: the properties named
here are stated without the case, so they do not catch it.

* `fleet_state.h:78` promises TRUE if two drones "are predicted to come within
  safetyDistanceCm over the next horizonS seconds".  For drones that move
  relative to each other the code looks at the time of closest approach alone
  (`fleet_state.c:266`) and returns FALSE when that is just past, though they
  are still close, or just beyond the horizon, though they come close before
  it.  `Soon`, the hypothesis of `NoApproachMissed`, excludes both.
* `fleet_av.h:23` lets only a leader transmit, but the pilot's VTX PIT MODE
  switch, the CMS and MSP write the same setting, and the gate, which compares
  with its own last request, does not notice until the leadership changes.
  `GateReachesDevice` and `SilentUntilLeader` except the switch.
* `rx_relay.c:92` calls it the policy of all mesh users that a drone without an
  ID stays silent; `sendStateBroadcast` (`fleet_state.c:94`) does not ask for
  one.  All such drones report as node 0 and share one slot of the table.
  `ThreatIsSeen` is about peers that have an ID.
* Saving the configuration during a failsafe (`config.c:177`), as said above.

## Fairness

Liveness is checked with weak fairness of `Tick`, of each drone's update and of
receiving a message that waits: the scheduler runs `TASK_FLEET` again and
again, and `fleetLinkUpdate` drains the UART on every run.  In `FleetAv` also
of the device's answers (`Answer`) and both tasks; since the VTX task runs ten
times less often than the fleet task, `VtxUpdate` waits for a `FleetAvUpdate`
(`gateRan`).  In `FleetLink` frames and their bytes keep
coming, as peers announce and report for as long as they have power, and time
passes.  In `RcInput` the failsafe check is weakly fair; the steps of `TASK_RX`
that need no frame, and `Tick`, are strongly fair: frames, which disable them
for a moment, do not keep the task or the clock from going on.  No frame ever
need come.  Nothing is assumed fair that the code does not control: the mesh
need not heal, an election need not happen, a board need not boot, noise need
not stop (it is bounded), a pilot need not release a switch.
Properties about a healed mesh have it as a hypothesis.

## Theorems

Proved by TLAPS for every value of the constants that meets the assumptions
named in the modules; TLC evaluates these on every run.

| theorem | says | argument |
|---|---|---|
| `FleetIdProofs!TypeCorrect` | IDs, timers and probe counts stay in range on any mesh | `TypeOK` is not inductive alone: `ProbesLeft` (a probing drone has probes left) bounds the counter |
| `FleetIdProofs!LowestUidWins` | the drone with the lowest UID never loses an ID it settled on, on any mesh | no claim outranks it (`LowestNeverOutranked`), and nothing else takes an ID away |
| `FleetIdProofs!HeldIdsDiffer` | on a timely mesh no two drones hold one ID | `ServiceInv`, see below |
| `FleetIdProofs!HoldersKeepTheirId` | on a timely mesh an ID is lost only with the power | `ClaimsInTime`: no settled drone has a rival's settled claim coming in |
| `FleetIdProofs!IdsAreServed` | on a timely mesh the protocol implements `IdService` | a step that settles acquires an ID nobody holds, since a drone about to settle has no rival (`SettlesAlone`); power loss releases; all others stutter |
| `FleetIdProofs!MembersStayInView` | on a timely mesh no member that keeps its ID is expired | `MembersHeard`: of a member in view one has heard since its last claim, or will before the clock ticks |
| `FleetLeaderProofs!TypeCorrect` | types; no heartbeat without an ID or for a term nobody won | with `LeadersWon`: a leader leads a term it has won |
| `FleetLeaderProofs!AtMostOneLeaderPerTerm` | no two drones lead one term | from `LeadersWon`, since a term has one winner |
| `FleetLeaderProofs!FollowersAgree` | followers of a term follow one drone while IDs are kept | `HeartbeatsFromWinners` and `FollowersFollowWinners`: what heartbeats and followers say of a term is the ID of its winner; `WinnersHoldIds` makes that ID stable |
| `FleetLeaderProofs!LeadersAreNotMissed` | on a timely mesh an up-to-date follower neither drops its leader nor falls behind while it leads | `UniqueIds`, and one lemma per action: a heartbeat from another drone of the same ID and term does not exist |
| `FleetAvProofs!TypeCorrect` | types; the retries never run below zero, and each command that did not reach the device has used one up | by cases of the driver's state |
| `FleetAvProofs!SilenceIsKept` | a silent transmitter is only switched on for a leader or by the pilot | `GateDecides`: what the driver wants is what the gate asked for unless overruled, and the gate has run before the driver uses a VTX that came online |
| `FleetStateProofs!OneSlot` | a node never has two slots, for any table and mesh | `SlotInv` with types; a sample goes to its node's slot or to a free one |
| `FleetStateProofs!TypeCorrect` | types; an update leaves no entry that is too old | `Types` and `Fresh` |
| `FleetStateProofs!AlarmsEnd` | an alarm ends in bounded time once no drone is a threat, on any mesh | `OldNews`: since the last threat ended, every sample of it is as old as the peace, on the air and in the table, and both ages are bounded |
| `FleetStateProofs!ThreatsAreSeen` | a lasting threat from a drone with an ID is seen, if the fleet fits in the table and the mesh is timely | `TrueNews`: once the old entries have timed out, every entry tells the truth about a peer, so by counting (`RoomForAll`) there is a free slot for a peer that has none; `Heard`: a peer that broadcast since has an entry, or is heard before the clock ticks |
| `FleetCollisionProofs!NothingSoonIsMissed` | a drone is warned of a peer with the same origin, from a sample of any age taken on the peer's present course, if the two come closer than the safety distance by more than the peer can have flown since, and their closest moment is within the horizon by more than the age can shift it; for all places, velocities, delays and losses | `VertexIsLowest`: the square of the distance is a quadratic in time, with the time of closest approach as its vertex; `Displaced`: the triangle inequality, from `Cauchy`; `SkyInv`: a sample is where the peer was `lag` units ago (`Faithful`) |
| `FleetCollisionProofs!WarningsAreReal` | a drone is only warned of a peer with the same origin and on the sampled course if the two come within the safety distance and what the peer can have flown since, by the horizon | the time of closest approach to the sample is a witness, if `MaxDen` covers its denominator; `Displaced` and `Faithful` as above |
| `FleetCollisionProofs!FastIsSeen` | on a timely mesh drones with one origin that were apart when the one first heard of their present courses, and approach at the safety distance per horizon less a broadcast interval or faster, have the one warned at the latest when they have become close | `PassedIsWarned`: who has passed the closest moment, and passed it close, has been warned before it; `WarnedInTime`: a sample puts that moment at most its age too late, and a fresh one has come in by then (`SampleTimely`, `JudgedFresh`).  `Miss`, the least distance squared times the speed squared, does not change in straight flight |
| `FleetFrameProofs!ParserInBounds` | the parser writes only inside its buffer, whatever the line delivers, for any CRC | `ParserOK`: in the payload state the index is below the length, which is at most the buffer |
| `FleetFrameProofs!CleanArrives` | a frame that is not harmed and meets a parser between frames is delivered, and is what was sent, for any CRC | `FrameInv`: while the line is clean, parser and sender are at the same byte and agree on all that went before (`InStep`) |
| `FleetFrameProofs!OneChangeIsCaught` | a frame with one changed byte in its payload or CRC is not delivered, for any CRC that tells bytes and registers apart | `FrameInv`: from the changed byte on, the two registers differ (`Damaged`) |
| `FleetLinkProofs!LinkImplementsFrame` | a behaviour of the link is one of the framing | every action carries, parses or leaves the parser alone |
| `FleetLinkProofs!LinkInBounds` | the parser of a working link stays in its buffer | the two theorems above |
| `FleetLinkProofs!LinkCleanArrives`, `LinkOneChangeIsCaught` | the same for a working link | the refinement carries the theorems over |
| `FleetLinkProofs!CommandActs` | the last byte of an unharmed avoid command takes effect if the drone has an ID, and no other unharmed message does | `FrameInv`: the parser completes that frame with that byte |
| `FleetLinkProofs!ForwardsOwnFrames` | an RC frame is only relayed under the ID it was received with | `RelayInv`: a snapshot of an old ID is gone before the next one, since three probes take longer than a period of the relay |
| `RcInputProofs!TypeCorrect` | types; the loop of the failsafe ends only in a phase that waits | with `PassKnows` |
| `RcInputProofs!LossActedOn` | an armed drone without data for longer than the failure period is landing or flying home once the scheduler has looked | `PassKnows`: what a pass read before its loop is still so while it lasts, or at least on the safe side |
| `RcInputProofs!NoRearmingAfterLoss` | a drone disarmed after a loss is not armed again before its arm switch was off, for all periods and interleavings | `Blocked`: the arm switch is a stored reason, or the failsafe switch is on, or the failsafe still waits (`WaitingForLink`: the wait starts again until a frame has come, and from that frame on the RX task comes first) |
| `RcInputProofs!ArmingWantsALink` | a drone is only armed on a link that has been good for the recovery period, but for the two cases above | `Steady`: while the period is not 0, only the end of the recovery period takes the link's reason not to arm away; when a failsafe makes it so, the link is down or the switch is on |
| `RcInputProofs!GoodLinkIsLeftAlone` | a link that has been good for the recovery period puts no drone into failsafe | `LossIsNew`: an armed drone whose link is down, and that is not in failsafe yet, lost it less than one unit of time ago; `PassAgrees`: the phases agree with what the pass has read |

### How unique IDs are proved

`HeldIdsDiffer`, `HoldersKeepTheirId`, `IdsAreServed` and `MembersStayInView`
assume `TimelyMesh`: messages arrive in the time unit they were sent in, UIDs
differ, a claim takes three probes or more, and announcements are more
frequent than the timeout of members.  The code's constants satisfy the last
two; `id_timely` is an instance, and `id_merge` shows what is lost without the
first.  Drones, IDs, intervals and power losses are arbitrary.

That two drones never hold one ID (`OneHolder`) is not inductive: a second
drone may be one update away from settling.  `ServiceInv` adds what rules that
out.  `ProbeTimes`: a probe of an earlier time unit has been read.
`HolderObjects`: if one drone holds an ID that another probes, the prober's
claim or the holder's answer is on its way, and the prober is not about to
settle.  `ClaimsInTime`: nor is any drone that has a settled claim to its ID
coming in.  `LowerProbesFirst`: if two drones probe one ID, the one with the
higher UID has the other's probe coming in, or has begun after the other's
last probe and so hears the next before its own third.  This is where three
probes are needed: with two the invariant fails, as `id_timely` does.

A step is first reduced to one of four kinds (`StartsOver`, `Reads`, `Claims`,
`Probes`), or a tick; each part of the invariant is then proved for each kind.

### How the frame is proved

The CRC of a frame is a recursive function over its bytes.  That this function
exists, and that its registers follow from one another, is an induction over
the length.  `RegistersStep` proves it with a least counterexample (`WFMin` of
the library), which needs no theorem with an operator parameter.

### Only model-checked

Liveness, which TLAPS cannot prove under fairness: `FleetSettles`,
`NewestLeaderPrevails`, `LeaderLossIsNoticed`, `GateReachesDevice`, `Recovers`,
`LeanEnds`, `FailsafeEnds` and `LostDroneLands`.  Every invariant, action
property and refinement of the passing runs is a theorem.

## Not modelled

* The mesh radio behind the UART and the election, which are not in the
  repository; the transmitter of the relay, which is a stub.
* More peers than slots, the last of which is dropped silently
  (`fleet_state.c:182`), and drones without an ID (see the divergences):
  `ThreatIsSeen` excludes both.
* The collision check of `Peer`, which is that of `Self` with the roles
  exchanged; which of several peers a drone is warned of first.
* Boards with equal UIDs (`fleet_id.c:199`; every SITL board has 0): each takes
  the other's claims for its own.  The modules assume UIDs that differ.
* The order of initialisation, and the composition of IDs and leadership on one
  clock: `FleetLeader` and `FleetState` use the ID service instead, since the
  product of both protocols is beyond TLC at sizes at which either is
  interesting.
* 32-bit clocks: ages are what comparisons of nearby times give.  Only
  `vtx_tramp.c:371` compares times that may be further apart than 35.8 minutes.
* A drone with a valid altitude but no valid horizontal estimate
  (`fleet_state.c:205`); single-precision rounding in the collision check; yaw
  and mode, which no receiver reads.
* The VTX protocols other than Tramp, and of Tramp frequency, power and bytes;
  pit mode set by CMS or MSP, which overrule the gate as the switch does.
* PPM and PWM receivers, MSP override, 3D, stick arming, channels set to a value
  on failure, crash flip and launch control, and the reasons not to arm that come
  from sensors, motors or GPS; what a GPS rescue does once it is chosen.
* Scheduler, sensors, control, OSD, CLI, MSP and `lib/`, which are Betaflight's.

Terms are bounded in the runs and do not wrap.

## What could come next

1. `FleetId` and `FleetLeader` on one clock, with a coarser time than each has
   now: what a yield in the middle of a term does to `leaderId`.
2. Leadership on the mesh of `FleetId` in the proofs: `IdsAreServed` lets
   `FleetLeader`'s theorems speak of the ID protocol once both are composed.
3. SmartAudio and MSP as transmitters behind `FleetAv`.
