# ReCaster: a TLA+ model of the netplay core

ReCaster plays a two-player fighting game (MBAACC) over the network.  `caster.exe`
connects two players, starts the game and injects `hook.dll`; the DLL exchanges inputs
with the opponent, predicts the inputs it does not have yet and corrects the game when a
prediction was wrong; a small Go server (the relay) helps the two players find each other.
This directory holds TLA+ modules that model these parts, TLC configurations that check
them on small instances, and proofs that TLAPS checks for every value of the constants.

Paths below are relative to the repository; `DM` is `src/dll/entry/dll_main.cpp`, `MG` is
`src/dll/netplay/manager.cpp`.

## 1. The system

| part | state it keeps | operations | talks to |
|---|---|---|---|
| input history (`netplay/inputs_container.hpp`) | per transition index a vector of inputs; the earliest contradicted frame | read (with prediction), write, write a batch with divergence detection, grow, prune | called by `NetplayManager` under its mutex |
| netplay manager (`MG`) | FSM state, start index, index and frame, two containers, RNG states per index, retry-menu choices, the opponent's newest index | `setState`, `setInput(s)`, `getInput(s)`, `isRemoteInputReady`, `setRemoteIndex`, RNG and menu accessors | `frameStep`, spectator manager |
| frame loop (`DM`) | rollback timer, round-over timer, fast-forward stop frame, sync-hash queues, "should sync RNG" | `frameStep`, `frameStepRerun`, `checkRoundOver`, `gameModeChanged`, `netplayStateChanged`, `drainNetplayInbox` | everything in the DLL; the game's memory |
| rollback manager (`netplay/rollback_manager.cpp`) | pool of saved states, list of those in use | `saveState` with eviction, `loadState`, sound filters | the game's memory |
| network thread and connector (`netplay/network_thread.cpp`, `connector.cpp`) | ENet host, the opponent's peer, inbox, outbox, statistics | a loop of its own thread: receive, send, spectators; start, stop | frame loop through two queues |
| sync hashes (`DM`) | queues of local and remote hashes | generate, send, invalidate, compare | frame loop |
| spectator broadcast (`spec/spectator_manager.cpp`) | pending and live spectators, archive of confirmed inputs, outbox | connect, promote, `archiveStep`, `frameStepSpectators`, time out | network thread and game thread, one mutex |
| spectator client (`spec/spectate_client.cpp`) | batches not yet applied, RNG states and menu choices put off | apply in order, jump to the head of the stream | netplay manager |
| session handshake (`exe/session/session.cpp`) | phase, ping samples, chosen delay and rollback | messages of host and client up to "start game" | ENet transport, relay client, launcher |
| relay client (`common/net/relay/relay_client.cpp`) | phase, TCP buffer, match id, opponent's endpoint, retries | `step`, parse, send UdpData, punch, retry | relay server, opponent |
| relay server (`server/*.go`) | rooms by code, match counter | register, join, record an endpoint, delete (four ways), clean up | TCP goroutine per connection, UDP loop, timers |
| launcher, IPC, hooks, overlay, controllers, configuration, windows, fonts | | process start-up, one configuration message, machine-code patches, drawing, parsing | |

How a frame goes.  `frameStep` stores the local input `delay` frames ahead and sends the
last 30 inputs unreliably; it then waits (`isRemoteInputReady`) until the opponent's inputs
are within the prediction window, sending again every 100 ms; when the container has noted
a contradiction and the spacing timer allows it, it restores the newest saved state at or
before the contradicted frame and reruns to where it was with the corrected inputs, else
the game simulates one frame.  When both players' "no input" flags go up the round is over
and, after `rollback + 5` more frames, the FSM moves to the next transition index.

What is hard here: unreliable messages that carry overlapping windows; two games that run
at different speeds; a contradiction noted in the middle of a rerun or while the timer
blocks the next rollback; a bounded pool of states; a knock-out that turns out to be a
misprediction; the end of a round, after which its inputs are never sent again; in the
relay, goroutines that act on a room after it was removed and its code taken by others; a
spectator that joins while the match it is to be shown goes on under it; two threads around
one spectator manager while connections come, go and reuse each other's slots; hashes on
their way while the frames they speak of are undone; two launchers that ping at once.
`PROJECT.json` lists each hazard at its line with the properties that would catch it.

What makes the parts correct:
- history: what was written is what is read, and the trigger is the earliest contradiction;
- exchange: no frame is lost for good, the drift and the prediction are bounded, and nobody
  waits for ever;
- state machine: the two sessions go through the same states, a round runs on both sides
  from the same generator state, neither peer runs away from the other, and when one stops
  the other does;
- rollback: no misprediction is forgotten, a frame that can no longer be corrected is what
  both players committed, and who leaves the round has that behind it, the knock-out included;
- relay: messages come in the order the client's state machine needs, each peer is told the
  other of its own match, and nobody's room is removed on behalf of somebody else;
- sync hashes: a misprediction is never taken for a desync, and no two hashes of a frame
  lie in the queues without being compared;
- spectators: the archive is what was really played and has no gap, whatever the host is
  doing when one joins; a spectator that plays a frame has its inputs, and its generator
  states at the index they belong to; its stream is whole, in order, and its own;
- network thread: a connection is the opponent or a spectator, never both;
- session: what the host starts with is what a guest has confirmed, a configuration that
  arrives is heard, and neither launcher waits for ever.

## 2. Modules

| module | models | state | actions |
|---|---|---|---|
| `InputsContainer` | `InputsContainer<uint16_t>` as pure operators on a record `[inputs, changed]`; frames ordered as `IndexedFrame` (index, then frame) | none | `Get`, `GetBatch`, `SetOnce`, `SetBatch`, `Grow`, `EraseIndexOlderThan`, ... |
| `ContainerUse` | one container with every call the manager makes on it, in any order | `c`, the index, what was written | `SetInput`, `SetInputs`, `SetRemoteIndex`, `ClearChanged`, `NextIndex`, `EnterLoading` |
| `Lockstep` | the frame exchange of one transition index, without input values: a container is its size, a message the last frame of its window | `frame`, `pc` (top of `frameStep` or in the gate), `size`, `remote`, `received`, `sent` | `StartFrame`, `PassGate`, `Receive` |
| `Rollback` | the same exchange with values, prediction, saved states, rollback, rerun, and the end of the round | `hist` (the game), `pc`, `own`, `remote`, `states`, `timer`, `stop`, `over`, `sent` | `StartFrame`, `PassGate`, `TriggerRollback`, `Rerun`, `Leave`, `Receive`, `ReceiveIndex` |
| `SyncHash` | desync detection on top of `Rollback`: when a hash is made, sent, thrown away, compared | `flaw` (what one game computes wrongly), `local`, `incoming`, `channel`, `stopped`; history | `HashAndPass`, `RollbackAndForget`, `ReceiveHash`, and the steps of `Rollback` |
| `NetplayFsm` | the two state machines over a whole session, the frame loop around them, the reliable messages | `state`, `index`, `frame`, `round`, `startIndex`, `remote`, `choice`, `heard`, `target`, `rngStates`, `seed`, `connected`, the inboxes, `route` (history) | `Enter`, `Stay`, `StopAtCallback`, `SendChoice`, `StopInMenu`, `SendInputs`, `Pass`, `PeerGone`, `TimeOut`, `DeliverIndex`, `DeliverMenu`, `DeliverRng`, `DeliverInputs`, `LoseConnection` |
| `RelayServer` | `RoomManager` and its goroutines, and the peers' `RelayClient` as far as the server's messages drive it | `rooms`, `matchIndex`, `handler`, `asked`, `grace`; `inbox`, `peer`, `known`, `endpoint` | `RegisterHost`, `ReplyHosted`, `JoinClient`, `RecordPeerUdpAddr`, `DeleteIfMatch`, `Disconnect`, `Elapse`, `Cleanup`, `ParseServerMsg`, `Close` |
| `Spectate` | a match, its archive, the stream of one spectator, and the spectator's playback | host: `index`, `frame`, `end`, `start`, `preserve`, `pos`, `archive`, `rngArchive`, `cursor`; `stream`; spectator: `future`, `control`, `rngStates`, `position`, `head`, `held`, `sIndex`, `sFrame`, `scene` | `HostFrame`, `HostMoves`, `RemoteInputs`, `Deliver`, `Jump`, `PlayFrame`, `PlayMoves` |
| `Network` | the host's network thread and its game thread around the spectator manager | ENet: `conn`, `status`, `dispatch`; `peer`, `manager`, `pending`, `served`, `cursor`, `archive`, `controls`, `outQueue`, `pc`, `toPromote`; `received` (history) | `Connect`, `Leave`, `TakeConnect`, `TakeDisconnect`, `Expire`, `Flush`, `Frame` |
| `Session` | the launchers' handshake: worker threads, their commands, the pages that queue them, the transport | `session`, `commands`, `ui`, `game`, `channel`, `linked`, `hosted`, `knocked` | `Host`, `Join`, `Connect`, `RelayEnds`, `Knock`, `Break`, `Lose`, `Timeout`, `Cancelled`, `Obey`, `Receive`, `StartMatch`, `CancelAndWait`, `Leave`, `Launch` |
| `*Proofs` | `LockstepProofs`, `ContainerUseProofs`, `RollbackProofs` (with `SyncHash`), `NetworkProofs`, `RelayProofs`, `SpectateProofs`, `SessionProofs`, `NetplayProofs`: the theorems of section 5 | | |
| `MC*` | the constants of the runs | | |

How they compose.  `ContainerUse` and `Rollback` extend `InputsContainer`, and `SyncHash`
extends `Rollback`: hashing is what `frameStep` does just before it simulates, so
`HashAndPass` and `RollbackAndForget` are `PassGate` and `TriggerRollback` with the queues.
`Rollback` instantiates `Lockstep` under a refinement mapping (a container becomes its size,
the frame the furthest the peer has reached): every behaviour with rollbacks and reruns is
one of the plain exchange.  TLC checks it as `RefinesLockstep`, and `RollbackProofs` proves
it for all constants under which a drift fits the window.  `Spectate` and `Network` divide
the broadcast between them: `Spectate` has what a batch holds and one spectator whose place
nobody takes, `Network` has who is served and in which order, with batches that are numbers.

Abstractions, and why they keep what matters:
- The game is deterministic, so `hist`, the sequence of input pairs it was given, stands
  for its memory: two states are equal exactly when the sequences are, and a saved state is
  a sequence.  The world timer is part of the memory, so a frame number is a length.  That
  the dumped addresses are all of the game's state is an assumption here.
- The only thing the game decides is whether the round is over: `Attack` from player 1 that
  player 2 does not meet knocks out.  That is enough for a knock-out to be mispredicted in
  both directions.
- The network is the set of what was sent: a message may come late, twice, or never.
- `NetplayFsm` leaves input values to `Lockstep` and `Rollback`.  An index of a container is
  the number of frames it holds, and is kept only where the gate (`isRemoteInputReady`) can
  still ask about it; the windows of the states that do not wait say no more than the
  announcement of their index and are left out.  `seed` is the index whose `RngState` the
  game's generator runs from, `None` once a state not played in step has drawn from it.
- How long a loading screen or a cinematic lasts is left to the interleaving, and the key
  presses that move through a menu to "the game leaves by the target entry".
- The host's `preserveStartIndex` is 0 for the whole session.  The archiver lowers it to its
  cursor with `min` (`spectator_manager.cpp:163`) and nothing raises it again, so what its
  comment calls pinning "at our walk cursor" pins the first index: the host never erases,
  the client does at every `Loading`.  The model has both.
- A hash in `SyncHash` is the history it was made from, and whether that game had gone wrong
  by then: two are equal exactly when the memories are.  `flaw` lets one game compute one
  frame wrongly, which is what the hashes are there to find.
- `Spectate` tells inputs apart by their place (index, frame) and a control message by its
  index.  `scene` is where the spectator's own game is, whatever index its manager believes
  in; deferred menu choices are handled like deferred generator states and left out.
- In `Network` a slot is an `ENetPeer`, and a packet remembers the connection it was meant
  for, so that a slot that is reused shows who gets what.  Every critical section of
  `_outMutex` is one step, and promoting takes two: one to list who is pending, one each to
  promote.
- In `Session` a guest is one connection, and who joins again is another guest; a match
  configuration is a member of a small set.
- A process that stopped keeps no memory: its variables are set to their empty values.
- In the relay a connection takes part in one attempt; a peer that retries comes back as a
  new connection.  Every `RoomManager` method is one step because it holds `rm.mu`
  throughout, socket writes included; `Hosted` is written outside it and is a step of its
  own.  Time is the step `Elapse`, which may happen at any moment.

## 3. Runs

| run | instance | question, and answer |
|---|---|---|
| `container` | 2 indices, frames 0..2, inputs {0,1}, batches of every size | is what is read what was written, and is the trigger the earliest contradiction?  Yes. |
| `lockstep` | window 6, delay 1, prediction 1, 8 frames, fair | with a window that just fits, is there ever a hole, an unbounded drift, two peers that wait for each other, a wait for ever?  No. |
| `rollback` | delay 0, prediction 2, a margin of **one** frame at the end of a round, a pool of **two** states, a blow at frame 3 that is met, met wrongly, or not; 8 frames, fair | is a misprediction ever lost, a pool emptied of the state that is needed, a correction put off for ever?  No.  Does who leaves the round have the real fight behind it?  The first always; the second too, unless it never heard, or had still to correct, something of that fight.  Do the two ever wait for each other?  No. |
| `round_boundary` | the suggested delay 1 and prediction 6, the code's margin of 5 and 60 states; 16 frames | **violated**: a peer leaves the round on a knock-out that did not happen. |
| `relay` | two hosts and two clients on one code, a match counter that wraps between the two matches, fair | order, pairing, deletions, completion, expiry: all hold. |
| `netplay_fsm` | delay 1, rollback 1, two matches of two rounds, two retry menus (16 indices), a network that may fail in every kind of state, fair | do both sessions take the same route, with the same generator, side by side, to the end, never both waiting, and stop together?  Yes. |
| `synchash` | delay 0, prediction 2, a pool of two, 6 frames, a hash every 2; one input that is mispredicted, and every single-frame flaw of either game | is a misprediction ever called a desync, a pair of hashes left uncompared, a hash made of a state that is undone?  No; and the exchange below is the one of `Lockstep`. |
| `spectate` | character select of 3 frames, loading of 1, a fight of 6, an intro; batches of 2, a lag of 1; the spectator joins when it likes | is the archive what was played, without a gap, and does a spectator have each frame's inputs and seed when it plays it?  Yes. |
| `session` | a host, a guest, a spectator that knocks; two configurations, one of them asked for by `--delay`; fair | does the host start only what a guest confirmed, is the configuration heard, does everybody end?  Yes. |
| `network` | three slots, three connections, one root spectator, an archive of two batches, one control message, fair | has a slot ever two roles, a stream a hole or a stranger's packet after its configuration, does one who was taken in wait for ever?  No. |
| `spectate_gate` | delay 0, a fight of 9 frames | **violated**: a spectator that jumps opens the host's gate. |
| `ping_is_round_trip` | one guest, five pings | **violated**: what is measured is not a round trip. |

Bounds.  The containers compare and copy frames one by one, so three frames at two indices
give every relation between a batch and what is held.  `lockstep` uses the smallest window
that `WindowFits` admits for its delay and prediction: one frame less and `NoHole` fails,
so the case that matters is reached; 8 frames let the window slide past frame 0.  In
`rollback` the pool is smaller than the prediction window, so eviction happens at every
other frame; with the real 60 states it would not at this depth.  Its margin (5 in the code)
is 1, so that delay and prediction exceed it, as those of the suggested 1 + 6, 2 + 7 and
3 + 8 exceed 5: the exception in `LeaverIsSettled` is reached, and it keeps nobody waiting.
8 frames leave room for the blow, a rollback across it and the three frames of prediction and
margin.  `round_boundary` has the constants of the code, two blows
of which the first is met, and `FirstOnly` picks the behaviours in which player 2's datagrams
after the first are lost, so that TLC finds one in seconds.
In `relay` two matches are needed for a stale id, a stale deletion and a wrap; hosts, and
clients, on one code are interchangeable, and `InOrder` explores one order of each.
`netplay_fsm` needs two retry menus for a choice to be stale, two rounds for an index that is
neither the first nor the last of its kind, and a second `Loading` so that something is
erased; `FaultAt` (indices 1 to 9) lets the network fail in every state the session has.
`synchash` needs a frame that is mispredicted around a frame that is hashed, and the flaw
before, between and after the two; `OneSurprise` puts the surprise at frame 1 and the flaw
is at every frame of either peer.  In `spectate` the fight is longer than a batch and the
lag together, so that the archive is behind it, in it, and past it when the spectator joins
or jumps; `Initial` and the intro are the indices without a frame to show.  In `session`
two pings are enough for a late ping to be taken for a fresh one; `Values` has one more than
is asked for, so that an override and a measured value differ.  In `network` the third slot
is the spectator over the limit of one, and the third connection reuses a slot.

Deadlock checking is off for `relay`, where every connection may be closed and every room
gone; for `netplay_fsm`, where both processes may have ended or be at the last index; for
`session`, which ends; and for `spectate`, where the bounds stop the host and the spectator
then waits for the frames that the live tail keeps back.

Fairness.  `lockstep` and `rollback`: each peer's game thread keeps running (in `rollback`,
`FrameStep`: it starts a frame, passes the gate, restores, reruns or leaves, whichever is
next), and the newest window, which the gate sends every 100 ms until it opens, arrives in
the end; no other message needs to.  A peer that has left the round resends nothing, but its
index comes by a reliable message (`Hears` has both).  `relay`: the
server's goroutines and timers run, and a peer that is open polls and repeats its UdpData
every 50 ms; nothing makes a peer connect, or close.  `netplay_fsm`: the game calls each peer's
frame callback as long as the process runs, ENet delivers the reliable messages and notices
a peer that stopped, and the newest window, sent again while the gate is closed, arrives in
the end.  The 10-second limit may strike at any time and nothing relies on it.  `session`:
the worker threads step, the limits they watch expire, the page sees a session that has
ended, and the host's player presses one button or the other; no connection is promised to
come about, or to last.  `network`: both threads run.  For the network thread this leaves
out one behaviour of the code: the inner loop `while (enet_host_service(..., 10) > 0)`
empties the outbox only when no event has come for 10 ms, and packets without a pause would
keep it from ever doing so.  `synchash` and `spectate` check safety only.

## 4. What was found

Three runs show the code doing what a comment or a document of the repository rules out.

- **A spectator opens the host's gate** (`spectate_gate`, `GateIsOpponents`).  A spectator
  runs with `g_isNetplay` true (`exe/launcher/game_runner.cpp:348`), so its
  `netplayStateChanged` (`DM:877`) sends `TransitionIndex` to the host.  The host's thread
  (`network_thread.cpp:442`) does not look at who sent it, `setRemoteIndex` (`MG:1000`)
  lengthens the opponent's container, and `isRemoteInputReady` takes the opponent to be
  past the round.  The spectator's index is ahead of the match because a jump sets it and
  the game's own transition then counts it up once more (`MG:1176`).  The comment at
  `DM:1800` says that spectators are "RECEIVE-ONLY".
- **A ping is not a round trip** (`ping_is_round_trip`, `SampleIsRoundTrip`).  No ping is
  answered: both launchers send one at once and take the other's for the answer
  (`session.cpp:1040-1043`), so a sample is one way, or less.  The comments at `:1072` and
  `:1107`, which halves the value again, and `docs/connectivity-study.md:169` take it for
  the round trip, and delay and rollback are chosen from it.
- **A misprediction survives the end of a round** (`round_boundary`, `BoundaryIsCorrected`).
  The round-over timer waits `rollback + 5` frames "to give the rollback system time to
  correct any misprediction at the round boundary" (`DM:1051-1052`, `DM:1081`).  A peer that
  has moved to the next index sends no inputs of the old one any more (`MG:663`), and its
  index opens the opponent's gate (`MG:783`).  What it has reached proves to it only that the
  opponent is within delay + rollback of it.  In the run player 2 meets the first of two
  blows, the datagram is lost, and player 2 leaves after the second; player 1, freed by that,
  plays to its own timer and leaves on the first: two histories of one fight.  The opponent
  may lack the last `delay + rollback + 1 - 5` inputs of the fight, and no more
  (`BoundaryDelivered`); none with the suggested 0 + 4, but up to 3, 5 and 7 of them with
  1 + 6, 2 + 7 and 3 + 8 (`session.cpp:1076-1079`).  Also, the timer does not count down in
  reruns (`DM:1512`), although the comment in `frameStep` says it must (`DM:1408-1413`), so
  peers may leave `InGame` at different frames.

Comments that differ from the code, and limits, that have no run of their own:

- Exchange.  `--delay 8 --rollback 20` is accepted, but a peer may then be 58 frames past
  what its opponent holds while a message carries 30 (`messages.hpp:112`): `NoHole` fails
  for such constants.  `NoHoleHolds` proves that `2*delay + 2*rollback + 2 <= 30` is
  enough.  The settings suggested for an average above 400 ms do not satisfy it.
- Relay.  `rm.Delete` after a `Hosted` that could not be written may remove another host's
  room (`tcp_listener.go:189-192`): between `RegisterHost` and the failure the host's own room
  may have gone and its code been taken.  The comment on `Delete` allows that call only when
  the room is "known to still be yours" (`room.go:277-280`).  `NeverAnothersRoom` names the
  case, `ReplyFailed`; without it in the property, TLC finds such a deletion after 5 steps,
  and `MatchCompletes` asks that no such reply be outstanding.  `Hosted` may be
  written after `MatchInfo`, and even after `TunInfo`; the host's client copes with the
  first but the second leaves it in `WaitingForMatchInfo`, which is why `MatchCompletes`
  has `HostedFirst` in its premise.
- Retry menu.  `DM:211` says that a drop there does not stop the peer until its player has
  chosen; `callback` (`DM:2458`) stops it at the next frame in any state.
- Containers and pool.  Entering `Loading` erases and renumbers the opponent's inputs and
  leaves the pending trigger as it was (`MG:460-491`), so `getLastChangedFrame` then adds the
  new start to an old number (`MG:988-994`) and names an index that is too late; its
  description (`manager.hpp:136-140`, `inputs_container.hpp:224-229`) knows no such case.
  `ContainerUse` has it: its property holds of the number as the container holds it.
  `eraseIndexOlderThan` clears the last index too
  (`inputs_container.hpp:212`); `resize` fills an empty index with 0 and not with the last
  known input (`:161`); after a second rollback into rerun frames the frame loaded is older
  than the target (`DM:2123`).  With two states or more the first state of a round is never
  evicted, since it is never past the last known remote frame (`RestoresInTime`): a rollback
  always finds a state, at the price of a rerun from frame 0 in the worst case.
- Sync hashes.  "Keep the lists bounded" (`DM:2276`) is false for the slower peer: it throws
  away the remote hashes that are ahead of it, so its own never meet a partner and stay.  When the latency is above the delay
  the guard never lets a hash of a fight be made.  On a spectator the branch that clears both
  lists goes on to read and `pop_front` the emptied `local` (`DM:2357-2391`): undefined.
- Spectators.  The first frame of each new state is simulated before the hold can apply to
  it, and the second may be played before its generator state is there.  The last frames of
  a fight, as many as the rollback window, are never archived (`spectator_manager.cpp:22`).
  With delay 0 a spectator always holds at the end of a state and then jumps; a jump counts
  the index twice (`MG:1176`) and does not move the slots of `_rngStates`.  A spectator that
  was refused or timed out keeps its connection and holds for ever
  (`spectator_manager.hpp:70-71`, `spectator_manager.cpp:131`).
- Network thread.  After the opponent's `DISCONNECT` the next `CONNECT` becomes the
  opponent (`network_thread.cpp:362`).  Packets queued for a slot reach its next user before
  that user's own configuration.  A connection that comes before the spectator manager is
  made is reset with no word.  At shutdown the manager is destroyed after the thread's
  pointer is cleared but before the thread is joined (`connector.cpp:144-160`), which a call
  under way does not survive.
- Session.  `Confirm` is sent once, and the 500 ms sleep that should let it out
  (`cli.cpp:93`, `main_menu.cpp:166`) is all that stands for its arrival; `--rollback`
  without `--delay` is overwritten by the measured value; `StartHost`, `StartRelayHost` and
  `StartSmartJoin` have no caller.

## 5. Proofs

Everything below is proved from the modules' own assumptions on their constants, and holds
for every value that meets them; a theorem that needs more says so.

**The exchange** (`LockstepProofs`): `PeersStayTogether` (`Inv`), of which `PredictionHolds`,
`SkewHolds` and `NoDeadlock` are the parts, and, assuming `WindowFits`
(`2*Delay + 2*Rollback + 2 <= NumInputs`), `NoHoleHolds`.
`PredictionBounded` alone is not inductive: it says nothing of what the gate is about to
admit.  `SafeIInv` adds that a container ends right after frame + delay (`SizeFollowsFrame`),
that a peer in the gate is below the bound (`GateIsInBound`), that what was sent is held by
its sender (`SentIsHeld`) and that nobody knows more of the opponent than the opponent has
written (`KnownIsHeld`).  The drift bound follows from these: the leader's frame is at most
the opponent's container plus the prediction window, and that container at most the
opponent's frame plus the delay.  For `NoHole` the step that matters is a message: its
window ends at a frame the sender held, the sender was within the drift of what the receiver
has acknowledged by advancing, and `WindowFits` makes the window reach back to the
receiver's end (`MessageIsNear`), so it joins what is there without a gap.

`NoDeadlock` (`SomebodyCanGoOn`) needs no `WindowFits`: until both have played to the end,
one of them has a frame to start, finds its gate open, or has yet to hear inputs that the
other holds and sends again.  Of two peers at the gate the slower one finds it open once it
has heard everything, because the other's container ends past a frame no smaller than its
own (`SizeFollowsFrame`, `SlowerCanGoOn`).

**A container** (`ContainerUseProofs`).  For any number of indices and
frames, and batches of any length: `WrittenInputsAreRead` (`Inv`), what was written is what is
read; `TriggerIsFirstContradiction` (`TriggerIsEarliestContradiction`).  `WrittenIsRead` alone
is not inductive, since a read past the end of a row is a prediction that the next growth may
turn into something else: `Holding` says that what was written lies inside its row.  Then
growth is safe because it fills only what lies past the end, and an erasure because it moves
whole rows; `HasPut` says of a write what it leaves alone.  `Triggered` replaces the CHOOSE
of the property by "one of the contradictions, and none before it".  A
trigger that is pending when `Loading` renumbers the rows keeps its number, in the code and
here; the contradictions it stands for are kept in the numbers they had.  The assumption
`UseBounds` keeps indices below the one that stands for `UINT_MAX`.

`RollbackProofs` opens with lemmas about the row of index 0, the one `Rollback` writes: where
it ends, what it reads, and `BatchMarksWhatItChanges`: a read that a batch changes, predicted
reads included, is at or after the trigger the batch leaves behind.  The trigger looks only
at frames the batch covers; the lemma shows that this is enough.

**Speculation and correction** (`RollbackProofs`), for any delay, prediction window, pool of
two states or more, length and choice of inputs:
- `NothingIsForgotten` (`UsedOrMarked`): a frame that was simulated with something else than
  what the containers say now is at or after the pending trigger;
- `PoolHolds` (`Inv`): the saved states are pasts of the present game, in order;
- `RestoresInTime` (`RestoresBeforeTarget`): a rollback never lands after its target.

`IInv` is `TypeOK` and, of each peer, `PeerSound`: its own inputs are held up to the frame it
plays or has to rerun to (`Held`), so that only the opponent's can change what a frame was
simulated with; its pool holds pasts of the present history (`IsPool`); the oldest of them is
the state at frame 0, so that every rollback finds one; at the top of a frame the newest is
below that frame (`IsBelow`), so that saving keeps the order; and `UsedIn`, which is
`UsedOrMarked` for any history.  Each operation has a lemma that speaks of one peer
(`PlaySound`, `RestoreSound`, `ReceiveSound`...), and each action a lemma that applies it.

**Settled frames** (`RollbackProofs`): `GamesAgree` (`SettledIsCommitted`), under
`WindowFits`: every frame a peer has no reason to doubt was simulated with what both players
committed.  `UsedOrMarked` says that such a frame agrees with the peer's own containers; what
is left is that these agree with the opponent's.  `Chain` says so: a container of the
opponent's inputs is a prefix of the opponent's own (`KnownIsTrue`), because every message is
a window of it (`SentIsHeld`) that leaves no gap (`NoGap`), because its sender was within the
drift (`OwnFollows`, `InReach`, `DriftIsBounded`); `GoneHasLeft` keeps the gate from being
opened by the index of a peer that still plays.

**The end of a round** (`RollbackProofs`), under `WindowFits`:
- `CorrectionsAreBounded` (`CorrectionIsBounded`): while both fight, no contradiction waits
  further back than the prediction window and the frames the spacing timer adds;
- `LeaversAreSettled` (`LeaverIsSettled`): for any margin, the first to leave has
  simulated the whole fight, up to a real knock-out, with what both committed; and so has the
  second if delay and prediction stay below the margin, or if it is certain of every frame of
  the fight that ended for the first;
- `RoundIsDelivered` (`BoundaryDelivered`): who stays behind lacks at most the last
  `Delay + Rollback + 1 - Margin` inputs of the fight, which is none if delay and prediction
  stay below the margin.

The last two take `SpacingFits` too (`Spacing <= Margin + 1`): the spacing timer is at most 4
in the code and the margin is 5, so it holds for every setting.  That delay and prediction
stay below the margin (`MarginFits`) is assumed nowhere; the invariant distinguishes the cases.

`Round` is what `Chain` lacks.  A mark is made at the end of what is known, at most a
prediction window behind, and a spacing timer that is not at rest has only so much to run
(`OnTime`); while the timer runs the sum stays (`InTime`).  The round-over timer counts the
frames since the first knock-out in the present history (`TimerIsRight`; a rollback past the
knock-out leaves no knock-out, or one that the rerun meets again before it ends).  So a
peer at the end of its timer has been past the knock-out for `Rollback + Margin` frames: the
gate has shown it the opponent's inputs up to there, any mark among them would be overdue, and
the fight is settled (`FirstLeaves`).  The opponent, to have written them, has passed its own
gate: it holds the leaver's inputs up to delay and window before that point (`Delivered`).
If the second to leave can know of every frame of that fight (`Hearable`), its own history is
the same up to the same knock-out (`SecondLeaves`).  Either it can, or there is a frame it is
not certain of; and if the margin covers delay and window, it can (`SecondSettles`).

**No deadlock in a round** (`RollbackProofs`): `NeverStuck` (`NobodyIsStuck`), for any of the
constants, too small a window included: neither the gate, a rollback, a rerun nor a peer that
has left leaves the two waiting for each other.  Beside `IInv` it takes only that a peer's own
container follows its frame (`OwnFollows`), kept here without the rest of `Chain`, which
needs the window.  A peer whose opponent has left is freed by the opponent's index; of two that
still fight, the slower one is freed as in the exchange (`GateOpens`).

**Desync detection** (`RollbackProofs`), under `WindowFits`, for any interval of hashes too:
- `NoFalseDesync` (`InvSync`): a session stops only if a game computed a frame wrongly, and
  only over a later one;
- `HashesAreFinal` (`HashedIsFinal`): no rollback targets a frame that was hashed, or one
  before it;
- `NoPairIsLost` (`NoPairLost`): no two hashes of a frame pass each other unseen.

`NoFalseAlarm` compares two hashes made at different times by peers that predicted
differently, so `SyncIInv` says what a hash is of wherever it lies, kept, queued or on its
way (`HashesAreMade`): of a history in which every frame is what both players committed
(`Real`).  The guard gives that when the hash is made (`ConfirmedIsReal`, from `GamesAgree`'s
invariant); it stays so because a player's inputs are never taken back (`RealStays`); and two
such histories of one length are equal (`RealAgree`), so that only the flaw can tell two
hashes of a frame apart.  `MadeIsKnown` carries the second theorem: what comes in after a
hash cannot contradict an input before it (`ReceiveKeepsKnown`).  The third needs `PairInv` beside
it: hashes are kept, sent and received in the order of their frames (`InOrder`), all of them
behind the frame their peer has reached (`MadeIsPast`), and one that its partner has not
made yet is kept until the partner has made a later one (`Awaited`).  A peer that hashes a frame
second finds the first one's hash still kept (`HashAndPassPairs`); the merge throws a hash
away only against a later one (`LeftoverKeeps`), which says that its partner is not still on
its way; and, by the second theorem, a rollback leaves its own peer's hashes
alone (`HashedBeforeTarget`), so that what it drops of the other's was never needed there.

**Refinement** (`RollbackProofs`): `ExchangeIsLockstep` (`RefinesLockstep`), under
`WindowFits` and `NoKnockOut` (no input is `Attack`, so nobody leaves the round, which
`Lockstep` does not have).  Initial states map to initial states; `StartFrame` and `Receive`
map to their namesakes, `PassGate` and `TriggerRollback` to `PassGate`, `Rerun` to a stutter.
The mapped specification is `Lockstep`'s safety part; its liveness is checked by `lockstep`
and, for `Rollback` itself, by `BothFinish` in `rollback`.

**Relay** (`RelayProofs`), for any peers, codes and size of the counter: `TypeCorrect`, and
`MatchInfoComesFirst` (`MatchInfoFirst`).  A `TunInfo` is written because of what the room
says, so the invariant ties each room to what its two peers were told (`RoomsFit`, `Told`),
says that a queue is in order (`Ordered`), and that nobody is ever written two `MatchInfo`s.
`PeersAreAlwaysPaired` (`Inv`) and `RoomsGoForTheirOwnReason` (`NeverAnothersRoom`) need
`EnoughIds` too: no more connections of clients than match ids (2^32-1 in the code).  The code
ensures nothing of the kind, and with fewer ids the first is false; one id for two clients is
enough for TLC to show it.  `PairInv` counts the ids from the first that was given, the wrap
included (`Counted`), so that the next one is new: then an id stands for one room
(`IdNamesRoom`), a peer is told of one endpoint only (`OnceTold`), and a deletion that was
put off cannot mean a later room (`GraceFits`).  The second theorem takes every removal by its
action: a deletion by match id is of the deleter's room, and the one by code is the failed
reply the property names, whosever room it meets.

**Network thread** (`NetworkProofs`), for any slots, connections and lists:
`NoSlotHasTwoRoles` (`Inv`).  Two facts make it inductive: a slot that is in use has a
connection (`UsedHasConnection`), which a packet queued for it is meant for, and nobody is
pending or served before there is a manager (`NobodyBeforeManager`).  `StreamsAreWhole`
(`StreamIsWhole`) takes `StreamInv`: what a spectator was sent, with what is queued for its
slot, is whole and is exactly what the manager believes it has been given (`Streams`); no
connection sits in two slots (`OneSlotEach`); and nothing was queued for a connection before
it was made, or taken in (`Fresh`).  A promotion, a batch and a control message each add what follows
(`WholeAndMore`), and what `runOnce` sends is the front of it.

**Spectators** (`SpectateProofs`), for any route, window, delays, lag, budgets and moment of
joining:
- `NothingIsErasedUnread` (`Inv`): no input is erased that the archiver has still to read;
- `ArchiveIsSound` (`ArchiveIsProven`) and `NothingIsLeftBehind` (`LeavesNothing`): the archive
  is ordered, has no gap and only what both players hold, and an index is left with all of it;
- `PlaysOnlyWhatCame` (`FrameIsThere`): the hold lets no frame pass that was filled in;
- `SeedsAreInPlace` (`SeedInPlace`): until it jumps, a spectator has the generator state of
  its scene before the scene's third frame.

The archiver's loop is a recursive function with a budget, so its lemma (`WalkSound`) is an
induction over the pulls, of a relation that composes (`Pulled`). The invariant has three
layers. `HostInv`: every batch joins what is archived of its index before it, and the cursor
stands where the archive of its index ends (`Sound`). `HoldInv` follows a batch from there:
what the stream's cursor has passed is held, buffered or on its way (`SentIsHere`), and a
message that arrives joins what is here (`StreamJoins`), so that no jump, buffer or late
batch leaves a hole before an end (`HereIsPrefix`). `SeedInv` follows a generator state: the
inputs on their way come in the order of their indices (`InOrder`), a generator state comes
before those of its own (`ControlFirst`) unless they overtake it, once, between two drains
of the inboxes, and `SeedIsDue` counts the frames this can cost.

**Session** (`SessionProofs`), for any launchers, spectators, configurations and number of
pings: `GamesStartAlike` (`Inv`), whichever messages are lost, whoever cancels or leaves and
whichever limit expires: the host starts its game only with the configuration that a guest
has confirmed.  While the host listens, a configuration on its way to a connected guest is
the one the host holds (`SentIsHeld`), and so is one that a guest has confirmed
(`ConfirmedIsHeld`), because the commands that would change it are obeyed only before it is
sent (`OrdersFit`).  A guest that confirms is done with the handshake (`Done`) and confirms
nothing else, so that the confirmation that lets the host go still stands when it starts its
game (`LaunchedWithOne`).

`GuestsHearTheConfiguration` (`ConfigIsHeard`) says that a guest the host has greeted is ready
for the configuration when it reads it.  The host may run ahead of its guest: each side lets a
ping time out by itself.  The invariant (`Hears`) gives what the host says a rank, in the order
it says it (`Rank`), and each state of a guest the ranks it is past (`Progress`).  What is on
its way to a guest has consecutive ranks, the first no higher than the guest's progress, and
for a connected guest the last is where the host is (`InOrder`, `KeepsUp`); so the rank of a
configuration that the guest reads is one it is past, which is that of a guest whose pings
are over.  A guest connects once (`ConnectsOnce`): without that the channel could hold
the words of two connections.  It is assumed that the model's mark for no peer names nobody.

**Netplay state machine** (`NetplayProofs`), for any delay, prediction window, lengths of the
states, number of rounds, length of the session and set of indices at which the network may
fail a peer:
- `SessionsStayTogether` (`Inv`): the peers' indices are at most three apart;
- `RouteIsShared` (`SameRoute`): index i is the same state for both;
- `GeneratorIsShared` (`RngAgreed`): both run a synchronised state from the generator state
  taken for its index.

They stand or fall together, in one invariant. There is one script of scenes (state, round,
match) that the peer ahead writes and the other follows (`Scripts`, `Follows`); it is
deterministic except in the retry menu. Who has left a state that waits found the opponent
there (`SideBySide`): by the gate in a character select or a round (`PassedIsReached`), and in
the menu because the choice it heard is of that very match (`OfThisMatch`), although the
message names none. That bounds the drift, since no three states in a row go without waiting
(`OneWaits`), and it makes the peer behind leave the menu by the entry the one ahead took
(`WillFollow`). The generator states are queued and held in the order of their indices
(`InOrder`), the list of the client never ends in a hole, and of a state the host has gone
through none is missing (`NoneIsLost`); so the client's gate, which looks at the length of
the list only, opens on the entry of its index (`RngIsThere`).

`NoDeadlock` (`NobodyHangs`): while the connection lasts and somebody has still to go on, not
both peers wait, in a gate, a retry menu or at the end, with nothing under way that would
free one of them.  The peer that is behind is the one that is freed (`BehindGoesOn`): the
invariant above gives it the inputs of a state its opponent has left and, if it is the client,
the generator state.  `HangInv` adds that a choice made for the menu of its own match has
reached it or is under way (`ChoiceArrives`), since it is forgotten in `Loading` only; that
nobody navigates, or leaves the frame in which it chose, with the choice unsent (`ChoiceFirst`);
and that a peer in the gate has sent the window of its frame (`WindowSent`).  A choice that were
forgotten on entering the menu too, the mutant of this property, leaves the slower peer there.

Checked by TLC only: liveness everywhere.  The three theorems on deadlock say that
something can always happen which lets a peer go on; that it does, under the fairness of
section 3, is what `BothFinish`, `BothArrive`, `StopTogether` and the other liveness properties
of the runs add.

## 6. Not modelled

Three quarters of the repository's 118,000 lines of implementation are one table of font
bytes (`common/embedded_font.cpp`), and much of the rest draws windows or patches the game.
The modules cover what has a state that other parts depend on.  Left out for good:

- the windows, overlays and fonts: immediate-mode drawing.  What the waiting page asks of a
  session is in `Session`;
- machine-code patches, hooks and the address list of the memory dump: facts about another
  program.  That the dumped addresses are all of the game's state is an assumption;
- process creation, injection, the pipe that carries one configuration message, files,
  registry, network simulator, vendored libraries, scripts;
- the relay's wire format, the fields of the DLL's messages and the configuration: sequential
  parsing, which the repository's tests cover;
- hole punching, port learning and back-off of the relay client, and re-punching by the
  game's thread: matters of time and of NATs.  The models have their outcomes, a connection
  that comes about or does not;
- start and stop of the client's network thread, which has one connection: the opponent's;
- walking through menus by key presses (in `NetplayFsm` the game leaves by the target entry),
  and the air-dash macro, a table of key presses that is over before an input is stored;
- the frame limiter: the models assume nothing of the rate at which frames come.
