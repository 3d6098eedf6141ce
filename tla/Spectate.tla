------------------------------ MODULE Spectate ------------------------------
(***************************************************************************)
(* A match watched by a spectator.  The host walks its two input           *)
(* containers behind a safety lag and appends what it finds to an archive; *)
(* a spectator, whenever it joins, is sent the match configuration, the    *)
(* control messages so far (generator states, menu choices) and then the   *)
(* archive, batch by batch.  The spectator stores batches and control      *)
(* messages by index, replays the match in a game of its own, waits for    *)
(* inputs it does not have, and jumps when the stream is past its index.   *)
(*                                                                         *)
(* Inputs are told apart by their place: index and frame.  A control       *)
(* message is its index.  `scene' is the place in Route where the          *)
(* spectator's own game is, whatever the index its manager believes in.    *)
(*                                                                         *)
(* Code: SpectatorManager (spec/spectator_manager.cpp), SpectateClient     *)
(* (spec/spectate_client.cpp), getBothInputs, setBothInputs,               *)
(* hasCurrentFrameInputs, jumpPlaybackToIndex (netplay/manager.cpp) and    *)
(* steps 2-pre of frameStep (entry/dll_main.cpp).                          *)
(***************************************************************************)
EXTENDS Integers, Sequences
Lists == INSTANCE SequencesExt

CONSTANTS
  Route,       \* the states of the match after Initial, by index
  Window,      \* NUM_INPUTS, frames in a BothInputs batch
  Lag,         \* kArchiveSafetyLagFrames
  MaxPulls,    \* kMaxPullsPerFrame
  LiveTail,    \* kLiveTailBatches
  Burst,       \* kBurstBatches
  PerTick,     \* kTailBatchesPerTick
  Delay,       \* config.delay
  Rollback,    \* config.rollback
  Buffer,      \* PRESERVE_START_INDEX_BUFFER
  MaxFrame     \* bound: frames the host plays in an index

ASSUME SpectateAssumption ==
  /\ Route \in Seq({"CharaSelect", "Loading", "InGame", "Skippable"})
  /\ Window \in Nat \ {0} /\ Lag \in Nat /\ MaxPulls \in Nat \ {0}
  /\ LiveTail \in Nat /\ Burst \in Nat \ {0} /\ PerTick \in Nat \ {0}
  /\ Delay \in Nat /\ Rollback \in Nat /\ Buffer \in Nat
  /\ MaxFrame \in [DOMAIN Route -> Nat \ {0}]

Last == Len(Route)
Indices == 0 .. Last
Players == {"host", "client"}
StateOf(i) == IF i = 0 THEN "Initial" ELSE Route[i]
Bound(i) == IF i = 0 THEN 0 ELSE MaxFrame[i]

VARIABLES
  index, frame,   \* where the host's game is
  end,            \* frames the host holds of each player, by index
  left,           \* history: frames played in an index the host has left
  start,          \* the host's _startIndex, before which its containers are erased
  preserve,       \* preserveStartIndex, Unset for UINT_MAX
  pos,            \* _archivePos
  archive,        \* _archive: the batches, oldest first
  rngArchive,     \* _rngArchive, _menuArchive: indices with a control message
  cursor,         \* the spectator's archiveCursor, NotJoined before it is promoted
  stream          \* what was sent to the spectator and has not arrived

hostVars == << index, frame, end, left, start, preserve, pos, archive, rngArchive, cursor >>

VARIABLES
  future,         \* _futureBatches, by index
  control,        \* _pendingRng: indices
  rngStates,      \* _rngStates: which index's generator state each slot holds
  position,       \* currentPosition_
  head,           \* _receivedHead
  held,           \* frames in the spectator's containers, by index
  sIndex, sFrame, \* where its manager believes playback is
  sStart,         \* its _startIndex
  sync,           \* g_shouldSyncRngState
  scene,          \* where its game really is
  played,         \* frames of that scene its game has simulated
  announced,      \* the last TransitionIndex it has sent to the host
  seed,           \* history: whose generator state the scene was given, and at which frame
  jumped,         \* history: a boundary jump has happened
  missed,         \* messages at the head of the stream that came after their inbox was drained
  sameFrame       \* that was in the frame which is still to be played

clientVars == << future, control, rngStates, position, head, held, sIndex, sFrame, sStart,
                 sync, scene, played, announced, seed, jumped >>
drainVars == << missed, sameFrame >>
vars == << hostVars, stream, clientVars, drainVars >>

Unset == -1
NotJoined == -1
None == -1
Unseeded == [rng |-> None, at |-> None]
Config == [type |-> "config"]
Control(i) == [type |-> "control", index |-> i]
Smaller(a, b) == IF a < b THEN a ELSE b

(* A BothInputs that ends at frame f. *)
Batch(i, f) ==
  [type |-> "inputs", index |-> i,
   start |-> IF f + 1 < Window THEN 0 ELSE f + 1 - Window, end |-> f + 1]
Covers(batch) == batch.start .. batch.end - 1

Init ==
  /\ index = 0 /\ frame = 0 /\ start = 0
  /\ end = [q \in Players |-> [i \in Indices |-> 0]]
  /\ left = [i \in Indices |-> 0]
  /\ preserve = Unset
  /\ pos = [index |-> 0, frame |-> 0]
  /\ archive = << >> /\ rngArchive = {}
  /\ cursor = NotJoined /\ stream = << >>
  /\ future = [i \in Indices |-> << >>]
  /\ control = {} /\ rngStates = << >>
  /\ position = [index |-> 0, frame |-> 0]
  /\ head = 0
  /\ held = [i \in Indices |-> {}]
  /\ sIndex = 0 /\ sFrame = 0 /\ sStart = 0 /\ sync = FALSE
  /\ scene = 0 /\ played = 0 /\ seed = Unseeded
  /\ announced = 0 /\ jumped = FALSE
  /\ missed = 0 /\ sameFrame = FALSE

-----------------------------------------------------------------------------
(* The host's archive *)

CommonEnd(i) ==
  IF i < start THEN 0 ELSE Smaller(end["host"][i], end["client"][i])

(* Mutant: the lag is kept in an older index too. *)
SafeEnd_LagAlways(i) ==
  IF CommonEnd(i) > Lag THEN CommonEnd(i) - Lag ELSE 0

(* Frames of the current index within the lag, and in a rollback state within twice a *)
(* window more, are not to be read yet.  An older index is read to its end.           *)
SafeEnd(i) ==
  LET behind == IF i < index THEN 0
                ELSE Lag + IF StateOf(i) = "InGame" /\ Rollback > 0 THEN 2 * Window ELSE 0
  IN  IF CommonEnd(i) > behind THEN CommonEnd(i) - behind ELSE 0

(* Mutant: the cursor enters the next index a window too far. *)
Pull_Overshoots(p) ==
  IF p.index > index THEN [pos |-> p, got |-> << >>]
  ELSE IF p.frame + 1 <= SafeEnd(p.index)
       THEN [pos |-> [p EXCEPT !.frame = @ + Window], got |-> << Batch(p.index, p.frame) >>]
  ELSE IF p.index = index THEN [pos |-> p, got |-> << >>]
  ELSE [pos |-> [index |-> p.index + 1, frame |-> 2 * Window - 1],
        got |-> IF SafeEnd(p.index) = 0 THEN << >>
                ELSE << Batch(p.index, SafeEnd(p.index) - 1) >>]

Pull(p) ==
  IF p.index > index THEN [pos |-> p, got |-> << >>]
  ELSE IF p.frame + 1 <= SafeEnd(p.index)
       THEN [pos |-> [p EXCEPT !.frame = @ + Window], got |-> << Batch(p.index, p.frame) >>]
  ELSE IF p.index = index THEN [pos |-> p, got |-> << >>]
  ELSE [pos |-> [index |-> p.index + 1, frame |-> Window - 1],
        got |-> IF SafeEnd(p.index) = 0 THEN << >>
                ELSE << Batch(p.index, SafeEnd(p.index) - 1) >>]

(* archiveStep: pull until nothing comes. *)
Walk ==
  LET walk[n \in 0 .. MaxPulls] ==
        IF n = 0 THEN [pos |-> pos, got |-> << >>, more |-> TRUE]
        ELSE LET before == walk[n - 1]
                 pull == Pull(before.pos)
             IN  IF ~ before.more THEN before
                 ELSE [pos |-> pull.pos, got |-> before.got \o pull.got,
                       more |-> pull.got # << >>]
  IN  walk[MaxPulls]

ArchiveStep ==
  /\ pos' = Walk.pos
  /\ archive' = archive \o Walk.got
  /\ preserve' = IF preserve = Unset THEN pos'.index ELSE Smaller(preserve, pos'.index)

(* Messages by index, in the order of the map. *)
ControlHistory(indices) ==
  LET list[i \in -1 .. Last] ==
        IF i = -1 THEN << >>
        ELSE list[i - 1] \o IF i \in indices THEN << Control(i) >> ELSE << >>
  IN  list[Last]

(* Mutant: the control history is left out. *)
Promotion_NoHistory == << Config >>

(* promotePending: what the new spectator is sent at once. *)
Promotion == << Config >> \o ControlHistory(rngArchive)

(* frameStepSpectators: many batches while the spectator is far behind, else few. *)
Serving(from) ==
  LET backlog == Len(archive') - from
      budget == IF backlog > LiveTail THEN Burst ELSE PerTick
  IN  SubSeq(archive', from + 1, from + Smaller(budget, backlog))

(* The host's callback: archive, promote, serve; then `news' goes to every spectator.   *)
Spectators(joins, news) ==
  /\ ArchiveStep
  /\ joins => cursor = NotJoined
  /\ LET from == IF joins THEN 0 ELSE cursor
         greeting == IF joins THEN Promotion ELSE << >>
     IN  IF from = NotJoined THEN UNCHANGED << cursor, stream >>
         ELSE /\ cursor' = from + Len(Serving(from))
              /\ stream' = stream \o greeting \o Serving(from) \o news

-----------------------------------------------------------------------------
(* The host's match *)

(* What the opponent has sent opens the gate: it plays a later index, or its input of  *)
(* the frame is there or within what may be predicted.                                 *)
Earned(i, f) ==
  \/ StateOf(i) \in {"Loading", "Skippable"}
  \/ i < Last /\ end["client"][i + 1] > 0
  \/ /\ end["client"][i] > 0
     /\ end["client"][i] - 1 + (IF StateOf(i) = "InGame" THEN Rollback ELSE 0) >= f

(* isRemoteInputReady.  The inbox of TransitionIndex does not tell the spectator's from *)
(* the opponent's: setRemoteIndex makes the opponent's container as long as either says. *)
Ready(i, f) == Earned(i, f) \/ announced > i

SetInput(i, f) == end' = [end EXCEPT !["host"][i] = IF f + Delay + 1 > @ THEN f + Delay + 1 ELSE @]

(* One more frame of the current state. *)
HostFrame(joins) ==
  /\ index > 0 /\ frame < Bound(index)
  /\ Ready(index, frame)
  /\ Spectators(joins, << >>)
  /\ SetInput(index, frame)
  /\ frame' = frame + 1
  /\ UNCHANGED << index, left, start, rngArchive, clientVars, drainVars >>

(* Mutant: the archiver's cursor does not hold back the erasure. *)
Erased_NotPinned(i) == IF StateOf(i) = "Loading" THEN i ELSE start

(* setState erases on entering Loading, up to preserveStartIndex. *)
Erased(i) ==
  IF StateOf(i) # "Loading" THEN start
  ELSE LET kept == IF preserve' > Buffer THEN preserve' - Buffer ELSE 0
       IN  IF Smaller(kept, i) > start THEN Smaller(kept, i) ELSE start

HasControl(i) == StateOf(i) \in {"CharaSelect", "InGame"}

(* The game has moved on: setState, and the first frame of the new state, for which    *)
(* the host generates, archives and forwards a generator state where one is due.  The  *)
(* archive was served before.                                                          *)
HostMoves(joins) ==
  /\ index < Last
  /\ index > 0 => frame > 0
  /\ Ready(index + 1, 0)
  /\ Spectators(joins, IF HasControl(index + 1) THEN << Control(index + 1) >> ELSE << >>)
  /\ index' = index + 1 /\ frame' = 1
  /\ left' = [left EXCEPT ![index] = frame]
  /\ start' = Erased(index + 1)
  /\ SetInput(index + 1, 0)
  /\ rngArchive' = rngArchive \cup (IF HasControl(index + 1) THEN {index + 1} ELSE {})
  /\ UNCHANGED << clientVars, drainVars >>

(* The opponent's inputs of the current index, of the one before (late) or of the next *)
(* (it is ahead) reach further.  The opponent plays within its own gate.               *)
RemoteInputs(i) ==
  /\ i \in {index - 1, index, index + 1} \cap (1 .. Last)
  /\ LET bound == IF i < index THEN left[i]
                  ELSE IF i = index THEN end["host"][i] + (IF StateOf(i) = "InGame" THEN Rollback ELSE 0)
                  ELSE 1
     IN  end["client"][i] < Smaller(bound, Bound(i)) + Delay
  /\ end' = [end EXCEPT !["client"][i] = @ + 1]
  /\ UNCHANGED << index, frame, left, start, preserve, pos, archive, rngArchive, cursor,
                  stream, clientVars, drainVars >>

-----------------------------------------------------------------------------
(* The spectator *)

(* setBothInputs drops what is older than the index before the current one, or erased. *)
Stored(h, batch) ==
  IF batch.index + 1 < sIndex \/ batch.index < sStart THEN h
  ELSE [h EXCEPT ![batch.index] = @ \cup Covers(batch)]

(* setRngState: the slot is the index less _startIndex. *)
Seeded(states, i) ==
  IF i = 0 \/ i < sStart THEN states
  ELSE [n \in 1 .. (IF i - sStart + 1 > Len(states) THEN i - sStart + 1 ELSE Len(states)) |->
          IF n = i - sStart + 1 THEN i
          ELSE IF n \in DOMAIN states THEN states[n] ELSE None]

(* flushReadyBatches' guard: not more than one index past the last batch applied. *)
IsReady(i, at) == i <= at.index + 1

(* flushReadyBatches: every buffered index in order until one is still in the future. *)
Flush(f, at, h) ==
  LET flush[i \in -1 .. Last] ==
        IF i = -1 THEN [future |-> f, at |-> at, held |-> h, open |-> TRUE]
        ELSE LET before == flush[i - 1]
                 apply[n \in 0 .. Len(f[i])] ==
                   IF n = 0 THEN before.held ELSE Stored(apply[n - 1], f[i][n])
             IN  IF f[i] = << >> \/ ~ before.open THEN before
                 ELSE IF ~ IsReady(i, before.at) THEN [before EXCEPT !.open = FALSE]
                 ELSE [before EXCEPT
                         !.future[i] = << >>,
                         !.at = [index |-> i, frame |-> f[i][Len(f[i])].end - 1],
                         !.held = apply[Len(f[i])]]
  IN  flush[Last]

(* applyPendingRng: what the last batch applied has reached. *)
Apply(pending, at) ==
  LET due == {i \in pending : i <= at.index}
      apply[i \in -1 .. Last] ==
        IF i = -1 THEN rngStates
        ELSE IF i \in due THEN Seeded(apply[i - 1], i) ELSE apply[i - 1]
  IN  /\ rngStates' = apply[Last]
      /\ control' = pending \ due

(* drainNetplayInbox: there is one inbox for each type, and the inbox of the inputs is *)
(* the last to be drained.  Inputs that come together with a message of before them, in *)
(* the middle of this, overtake it: it waits for the next frame.                       *)
Overtaken(n) ==
  /\ n < Len(stream)
  /\ n > 0 => /\ \A k \in 1 .. n : stream[k].type # "inputs"
              /\ stream[n + 1].type = "inputs"
              /\ missed = 0 \/ (sameFrame /\ missed <= n)
  /\ missed' = IF n > 0 THEN n ELSE IF missed > 0 THEN missed - 1 ELSE 0
  /\ sameFrame' = (n > 0 \/ (sameFrame /\ missed > 1))

(* A frame is played: what has been missed is drained before the next one. *)
FramePlayed ==
  /\ missed = 0 \/ sameFrame
  /\ sameFrame' = FALSE
  /\ UNCHANGED missed

(* One message, the n-th but one in the stream, is drained and handled. *)
Deliver(n) ==
  /\ Overtaken(n)
  /\ stream' = Lists!RemoveAt(stream, n + 1)
  /\ LET msg == stream[n + 1]
         done == Flush([future EXCEPT ![msg.index] = Append(@, msg)], position, held)
     IN  \/ msg.type = "config" /\ UNCHANGED clientVars
         \/ /\ msg.type = "control"
            /\ Apply(control \cup {msg.index}, position)
            /\ UNCHANGED << future, position, head, held, sIndex, sFrame, sStart, sync,
                            scene, played, announced, seed, jumped >>
         \/ /\ msg.type = "inputs"
            /\ head' = msg.index
            /\ future' = done.future /\ position' = done.at /\ held' = done.held
            /\ Apply(control, done.at)
            /\ UNCHANGED << sIndex, sFrame, sStart, sync, scene, played, announced, seed, jumped >>
  /\ UNCHANGED hostVars

(* Mutant: the containers may end at the current frame. *)
HasInputs_OffByOne == sIndex = 0 \/ \E f \in held[sIndex] : f + 1 >= sFrame

(* hasCurrentFrameInputs: the containers reach past the current frame. *)
HasInputs == sIndex = 0 \/ \E f \in held[sIndex] : f >= sFrame

(* syncToStreamHead, from the hold: the inputs wanted are not there and the stream is  *)
(* past the index.  Inputs of before are erased; the slots of the generator states     *)
(* stay where they are.                                                                *)
Jump ==
  /\ ~ HasInputs
  /\ head > sIndex
  /\ future' = [i \in Indices |-> IF i < head THEN << >> ELSE future[i]]
  /\ control' = {i \in control : i >= head}
  /\ held' = [i \in Indices |-> IF i < head THEN {} ELSE held[i]]
  /\ sIndex' = head /\ sFrame' = 0 /\ sStart' = head
  /\ position' = [index |-> head, frame |-> 0]
  /\ jumped' = TRUE
  /\ UNCHANGED << hostVars, stream, drainVars, rngStates, head, sync, scene, played,
                  announced, seed >>

(* The replayed game leaves a state after as many frames as the host's did; Loading    *)
(* takes as long as the machine needs, and after a jump nothing is known.              *)
MayEnd == \/ jumped \/ StateOf(scene) \in {"Initial", "Loading", "Skippable"}
          \/ scene < index /\ played = left[scene]
MustEnd == ~ jumped /\ HasControl(scene) /\ scene < index /\ played = left[scene]

(* Step 3c-1: the generator state of the current index is written to the game if it is *)
(* still due and there.                                                                *)
GiveSeed(due, states, i, at, now) ==
  LET slot == i - sStart' + 1
      there == due /\ slot \in DOMAIN states /\ states[slot] # None
  IN  /\ sync' = (due /\ ~ there)
      /\ seed' = IF there THEN [rng |-> states[slot], at |-> at] ELSE now

(* A frame of the replayed game. *)
PlayFrame ==
  /\ sIndex > 0 /\ HasInputs /\ ~ MustEnd
  /\ FramePlayed
  /\ UNCHANGED sStart
  /\ GiveSeed(sync, rngStates, sIndex, played, seed)
  /\ sFrame' = sFrame + 1
  /\ played' = played + 1
  /\ UNCHANGED << hostVars, stream, future, control, rngStates, position, head, held,
                  sIndex, scene, announced, jumped >>

(* The replayed game moves on: setState counts the index up and, on entering Loading,  *)
(* erases everything before it.  The first frame of the new state is simulated in the  *)
(* same callback, after the hold.                                                      *)
PlayMoves ==
  /\ scene < Last /\ sIndex < Last
  /\ HasInputs /\ MayEnd
  /\ FramePlayed
  /\ LET loading == StateOf(scene + 1) = "Loading"
         erased == IF loading THEN sIndex + 1 ELSE sStart
     IN  /\ sStart' = erased
         /\ held' = [i \in Indices |-> IF i < erased THEN {} ELSE held[i]]
         /\ rngStates' = SubSeq(rngStates, erased - sStart + 1, Len(rngStates))
  /\ scene' = scene + 1 /\ played' = 1
  /\ sIndex' = sIndex + 1 /\ sFrame' = 1
  /\ GiveSeed(sync \/ HasControl(scene + 1), rngStates', sIndex + 1, 0, Unseeded)
  /\ announced' = sIndex + 1
  /\ UNCHANGED << hostVars, stream, future, control, position, head, jumped >>

Next ==
  \/ \E joins \in BOOLEAN : HostFrame(joins)
  \/ \E joins \in BOOLEAN : HostMoves(joins)
  \/ \E i \in Indices : RemoteInputs(i)
  \/ \E n \in 0 .. Len(stream) : Deliver(n)
  \/ Jump
  \/ PlayFrame
  \/ PlayMoves

Spec == Init /\ [][Next]_vars

-----------------------------------------------------------------------------
(* Properties *)

Batches == [type : {"inputs"}, index : Indices, start : Nat, end : Nat]
Messages == {Config} \cup {Control(i) : i \in Indices} \cup Batches

TypeOK ==
  /\ index \in Indices /\ frame \in Nat
  /\ end \in [Players -> [Indices -> Nat]]
  /\ left \in [Indices -> Nat]
  /\ start \in Indices /\ preserve \in Indices \cup {Unset}
  /\ pos.index \in 0 .. index /\ pos.frame \in Nat
  /\ archive \in Seq(Batches) /\ rngArchive \in SUBSET Indices
  /\ cursor \in {NotJoined} \cup 0 .. Len(archive)
  /\ stream \in Seq(Messages)
  /\ future \in [Indices -> Seq(Batches)] /\ control \in SUBSET Indices
  /\ rngStates \in Seq(Indices \cup {None})
  /\ position.index \in Indices /\ head \in Indices
  /\ held \in [Indices -> SUBSET Nat]
  /\ sIndex \in Indices /\ sFrame \in Nat /\ sStart \in Indices
  /\ scene \in Indices /\ played \in Nat
  /\ sync \in BOOLEAN /\ missed \in 0 .. Len(stream) /\ sameFrame \in BOOLEAN
  /\ announced \in Indices /\ jumped \in BOOLEAN
  /\ seed.rng \in Indices \cup {None}

(* Frames of index i that the archive holds. *)
Archived(i) == UNION {Covers(archive[n]) : n \in {m \in DOMAIN archive : archive[m].index = i}}
IsPrefix(frames) == \A f \in frames : \A g \in 0 .. f : g \in frames

(* "The host just guarantees a complete, ordered ... stream" (spectator_manager.cpp:22). *)
(* Ordered: indices never go back, and within one every batch starts where the one     *)
(* before it ended or sooner.  And it holds only what both players really held.        *)
ArchiveIsProven ==
  /\ \A i \in Indices : IsPrefix(Archived(i))
  /\ \A n \in 1 .. Len(archive) - 1 : archive[n].index <= archive[n + 1].index
  /\ \A i \in Indices : \A f \in Archived(i) : \A q \in Players : f < end[q][i]

(* Complete, as far as the containers go: when the cursor leaves an index, everything  *)
(* that both of them hold of it is in the archive.                                     *)
LeavesNothing ==
  [][\A i \in pos.index .. pos'.index - 1 :
       0 .. Smaller(end["host"][i], end["client"][i]) - 1 \subseteq Archived(i)']_vars

(* "Otherwise the containers trim unarchived frames at every state transition"         *)
(* (spectator_manager.cpp:158): what the cursor has still to read is not erased.       *)
NothingUnreadErased == start <= pos.index

(* Cursors, archive and containers of both sides fit each other, and nothing is erased  *)
(* that is still to be archived.                                                        *)
Inv == TypeOK /\ NothingUnreadErased

(* A frame the hold lets pass is in the containers, not filled in. *)
FrameIsThere == sIndex > 0 /\ HasInputs => sFrame \in held[sIndex]

(* Until it jumps, the spectator's third frame of a state that has a generator state is *)
(* never simulated without it, or with another's: the first is simulated before its     *)
(* inputs are waited for, and the second may come between two drains of the inboxes.    *)
SeedInPlace ==
  ~ jumped /\ HasControl(scene) /\ played > 2 => seed.rng = scene

(* "Spectators are RECEIVE-ONLY" (dll_main.cpp:1800): the host plays a frame when the   *)
(* opponent lets it, whatever a spectator does.                                        *)
GateIsOpponents ==
  [][ << index, frame >> # << index, frame >>' => Earned(index', frame' - 1) ]_vars
=============================================================================
