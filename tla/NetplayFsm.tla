---------------------------- MODULE NetplayFsm ----------------------------
(***************************************************************************)
(* The two players' netplay state machines over a whole session: character *)
(* select, loading, rounds, retry menu, and again.  Every change of state  *)
(* opens a new transition index; each peer changes when its own game does, *)
(* so the two indices drift and are held together only by the ready gate,  *)
(* by the TransitionIndex, MenuIndex and RngState messages (reliable, one  *)
(* inbox queue each) and by the PlayerInputs windows (unreliable).         *)
(* Inputs are left to modules Lockstep and Rollback: here an index of a    *)
(* container is the number of frames it holds, kept for the indices the    *)
(* gate may still ask about: 0 stands for it in the states that do not     *)
(* wait and in the indices left behind.                                    *)
(*                                                                         *)
(* Code: NetplayManager (netplay/manager.cpp), netplayStateChanged,        *)
(* drainNetplayInbox, frameStep and callback (entry/dll_main.cpp).         *)
(***************************************************************************)
EXTENDS Integers, Sequences

CONSTANTS
  Delay,         \* config.delay: frames an input is committed ahead
  Rollback,      \* config.rollback: frames InGame may run past the known inputs
  SelectFrames,  \* bound: frames of a character select
  RoundFrames,   \* bound: frames of a round
  Rounds,        \* rounds of a match
  MaxIndex,      \* bound: the last transition index, of which one frame is played
  FaultAt        \* bound: the indices at which the network may fail a peer

ASSUME ConstantsAssumption ==
  /\ Delay \in Nat /\ Rollback \in Nat
  /\ {SelectFrames, RoundFrames, Rounds, MaxIndex} \subseteq Nat \ {0}
  /\ FaultAt \subseteq Nat

Host == "host"
Client == "client"
Peers == {Host, Client}
Other(p) == IF p = Host THEN Client ELSE Host

None == -1             \* no menu choice
Choices == {0, 1}      \* entries of the retry menu: character select, rematch

VARIABLES
  pc,          \* where a peer is in a frame: "callback", "input", "gate", or "stopped"
  state,       \* NetplayManager::_state
  index,       \* the transition index
  frame,       \* the frame within it; frozen where the code does not read it
  round,       \* rounds begun in this match (the game's own count)
  startIndex,  \* _startIndex: older indices have been erased
  remote,      \* frames held of the opponent's inputs, per index from startIndex
  sentEnd,     \* end of the latest window sent for each index
  choice,      \* _localRetryMenuIndex
  heard,       \* _remoteRetryMenuIndex
  target,      \* _targetMenuIndex
  menuSent,    \* g_localRetryMenuIndexSent
  lazy,        \* g_lazyDisconnect
  shouldSync,  \* g_shouldSyncRngState
  rngStates,   \* _rngStates, per index from startIndex: the index it is of, or None
  seed,        \* the index whose RngState the game's generator runs from, or None
  connected,   \* what ENet says of the opponent
  announced,   \* the last index a peer has sent a TransitionIndex of
  menus,       \* inbox queue of MenuIndex
  rngs,        \* inbox queue of RngState
  route        \* history: the states entered, one per index

fsm == << state, index, frame, round, startIndex, route >>
menu == << choice, heard, target, menuSent >>
rng == << shouldSync, rngStates, seed >>
net == << connected, announced, menus, rngs >>
vars == << pc, fsm, remote, sentEnd, menu, lazy, rng, net >>

-----------------------------------------------------------------------------
(* The state machine *)

States == {"Initial", "CharaSelect", "Loading", "CharaIntro", "InGame", "Skippable",
           "RetryMenu"}

(* isValidNextState, without the states of offline play and replays. *)
ValidNext(s) ==
  CASE s = "Initial"     -> {"CharaSelect"}
    [] s = "CharaSelect" -> {"Loading"}
    [] s = "Loading"     -> {"CharaIntro", "Skippable", "InGame"}
    [] s = "CharaIntro"  -> {"InGame"}
    [] s = "InGame"      -> {"Skippable", "CharaSelect", "RetryMenu"}
    [] s = "Skippable"   -> {"InGame", "RetryMenu"}
    [] s = "RetryMenu"   -> {"Loading", "CharaSelect"}

(* Where the game of a versus match goes from state s: the memory gameModeChanged,   *)
(* roundStart and checkRoundOver watch.  The menu entry is the one navigated to.     *)
GameGoes(p) ==
  CASE state[p] = "Initial"     -> "CharaSelect"
    [] state[p] = "CharaSelect" -> "Loading"
    [] state[p] = "Loading"     -> "CharaIntro"
    [] state[p] = "CharaIntro"  -> "InGame"
    [] state[p] = "InGame"      -> "Skippable"
    [] state[p] = "Skippable"   -> IF round[p] < Rounds THEN "InGame" ELSE "RetryMenu"
    [] state[p] = "RetryMenu"   -> IF target[p] = 0 THEN "CharaSelect" ELSE "Loading"

(* The frames the game stays: how long a cinematic or a loading screen lasts is the  *)
(* interleaving's to say.                                                            *)
Lasts(s) == CASE s = "CharaSelect" -> SelectFrames
              [] s = "InGame"      -> RoundFrames
              [] OTHER             -> 1

GameMoves(p) == /\ index[p] < MaxIndex
                /\ frame[p] = Lasts(state[p])
                /\ state[p] = "RetryMenu" => target[p] # None

Synced == {"CharaSelect", "InGame"}   \* states that start from the host's RngState
Gated == {"CharaSelect", "InGame"}    \* states that wait for the opponent's inputs

Init ==
  /\ pc = [p \in Peers |-> "callback"]
  /\ state = [p \in Peers |-> "Initial"]
  /\ index = [p \in Peers |-> 0]
  /\ frame = [p \in Peers |-> 0]
  /\ round = [p \in Peers |-> 0]
  /\ startIndex = [p \in Peers |-> 0]
  /\ remote = [p \in Peers |-> << >>]
  /\ sentEnd = [p \in Peers |-> [i \in 0..MaxIndex |-> 0]]
  /\ choice = [p \in Peers |-> None]
  /\ heard = [p \in Peers |-> None]
  /\ target = [p \in Peers |-> None]
  /\ menuSent = [p \in Peers |-> FALSE]
  /\ lazy = [p \in Peers |-> FALSE]
  /\ shouldSync = [p \in Peers |-> FALSE]
  /\ rngStates = [p \in Peers |-> << >>]
  /\ seed = [p \in Peers |-> None]
  /\ connected = [p \in Peers |-> TRUE]
  /\ announced = [p \in Peers |-> 0]
  /\ menus = [p \in Peers |-> << >>]
  /\ rngs = [p \in Peers |-> << >>]
  /\ route = [p \in Peers |-> << >>]

-----------------------------------------------------------------------------
(* A change of state: netplayStateChanged and setState *)

(* getBufferedPreserveStartIndex.  The archiver of the host pins it at the lowest    *)
(* place its cursor ever had, which is index 0; nothing pins it on the client.       *)
Preserved(p) == IF p = Host THEN 0 ELSE MaxIndex + 1

NewStartIndex(p, i) == IF Preserved(p) < i THEN Preserved(p) ELSE i

(* eraseIndexOlderThan, and the erasing of _rngStates.  The containers also lose     *)
(* the index asked for when it is the last one they hold.                            *)
ErasedInputs(s, offset) == IF offset + 1 >= Len(s) THEN << >> ELSE SubSeq(s, offset + 1, Len(s))
ErasedRngs(s, offset) == SubSeq(s, offset + 1, Len(s))

(* Entering Loading erases the indices before the new start. *)
CollectOld(p, s, i) ==
  LET start  == NewStartIndex(p, i)
      offset == IF s = "Loading" /\ start > startIndex[p] THEN start - startIndex[p] ELSE 0
      kept   == IF offset = 0 THEN remote[p] ELSE ErasedInputs(remote[p], offset)
      left   == i - startIndex[p] - offset
  IN  /\ startIndex' = [startIndex EXCEPT ![p] = @ + offset]
      /\ remote' = [remote EXCEPT ![p] = [k \in DOMAIN kept |-> IF k <= left THEN 0 ELSE kept[k]]]
      /\ rngStates' = [rngStates EXCEPT ![p] = ErasedRngs(@, offset)]

(* Mutant: the opponent's choice outlives the menu it was made in. *)
ResetMenu_LocalOnly(p, s) ==
  /\ choice' = [choice EXCEPT ![p] = IF s = "Loading" THEN None ELSE @]
  /\ target' = [target EXCEPT ![p] = None]
  /\ menuSent' = [menuSent EXCEPT ![p] = @ /\ s # "RetryMenu"]
  /\ UNCHANGED heard

(* Mutant: the opponent's choice is forgotten on entering the menu too. *)
ResetMenu_Again(p, s) ==
  /\ choice' = [choice EXCEPT ![p] = IF s = "Loading" THEN None ELSE @]
  /\ heard' = [heard EXCEPT ![p] = IF s \in {"Loading", "RetryMenu"} THEN None ELSE @]
  /\ target' = [target EXCEPT ![p] = None]
  /\ menuSent' = [menuSent EXCEPT ![p] = @ /\ s # "RetryMenu"]

(* Both choices are forgotten on entering Loading, the navigation on every change,   *)
(* and the retry menu starts with nothing sent.                                      *)
ResetMenu(p, s) ==
  /\ choice' = [choice EXCEPT ![p] = IF s = "Loading" THEN None ELSE @]
  /\ heard' = [heard EXCEPT ![p] = IF s = "Loading" THEN None ELSE @]
  /\ target' = [target EXCEPT ![p] = None]
  /\ menuSent' = [menuSent EXCEPT ![p] = @ /\ s # "RetryMenu"]

Running(p) == pc[p] # "stopped"

(* A message is queued while ENet has a peer. *)
Send(queue, p, m) == IF connected[p] /\ Running(Other(p)) THEN [queue EXCEPT ![Other(p)] = Append(@, m)] ELSE queue

(* Mutant: the host's generator is asked for at the character select only. *)
NeedsRng_SelectOnly(s) == s = "CharaSelect"

NeedsRng(s) == s \in Synced

(* callback finds the opponent there, and the game moved on: so does the state       *)
(* machine, and the opponent is told.  (netplayStateChanged also stops a peer that   *)
(* leaves the retry menu disconnected; callback has just seen to that.)              *)
Enter(p) ==
  LET s == GameGoes(p)
      i == index[p] + 1
  IN  /\ pc[p] = "callback" /\ connected[p]
      /\ GameMoves(p)
      /\ s \in ValidNext(state[p])
      /\ lazy' = [lazy EXCEPT ![p] = s = "RetryMenu"]
      /\ shouldSync' = [shouldSync EXCEPT ![p] = @ \/ NeedsRng(s)]
      /\ state' = [state EXCEPT ![p] = s]
      /\ index' = [index EXCEPT ![p] = i]
      /\ frame' = [frame EXCEPT ![p] = 0]
      /\ round' = [round EXCEPT ![p] = IF s = "InGame" THEN @ + 1
                                       ELSE IF s = "Loading" THEN 0 ELSE @]
      /\ CollectOld(p, s, i)
      /\ ResetMenu(p, s)
      /\ announced' = [announced EXCEPT ![p] = i]
      /\ route' = [route EXCEPT ![p] = Append(@, s)]
      /\ pc' = [pc EXCEPT ![p] = "input"]
      /\ UNCHANGED << sentEnd, seed, connected, menus, rngs >>

Stay(p) ==
  /\ pc[p] = "callback" /\ connected[p]
  /\ ~GameMoves(p) /\ index[p] < MaxIndex
  /\ pc' = [pc EXCEPT ![p] = "input"]
  /\ UNCHANGED << fsm, remote, sentEnd, menu, lazy, rng, net >>

(* delayedStop: the process ends, and what it held goes with it. *)
Stop(p) ==
  /\ pc' = [pc EXCEPT ![p] = "stopped"]
  /\ frame' = [frame EXCEPT ![p] = 0]
  /\ remote' = [remote EXCEPT ![p] = << >>]
  /\ choice' = [choice EXCEPT ![p] = None]
  /\ heard' = [heard EXCEPT ![p] = None]
  /\ target' = [target EXCEPT ![p] = None]
  /\ menuSent' = [menuSent EXCEPT ![p] = FALSE]
  /\ lazy' = [lazy EXCEPT ![p] = FALSE]
  /\ shouldSync' = [shouldSync EXCEPT ![p] = FALSE]
  /\ rngStates' = [rngStates EXCEPT ![p] = << >>]
  /\ seed' = [seed EXCEPT ![p] = None]
  /\ connected' = [connected EXCEPT ![p] = FALSE]
  /\ menus' = [menus EXCEPT ![p] = << >>]
  /\ rngs' = [rngs EXCEPT ![p] = << >>]
  /\ UNCHANGED << state, index, round, startIndex, sentEnd, announced, route >>

(* callback finds the opponent gone. *)
StopAtCallback(p) ==
  /\ pc[p] = "callback" /\ ~connected[p]
  /\ Stop(p)

-----------------------------------------------------------------------------
(* The rest of a frame *)

(* The containers, the list of RngStates: sequences that grow to reach an index.     *)
Reach(s, n, fill) == [k \in 1..(IF n > Len(s) THEN n ELSE Len(s)) |->
                        IF k <= Len(s) THEN s[k] ELSE fill]
SetRng(s, k, i) == [Reach(s, k, None) EXCEPT ![k] = i]

(* In the retry menu the choice goes out once.  A peer that has chosen and finds the *)
(* opponent gone stops here.                                                         *)
SendChoice(p) ==
  /\ pc[p] = "input" /\ state[p] = "RetryMenu"
  /\ choice[p] # None => connected[p]
  /\ menus' = IF choice[p] # None /\ ~menuSent[p] THEN Send(menus, p, choice[p]) ELSE menus
  /\ menuSent' = [menuSent EXCEPT ![p] = @ \/ choice[p] # None]
  /\ pc' = [pc EXCEPT ![p] = "gate"]
  /\ UNCHANGED << fsm, remote, sentEnd, choice, heard, target, lazy, rng, connected, announced, rngs >>

StopInMenu(p) ==
  /\ pc[p] = "input" /\ state[p] = "RetryMenu"
  /\ choice[p] # None /\ ~connected[p] /\ lazy[p]
  /\ Stop(p)

(* Everywhere else the window of inputs does, unreliably (of a state that does not   *)
(* wait it says no more than the announcement of its index, and is left out); then   *)
(* the host, in a state that needs it, takes a snapshot of its generator and sends   *)
(* it.                                                                               *)
SendInputs(p) ==
  LET i == index[p]
  IN  /\ pc[p] = "input" /\ state[p] # "RetryMenu"
      /\ sentEnd' = IF connected[p] /\ state[p] \in Gated
                    THEN [sentEnd EXCEPT ![p][i] = frame[p] + Delay + 1]
                    ELSE sentEnd
      /\ IF p = Host /\ shouldSync[p]
         THEN /\ rngStates' = [rngStates EXCEPT ![p] = SetRng(@, i - startIndex[p] + 1, i)]
              /\ seed' = [seed EXCEPT ![p] = i]
              /\ rngs' = Send(rngs, p, i)
         ELSE UNCHANGED << rngStates, seed, rngs >>
      /\ pc' = [pc EXCEPT ![p] = "gate"]
      /\ UNCHANGED << fsm, remote, menu, lazy, shouldSync, connected, announced, menus >>

(* The last index the opponent is known to have reached. *)
RemoteIndex(p) == startIndex[p] + Len(remote[p]) - 1
RemoteEnd(p) == remote[p][index[p] - startIndex[p] + 1]
MaxFramesAhead(p) == IF state[p] = "InGame" THEN Rollback ELSE 0

(* Mutant: with rollback on, a round never waits. *)
InputsReady_Speculative(p) ==
  \/ state[p] \notin Gated
  \/ MaxFramesAhead(p) > 0
  \/ remote[p] # << >> /\ RemoteIndex(p) >= index[p]

(* isRemoteInputReady: only the character select and the rounds wait, and not for an *)
(* opponent who has left this index behind.                                          *)
InputsReady(p) ==
  \/ state[p] \notin Gated
  \/ remote[p] # << >> /\ RemoteIndex(p) > index[p]
  \/ /\ remote[p] # << >> /\ RemoteIndex(p) = index[p]
     /\ RemoteEnd(p) > 0
     /\ RemoteEnd(p) - 1 + MaxFramesAhead(p) >= frame[p]

(* isRngStateReady: the list reaches this index; the entry itself is not looked at.  *)
RngReady(p) ==
  \/ ~shouldSync[p] \/ p = Host \/ state[p] = "Initial"
  \/ rngStates[p] # << >> /\ startIndex[p] + Len(rngStates[p]) - 1 >= index[p]

Ready(p) == RngReady(p) /\ InputsReady(p)

(* getRngState *)
RngOf(p) == LET k == index[p] - startIndex[p] + 1
            IN  IF k <= Len(rngStates[p]) THEN rngStates[p][k] ELSE None

(* Applying the RngState, and what the frame that follows does to the generator: a   *)
(* state the peers do not play in step draws a number of values of its own.          *)
ApplyRng(p) ==
  LET apply == shouldSync[p] /\ RngOf(p) # None
  IN  /\ shouldSync' = [shouldSync EXCEPT ![p] = @ /\ ~apply]
      /\ seed' = [seed EXCEPT ![p] = IF state[p] \notin Synced THEN None
                                     ELSE IF apply /\ p = Client THEN RngOf(p) ELSE @]

(* max(local, remote), at most 1 *)
RetryTarget(p) == LET larger == IF choice[p] > heard[p] THEN choice[p] ELSE heard[p]
                  IN  IF larger > 1 THEN 1 ELSE larger

(* getRetryMenuInput, called for the local player: once both have chosen the entry   *)
(* is settled; until then the player's own confirm is kept and held back.            *)
RetryMenuInput(p) ==
  IF state[p] # "RetryMenu" \/ target[p] # None THEN UNCHANGED << choice, target >>
  ELSE IF choice[p] # None
  THEN /\ target' = [target EXCEPT ![p] = IF heard[p] # None THEN RetryTarget(p) ELSE None]
       /\ UNCHANGED choice
  ELSE /\ \E c \in Choices : choice' = [choice EXCEPT ![p] = IF frame[p] > 0 THEN c ELSE None]
       /\ UNCHANGED target

(* The gate opens and the game simulates the frame. *)
Pass(p) ==
  /\ pc[p] = "gate"
  /\ Ready(p)
  /\ ApplyRng(p)
  /\ RetryMenuInput(p)
  /\ frame' = [frame EXCEPT ![p] = IF @ < Lasts(state[p]) THEN @ + 1 ELSE @]
  /\ pc' = [pc EXCEPT ![p] = "callback"]
  /\ UNCHANGED << state, index, round, startIndex, route, remote, sentEnd, heard, menuSent,
                  lazy, rngStates, net >>

(* Mutant: the gate does not ask whether the opponent is there. *)
PeerGone_Never(p) == FALSE /\ UNCHANGED vars

(* Blocked, and the opponent is gone. *)
PeerGone(p) ==
  /\ pc[p] = "gate" /\ ~Ready(p) /\ ~connected[p]
  /\ Stop(p)

(* Blocked for 10 seconds.  It may happen; nothing below relies on it. *)
TimeOut(p) ==
  /\ pc[p] = "gate" /\ ~Ready(p) /\ connected[p]
  /\ index[p] \in FaultAt
  /\ Stop(p)

-----------------------------------------------------------------------------
(* The network and drainNetplayInbox.  The reliable messages arrive in order, each   *)
(* kind in its own queue.  They are drained at the top of a frame and at the gate; a  *)
(* message taken between the two is one that waited there.                           *)


(* Mutant: the announcement is dropped. *)
SetRemoteIndex_Ignored(p, i) == remote[p]

(* setRemoteIndex: the container grows to hold the index, empty. *)
SetRemoteIndex(p, i) == IF i < startIndex[p] THEN remote[p]
                        ELSE Reach(remote[p], i - startIndex[p] + 1, 0)

Ends == 0..Delay + RoundFrames + SelectFrames + 1

(* The announcements come one by one; one of an index already known changes nothing. *)
DeliverIndex(p, i) ==
  /\ Running(p)
  /\ RemoteIndex(p) < i /\ i <= announced[Other(p)]
  /\ remote' = [remote EXCEPT ![p] = SetRemoteIndex(p, i)]
  /\ UNCHANGED << pc, fsm, sentEnd, menu, lazy, rng, net >>

(* setRemoteRetryMenuIndex: whatever state this peer is in. *)
DeliverMenu(p) ==
  /\ Running(p) /\ menus[p] # << >>
  /\ heard' = [heard EXCEPT ![p] = Head(menus[p])]
  /\ menus' = [menus EXCEPT ![p] = Tail(@)]
  /\ UNCHANGED << pc, fsm, remote, sentEnd, choice, target, menuSent, lazy, rng, connected,
                  announced, rngs >>

(* setRngState *)
DeliverRng(p) ==
  LET i == Head(rngs[p])
  IN  /\ Running(p) /\ rngs[p] # << >>
      /\ rngStates' = [rngStates EXCEPT ![p] = IF i = 0 \/ i < startIndex[p] THEN @
                                               ELSE SetRng(@, i - startIndex[p] + 1, i)]
      /\ rngs' = [rngs EXCEPT ![p] = Tail(@)]
      /\ UNCHANGED << pc, fsm, remote, sentEnd, menu, lazy, shouldSync, seed, connected,
                      announced, menus >>

(* setInputs, for any window the opponent ever sent: lost windows are those never    *)
(* delivered.  What a window says of an index this peer has left, or erased, is      *)
(* never asked for again.                                                            *)
DeliverInputs(p, i, end) ==
  LET k    == i - startIndex[p] + 1
      held == Reach(remote[p], k, 0)
  IN  /\ Running(p)
      /\ end \in 1..sentEnd[Other(p)][i]
      /\ i >= index[p]
      /\ remote' = [remote EXCEPT ![p] =
                      [held EXCEPT ![k] = IF end > held[k] THEN end ELSE held[k]]]
      /\ UNCHANGED << pc, fsm, sentEnd, menu, lazy, rng, net >>

(* ENet gives the opponent up, because it stopped or because the network is down. *)
LoseConnection(p) ==
  /\ Running(p) /\ connected[p]
  /\ index[p] \in FaultAt \/ ~Running(Other(p))
  /\ connected' = [connected EXCEPT ![p] = FALSE]
  /\ UNCHANGED << pc, fsm, remote, sentEnd, menu, lazy, rng, announced, menus, rngs >>

FrameStep(p) ==
  \/ Enter(p) \/ Stay(p) \/ StopAtCallback(p)
  \/ SendChoice(p) \/ StopInMenu(p) \/ SendInputs(p)
  \/ Pass(p) \/ PeerGone(p)

Next == \E p \in Peers :
  \/ FrameStep(p)
  \/ TimeOut(p)
  \/ DeliverMenu(p) \/ DeliverRng(p)
  \/ \E i \in 1..MaxIndex : DeliverIndex(p, i)
  \/ \E i \in 0..MaxIndex, end \in Ends : DeliverInputs(p, i, end)
  \/ LoseConnection(p)

Spec == Init /\ [][Next]_vars

(* A peer's game keeps calling it; and the network does not leave forever undone all *)
(* of what it has to do for a peer: bring the reliable messages, one of the windows  *)
(* sent and re-sent for the opponent's present index, the news that it stopped.      *)
DeliverLatest(p) == LET i == index[Other(p)] IN DeliverInputs(p, i, sentEnd[Other(p)][i])
NoticeStop(p) == ~Running(Other(p)) /\ LoseConnection(p)
Network(p) == \/ DeliverIndex(p, announced[Other(p)]) \/ DeliverMenu(p) \/ DeliverRng(p)
              \/ DeliverLatest(p) \/ NoticeStop(p)

Fairness == \A p \in Peers : WF_vars(FrameStep(p)) /\ WF_vars(Network(p))

FairSpec == Spec /\ Fairness

-----------------------------------------------------------------------------
(* Properties *)

(* The types, and the place of the containers: they start no later than the index    *)
(* the peer is at, and never hold an index the session does not have.                *)
TypeOK ==
  /\ pc \in [Peers -> {"callback", "input", "gate", "stopped"}]
  /\ state \in [Peers -> States]
  /\ index \in [Peers -> 0..MaxIndex]
  /\ frame \in [Peers -> Nat] /\ round \in [Peers -> 0..Rounds]
  /\ {choice, heard, target} \subseteq [Peers -> Choices \cup {None}]
  /\ announced \in [Peers -> 0..MaxIndex]
  /\ {menuSent, lazy, shouldSync, connected} \subseteq [Peers -> BOOLEAN]
  /\ seed \in [Peers -> 0..MaxIndex \cup {None}]
  /\ \A p \in Peers :
       /\ frame[p] <= Lasts(state[p])
       /\ startIndex[p] \in 0..index[p]
       /\ remote[p] \in Seq(Ends) /\ startIndex[p] + Len(remote[p]) <= MaxIndex + 1
       /\ rngStates[p] \in Seq(0..MaxIndex \cup {None})
       /\ sentEnd[p] \in [0..MaxIndex -> Ends]

(* The two peers go through the same states: index i of one is index i of the other. *)
(* Both leave a retry menu by the same entry although each chose for itself, the     *)
(* choice message does not name the menu it answers, and the stored choices are      *)
(* forgotten at moments that are not the same on both sides.                         *)
SameRoute ==
  \A i \in 1..MaxIndex :
    (\A p \in Peers : i <= Len(route[p])) => route[Host][i] = route[Client][i]

(* Past its first frame a character select or a round runs, on both sides, from the  *)
(* generator state the host took for that very index.                                *)
RngAgreed ==
  \A p \in Peers : state[p] \in Synced /\ frame[p] > 0 => seed[p] = index[p]

(* No peer is more than three changes of state ahead of the other: a rematch, a      *)
(* loading screen and an introduction.  The messages that name no index and the      *)
(* erasing of old ones live on this.                                                 *)
MaxDrift == 3
DriftBounded == index[Host] - index[Client] \in -MaxDrift..MaxDrift

(* Neither the containers nor the indices of the two peers run away from each other.   *)
Inv == TypeOK /\ DriftBounded

(* A peer that only the opponent can move on: at the bound, blocked at the gate, or    *)
(* going round in the retry menu with its choice sent and no answer.                 *)
Waiting(p) ==
  \/ pc[p] = "callback" /\ index[p] = MaxIndex
  \/ pc[p] = "gate" /\ ~Ready(p)
  \/ state[p] = "RetryMenu" /\ menuSent[p] /\ heard[p] = None

(* Nothing that is on its way, or sent again, would tell the peer anything new. *)
UpToDate(p) ==
  /\ menus[p] = << >> /\ rngs[p] = << >>
  /\ \A i \in 1..announced[Other(p)] : i <= RemoteIndex(p)
  /\ state[p] \in Gated /\ index[p] = index[Other(p)] => RemoteEnd(p) >= sentEnd[Other(p)][index[p]]

(* While the connection lasts the two sessions never wait for each other: whoever is *)
(* behind finds its inputs, its RngState or the opponent's choice, which no Loading  *)
(* has erased and no transition has skipped (isRemoteInputReady, isRngStateReady,    *)
(* getRetryMenuInput).                                                               *)
NobodyHangs ==
  (\A p \in Peers : Running(p) /\ connected[p]) /\ (\E p \in Peers : index[p] # MaxIndex)
  => \E p \in Peers : ~(Waiting(p) /\ UpToDate(p))

(* Unless somebody stops, both peers reach the end of the session: no lost window,   *)
(* late announcement or erased index leaves one of them behind.                      *)
BothArrive == <>(\/ \A p \in Peers : index[p] = MaxIndex
                 \/ \E p \in Peers : ~Running(p))

(* A peer whose opponent stopped stops too, in whatever state it is, without the     *)
(* help of the 10-second limit.                                                      *)
StopTogether == (\E p \in Peers : ~Running(p)) ~> (\A p \in Peers : ~Running(p))
=============================================================================
