------------------------------ MODULE Rollback ------------------------------
(***************************************************************************)
(* Speculation and correction within one InGame transition index.  Two     *)
(* peers simulate the same deterministic game.  A peer plays a frame with  *)
(* its own committed input and what it knows or predicts of the opponent's,*)
(* saves the state of every new frame in a bounded pool, and when a batch  *)
(* contradicts a prediction it restores a saved state, then reruns to      *)
(* where it was with the corrected inputs.                                 *)
(*                                                                         *)
(* The game's memory is the sequence of inputs simulated so far, one pair  *)
(* per frame: two states are equal iff their sequences are.  The world     *)
(* timer is part of that memory, so a frame number is a length.            *)
(*                                                                         *)
(* Code: frameStep, frameStepRerun, checkRoundOver, drainNetplayInbox      *)
(* (entry/dll_main.cpp), NetplayManager, RollbackManager (netplay/).       *)
(***************************************************************************)
EXTENDS InputsContainer, FiniteSets

CONSTANTS
  NumInputs,   \* NUM_INPUTS, frames in a PlayerInputs window
  Delay,       \* config.rollbackDelay
  Rollback,    \* config.rollback, the prediction window
  NumStates,   \* NUM_ROLLBACK_STATES, the slots of the state pool
  Margin,      \* the 5 of ROLLBACK_ROUND_OVER_DELAY = rollback + 5
  Attack,      \* player 1's blow, which knocks player 2 out unless met by the same
  Presses(_,_),\* the inputs a player may choose at a frame
  MaxFrame     \* bound: frames of the round

ASSUME RollbackAssumption ==
  /\ NumInputs \in Nat \ {0} /\ Delay \in Nat /\ Rollback \in Nat \ {0}
  /\ NumStates \in Nat \ {0, 1} /\ Margin \in Nat /\ MaxFrame \in Nat
  /\ \A p \in {1, 2}, f \in 0 .. MaxFrame : Presses(p, f) \subseteq Input

Peers == {1, 2}
Other(p) == 3 - p

VARIABLES
  hist,      \* the game's memory: the pairs of inputs simulated
  pc,        \* "top" of frameStep, at the "gate", or "left" InGame
  own,       \* the peer's container of its own inputs
  remote,    \* its container of the opponent's inputs
  states,    \* RollbackManager's list of saved states, oldest first
  timer,     \* g_rollbackTimer
  stop,      \* g_fastFwdStopFrame, NoFrame when not in a rerun
  over,      \* g_roundOverTimer
  sent       \* PlayerInputs the peer has sent

vars == << hist, pc, own, remote, states, timer, stop, over, sent >>

NoFrame == -1
Frame(p) == Len(hist[p])

(* minRollbackSpacing, from the prediction window. *)
Spacing == IF Rollback < 2 THEN 2 ELSE IF Rollback < 4 THEN Rollback ELSE 4

(* Both NO_INPUT flags are up once a knock-out has been simulated; from then on the   *)
(* game ignores what it is given.                                                    *)
Neutral == [q \in Peers |-> 0]
Over(h) == \E i \in DOMAIN h : h[i][1] = Attack /\ h[i][2] # Attack
Play(h, inputs) == Append(h, IF Over(h) THEN Neutral ELSE inputs)

(* What writeGameInput hands the game for a frame. *)
Inputs(p, ownC, remoteC, frame) ==
  [q \in Peers |-> Get(IF q = p THEN ownC ELSE remoteC, 0, frame)]

Init ==
  /\ hist = [p \in Peers |-> << >>]
  /\ pc = [p \in Peers |-> "top"]
  /\ own = [p \in Peers |-> EmptyContainer]
  /\ remote = [p \in Peers |-> EmptyContainer]
  /\ states = [p \in Peers |-> << >>]
  /\ timer = [p \in Peers |-> Spacing]
  /\ stop = [p \in Peers |-> NoFrame]
  /\ over = [p \in Peers |-> -1]
  /\ sent = [p \in Peers |-> {}]

-----------------------------------------------------------------------------
(* checkRoundOver, at the top of every InGame frame, rerun or not. *)

(* Mutant: the delay leaves the prediction window out. *)
CheckRoundOver_MarginOnly(p) ==
  IF ~ Over(hist[p]) THEN -1
  ELSE IF over[p] < 0 THEN Margin ELSE over[p]

CheckRoundOver(p) ==
  IF ~ Over(hist[p]) THEN -1
  ELSE IF over[p] < 0 THEN Rollback + Margin ELSE over[p]

RoundIsOver(p) == Over(hist[p]) /\ over[p] = 0

(* Mutant: a full pool always drops its oldest state. *)
Saved_DropsOldest(list, h, remoteFrame) ==
  Append(IF Len(list) < NumStates THEN list ELSE Tail(list), h)

(* saveState: push the state; a full pool first drops the second oldest, or the      *)
(* oldest when that is past the last frame known of the opponent.                    *)
Saved(list, h, remoteFrame) ==
  LET kept == IF Len(list) < NumStates THEN list
              ELSE IF Len(list) > 1 /\ Len(Head(list)) <= remoteFrame
                   THEN << Head(list) >> \o SubSeq(list, 3, Len(list))
                   ELSE Tail(list)
  IN  Append(kept, h)

(* getRemoteFrame *)
RemoteFrame(c) == IF LastEndFrame(c) > 0 THEN LastEndFrame(c) - 1 ELSE 0

(* getInputs: the last window of what the container holds. *)
Window(c) ==
  LET end == EndFrame(c, 0)
      start == IF end < NumInputs THEN 0 ELSE end - NumInputs
  IN  [start |-> start, batch |-> GetBatch(c, 0, start, end - start, << >>)]

(* Mutant: the trigger is cleared at the top of a frame when the spacing is over,     *)
(* as the disabled step 1a of frameStep did.                                          *)
StartFrame_ClearsTrigger(p, input) ==
  /\ pc[p] = "top"
  /\ stop[p] = NoFrame
  /\ ~ RoundIsOver(p)
  /\ Frame(p) < MaxFrame
  /\ LET checked == CheckRoundOver(p)
     IN  over' = [over EXCEPT ![p] = IF checked > 0 THEN checked - 1 ELSE checked]
  /\ states' = [states EXCEPT ![p] = Saved(@, hist[p], RemoteFrame(remote[p]))]
  /\ own' = [own EXCEPT ![p] = SetOnce(@, 0, Frame(p) + Delay, input)]
  /\ sent' = [sent EXCEPT ![p] = @ \cup {Window(own'[p])}]
  /\ pc' = [pc EXCEPT ![p] = "gate"]
  /\ remote' = [remote EXCEPT ![p] = IF timer[p] = Spacing THEN ClearLastChangedFrame(@) ELSE @]
  /\ UNCHANGED << hist, timer, stop >>

(* A normal frame up to the gate: the round-over timer, saveState, setInput at       *)
(* frame + rollbackDelay, sendPlayerInputs.                                          *)
StartFrame(p, input) ==
  /\ pc[p] = "top"
  /\ stop[p] = NoFrame
  /\ ~ RoundIsOver(p)
  /\ Frame(p) < MaxFrame
  /\ LET checked == CheckRoundOver(p)
     IN  over' = [over EXCEPT ![p] = IF checked > 0 THEN checked - 1 ELSE checked]
  /\ states' = [states EXCEPT ![p] = Saved(@, hist[p], RemoteFrame(remote[p]))]
  /\ own' = [own EXCEPT ![p] = SetOnce(@, 0, Frame(p) + Delay, input)]
  /\ sent' = [sent EXCEPT ![p] = @ \cup {Window(own'[p])}]
  /\ pc' = [pc EXCEPT ![p] = "gate"]
  /\ UNCHANGED << hist, remote, timer, stop >>

(* Mutant: the sign of the prediction window is swapped. *)
Ready_Swapped(p) ==
  /\ EndFrame(remote[p], 0) > 0
  /\ EndFrame(remote[p], 0) - 1 >= Frame(p) + Rollback + Delay

(* Mutant: an opponent whose index is ahead does not open the gate. *)
Ready_HereOnly(p) ==
  /\ EndFrame(remote[p], 0) > 0
  /\ EndFrame(remote[p], 0) - 1 + Rollback >= Frame(p)

(* isRemoteInputReady; an opponent whose index is ahead opens the gate. *)
Ready(p) ==
  \/ EndIndex(remote[p]) > 1
  \/ /\ EndFrame(remote[p], 0) > 0
     /\ EndFrame(remote[p], 0) - 1 + Rollback >= Frame(p)

(* Mutant: the countdown stops at 0. *)
Countdown_Stops(t) == IF t \in {0, Spacing} THEN t ELSE t - 1

(* g_rollbackTimer: at rest when full, else down to 0 and full again. *)
Countdown(t) == IF t = Spacing THEN t ELSE IF t = 0 THEN Spacing ELSE t - 1

Diverged(p) == Before(remote[p].changed, IndexedFrame(0, Frame(p)))

(* loadState: the newest state not past the target, or else the oldest. *)
LoadIndex(list, target) ==
  LET fit == {i \in DOMAIN list : Len(list[i]) <= target}
  IN  IF fit = {} THEN 1 ELSE CHOOSE i \in fit : \A j \in fit : j <= i

(* After the gate, no contradiction to correct or too early: simulate the frame. *)
PassGate(p) ==
  /\ pc[p] = "gate"
  /\ Ready(p)
  /\ timer' = [timer EXCEPT ![p] = Countdown(@)]
  /\ ~ (timer'[p] = Spacing /\ Diverged(p))
  /\ hist' = [hist EXCEPT ![p] = Play(@, Inputs(p, own[p], remote[p], Frame(p)))]
  /\ pc' = [pc EXCEPT ![p] = "top"]
  /\ UNCHANGED << own, remote, states, stop, over, sent >>

(* Mutant: the states after the restored one stay in the pool. *)
TriggerRollback_KeepsPool(p) ==
  /\ pc[p] = "gate"
  /\ Ready(p)
  /\ Countdown(timer[p]) = Spacing
  /\ Diverged(p)
  /\ LET loaded == states[p][LoadIndex(states[p], remote[p].changed[2])]
     IN  hist' = [hist EXCEPT ![p] =
                    Play(loaded, Inputs(p, own[p], remote[p], Len(loaded)))]
  /\ stop' = [stop EXCEPT ![p] = Frame(p)]
  /\ remote' = [remote EXCEPT ![p] = ClearLastChangedFrame(@)]
  /\ timer' = [timer EXCEPT ![p] = Spacing - 1]
  /\ pc' = [pc EXCEPT ![p] = "top"]
  /\ UNCHANGED << own, states, over, sent >>

(* After the gate, the rollback: restore, forget the later states and the trigger,   *)
(* and simulate the restored frame with what is known now.                           *)
TriggerRollback(p) ==
  /\ pc[p] = "gate"
  /\ Ready(p)
  /\ Countdown(timer[p]) = Spacing
  /\ Diverged(p)
  /\ LET i == LoadIndex(states[p], remote[p].changed[2])
         loaded == states[p][i]
     IN  /\ states' = [states EXCEPT ![p] = SubSeq(@, 1, i)]
         /\ hist' = [hist EXCEPT ![p] =
                       Play(loaded, Inputs(p, own[p], remote[p], Len(loaded)))]
  /\ stop' = [stop EXCEPT ![p] = Frame(p)]
  /\ remote' = [remote EXCEPT ![p] = ClearLastChangedFrame(@)]
  /\ timer' = [timer EXCEPT ![p] = Spacing - 1]
  /\ pc' = [pc EXCEPT ![p] = "top"]
  /\ UNCHANGED << own, over, sent >>

(* Mutant: the rerun stops one frame early. *)
Rerun_StopsEarly(p) ==
  /\ pc[p] = "top"
  /\ stop[p] # NoFrame
  /\ ~ RoundIsOver(p)
  /\ over' = [over EXCEPT ![p] = CheckRoundOver(p)]
  /\ stop' = [stop EXCEPT ![p] = IF Frame(p) + 1 >= @ THEN NoFrame ELSE @]
  /\ hist' = [hist EXCEPT ![p] = Play(@, Inputs(p, own[p], remote[p], Frame(p)))]
  /\ UNCHANGED << pc, own, remote, states, timer, sent >>

(* A rerun frame: nothing is saved, set or sent, and nothing waits. *)
Rerun(p) ==
  /\ pc[p] = "top"
  /\ stop[p] # NoFrame
  /\ ~ RoundIsOver(p)
  /\ over' = [over EXCEPT ![p] = CheckRoundOver(p)]
  /\ stop' = [stop EXCEPT ![p] = IF Frame(p) >= @ THEN NoFrame ELSE @]
  /\ hist' = [hist EXCEPT ![p] = Play(@, Inputs(p, own[p], remote[p], Frame(p)))]
  /\ UNCHANGED << pc, own, remote, states, timer, sent >>

(* checkRoundOver with the timer run out, in a normal frame or in a rerun: InGame ->  *)
(* Skippable.  The pool is freed and the next transition index begins.                *)
Leave(p) ==
  /\ pc[p] = "top"
  /\ RoundIsOver(p)
  /\ pc' = [pc EXCEPT ![p] = "left"]
  /\ over' = [over EXCEPT ![p] = -1]
  /\ stop' = [stop EXCEPT ![p] = NoFrame]
  /\ states' = [states EXCEPT ![p] = << >>]
  /\ UNCHANGED << hist, own, remote, timer, sent >>

-----------------------------------------------------------------------------
(* drainNetplayInbox, at the top of a frame and in the gate *)

(* Mutant: a batch is stored without the scan for contradictions. *)
Receive_Unchecked(p, msg) ==
  /\ pc[p] # "left"
  /\ msg \in sent[Other(p)]
  /\ remote' = [remote EXCEPT ![p] = SetBatch(@, 0, msg.start, msg.batch, NoIndex)]
  /\ UNCHANGED << hist, pc, own, states, timer, stop, over, sent >>

(* PlayerInputs: any window ever sent may arrive, late, again, or never. *)
Receive(p, msg) ==
  /\ pc[p] # "left"
  /\ msg \in sent[Other(p)]
  /\ remote' = [remote EXCEPT ![p] = SetBatch(@, 0, msg.start, msg.batch, 0)]
  /\ UNCHANGED << hist, pc, own, states, timer, stop, over, sent >>

(* TransitionIndex, reliable: the opponent is at the next index. *)
ReceiveIndex(p) ==
  /\ pc[p] # "left"
  /\ pc[Other(p)] = "left"
  /\ EndIndex(remote[p]) <= 1
  /\ remote' = [remote EXCEPT ![p] = Resize(@, 1, 0, 0)]
  /\ UNCHANGED << hist, pc, own, states, timer, stop, over, sent >>

(* Both have left, or are at the bound: nothing is left to do here. *)
Finished ==
  /\ \A p \in Peers : \/ pc[p] = "left"
                      \/ pc[p] = "top" /\ stop[p] = NoFrame /\ Frame(p) = MaxFrame
  /\ UNCHANGED vars

Next ==
  \/ \E p \in Peers : \E input \in Presses(p, Frame(p)) : StartFrame(p, input)
  \/ \E p \in Peers : PassGate(p)
  \/ \E p \in Peers : TriggerRollback(p)
  \/ \E p \in Peers : Rerun(p)
  \/ \E p \in Peers : Leave(p)
  \/ \E p \in Peers : \E msg \in sent[Other(p)] : Receive(p, msg)
  \/ \E p \in Peers : ReceiveIndex(p)
  \/ Finished

Spec == Init /\ [][Next]_vars

(* The game thread runs while its guards hold. *)
FrameStep(p) ==
  \/ \E input \in Presses(p, Frame(p)) : StartFrame(p, input)
  \/ PassGate(p) \/ TriggerRollback(p) \/ Rerun(p) \/ Leave(p)

(* A peer in its gate sends its last window again and again, and one of them arrives; *)
(* a peer that has left sends no more of this index, but announces the next one.      *)
Newest(p) == Window(own[Other(p)])
Hears(p) ==
  \/ /\ pc[Other(p)] # "left"
     /\ EndFrame(remote[p], 0) < EndFrame(own[Other(p)], 0)
     /\ Receive(p, Newest(p))
  \/ ReceiveIndex(p)

Fairness == \A p \in Peers : WF_vars(FrameStep(p)) /\ WF_vars(Hears(p))

FairSpec == Spec /\ Fairness

-----------------------------------------------------------------------------

(* The frame a peer has reached, whether or not it is rerunning older ones. *)
Reached(p) == IF stop[p] = NoFrame THEN Frame(p) ELSE stop[p] + 1

History == Seq([Peers -> Input])

TypeOK ==
  /\ hist \in [Peers -> History]
  /\ pc \in [Peers -> {"top", "gate", "left"}]
  /\ own \in [Peers -> Container]
  /\ remote \in [Peers -> Container]
  /\ states \in [Peers -> Seq(History)]
  /\ timer \in [Peers -> 0..Spacing]
  /\ stop \in [Peers -> {NoFrame} \cup 0..MaxFrame]
  /\ over \in [Peers -> -1 .. Rollback + Margin]
  /\ sent \in [Peers -> SUBSET [start : Nat, batch : Seq(Input)]]
  /\ \A p \in Peers : Len(hist[p]) <= MaxFrame /\ Len(states[p]) <= NumStates

(* The frame was simulated with the inputs the two players committed to it. *)
IsCommitted(h, frame) ==
  \A q \in Peers : /\ frame < EndFrame(own[q], 0)
                   /\ h[frame + 1][q] = own[q].inputs[1][frame + 1]

(* A frame a peer has no reason to doubt: the opponent's input is known, and no       *)
(* contradiction at or before it is pending.                                        *)
Certain(p, f) == f < EndFrame(remote[p], 0) /\ Before(IndexedFrame(0, f), remote[p].changed)
Settled(p) == {f \in 0 .. Frame(p) - 1 : Certain(p, f)}

(* Whatever was predicted, received late or rerun, every settled frame of either game *)
(* was simulated with what the two players really committed: the two games agree on   *)
(* all they both consider settled, and a confirmed-state hash never differs.          *)
SettledIsCommitted ==
  \A p \in Peers : \A f \in Settled(p) :
    Over(SubSeq(hist[p], 1, f)) \/ IsCommitted(hist[p], f)

(* Not one misprediction is forgotten (setInputs' scan, the trigger and the rerun     *)
(* together): a frame simulated with something else than what its container says now  *)
(* is at or after the pending trigger.                                                *)
UsedOrMarked ==
  \A p \in Peers : \A f \in 0 .. Frame(p) - 1 :
    \/ ~ Before(IndexedFrame(0, f), remote[p].changed)
    \/ hist[p][f + 1] = IF Over(SubSeq(hist[p], 1, f)) THEN Neutral
                        ELSE Inputs(p, own[p], remote[p], f)

(* Every saved state is a past of the current one: no state of an abandoned timeline  *)
(* survives in the pool (loadState erases what follows the state it restores).        *)
PoolIsPast ==
  \A p \in Peers : \A i \in DOMAIN states[p] :
    /\ Len(states[p][i]) <= Frame(p)
    /\ states[p][i] = SubSeq(hist[p], 1, Len(states[p][i]))
    /\ \A j \in 1 .. i - 1 : Len(states[p][j]) < Len(states[p][i])

(* Histories, pool, timers and containers keep their bounds, and the pool its meaning, *)
(* through any number of rollbacks, reruns and evictions.                              *)
Inv == TypeOK /\ PoolIsPast

(* A rollback never lands after its target: the eviction rule of a full pool keeps a  *)
(* state to go back to, so loadState's fallback to the oldest state never corrupts.   *)
RestoresBeforeTarget ==
  [][\A p \in Peers :
       TriggerRollback(p) => Len(hist'[p]) <= remote[p].changed[2] + 1]_vars

(* How far back a rollback can have to go: the prediction window, and the frames      *)
(* played while the spacing timer holds the rollback back.  The pool must hold more.  *)
(* Once the opponent has left, the gate is open and holds nobody back.                *)
CorrectionIsBounded ==
  \A p \in Peers :
    remote[p].changed # MaxIndexedFrame /\ stop[p] = NoFrame /\ (\A q \in Peers : pc[q] # "left") =>
      Frame(p) - remote[p].changed[2] <= Rollback + Spacing - 1

(* Neither gate, rollback, rerun nor the end of a round keeps a peer for ever: each    *)
(* leaves the round, or gets to the bound.                                             *)
BothFinish ==
  <>(\A p \in Peers : pc[p] = "left" \/ (Frame(p) = MaxFrame /\ stop[p] = NoFrame))

-----------------------------------------------------------------------------
(* The end of the round *)

(* The frames up to and including the first knock-out of a history. *)
Fought(h) == {f \in 0 .. Len(h) - 1 : ~ Over(SubSeq(h, 1, f))}

(* The whole fight was simulated with what both players committed, and its end is real.*)
SettledFight(p) == Over(hist[p]) /\ \A f \in Fought(hist[p]) : IsCommitted(hist[p], f)

(* ROLLBACK_ROUND_OVER_DELAY: "to give the rollback system time to correct any        *)
(* misprediction at the round boundary" (checkRoundOver), as the code's comment has it.*)
BoundaryIsCorrected == \A p \in Peers : pc[p] = "left" => SettledFight(p)

(* What the delay is good for, whatever the settings.  The first peer to leave InGame  *)
(* has simulated the real fight up to a real knock-out; so has the second, unless      *)
(* delay and prediction window use up the margin of the delay and the second never     *)
(* heard, or has still to correct, something of the fight that ended for the first.    *)
LeaverIsSettled ==
  \A p \in Peers : pc[p] = "left" =>
    \/ SettledFight(p)
    \/ /\ Delay + Rollback >= Margin
       /\ pc[Other(p)] = "left" /\ SettledFight(Other(p))
       /\ \E f \in Fought(hist[Other(p)]) : ~ Certain(p, f)

(* The same delay, for the peer that stays behind: when its opponent is gone and sends *)
(* this index no more, it lacks at most the last inputs of the fight, as many as delay *)
(* and window have over the margin; and none of it if they stay below the margin.      *)
BoundaryDelivered ==
  \A p \in Peers : pc[Other(p)] = "left" /\ pc[p] # "left" =>
    \A f \in Fought(hist[Other(p)]) : f + Margin <= EndFrame(remote[p], 0) + Delay + Rollback

(* No deadlock, through rollbacks, reruns and the end of the round: until both have    *)
(* left or are at the bound, one of them has a frame to start or to rerun or a round    *)
(* to leave, or finds its gate open, or is at the gate and has yet to hear what the     *)
(* opponent resends, or that the opponent has left (isRemoteInputReady, checkRoundOver).*)
NobodyIsStuck ==
  (\E p \in Peers : pc[p] = "gate" \/ (pc[p] = "top" /\ (stop[p] # NoFrame \/ Frame(p) < MaxFrame))) =>
    \E p \in Peers :
      \/ pc[p] = "top" /\ (RoundIsOver(p) \/ stop[p] # NoFrame \/ Frame(p) < MaxFrame)
      \/ /\ pc[p] = "gate"
         /\ \/ Ready(p)
            \/ IF pc[Other(p)] = "left" THEN EndIndex(remote[p]) <= 1
               ELSE EndFrame(remote[p], 0) < EndFrame(own[Other(p)], 0)

-----------------------------------------------------------------------------
(* What the frame exchange alone promises: the frame a peer has reached moves as in    *)
(* Lockstep.                                                                           *)
Exchange == INSTANCE Lockstep WITH
  frame <- [p \in Peers |-> Reached(p)],
  size <- [p \in Peers |-> EndFrame(own[p], 0)],
  remote <- [p \in Peers |-> EndFrame(remote[p], 0)],
  received <- [p \in Peers |-> 0 .. EndFrame(remote[p], 0) - 1],
  sent <- [p \in Peers |-> {msg.start + Len(msg.batch) - 1 : msg \in sent[p]}]

(* Speculation, rollbacks and reruns are invisible in the exchange of inputs; and no  *)
(* batch ever leaves a hole in the opponent's container.                              *)
RefinesLockstep == Exchange!Spec
=============================================================================
