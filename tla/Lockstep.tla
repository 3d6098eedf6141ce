------------------------------ MODULE Lockstep ------------------------------
(***************************************************************************)
(* The frame exchange between the two players within one transition index: *)
(* every frame a peer commits its input `Delay' frames ahead, sends the    *)
(* window of its last `NumInputs' committed frames unreliably, and waits   *)
(* at the ready gate until the opponent's inputs reach within `Rollback'   *)
(* frames of its own.  Input values are left to module Rollback: here a    *)
(* container is its size, and a message the last frame of its window.      *)
(*                                                                         *)
(* Code: frameStep (entry/dll_main.cpp), getInputs / setInput / setInputs  *)
(* / isRemoteInputReady (netplay/manager.cpp), sendPlayerInputs.           *)
(***************************************************************************)
EXTENDS Integers

CONSTANTS
  NumInputs,   \* NUM_INPUTS, frames of inputs in a PlayerInputs message
  Delay,       \* config.delay (= rollbackDelay when rollback is on)
  Rollback,    \* config.rollback in InGame, 0 in every other state
  MaxFrame     \* bound: frames a peer plays in this transition index

ASSUME ConstantsAssumption ==
  /\ NumInputs \in Nat \ {0}
  /\ Delay \in Nat
  /\ Rollback \in Nat
  /\ MaxFrame \in Nat

(* What the window needs to cover the worst of the drift the gate allows: two delays *)
(* and two prediction windows.  The code does not check it; theorem NoHoleHolds      *)
(* assumes it.                                                                       *)
WindowFits == 2 * Delay + 2 * Rollback + 2 <= NumInputs

Peers == {1, 2}
Other(p) == 3 - p

VARIABLES
  frame,     \* the frame each peer is at
  pc,        \* "top": about to start frameStep; "gate": inside the ready gate
  size,      \* inputs in the peer's own container for this index
  remote,    \* inputs in the container it keeps for the opponent
  received,  \* frames of the opponent it has really been told
  sent       \* last frames of the windows it has sent

vars == << frame, pc, size, remote, received, sent >>

(* Mutant: the window is one frame short. *)
WindowStart_Short(last) == IF last + 1 < NumInputs THEN 0 ELSE last + 2 - NumInputs

(* getStartFrame of a window that ends at frame `last'. *)
WindowStart(last) == IF last + 1 < NumInputs THEN 0 ELSE last + 1 - NumInputs
Window(last) == WindowStart(last)..last

Init ==
  /\ frame = [p \in Peers |-> 0]
  /\ pc = [p \in Peers |-> "top"]
  /\ size = [p \in Peers |-> 0]
  /\ remote = [p \in Peers |-> 0]
  /\ received = [p \in Peers |-> {}]
  /\ sent = [p \in Peers |-> {}]

(* The first half of frameStep: setInput at frame + delay (a slot that has a value   *)
(* keeps it), then sendPlayerInputs with the last window.  A resend at the gate      *)
(* repeats a message of `sent', which the network may deliver any number of times.   *)
StartFrame(p) ==
  /\ pc[p] = "top"
  /\ frame[p] < MaxFrame
  /\ LET end == IF frame[p] + Delay < size[p] THEN size[p] ELSE frame[p] + Delay + 1
     IN  /\ size' = [size EXCEPT ![p] = end]
         /\ sent' = [sent EXCEPT ![p] = @ \cup {end - 1}]
  /\ pc' = [pc EXCEPT ![p] = "gate"]
  /\ UNCHANGED << frame, remote, received >>

(* Mutants: the window is one frame too wide; its sign is swapped, so that both     *)
(* peers wait for inputs the other cannot have sent.                                *)
Ready_Wide(p) == remote[p] > 0 /\ remote[p] + Rollback >= frame[p]
Ready_Swapped(p) == remote[p] > 0 /\ remote[p] - 1 >= frame[p] + Rollback + Delay

(* isRemoteInputReady: never with nothing of the opponent, and not when the latest   *)
(* input known is more than Rollback frames behind.                                  *)
Ready(p) ==
  /\ remote[p] > 0
  /\ remote[p] - 1 + Rollback >= frame[p]

(* The second half: the gate opens, the frame is simulated, the world timer moves.   *)
PassGate(p) ==
  /\ pc[p] = "gate"
  /\ Ready(p)
  /\ frame' = [frame EXCEPT ![p] = @ + 1]
  /\ pc' = [pc EXCEPT ![p] = "top"]
  /\ UNCHANGED << size, remote, received, sent >>

(* drainNetplayInbox hands one PlayerInputs to setInputs.  The channel is UNRELIABLE *)
(* and UNSEQUENCED: any window ever sent may arrive, late, again, or never.  The     *)
(* container grows to the window's end, whether or not the frames before it came.    *)
Receive(p, last) ==
  /\ last \in sent[Other(p)]
  /\ remote' = [remote EXCEPT ![p] = IF last + 1 > @ THEN last + 1 ELSE @]
  /\ received' = [received EXCEPT ![p] = @ \cup Window(last)]
  /\ UNCHANGED << frame, pc, size, sent >>

(* Both peers have played MaxFrame frames (the bound, not the code, ends here). *)
Finished ==
  /\ \A p \in Peers : frame[p] = MaxFrame
  /\ UNCHANGED vars

Next ==
  \/ \E p \in Peers : StartFrame(p)
  \/ \E p \in Peers : PassGate(p)
  \/ \E p \in Peers : \E last \in sent[Other(p)] : Receive(p, last)
  \/ Finished

Spec == Init /\ [][Next]_vars

(* The game thread runs while its guard holds; the gate resends the last window every *)
(* RESEND_INPUTS_INTERVAL_MS, so the one that ends at the opponent's newest input is  *)
(* sent for ever until it arrives.                                                    *)
Newest(p) == size[Other(p)] - 1

Fairness ==
  \A p \in Peers :
    /\ WF_vars(StartFrame(p))
    /\ WF_vars(PassGate(p))
    /\ WF_vars(remote[p] < size[Other(p)] /\ Receive(p, Newest(p)))

FairSpec == Spec /\ Fairness

-----------------------------------------------------------------------------

TypeOK ==
  /\ frame \in [Peers -> 0..MaxFrame]
  /\ pc \in [Peers -> {"top", "gate"}]
  /\ size \in [Peers -> Nat]
  /\ remote \in [Peers -> Nat]
  /\ received \in [Peers -> SUBSET Nat]
  /\ sent \in [Peers -> SUBSET Nat]

(* The windows of the last NumInputs frames overlap enough: whatever the network loses *)
(* or reorders, every frame below the end of the opponent's container was really sent  *)
(* by the opponent, none was filled in by resize (getInputs / setInputs).              *)
NoHole ==
  \A p \in Peers : received[p] = 0 .. remote[p] - 1

(* The gate bounds how far the two games drift apart (isRemoteInputReady): the leader  *)
(* is ahead by at most its prediction window and the opponent's delay.                 *)
SkewBounded ==
  \A p \in Peers : frame[p] - frame[Other(p)] <= Rollback + Delay + 1

(* A peer never simulates a frame further ahead of its opponent's known inputs than    *)
(* the prediction window, and never one before the opponent's first input.             *)
PredictionBounded ==
  \A p \in Peers : frame[p] > 0 => remote[p] > 0 /\ frame[p] - remote[p] <= Rollback

(* No deadlock: the gate, StartFrame's bound and the containers never leave both peers *)
(* waiting at once.  Until both have played to the end one of them can start its       *)
(* frame, or pass its gate, or has yet to hear an input the other has committed, which *)
(* the resends at the gate bring (isRemoteInputReady and the loop around it).          *)
SomebodyCanGoOn ==
  (\E p \in Peers : frame[p] # MaxFrame) =>
    \E p \in Peers :
      \/ pc[p] = "top" /\ frame[p] < MaxFrame
      \/ pc[p] = "gate" /\ Ready(p)
      \/ remote[p] < size[Other(p)]

(* What the gate owes the two peers, whatever the network does: neither runs away, from *)
(* the other or from what it knows of the other, and the two never block each other     *)
(* (isRemoteInputReady and the loop around it).                                         *)
Inv == TypeOK /\ PredictionBounded /\ SkewBounded /\ SomebodyCanGoOn

(* Nobody waits for ever: with the resends of the gate both peers play to the end. *)
BothFinish == <>(\A p \in Peers : frame[p] = MaxFrame)
=============================================================================
