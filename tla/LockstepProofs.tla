--------------------------- MODULE LockstepProofs ---------------------------
(***************************************************************************)
(* The safety of the frame exchange for every delay, prediction window,    *)
(* length of a match and size of the input window that holds the drift.    *)
(*                                                                         *)
(* What makes the properties inductive is that everything one peer knows   *)
(* chains to everything the other does: a peer's container ends `Delay'    *)
(* past its frame, no message and no knowledge of the opponent goes past   *)
(* the end of the opponent's container, and the frame never goes past that *)
(* knowledge by more than the prediction window.                           *)
(***************************************************************************)
EXTENDS Lockstep, TLAPS

(* A peer's container ends Delay frames past the frame it plays. *)
SizeFollowsFrame ==
  \A p \in Peers :
    size[p] = IF pc[p] = "gate" THEN frame[p] + Delay + 1
              ELSE IF frame[p] = 0 THEN 0 ELSE frame[p] + Delay

GateIsInBound == \A p \in Peers : pc[p] = "gate" => frame[p] < MaxFrame

(* No message and no knowledge is ahead of the container it came from. *)
SentIsHeld == \A p \in Peers : \A last \in sent[p] : last < size[p]
KnownIsHeld == \A p \in Peers : remote[p] <= size[Other(p)]

SafeIInv ==
  /\ TypeOK
  /\ SizeFollowsFrame
  /\ GateIsInBound
  /\ SentIsHeld
  /\ KnownIsHeld
  /\ PredictionBounded

IInv == SafeIInv /\ NoHole

-----------------------------------------------------------------------------
(* The two peers. *)

LEMMA PeerFacts ==
  ASSUME NEW p \in Peers
  PROVE  /\ Other(p) \in Peers
         /\ Other(p) # p
         /\ Other(Other(p)) = p
  BY DEF Peers, Other

LEMMA SafeInit == Init => SafeIInv
  BY ConstantsAssumption
  DEF Init, SafeIInv, TypeOK, SizeFollowsFrame, GateIsInBound, SentIsHeld, KnownIsHeld,
      PredictionBounded, Peers, Other

(* Each action keeps the part that needs nothing of the window's size. *)
LEMMA SafeStartFrame ==
  ASSUME SafeIInv, NEW p \in Peers, StartFrame(p)
  PROVE  SafeIInv'
<1> USE ConstantsAssumption DEF SafeIInv, TypeOK
<1> DEFINE end == frame[p] + Delay + 1
<1>1. /\ size[p] \in Nat /\ frame[p] \in Nat /\ frame[p] < MaxFrame /\ pc[p] = "top"
      /\ end \in Nat
      /\ size[p] <= frame[p] + Delay
  BY DEF StartFrame, SizeFollowsFrame
<1>2. /\ size' = [size EXCEPT ![p] = end]
      /\ sent' = [sent EXCEPT ![p] = @ \cup {end - 1}]
      /\ pc' = [pc EXCEPT ![p] = "gate"]
      /\ UNCHANGED << frame, remote, received >>
  <2>1. ~ frame[p] + Delay < size[p]
    BY <1>1
  <2> QED BY <2>1, Zenon DEF StartFrame
<1>3. TypeOK'
  BY <1>1, <1>2
<1>4. SizeFollowsFrame'
  BY <1>1, <1>2 DEF SizeFollowsFrame
<1>5. GateIsInBound'
  BY <1>1, <1>2 DEF GateIsInBound
<1>6. SentIsHeld'
  BY <1>1, <1>2 DEF SentIsHeld
<1>7. KnownIsHeld'
  <2>1. ASSUME NEW q \in Peers PROVE size[q] <= size'[q] /\ size'[q] \in Nat
    BY <1>1, <1>2
  <2>2. ASSUME NEW q \in Peers PROVE remote'[q] <= size'[Other(q)]
    BY <1>2, <2>1, PeerFacts DEF KnownIsHeld
  <2> QED BY <2>2 DEF KnownIsHeld
<1>8. PredictionBounded'
  BY <1>2 DEF PredictionBounded
<1> QED BY <1>3, <1>4, <1>5, <1>6, <1>7, <1>8

LEMMA SafePassGate ==
  ASSUME SafeIInv, NEW p \in Peers, PassGate(p)
  PROVE  SafeIInv'
<1> USE ConstantsAssumption DEF SafeIInv, TypeOK
<1>1. /\ frame[p] \in Nat /\ remote[p] \in Nat /\ pc[p] = "gate"
      /\ frame[p] < MaxFrame
      /\ remote[p] > 0 /\ remote[p] - 1 + Rollback >= frame[p]
  BY DEF PassGate, Ready, GateIsInBound
<1>2. /\ frame' = [frame EXCEPT ![p] = @ + 1]
      /\ pc' = [pc EXCEPT ![p] = "top"]
      /\ UNCHANGED << size, remote, received, sent >>
  BY DEF PassGate
<1>3. TypeOK'
  BY <1>1, <1>2
<1>4. SizeFollowsFrame'
  BY <1>1, <1>2 DEF SizeFollowsFrame
<1>5. GateIsInBound'
  BY <1>1, <1>2 DEF GateIsInBound
<1>6. SentIsHeld' /\ KnownIsHeld'
  BY <1>2 DEF SentIsHeld, KnownIsHeld
<1>7. PredictionBounded'
  BY <1>1, <1>2 DEF PredictionBounded
<1> QED BY <1>3, <1>4, <1>5, <1>6, <1>7

LEMMA SafeReceive ==
  ASSUME SafeIInv, NEW p \in Peers, NEW last \in sent[Other(p)], Receive(p, last)
  PROVE  SafeIInv'
<1> USE ConstantsAssumption DEF SafeIInv, TypeOK
<1>1. /\ last \in Nat /\ last < size[Other(p)] /\ size[Other(p)] \in Nat
      /\ remote[p] \in Nat
  BY PeerFacts DEF SentIsHeld
<1>2. /\ remote' = [remote EXCEPT ![p] = IF last + 1 > @ THEN last + 1 ELSE @]
      /\ received' = [received EXCEPT ![p] = @ \cup Window(last)]
      /\ UNCHANGED << frame, pc, size, sent >>
  BY DEF Receive
<1>3. Window(last) \subseteq Nat
  BY <1>1 DEF Window, WindowStart
<1>4. TypeOK'
  BY <1>1, <1>2, <1>3
<1>5. SizeFollowsFrame' /\ GateIsInBound' /\ SentIsHeld'
  BY <1>2 DEF SizeFollowsFrame, GateIsInBound, SentIsHeld
<1>6. KnownIsHeld'
  BY <1>1, <1>2, PeerFacts DEF KnownIsHeld
<1>7. PredictionBounded'
  BY <1>1, <1>2 DEF PredictionBounded
<1> QED BY <1>4, <1>5, <1>6, <1>7

LEMMA SafeStep == SafeIInv /\ [Next]_vars => SafeIInv'
<1> SUFFICES ASSUME SafeIInv, [Next]_vars PROVE SafeIInv'
  OBVIOUS
<1>1. CASE \E p \in Peers : StartFrame(p)
  BY <1>1, SafeStartFrame
<1>2. CASE \E p \in Peers : PassGate(p)
  BY <1>2, SafePassGate
<1>3. CASE \E p \in Peers : \E last \in sent[Other(p)] : Receive(p, last)
  BY <1>3, SafeReceive
<1>4. CASE UNCHANGED vars
  BY <1>4 DEF vars, SafeIInv, TypeOK, SizeFollowsFrame, GateIsInBound, SentIsHeld,
              KnownIsHeld, PredictionBounded
<1> QED BY <1>1, <1>2, <1>3, <1>4 DEF Next, Finished

-----------------------------------------------------------------------------
(* What holds whatever the size of the window. *)

(* The gate keeps every simulated frame within the prediction window of the known     *)
(* inputs, for every delay and rollback setting (isRemoteInputReady).                 *)
THEOREM PredictionHolds == Spec => []PredictionBounded
<1>1. SafeIInv => PredictionBounded
  BY DEF SafeIInv
<1> QED BY <1>1, SafeInit, SafeStep, PTL DEF Spec

(* How far the two games can drift apart: the leader knows no more than the other's   *)
(* container holds, which ends Delay frames past the other's frame.                   *)
LEMMA SkewFromSafe == SafeIInv => SkewBounded
<1> SUFFICES ASSUME SafeIInv, NEW p \in Peers
             PROVE  frame[p] - frame[Other(p)] <= Rollback + Delay + 1
  BY DEF SkewBounded
<1>1. /\ frame[p] \in Nat /\ frame[Other(p)] \in Nat /\ remote[p] \in Nat
      /\ size[Other(p)] \in Nat
  BY PeerFacts, ConstantsAssumption DEF SafeIInv, TypeOK
<1>2. size[Other(p)] <= frame[Other(p)] + Delay + 1
  BY <1>1, PeerFacts, ConstantsAssumption DEF SafeIInv, SizeFollowsFrame
<1>3. remote[p] <= size[Other(p)]
  BY DEF SafeIInv, KnownIsHeld
<1>4. frame[p] > 0 => frame[p] - remote[p] <= Rollback
  BY DEF SafeIInv, PredictionBounded
<1> QED BY <1>1, <1>2, <1>3, <1>4, ConstantsAssumption

(* The drift between the two games is bounded (isRemoteInputReady on both sides). *)
THEOREM SkewHolds == Spec => []SkewBounded
  BY SafeInit, SafeStep, SkewFromSafe, PTL DEF Spec

(* The peer that is not ahead of the other is the one to look at: if it stands at the  *)
(* gate and has heard all that the other committed, the other's container, which ends  *)
(* Delay past a frame no smaller than its own, opens the gate.                         *)
LEMMA SlowerCanGoOn ==
  ASSUME SafeIInv, NEW p \in Peers, frame[p] <= frame[Other(p)],
         \E q \in Peers : frame[q] # MaxFrame,
         \A q \in Peers : ~ (pc[q] = "top" /\ frame[q] < MaxFrame),
         \A q \in Peers : ~ remote[q] < size[Other(q)]
  PROVE  pc[p] = "gate" /\ Ready(p)
<1> DEFINE o == Other(p)
<1>1. o \in Peers /\ Other(o) = p /\ Peers = {p, o}
  BY DEF Peers, Other
<1>2. /\ frame[p] \in 0..MaxFrame /\ frame[o] \in 0..MaxFrame
      /\ pc[p] \in {"top", "gate"} /\ pc[o] \in {"top", "gate"}
      /\ size[o] \in Nat /\ remote[p] \in Nat
  BY <1>1 DEF SafeIInv, TypeOK
<1>3. frame[p] < MaxFrame
  <2>1. CASE frame[p] # MaxFrame
    BY <2>1, <1>2, ConstantsAssumption
  <2>2. CASE frame[p] = MaxFrame
    <3>1. frame[o] = MaxFrame
      BY <2>2, <1>2, ConstantsAssumption
    <3> QED BY <3>1, <2>2, <1>1
  <2> QED BY <2>1, <2>2
<1>4. pc[p] = "gate"
  BY <1>2, <1>3
<1>5. remote[p] = size[o]
  <2>1. remote[p] <= size[o]
    BY DEF SafeIInv, KnownIsHeld
  <2> QED BY <2>1, <1>2
<1>6. size[o] > 0 /\ size[o] - 1 + Rollback >= frame[p]
  <2>1. CASE pc[o] = "gate"
    <3>1. size[o] = frame[o] + Delay + 1
      BY <2>1, <1>1 DEF SafeIInv, SizeFollowsFrame
    <3> QED BY <3>1, <1>2, ConstantsAssumption
  <2>2. CASE pc[o] = "top"
    <3>1. frame[o] = MaxFrame /\ frame[o] > frame[p]
      BY <2>2, <1>1, <1>2, <1>3, ConstantsAssumption
    <3>2. frame[o] # 0
      BY <3>1, <1>2, ConstantsAssumption
    <3>3. size[o] = frame[o] + Delay
      BY <2>2, <3>2, <1>1 DEF SafeIInv, SizeFollowsFrame
    <3> QED BY <3>1, <3>3, <1>2, ConstantsAssumption
  <2> QED BY <1>2, <2>1, <2>2
<1>7. remote[p] > 0 /\ remote[p] - 1 + Rollback >= frame[p]
  BY <1>5, <1>6
<1> QED BY <1>4, <1>7 DEF Ready

LEMMA GoesOnFromSafe == SafeIInv => SomebodyCanGoOn
<1> SUFFICES ASSUME SafeIInv, \E q \in Peers : frame[q] # MaxFrame,
                    \A q \in Peers : ~ (pc[q] = "top" /\ frame[q] < MaxFrame),
                    \A q \in Peers : ~ remote[q] < size[Other(q)]
             PROVE  \E p \in Peers : pc[p] = "gate" /\ Ready(p)
  BY DEF SomebodyCanGoOn
<1>1. PICK p \in Peers : frame[p] <= frame[Other(p)]
  <2>1. /\ 1 \in Peers /\ 2 \in Peers /\ Other(1) = 2 /\ Other(2) = 1
        /\ frame[1] \in 0..MaxFrame /\ frame[2] \in 0..MaxFrame
    BY DEF Peers, Other, SafeIInv, TypeOK
  <2>2. frame[1] <= frame[2] \/ frame[2] <= frame[1]
    BY <2>1, ConstantsAssumption
  <2> QED BY <2>1, <2>2
<1> QED BY <1>1, SlowerCanGoOn

(* The two peers never wait for each other at once, whatever the delay, the prediction *)
(* window and the size of the input window, be it too small for the drift: a lost      *)
(* input costs a frame its value, never the match its progress (isRemoteInputReady).   *)
THEOREM NoDeadlock == Spec => []SomebodyCanGoOn
  BY SafeInit, SafeStep, GoesOnFromSafe, PTL DEF Spec

(* Whatever the network loses, repeats or reorders, the gate keeps the two peers        *)
(* together and moving (isRemoteInputReady and the loop around it).                     *)
THEOREM PeersStayTogether == Spec => []Inv
<1>1. SafeIInv => Inv
  BY SkewFromSafe, GoesOnFromSafe DEF SafeIInv, Inv
<1> QED BY <1>1, SafeInit, SafeStep, PTL DEF Spec

-----------------------------------------------------------------------------
(* What holds because the window is large enough. *)

(* The newest frame a peer can be told is at most one full drift past what it knows. *)
LEMMA MessageIsNear ==
  ASSUME SafeIInv, NEW p \in Peers, NEW last \in sent[Other(p)]
  PROVE  last + 1 <= remote[p] + 2 * Delay + 2 * Rollback + 2
<1> DEFINE q == Other(p)
<1>1. /\ q \in Peers /\ Other(q) = p
      /\ frame[p] \in Nat /\ frame[q] \in Nat /\ remote[p] \in Nat /\ remote[q] \in Nat
      /\ size[p] \in Nat /\ size[q] \in Nat /\ last \in Nat
  BY PeerFacts, ConstantsAssumption DEF SafeIInv, TypeOK
<1>2. last + 1 <= size[q]
  BY <1>1 DEF SafeIInv, SentIsHeld
<1>3. size[q] <= frame[q] + Delay + 1 /\ size[p] <= frame[p] + Delay + 1
  BY <1>1, ConstantsAssumption DEF SafeIInv, SizeFollowsFrame
<1>4. frame[q] <= remote[q] + Rollback /\ frame[p] <= remote[p] + Rollback
  BY <1>1, ConstantsAssumption DEF SafeIInv, PredictionBounded
<1>5. remote[q] <= size[p]
  BY <1>1 DEF SafeIInv, KnownIsHeld
<1> HIDE DEF q
<1> QED BY <1>1, <1>2, <1>3, <1>4, <1>5, ConstantsAssumption

LEMMA NoHoleReceive ==
  ASSUME WindowFits, IInv, NEW p \in Peers, NEW last \in sent[Other(p)], Receive(p, last)
  PROVE  NoHole'
<1>1. /\ last \in Nat /\ remote[p] \in Nat
      /\ remote \in [Peers -> Nat] /\ received \in [Peers -> SUBSET Nat]
  BY PeerFacts DEF IInv, SafeIInv, TypeOK
<1>2. WindowStart(last) \in 0 .. remote[p]
  BY <1>1, MessageIsNear, ConstantsAssumption DEF IInv, WindowFits, WindowStart
<1>3. received[p] = 0 .. remote[p] - 1
  BY DEF IInv, NoHole
<1>4. received[p] \cup Window(last)
        = 0 .. (IF last + 1 > remote[p] THEN last + 1 ELSE remote[p]) - 1
  BY <1>1, <1>2, <1>3 DEF Window
<1>5. ASSUME NEW o \in Peers PROVE received'[o] = 0 .. remote'[o] - 1
  <2>1. CASE o = p
    BY <1>1, <1>4, <2>1 DEF Receive
  <2>2. CASE o # p
    BY <1>1, <2>2 DEF Receive, IInv, NoHole
  <2> QED BY <2>1, <2>2
<1> QED BY <1>5 DEF NoHole

LEMMA NoHoleInit == Init => NoHole
  BY DEF Init, NoHole

LEMMA NoHoleStep == ASSUME WindowFits PROVE IInv /\ [Next]_vars => IInv'
<1> SUFFICES ASSUME IInv, [Next]_vars PROVE NoHole'
  BY SafeStep DEF IInv
<1>1. CASE \E p \in Peers : StartFrame(p) \/ PassGate(p)
  BY <1>1 DEF StartFrame, PassGate, IInv, NoHole
<1>2. CASE \E p \in Peers : \E last \in sent[Other(p)] : Receive(p, last)
  BY <1>2, NoHoleReceive
<1>3. CASE UNCHANGED vars
  BY <1>3 DEF vars, IInv, NoHole
<1> QED BY <1>1, <1>2, <1>3 DEF Next, Finished

(* When two delays and two prediction windows fit the NUM_INPUTS of a message, no      *)
(* loss, duplication or reordering of PlayerInputs leaves a filled-in slot among the   *)
(* opponent's inputs (getInputs, setInputs, isRemoteInputReady together).              *)
THEOREM NoHoleHolds == ASSUME WindowFits PROVE Spec => []NoHole
<1>1. Init => IInv
  BY SafeInit, NoHoleInit DEF IInv
<1>2. IInv => NoHole
  BY DEF IInv
<1>3. IInv /\ [Next]_vars => IInv'
  BY NoHoleStep
<1> QED BY <1>1, <1>2, <1>3, PTL DEF Spec
=============================================================================
