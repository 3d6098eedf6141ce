---------------------------- MODULE ContainerUse ----------------------------
(***************************************************************************)
(* One player's InputsContainer under the calls NetplayManager makes on    *)
(* it, in any order.  The local player's container gets one input a frame  *)
(* (set); the remote player's gets batches, the peer's TransitionIndex and *)
(* the end of a rollback; both lose old indices on the entry into Loading. *)
(* Ghost variables keep what was written explicitly and which stored or    *)
(* predicted inputs a batch has contradicted, independently of how the     *)
(* container computes its answers.                                         *)
(***************************************************************************)
EXTENDS InputsContainer, FiniteSets

CONSTANTS
  MaxIndex,   \* bound: indices 0 .. MaxIndex
  MaxFrame,   \* bound: frames 0 .. MaxFrame of an index
  MaxBatch    \* bound: inputs in one received batch

(* No index reaches the one of MaxIndexedFrame. *)
ASSUME UseBounds == MaxIndex \in 0 .. NoIndex - 1 /\ MaxFrame \in Nat /\ MaxBatch \in Nat \ {0}

VARIABLES
  remote,     \* is this the remote player's container
  c,          \* the container
  cur,        \* the current transition index, relative to _startIndex
  written,    \* ghost: <<index, frame>> -> the input last written there by a call
  wrong       \* ghost: positions a checked batch contradicted since the last clear,
              \* by the number their index had then

vars == << remote, c, cur, written, wrong >>

Indices == 0..MaxIndex
Frames  == 0..MaxFrame
Batches == UNION {[1..n -> Input] : n \in 1..MaxBatch}

Remember(index, frame, batch) ==
  [p \in DOMAIN written \cup {<<index, f>> : f \in frame .. frame + Len(batch) - 1} |->
     IF p[1] = index /\ p[2] \in frame .. frame + Len(batch) - 1
     THEN batch[p[2] - frame + 1] ELSE written[p]]

Init ==
  /\ remote \in BOOLEAN
  /\ c = EmptyContainer
  /\ cur = 0
  /\ written = << >>
  /\ wrong = {}

(* setInputLocked: the local player's input of a frame, never changed once set. *)
SetInput(frame, t) ==
  /\ ~ remote
  /\ c' = SetOnce(c, cur, frame, t)
  /\ written' = IF frame < EndFrame(c, cur) THEN written ELSE Remember(cur, frame, << t >>)
  /\ UNCHANGED << remote, cur, wrong >>

(* setInputsLocked: batches of the previous index are stored unchecked, those of the *)
(* current one and of later ones are checked when the game is in rollback.          *)
SetInputs(index, frame, batch, inRollback) ==
  /\ remote
  /\ index + 1 >= cur
  /\ frame + Len(batch) - 1 <= MaxFrame
  /\ LET from == IF inRollback THEN cur ELSE NoIndex
     IN  /\ c' = SetBatch(c, index, frame, batch, from)
         /\ wrong' = IF index >= from
                     THEN wrong \cup {<<index, f>> : f \in Contradicted(c, index, frame, batch)}
                     ELSE wrong
  /\ written' = Remember(index, frame, batch)
  /\ UNCHANGED << remote, cur >>

(* setRemoteIndexLocked: room for an index, no input. *)
SetRemoteIndex(index) ==
  /\ remote
  /\ c' = Resize(c, index, 0, 0)
  /\ UNCHANGED << remote, cur, written, wrong >>

(* clearLastChangedFrameLocked, after a rollback *)
ClearChanged ==
  /\ c.changed # MaxIndexedFrame
  /\ c' = ClearLastChangedFrame(c)
  /\ wrong' = {}
  /\ UNCHANGED << remote, cur, written >>

(* setStateLocked into a state that is not Loading *)
NextIndex ==
  /\ cur < MaxIndex
  /\ cur' = cur + 1
  /\ UNCHANGED << remote, c, written, wrong >>

(* setStateLocked into Loading: the index moves on, everything before `offset' goes, *)
(* and what is kept is renumbered; a trigger that is pending is not.                  *)
EnterLoading(offset) ==
  /\ offset > 0 /\ offset <= cur + 1
  /\ cur' = cur + 1 - offset
  /\ c' = EraseIndexOlderThan(c, offset)
  /\ written' =
       [p \in {q \in Indices \X Frames : <<q[1] + offset, q[2]>> \in DOMAIN written
                                         /\ EndIndex(c) > offset + 1} |->
          written[<<p[1] + offset, p[2]>>]]
  /\ UNCHANGED << remote, wrong >>

Next ==
  \/ \E frame \in Frames, t \in Input : SetInput(frame, t)
  \/ \E index \in Indices, frame \in Frames, batch \in Batches, inRollback \in BOOLEAN :
        SetInputs(index, frame, batch, inRollback)
  \/ \E index \in Indices : SetRemoteIndex(index)
  \/ ClearChanged
  \/ NextIndex
  \/ \E offset \in Indices : EnterLoading(offset)

Spec == Init /\ [][Next]_vars

-----------------------------------------------------------------------------

(* Every row of the container and the trigger have their types. *)
TypeOK ==
  /\ remote \in BOOLEAN
  /\ c \in Container
  /\ cur \in Indices
  /\ DOMAIN written \subseteq Indices \X Frames
  /\ wrong \subseteq Indices \X Frames

(* Whatever sequence of growth, holes, batches and erasures happened, a position that  *)
(* a call wrote reads back as the last value written there (inputs_container.hpp, get).*)
WrittenIsRead ==
  \A p \in DOMAIN written : Get(c, p[1], p[2]) = written[p]

(* No sequence of writes and erasures breaks the container: its rows fit their indices, *)
(* and what was written is there.                                                       *)
Inv == TypeOK /\ WrittenIsRead

(* The rollback trigger is exactly the earliest position any checked batch contradicted *)
(* since it was last cleared: a later batch never hides an earlier contradiction, and   *)
(* nothing else raises it (the scan of set(index, frame, t, n, checkStartingFromIndex)).*)
(* Through Loading too, but then in the old numbering: a contradiction that is pending  *)
(* while indices are erased is neither dropped nor renumbered, so that it then names a  *)
(* frame of a later index, and may give way to a contradiction that comes after it.     *)
TriggerIsEarliestContradiction ==
  c.changed = IF wrong = {} THEN MaxIndexedFrame
              ELSE CHOOSE p \in wrong : \A q \in wrong : ~ Before(q, p)
=============================================================================
