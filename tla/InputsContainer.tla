-------------------------- MODULE InputsContainer --------------------------
(***************************************************************************)
(* The input history of one player (netplay/inputs_container.hpp).         *)
(*                                                                         *)
(* The C++ object holds a vector of vectors (transition index -> frame ->  *)
(* input) and one IndexedFrame, the earliest position at which a received  *)
(* batch contradicted what was stored or predicted.  Here a container is   *)
(* the record [inputs, changed]; indices and frames are 0-based as in the  *)
(* code, the sequences that hold them are 1-based.                         *)
(***************************************************************************)
EXTENDS Integers, Sequences

CONSTANT
  Input       \* the combined 16-bit inputs a player can hold

ASSUME NeutralInput == 0 \in Input

(* IndexedFrame is a packed u64, the index in the high word: it is ordered  *)
(* lexicographically.  MaxIndexedFrame is "no divergence".                  *)
NoIndex == 1000000
IndexedFrame(index, frame) == <<index, frame>>
MaxIndexedFrame == <<NoIndex, NoIndex>>
Before(a, b) == \/ a[1] < b[1]
                \/ a[1] = b[1] /\ a[2] < b[2]
Earlier(a, b) == IF Before(b, a) THEN b ELSE a

Container == [inputs : Seq(Seq(Input)), changed : (Nat \X Nat)]
EmptyContainer == [inputs |-> << >>, changed |-> MaxIndexedFrame]

-----------------------------------------------------------------------------
(* Queries *)

EndIndex(c) == Len(c.inputs)
Row(c, index) == IF index < EndIndex(c) THEN c.inputs[index + 1] ELSE << >>
EndFrame(c, index) == Len(Row(c, index))

(* The frame count of the last index held, 0 if there is none. *)
LastEndFrame(c) == IF c.inputs = << >> THEN 0 ELSE Len(c.inputs[Len(c.inputs)])

(* The back of the last non-empty index strictly before `index'. *)
LastInputBefore(c, index) ==
  LET held == {i \in 1..Len(c.inputs) : i <= index /\ c.inputs[i] # << >>}
  IN  IF held = {} THEN 0
      ELSE LET last == CHOOSE i \in held : \A j \in held : j <= i
           IN  c.inputs[last][Len(c.inputs[last])]

(* A stored input, or the prediction: the last one known at or before the   *)
(* position asked for.                                                      *)
Get(c, index, frame) ==
  IF EndFrame(c, index) = 0 THEN LastInputBefore(c, index)
  ELSE IF frame >= EndFrame(c, index)
       THEN Row(c, index)[EndFrame(c, index)]
       ELSE Row(c, index)[frame + 1]

(* n stored inputs; the code leaves the caller's buffer alone when they are *)
(* not all there, `unfilled' is what that buffer held.                      *)
GetBatch(c, index, frame, n, unfilled) ==
  IF frame + n > EndFrame(c, index) THEN unfilled
  ELSE SubSeq(Row(c, index), frame + 1, frame + n)

-----------------------------------------------------------------------------
(* Growth.  An index beyond the end brings the ones in between into being,  *)
(* empty.  New slots take the back of their own index; a new index takes    *)
(* the last input of the ones before it; an index that exists and is empty  *)
(* takes 0.                                                                 *)

FillValue(c, index) ==
  IF index >= EndIndex(c) THEN LastInputBefore(c, EndIndex(c))
  ELSE IF EndFrame(c, index) = 0 THEN 0
  ELSE Row(c, index)[EndFrame(c, index)]

Grown(row, size, fill) ==
  [f \in 1..(IF size > Len(row) THEN size ELSE Len(row)) |->
     IF f <= Len(row) THEN row[f] ELSE fill]

Grow(c, index, size) ==
  LET top == IF index >= EndIndex(c) THEN index + 1 ELSE EndIndex(c)
  IN  [inputs  |-> [i \in 1..top |-> IF i = index + 1
                                     THEN Grown(Row(c, index), size, FillValue(c, index))
                                     ELSE Row(c, i - 1)],
       changed |-> c.changed]

Resize(c, index, frame, n) == Grow(c, index, frame + n)

(* Overwrite the slots frame .. frame + Len(batch) - 1, which exist. *)
Overwritten(row, frame, batch) ==
  [f \in 1..Len(row) |-> IF f \in frame + 1 .. frame + Len(batch) THEN batch[f - frame]
                         ELSE row[f]]

Store(c, index, frame, batch) ==
  [inputs  |-> [c.inputs EXCEPT ![index + 1] = Overwritten(Row(c, index), frame, batch)],
   changed |-> c.changed]

-----------------------------------------------------------------------------
(* Writes *)

(* Mutant: a value overwrites one that was there. *)
SetOnce_Overwrites(c, index, frame, t) ==
  Store(Resize(c, index, frame, 1), index, frame, << t >>)

(* set(index, frame, t): a slot that has a value keeps it. *)
SetOnce(c, index, frame, t) ==
  IF frame < EndFrame(c, index) THEN c
  ELSE Store(Resize(c, index, frame, 1), index, frame, << t >>)

(* The frames of a batch that contradict what the container says now. *)
Contradicted(c, index, frame, batch) ==
  {f \in frame .. frame + Len(batch) - 1 : Get(c, index, f) # batch[f - frame + 1]}

(* Mutant: the last contradiction found replaces an earlier one. *)
SetBatch_KeepsLatest(c, index, frame, batch, checkFrom) ==
  LET wrong == Contradicted(c, index, frame, batch)
      first == CHOOSE f \in wrong : \A g \in wrong : f <= g
      stored == Store(Resize(c, index, frame, Len(batch)), index, frame, batch)
  IN  [inputs  |-> stored.inputs,
       changed |-> IF index >= checkFrom /\ wrong # {}
                   THEN IndexedFrame(index, first) ELSE c.changed]

(* set(index, frame, t[], n, checkStartingFromIndex): the scan stops at the *)
(* first contradiction, which lowers `changed'; then the batch is stored.   *)
SetBatch(c, index, frame, batch, checkFrom) ==
  LET wrong   == Contradicted(c, index, frame, batch)
      first   == CHOOSE f \in wrong : \A g \in wrong : f <= g
      changed == IF index >= checkFrom /\ wrong # {}
                 THEN Earlier(c.changed, IndexedFrame(index, first))
                 ELSE c.changed
      stored  == Store(Resize(c, index, frame, Len(batch)), index, frame, batch)
  IN  [inputs |-> stored.inputs, changed |-> changed]

ClearLastChangedFrame(c) == [inputs |-> c.inputs, changed |-> MaxIndexedFrame]

(* eraseIndexOlderThan(index) *)
EraseIndexOlderThan(c, index) ==
  [inputs  |-> IF index + 1 >= Len(c.inputs) THEN << >>
               ELSE SubSeq(c.inputs, index + 1, Len(c.inputs)),
   changed |-> c.changed]
=============================================================================
