--------------------------- MODULE RollbackProofs ---------------------------
(***************************************************************************)
(* The safety of speculation and correction for every delay, prediction    *)
(* window, size of the pool, length of the round and choice of inputs.     *)
(*                                                                         *)
(* UsedOrMarked is inductive once three things are known of the peer: its  *)
(* own inputs are held up to the frame it plays, so that only the          *)
(* opponent's can change what a frame was simulated with; its pool holds   *)
(* pasts of the current history; and the oldest of them is the state at    *)
(* the first frame, so that a rollback finds one at or before its target.  *)
(*                                                                         *)
(* So an unmarked frame was simulated with what the peer's containers say; *)
(* the second part is that what they say of the opponent's inputs is what  *)
(* the opponent wrote.  A batch that starts past the end of the container  *)
(* would leave predictions in the gap, so that argument is a bound on the  *)
(* drift: the gate keeps a peer within the prediction window of what it    *)
(* knows, which is within the delay of the opponent's frame.               *)
(*                                                                         *)
(* The third is of SyncHash.  NoFalseAlarm compares two hashes made at     *)
(* different times, so the invariant says what a hash is of, wherever it   *)
(* lies: of a history in which every frame is what the two players         *)
(* committed.  Two such histories of one length are equal, and what the    *)
(* players committed is never taken back, so that time does not matter.    *)
(***************************************************************************)
EXTENDS SyncHash, SequenceTheorems, WellFoundedInduction, TLAPS

(* What the operations of a container do to the row of index 0, the only one written *)

LEMMA SmallestIsThere ==
  ASSUME NEW T \in SUBSET Nat, T # {}
  PROVE  \E m \in T : \A k \in T : m <= k
<1>. DEFINE less == OpToRel(<, Nat)
<1>1. IsWellFoundedOn(less, Nat)
  BY NatLessThanWellFounded
<1>2. \A x, y \in Nat : x < y => << x, y >> \in less
  BY DEF OpToRel
<1>. HIDE DEF less
<1>3. PICK m \in T : \A k \in T : << k, m >> \notin less
  BY <1>1, WFMin
<1>4. ASSUME NEW k \in T PROVE m <= k
  <2>1. m \in Nat /\ k \in Nat /\ ~ k < m
    BY <1>2, <1>3
  <2>. QED BY <2>1
<1>. QED BY <1>4

(* The value a frame past the end of a row is read as, and grown with. *)
Predicted(row) == IF row = << >> THEN 0 ELSE row[Len(row)]

ReadRow(row, f) == IF f < Len(row) THEN row[f + 1] ELSE Predicted(row)

(* The frame is at or after the pending trigger. *)
Marked(c, f) == ~ Before(IndexedFrame(0, f), c.changed)

-----------------------------------------------------------------------------
(* Rows *)

LEMMA RowIsHeld ==
  ASSUME NEW c \in Container
  PROVE  Row(c, 0) \in Seq(Input) /\ EndFrame(c, 0) \in Nat
BY DEF Container, Row, EndFrame, EndIndex

LEMMA PredictedIsInput ==
  ASSUME NEW row \in Seq(Input) PROVE Predicted(row) \in Input
BY NeutralInput DEF Predicted

LEMMA GrownIsRow ==
  ASSUME NEW row \in Seq(Input), NEW size \in Nat, NEW fill \in Input
  PROVE  /\ Grown(row, size, fill) \in Seq(Input)
         /\ Len(Grown(row, size, fill)) = IF size > Len(row) THEN size ELSE Len(row)
<1>1. \A f \in 1 .. (IF size > Len(row) THEN size ELSE Len(row)) :
        (IF f <= Len(row) THEN row[f] ELSE fill) \in Input
  OBVIOUS
<1>. QED BY <1>1 DEF Grown

LEMMA OverwrittenIsRow ==
  ASSUME NEW row \in Seq(Input), NEW frame \in Nat, NEW batch \in Seq(Input)
  PROVE  /\ Overwritten(row, frame, batch) \in Seq(Input)
         /\ Len(Overwritten(row, frame, batch)) = Len(row)
<1>1. \A f \in 1 .. Len(row) :
        (IF f \in frame + 1 .. frame + Len(batch) THEN batch[f - frame] ELSE row[f]) \in Input
  OBVIOUS
<1>. QED BY <1>1 DEF Overwritten

-----------------------------------------------------------------------------
(* Containers *)

(* A read is the row's, whatever the other indices hold. *)
LEMMA Reads ==
  ASSUME NEW c \in Container, NEW f \in Nat
  PROVE  Get(c, 0, f) = ReadRow(Row(c, 0), f) /\ Get(c, 0, f) \in Input
<1>1. c.inputs \in Seq(Seq(Input)) /\ Row(c, 0) \in Seq(Input)
  BY RowIsHeld DEF Container
<1>2. LastInputBefore(c, 0) = 0
  BY <1>1 DEF LastInputBefore
<1>. QED BY <1>1, <1>2, NeutralInput DEF Get, EndFrame, ReadRow, Predicted

LEMMA Fills ==
  ASSUME NEW c \in Container PROVE FillValue(c, 0) = Predicted(Row(c, 0))
<1>1. c.inputs \in Seq(Seq(Input)) /\ Row(c, 0) \in Seq(Input)
  BY RowIsHeld DEF Container
<1>2. CASE c.inputs = << >>
  BY <1>2 DEF FillValue, LastInputBefore, EndIndex, Row, Predicted
<1>3. CASE c.inputs # << >>
  BY <1>1, <1>3 DEF FillValue, EndIndex, EndFrame, Predicted
<1>. QED BY <1>2, <1>3

(* To grow index 0 is to grow its row; to bring index 1 into being leaves it alone. *)
LEMMA Grows ==
  ASSUME NEW c \in Container, NEW index \in {0, 1}, NEW size \in Nat, index = 1 => size = 0
  PROVE  /\ Grow(c, index, size) \in Container
         /\ Grow(c, index, size).inputs # << >>
         /\ Grow(c, index, size).changed = c.changed
         /\ Row(Grow(c, index, size), 0)
              = IF index = 0 THEN Grown(Row(c, 0), size, Predicted(Row(c, 0))) ELSE Row(c, 0)
<1>. DEFINE top == IF index >= EndIndex(c) THEN index + 1 ELSE EndIndex(c)
            new == Grown(Row(c, index), size, FillValue(c, index))
            rows == [i \in 1 .. top |-> IF i = index + 1 THEN new ELSE Row(c, i - 1)]
<1>1. c.inputs \in Seq(Seq(Input)) /\ EndIndex(c) \in Nat /\ top \in Nat /\ top >= 1
      /\ top >= index + 1
  BY DEF Container, EndIndex
<1>2. \A i \in 1 .. top : Row(c, i - 1) \in Seq(Input)
  BY <1>1 DEF Row, EndIndex
<1>3. new \in Seq(Input)
  <2>1. CASE index = 0
    BY <2>1, RowIsHeld, Fills, PredictedIsInput, GrownIsRow
  <2>2. CASE index = 1
    <3>1. Row(c, 1) \in Seq(Input)
      BY <1>1 DEF Row, EndIndex
    <3>2. \A f \in 1 .. Len(Row(c, 1)) : Row(c, 1)[f] \in Input
      BY <3>1
    <3>3. new = [f \in 1 .. Len(Row(c, 1)) |-> Row(c, 1)[f]]
      BY <2>2, <3>1 DEF Grown
    <3>. QED BY <3>1, <3>2, <3>3
  <2>. QED BY <2>1, <2>2
<1>. HIDE DEF new
<1>4. rows \in Seq(Seq(Input)) /\ Len(rows) = top
  <2>. DEFINE S == Seq(Input)
  <2>1. \A i \in 1 .. top : (IF i = index + 1 THEN new ELSE Row(c, i - 1)) \in S
    BY <1>2, <1>3
  <2>. HIDE DEF S, top
  <2>2. rows \in Seq(S) /\ Len(rows) = top
    BY <1>1, <2>1
  <2>. QED BY <2>2 DEF S
<1>5. rows[1] = IF index = 0 THEN new ELSE Row(c, 0)
  BY <1>1
<1>6. Grow(c, index, size) = [inputs |-> rows, changed |-> c.changed]
  BY DEF Grow, new
<1>. HIDE DEF rows
<1>7. /\ Grow(c, index, size).inputs = rows
      /\ Grow(c, index, size).changed = c.changed
      /\ Grow(c, index, size) \in Container
  BY <1>4, <1>6 DEF Container
<1>8. Row(Grow(c, index, size), 0) = rows[1]
  BY <1>1, <1>4, <1>7 DEF Row, EndIndex
<1>9. index = 0 => new = Grown(Row(c, 0), size, Predicted(Row(c, 0)))
  BY Fills DEF new
<1>. QED BY <1>1, <1>4, <1>5, <1>7, <1>8, <1>9

LEMMA Stores ==
  ASSUME NEW c \in Container, c.inputs # << >>, NEW frame \in Nat, NEW batch \in Seq(Input)
  PROVE  /\ Store(c, 0, frame, batch) \in Container
         /\ Store(c, 0, frame, batch).changed = c.changed
         /\ Row(Store(c, 0, frame, batch), 0) = Overwritten(Row(c, 0), frame, batch)
<1>. DEFINE row == Overwritten(Row(c, 0), frame, batch)
            rows == [c.inputs EXCEPT ![0 + 1] = row]
<1>1. c.inputs \in Seq(Seq(Input)) /\ Row(c, 0) = c.inputs[1] /\ Row(c, 0) \in Seq(Input)
      /\ Len(c.inputs) \in Nat \ {0}
  BY RowIsHeld DEF Container, Row, EndIndex
<1>2. row \in Seq(Input)
  BY <1>1, OverwrittenIsRow
<1>3. Store(c, 0, frame, batch) = [inputs |-> rows, changed |-> c.changed]
  BY DEF Store
<1>. HIDE DEF row
<1>4. rows \in Seq(Seq(Input)) /\ Len(rows) = Len(c.inputs) /\ rows[1] = row
  BY <1>1, <1>2
<1>. HIDE DEF rows
<1>5. /\ Store(c, 0, frame, batch).inputs = rows
      /\ Store(c, 0, frame, batch).changed = c.changed
      /\ Store(c, 0, frame, batch) \in Container
  BY <1>3, <1>4 DEF Container
<1>. QED BY <1>1, <1>4, <1>5 DEF Row, EndIndex, row

(* A batch that is stored: the row grows to its end and is overwritten. *)
Batched(row, frame, batch) ==
  Overwritten(Grown(row, frame + Len(batch), Predicted(row)), frame, batch)

LEMMA StoresBatch ==
  ASSUME NEW c \in Container, NEW frame \in Nat, NEW batch \in Seq(Input),
         NEW stored, stored = Store(Resize(c, 0, frame, Len(batch)), 0, frame, batch)
  PROVE  /\ stored \in Container /\ stored.changed = c.changed
         /\ Row(stored, 0) = Batched(Row(c, 0), frame, batch)
<1>. DEFINE size == frame + Len(batch)
            grown == Grow(c, 0, size)
<1>1. size \in Nat
  OBVIOUS
<1>2. /\ grown \in Container /\ grown.inputs # << >> /\ grown.changed = c.changed
      /\ Row(grown, 0) = Grown(Row(c, 0), size, Predicted(Row(c, 0)))
  BY <1>1, Grows
<1>3. stored = Store(grown, 0, frame, batch)
  BY DEF Resize
<1>. HIDE DEF grown
<1>. QED BY <1>2, <1>3, Stores DEF Batched
-----------------------------------------------------------------------------
(* Reads before and after a write *)

(* A row that a batch was stored in, frame by frame. *)
IsBatched(new, row, frame, batch) ==
  /\ new \in Seq(Input)
  /\ Len(new) = IF frame + Len(batch) > Len(row) THEN frame + Len(batch) ELSE Len(row)
  /\ \A f \in 0 .. Len(new) - 1 :
       new[f + 1] = IF f \in frame .. frame + Len(batch) - 1 THEN batch[f - frame + 1]
                    ELSE ReadRow(row, f)

LEMMA BatchedReads ==
  ASSUME NEW row \in Seq(Input), NEW frame \in Nat, NEW batch \in Seq(Input)
  PROVE  IsBatched(Batched(row, frame, batch), row, frame, batch)
<1>. DEFINE size == frame + Len(batch)
            grown == Grown(row, size, Predicted(row))
            end == IF size > Len(row) THEN size ELSE Len(row)
<1>1. size \in Nat /\ Len(row) \in Nat /\ Len(batch) \in Nat /\ end \in Nat
  OBVIOUS
<1>2. grown \in Seq(Input) /\ Len(grown) = end
  BY <1>1, PredictedIsInput, GrownIsRow
<1>3. Batched(row, frame, batch) = Overwritten(grown, frame, batch)
  BY DEF Batched
<1>4. ASSUME NEW f \in 0 .. end - 1
      PROVE  grown[f + 1] = ReadRow(row, f)
  BY <1>1 DEF Grown, ReadRow
<1>. HIDE DEF grown
<1>5. Overwritten(grown, frame, batch) \in Seq(Input)
      /\ Len(Overwritten(grown, frame, batch)) = end
  BY <1>2, OverwrittenIsRow
<1>6. ASSUME NEW f \in 0 .. end - 1
      PROVE  Overwritten(grown, frame, batch)[f + 1] =
               IF f \in frame .. frame + Len(batch) - 1 THEN batch[f - frame + 1] ELSE grown[f + 1]
  <2>1. f + 1 \in 1 .. Len(grown)
    BY <1>1, <1>2
  <2>2. (f + 1 \in frame + 1 .. frame + Len(batch)) = (f \in frame .. frame + Len(batch) - 1)
    BY <1>1
  <2>3. (f + 1) - frame = f - frame + 1
    BY <1>1
  <2>. QED BY <2>1, <2>2, <2>3 DEF Overwritten
<1>. HIDE DEF end
<1>7. \A f \in 0 .. end - 1 : Batched(row, frame, batch)[f + 1] =
               IF f \in frame .. frame + Len(batch) - 1 THEN batch[f - frame + 1] ELSE ReadRow(row, f)
  BY <1>3, <1>4, <1>6
<1>. QED BY <1>3, <1>5, <1>7 DEF end, IsBatched

(* If a read of a frame differs after a batch, then the batch has a frame no later that it *)
(* contradicts.                                                                            *)
LEMMA ChangedReadIsContradicted ==
  ASSUME NEW row \in Seq(Input), NEW frame \in Nat, NEW batch \in Seq(Input), NEW f \in Nat,
         ReadRow(Batched(row, frame, batch), f) # ReadRow(row, f)
  PROVE  \E g \in frame .. frame + Len(batch) - 1 :
           g <= f /\ ReadRow(row, g) # batch[g - frame + 1]
<1>. DEFINE new == Batched(row, frame, batch)
            size == frame + Len(batch)
            end == IF size > Len(row) THEN size ELSE Len(row)
<1>1. size \in Nat /\ Len(row) \in Nat /\ Len(batch) \in Nat /\ end \in Nat
  OBVIOUS
<1>2. /\ new \in Seq(Input) /\ Len(new) = end
      /\ \A h \in 0 .. end - 1 :
           new[h + 1] = IF h \in frame .. size - 1 THEN batch[h - frame + 1] ELSE ReadRow(row, h)
  <2>1. IsBatched(new, row, frame, batch)
    BY BatchedReads
  <2>. HIDE DEF new
  <2>. QED BY <2>1 DEF IsBatched
<1>. HIDE DEF new
<1>3. CASE f < end
  <2>1. ReadRow(new, f) = new[f + 1]
    BY <1>2, <1>3 DEF ReadRow
  <2>2. f \in frame .. size - 1 /\ ReadRow(row, f) # batch[f - frame + 1]
    BY <1>1, <1>2, <1>3, <2>1 DEF new
  <2>. QED BY <2>2
<1>4. CASE f >= end /\ end > 0
  <2>. DEFINE last == end - 1
  <2>1. last \in 0 .. end - 1 /\ last <= f
    BY <1>1, <1>4
  <2>2. ReadRow(new, f) = new[last + 1]
    BY <1>1, <1>2, <1>4 DEF ReadRow, Predicted
  <2>3. ReadRow(row, f) = ReadRow(row, last)
    BY <1>1, <1>4 DEF ReadRow, Predicted
  <2>. HIDE DEF last
  <2>4. last \in frame .. size - 1 /\ ReadRow(row, last) # batch[last - frame + 1]
    BY <1>2, <2>1, <2>2, <2>3 DEF new
  <2>. QED BY <2>1, <2>4
<1>5. CASE end = 0
  <2>1. row = << >> /\ new = << >>
    BY <1>1, <1>2, <1>5
  <2>. QED BY <2>1 DEF new
<1>. QED BY <1>1, <1>3, <1>4, <1>5

(* The rule that no misprediction is missed: what a batch changes for a reader is at or    *)
(* after the trigger, and what was is still.                                               *)
LEMMA BatchMarksWhatItChanges ==
  ASSUME NEW c \in Container, NEW frame \in Nat, NEW batch \in Seq(Input),
         NEW new, new = SetBatch(c, 0, frame, batch, 0)
  PROVE  /\ new \in Container
         /\ Row(new, 0) = Batched(Row(c, 0), frame, batch)
         /\ \A f \in Nat : /\ Marked(c, f) => Marked(new, f)
                           /\ Get(new, 0, f) = Get(c, 0, f) \/ Marked(new, f)
<1>. DEFINE wrong == Contradicted(c, 0, frame, batch)
            first == CHOOSE f \in wrong : \A g \in wrong : f <= g
            changed == IF wrong # {} THEN Earlier(c.changed, IndexedFrame(0, first)) ELSE c.changed
            stored == Store(Resize(c, 0, frame, Len(batch)), 0, frame, batch)
<1>1. /\ stored \in Container /\ stored.changed = c.changed
      /\ Row(stored, 0) = Batched(Row(c, 0), frame, batch)
  BY StoresBatch
<1>2. new = [inputs |-> stored.inputs, changed |-> changed]
  BY DEF SetBatch
<1>3. wrong \subseteq Nat
  BY DEF Contradicted
<1>4. ASSUME wrong # {}
      PROVE  first \in wrong /\ \A g \in wrong : first <= g
  <2>. HIDE DEF wrong
  <2>1. \E f \in wrong : \A g \in wrong : f <= g
    BY <1>3, <1>4, SmallestIsThere
  <2>. QED BY <2>1
<1>. HIDE DEF stored, first, wrong
<1>5. c.changed \in Nat \X Nat /\ changed \in Nat \X Nat
  BY <1>3, <1>4 DEF Container, Earlier, IndexedFrame
<1>6. new \in Container /\ new.changed = changed /\ Row(new, 0) = Row(stored, 0)
  BY <1>1, <1>2, <1>5 DEF Container, Row, EndIndex
<1>7. ASSUME NEW f \in Nat, Marked(c, f) PROVE Marked(new, f)
  BY <1>3, <1>4, <1>5, <1>6, <1>7 DEF Marked, Earlier, Before, IndexedFrame
<1>8. ASSUME NEW f \in Nat, Get(new, 0, f) # Get(c, 0, f) PROVE Marked(new, f)
  <2>1. Row(c, 0) \in Seq(Input)
    BY RowIsHeld
  <2>2. Get(new, 0, f) = ReadRow(Batched(Row(c, 0), frame, batch), f)
        /\ Get(c, 0, f) = ReadRow(Row(c, 0), f)
    BY <1>1, <1>6, Reads
  <2>3. PICK g \in frame .. frame + Len(batch) - 1 :
          g <= f /\ ReadRow(Row(c, 0), g) # batch[g - frame + 1]
    BY <1>8, <2>1, <2>2, ChangedReadIsContradicted
  <2>4. g \in Nat /\ Get(c, 0, g) = ReadRow(Row(c, 0), g)
    BY Reads
  <2>5. g \in wrong
    BY <2>3, <2>4 DEF wrong, Contradicted
  <2>6. first \in wrong /\ first <= g /\ wrong # {}
    BY <1>4, <2>5
  <2>7. first \in Nat /\ first <= f /\ changed = Earlier(c.changed, IndexedFrame(0, first))
    BY <1>3, <2>3, <2>4, <2>6
  <2>. QED BY <1>5, <1>6, <2>7 DEF Marked, Earlier, Before, IndexedFrame
<1>. QED BY <1>1, <1>6, <1>7, <1>8

(* Two containers say the same of the frames before `end'. *)
SameReads(new, c, end) == \A f \in 0 .. end - 1 : Get(new, 0, f) = Get(c, 0, f)

(* To write a frame once changes no read of a frame that is held.                          *)
LEMMA SetOnceKeepsHeld ==
  ASSUME NEW c \in Container, NEW frame \in Nat, NEW t \in Input,
         NEW new, new = SetOnce(c, 0, frame, t)
  PROVE  /\ new \in Container
         /\ new.changed = c.changed
         /\ EndFrame(new, 0) = IF frame < EndFrame(c, 0) THEN EndFrame(c, 0) ELSE frame + 1
         /\ SameReads(new, c, EndFrame(c, 0))
<1>1. CASE frame < EndFrame(c, 0)
  BY <1>1 DEF SetOnce, SameReads
<1>2. CASE ~ frame < EndFrame(c, 0)
  <2>. DEFINE batch == << t >>
  <2>1. batch \in Seq(Input) /\ Len(batch) = 1
    OBVIOUS
  <2>2. new = Store(Resize(c, 0, frame, Len(batch)), 0, frame, batch)
    BY <1>2, <2>1 DEF SetOnce
  <2>. HIDE DEF batch
  <2>3. /\ new \in Container /\ new.changed = c.changed
        /\ Row(new, 0) = Batched(Row(c, 0), frame, batch)
    BY <2>1, <2>2, StoresBatch
  <2>4. Row(c, 0) \in Seq(Input) /\ EndFrame(c, 0) = Len(Row(c, 0)) /\ Len(Row(c, 0)) \in Nat
    BY RowIsHeld DEF EndFrame
  <2>5. /\ Row(new, 0) \in Seq(Input) /\ Len(Row(new, 0)) = frame + 1
        /\ \A f \in 0 .. frame : Row(new, 0)[f + 1] =
             IF f \in frame .. frame THEN batch[f - frame + 1] ELSE ReadRow(Row(c, 0), f)
    <3>1. IsBatched(Row(new, 0), Row(c, 0), frame, batch)
      BY <2>1, <2>3, <2>4, BatchedReads
    <3>. QED BY <1>2, <2>1, <2>4, <3>1 DEF IsBatched
  <2>6. ASSUME NEW f \in 0 .. EndFrame(c, 0) - 1
        PROVE  Get(new, 0, f) = Get(c, 0, f)
    <3>1. f \in Nat /\ f < frame /\ f \in 0 .. frame
      BY <1>2, <2>4
    <3>2. Get(new, 0, f) = ReadRow(Row(new, 0), f) /\ Get(c, 0, f) = ReadRow(Row(c, 0), f)
      BY <2>3, <3>1, Reads
    <3>3. ReadRow(Row(new, 0), f) = Row(new, 0)[f + 1]
      BY <2>5, <3>1 DEF ReadRow
    <3>. QED BY <2>5, <3>1, <3>2, <3>3
  <2>. QED BY <1>2, <2>3, <2>5, <2>6 DEF EndFrame, SameReads
<1>. QED BY <1>1, <1>2

(* To clear the trigger changes no read.                                                   *)
LEMMA ClearKeepsRow ==
  ASSUME NEW c \in Container
  PROVE  /\ ClearLastChangedFrame(c) \in Container
         /\ ClearLastChangedFrame(c).changed = MaxIndexedFrame
         /\ Row(ClearLastChangedFrame(c), 0) = Row(c, 0)
BY DEF ClearLastChangedFrame, Container, MaxIndexedFrame, NoIndex, Row, EndIndex

-----------------------------------------------------------------------------
(* What a frame was simulated with *)

(* What a frame of a history should have been simulated with. *)
Used(h, ownC, remoteC, p, f) ==
  h[f + 1] = IF Over(SubSeq(h, 1, f)) THEN Neutral ELSE Inputs(p, ownC, remoteC, f)

UsedIn(h, ownC, remoteC, p) ==
  \A f \in 0 .. Len(h) - 1 : Marked(remoteC, f) \/ Used(h, ownC, remoteC, p, f)

-----------------------------------------------------------------------------
(* Histories *)

LEMMA InputsAreInputs ==
  ASSUME NEW p, NEW ownC \in Container, NEW remoteC \in Container, NEW f \in Nat
  PROVE  Inputs(p, ownC, remoteC, f) \in [Peers -> Input]
<1>1. Get(ownC, 0, f) \in Input /\ Get(remoteC, 0, f) \in Input
  BY Reads
<1>2. ASSUME NEW q \in Peers
      PROVE  Get(IF q = p THEN ownC ELSE remoteC, 0, f) \in Input
  BY <1>1
<1>. QED BY <1>2 DEF Inputs

(* A frame that is played comes after all the others, which stay as they were.           *)
LEMMA PlayExtends ==
  ASSUME NEW h \in History, NEW inputs \in [Peers -> Input], NEW new, new = Play(h, inputs)
  PROVE  /\ new \in History /\ Len(new) = Len(h) + 1
         /\ \A f \in 0 .. Len(h) - 1 : new[f + 1] = h[f + 1]
         /\ \A n \in 0 .. Len(h) : SubSeq(new, 1, n) = SubSeq(h, 1, n)
         /\ SubSeq(new, 1, Len(h)) = h
         /\ new[Len(h) + 1] = IF Over(h) THEN Neutral ELSE inputs
<1>. DEFINE pair == IF Over(h) THEN Neutral ELSE inputs
<1>1. pair \in [Peers -> Input]
  BY NeutralInput DEF Neutral
<1>2. new = Append(h, pair)
  BY DEF Play
<1>. HIDE DEF pair
<1>3. h \in Seq([Peers -> Input]) /\ Len(h) \in Nat
  BY DEF History
<1>4. new \in History /\ Len(new) = Len(h) + 1 /\ new[Len(h) + 1] = pair
  BY <1>1, <1>2, <1>3 DEF History
<1>5. \A f \in 0 .. Len(h) - 1 : new[f + 1] = h[f + 1]
  BY <1>1, <1>2, <1>3
<1>6. ASSUME NEW n \in 0 .. Len(h) PROVE SubSeq(new, 1, n) = SubSeq(h, 1, n)
  BY <1>1, <1>2, <1>3
<1>7. SubSeq(h, 1, Len(h)) = h
  BY <1>3
<1>8. SubSeq(new, 1, Len(h)) = h
  BY <1>3, <1>6, <1>7
<1>. QED BY <1>4, <1>5, <1>6, <1>8 DEF pair

(* The past of a history.                                                                 *)
LEMMA PastIsHistory ==
  ASSUME NEW h \in History, NEW n \in 0 .. Len(h)
  PROVE  LET past == SubSeq(h, 1, n)
         IN  /\ past \in History /\ Len(past) = n
             /\ \A f \in 0 .. n - 1 : past[f + 1] = h[f + 1]
             /\ \A m \in 0 .. n : SubSeq(past, 1, m) = SubSeq(h, 1, m)
BY DEF History

-----------------------------------------------------------------------------
(* What keeps UsedIn *)

LEMMA UsedAfterPlay ==
  ASSUME NEW h \in History, NEW p, NEW ownC \in Container, NEW remoteC \in Container,
         UsedIn(h, ownC, remoteC, p),
         NEW new, new = Play(h, Inputs(p, ownC, remoteC, Len(h)))
  PROVE  UsedIn(new, ownC, remoteC, p)
<1>. DEFINE inputs == Inputs(p, ownC, remoteC, Len(h))
<1>1. Len(h) \in Nat
  BY DEF History
<1>2. inputs \in [Peers -> Input]
  BY <1>1, InputsAreInputs
<1>3. /\ Len(new) = Len(h) + 1
      /\ \A f \in 0 .. Len(h) - 1 : new[f + 1] = h[f + 1]
      /\ \A n \in 0 .. Len(h) : SubSeq(new, 1, n) = SubSeq(h, 1, n)
      /\ SubSeq(new, 1, Len(h)) = h
      /\ new[Len(h) + 1] = IF Over(h) THEN Neutral ELSE inputs
  BY <1>2, PlayExtends
<1>4. ASSUME NEW f \in 0 .. Len(new) - 1
      PROVE  Marked(remoteC, f) \/ Used(new, ownC, remoteC, p, f)
  <2>1. CASE f = Len(h)
    BY <1>3, <2>1 DEF Used
  <2>2. CASE f \in 0 .. Len(h) - 1
    <3>1. f \in 0 .. Len(h)
      BY <1>1, <2>2
    <3>2. new[f + 1] = h[f + 1] /\ SubSeq(new, 1, f) = SubSeq(h, 1, f)
      BY <1>3, <2>2, <3>1
    <3>3. Marked(remoteC, f) \/ Used(h, ownC, remoteC, p, f)
      BY <2>2 DEF UsedIn
    <3>. QED BY <3>2, <3>3 DEF Used
  <2>3. f = Len(h) \/ f \in 0 .. Len(h) - 1
    BY <1>1, <1>3
  <2>. QED BY <2>1, <2>2, <2>3
<1>. QED BY <1>4 DEF UsedIn

LEMMA UsedOfReads ==
  ASSUME NEW h \in History, NEW p, NEW own1, NEW remote1, NEW own2, NEW remote2,
         UsedIn(h, own1, remote1, p),
         \A f \in 0 .. Len(h) - 1 :
           /\ Get(own2, 0, f) = Get(own1, 0, f)
           /\ Get(remote2, 0, f) = Get(remote1, 0, f) \/ Marked(remote2, f)
           /\ Marked(remote1, f) => Marked(remote2, f)
  PROVE  UsedIn(h, own2, remote2, p)
<1>1. ASSUME NEW f \in 0 .. Len(h) - 1, ~ Marked(remote2, f)
      PROVE  Used(h, own2, remote2, p, f)
  <2>1. Used(h, own1, remote1, p, f)
    BY <1>1 DEF UsedIn
  <2>2. Inputs(p, own2, remote2, f) = Inputs(p, own1, remote1, f)
    BY <1>1 DEF Inputs
  <2>. QED BY <2>1, <2>2 DEF Used
<1>. QED BY <1>1 DEF UsedIn

(* A past that ends before the trigger needs no trigger any more.                          *)
LEMMA UsedInPast ==
  ASSUME NEW h \in History, NEW p, NEW ownC \in Container, NEW remoteC \in Container,
         UsedIn(h, ownC, remoteC, p),
         NEW n \in 0 .. Len(h), \A f \in 0 .. n - 1 : ~ Marked(remoteC, f)
  PROVE  UsedIn(SubSeq(h, 1, n), ownC, ClearLastChangedFrame(remoteC), p)
<1>. DEFINE past == SubSeq(h, 1, n)
            cleared == ClearLastChangedFrame(remoteC)
<1>1. /\ Len(past) = n /\ n \in Nat /\ Len(h) \in Nat
      /\ \A f \in 0 .. n - 1 : past[f + 1] = h[f + 1]
      /\ \A m \in 0 .. n : SubSeq(past, 1, m) = SubSeq(h, 1, m)
  BY PastIsHistory DEF History
<1>2. cleared \in Container /\ Row(cleared, 0) = Row(remoteC, 0)
  BY ClearKeepsRow
<1>. HIDE DEF past, cleared
<1>3. ASSUME NEW f \in 0 .. n - 1
      PROVE  Used(past, ownC, cleared, p, f)
  <2>1. f \in 0 .. Len(h) - 1 /\ f \in 0 .. n /\ f \in Nat
    BY <1>1
  <2>2. Used(h, ownC, remoteC, p, f)
    BY <2>1, <1>3 DEF UsedIn
  <2>3. Get(cleared, 0, f) = Get(remoteC, 0, f)
    BY <1>2, <2>1, Reads
  <2>4. Inputs(p, ownC, cleared, f) = Inputs(p, ownC, remoteC, f)
    BY <2>3 DEF Inputs
  <2>5. past[f + 1] = h[f + 1] /\ SubSeq(past, 1, f) = SubSeq(h, 1, f)
    BY <1>1, <1>3, <2>1
  <2>. QED BY <2>2, <2>4, <2>5 DEF Used
<1>. QED BY <1>1, <1>3 DEF UsedIn, past, cleared
-----------------------------------------------------------------------------
(* The pool *)

(* A list of pasts of a history, each longer than the ones before. *)
IsPool(list, h) ==
  \A i \in DOMAIN list : /\ Len(list[i]) <= Len(h)
                         /\ list[i] = SubSeq(h, 1, Len(list[i]))
                         /\ \A j \in 1 .. i - 1 : Len(list[j]) < Len(list[i])

(* Every state of the list is of a frame before that of the history. *)
IsBelow(list, h) == \A i \in DOMAIN list : Len(list[i]) < Len(h)

LEMMA PoolIsPastOf == PoolIsPast <=> \A p \in Peers : IsPool(states[p], hist[p])
BY DEF PoolIsPast, IsPool, Frame

(* What a full pool keeps: all but its second state.                                       *)
Kept(list) == << Head(list) >> \o SubSeq(list, 3, Len(list))

LEMMA KeptInPool ==
  ASSUME NEW list \in Seq(History), NEW n \in Nat, n = Len(list), n > 1
  PROVE  /\ Kept(list) \in Seq(History) /\ Len(Kept(list)) = n - 1
         /\ Kept(list)[1] = list[1]
         /\ \A i \in 2 .. n - 1 : Kept(list)[i] = list[i + 1]
<1>1. Head(list) = list[1] /\ Head(list) \in History /\ \A i \in 1 .. n : list[i] \in History
  OBVIOUS
<1>. DEFINE rest == SubSeq(list, 3, n)
            first == << Head(list) >>
<1>2. rest \in Seq(History) /\ Len(rest) = n - 2
  <2>1. rest \in Seq(History) /\ Len(rest) = IF 3 <= n THEN n - 3 + 1 ELSE 0
    BY <1>1, SubSeqProperties
  <2>2. (IF 3 <= n THEN n - 3 + 1 ELSE 0) = n - 2
    OBVIOUS
  <2>. QED BY <2>1, <2>2
<1>3. ASSUME NEW i \in 1 .. n - 2 PROVE rest[i] = list[i + 2]
  <2>1. rest[i] = list[3 + i - 1]
    OBVIOUS
  <2>2. 3 + i - 1 = i + 2
    OBVIOUS
  <2>. QED BY <2>1, <2>2
<1>4. first \in Seq(History) /\ Len(first) = 1 /\ first[1] = list[1]
  BY <1>1
<1>5. Kept(list) = first \o rest
  BY DEF Kept
<1>. HIDE DEF rest, first
<1>6. /\ Kept(list) \in Seq(History) /\ Len(Kept(list)) = 1 + (n - 2)
      /\ \A i \in 1 .. 1 + (n - 2) :
           Kept(list)[i] = IF i <= 1 THEN first[i] ELSE rest[i - 1]
  <2>1. /\ first \o rest \in Seq(History)
        /\ Len(first \o rest) = Len(first) + Len(rest)
        /\ \A i \in 1 .. Len(first) + Len(rest) :
             (first \o rest)[i] = IF i <= Len(first) THEN first[i] ELSE rest[i - Len(first)]
    BY <1>2, <1>4, ConcatProperties
  <2>. QED BY <1>2, <1>4, <1>5, <2>1
<1>7. 1 + (n - 2) = n - 1
  OBVIOUS
<1>8. ASSUME NEW i \in 2 .. n - 1 PROVE Kept(list)[i] = list[i + 1]
  <2>1. i \in 1 .. 1 + (n - 2) /\ ~ i <= 1 /\ i - 1 \in 1 .. n - 2 /\ (i - 1) + 2 = i + 1
    OBVIOUS
  <2>. QED BY <1>3, <1>6, <2>1
<1>9. Kept(list)[1] = list[1]
  BY <1>4, <1>6
<1>. QED BY <1>6, <1>7, <1>8, <1>9

LEMMA KeptIsPool ==
  ASSUME NEW list \in Seq(History), NEW n \in Nat, n = Len(list), n > 1, NEW h \in History, IsPool(list, h),
         IsBelow(list, h)
  PROVE  IsPool(Kept(list), h) /\ IsBelow(Kept(list), h)
<1>. DEFINE kept == Kept(list)
<1>1. /\ kept \in Seq(History) /\ Len(kept) = n - 1
      /\ kept[1] = list[1]
      /\ \A i \in 2 .. n - 1 : kept[i] = list[i + 1]
  BY KeptInPool
<1>. HIDE DEF kept
<1>2. ASSUME NEW i \in DOMAIN kept
      PROVE  \E k \in DOMAIN list :
               /\ kept[i] = list[k]
               /\ \A j \in 1 .. i - 1 : \E l \in 1 .. k - 1 : kept[j] = list[l]
  <2>1. CASE i = 1
    BY <1>1, <2>1
  <2>2. CASE i \in 2 .. n - 1
    <3>1. i + 1 \in DOMAIN list /\ kept[i] = list[i + 1]
      BY <1>1, <2>2
    <3>2. ASSUME NEW j \in 1 .. i - 1
          PROVE  \E l \in 1 .. (i + 1) - 1 : kept[j] = list[l]
      <4>1. CASE j = 1
        BY <1>1, <2>2, <4>1
      <4>2. CASE j \in 2 .. n - 1
        <5>1. kept[j] = list[j + 1] /\ j + 1 \in 1 .. (i + 1) - 1
          BY <1>1, <2>2, <4>2
        <5>. QED BY <5>1
      <4>. QED BY <1>1, <2>2, <4>1, <4>2
    <3>. QED BY <3>1, <3>2
  <2>. QED BY <1>1, <2>1, <2>2
<1>3. ASSUME NEW i \in DOMAIN kept
      PROVE  /\ Len(kept[i]) < Len(h)
             /\ Len(kept[i]) <= Len(h)
             /\ kept[i] = SubSeq(h, 1, Len(kept[i]))
             /\ \A j \in 1 .. i - 1 : Len(kept[j]) < Len(kept[i])
  <2>1. PICK k \in DOMAIN list :
          /\ kept[i] = list[k]
          /\ \A j \in 1 .. i - 1 : \E l \in 1 .. k - 1 : kept[j] = list[l]
    BY <1>2
  <2>. QED BY <2>1 DEF IsPool, IsBelow
<1>. QED BY <1>3 DEF IsPool, IsBelow, kept

LEMMA PoolAppend ==
  ASSUME NEW list \in Seq(History), NEW h \in History, IsPool(list, h),
         IsBelow(list, h),
         NEW n \in Nat, n = Len(list)
  PROVE  /\ Append(list, h) \in Seq(History) /\ Len(Append(list, h)) = n + 1
         /\ IsPool(Append(list, h), h)
         /\ Append(list, h)[1] = IF list = << >> THEN h ELSE list[1]
<1>. DEFINE new == Append(list, h)
<1>1. new \in Seq(History) /\ Len(new) = n + 1
      /\ new[n + 1] = h /\ \A i \in 1 .. n : new[i] = list[i]
  OBVIOUS
<1>. HIDE DEF new
<1>2. h = SubSeq(h, 1, Len(h)) /\ Len(h) \in Nat
  BY DEF History
<1>3. ASSUME NEW i \in DOMAIN new
      PROVE  /\ Len(new[i]) <= Len(h)
             /\ new[i] = SubSeq(h, 1, Len(new[i]))
             /\ \A j \in 1 .. i - 1 : Len(new[j]) < Len(new[i])
  <2>1. \A j \in 1 .. i - 1 : j \in DOMAIN list /\ new[j] = list[j]
    BY <1>1
  <2>2. CASE i = n + 1
    BY <1>1, <1>2, <2>2 DEF IsBelow
  <2>3. CASE i \in 1 .. n
    <3>1. i \in DOMAIN list /\ new[i] = list[i]
      BY <1>1, <2>3
    <3>. QED BY <2>1, <3>1 DEF IsPool, IsBelow
  <2>. QED BY <1>1, <2>2, <2>3
<1>4. new[1] = IF list = << >> THEN h ELSE list[1]
  BY <1>1
<1>. QED BY <1>1, <1>3, <1>4 DEF IsPool, new

(* saveState keeps the state at the first frame, and the pool a pool.                      *)
LEMMA SavedIsPool ==
  ASSUME NEW list \in Seq(History), Len(list) <= NumStates, NEW h \in History, NEW f \in Nat,
         IsPool(list, h), IsBelow(list, h),
         IF list = << >> THEN h = << >> ELSE list[1] = << >>,
         NEW new, new = Saved(list, h, f)
  PROVE  /\ new \in Seq(History) /\ Len(new) <= NumStates /\ IsPool(new, h)
         /\ new # << >> /\ new[1] = << >>
<1>. DEFINE n == Len(list)
<1>. NumStates \in Nat /\ NumStates >= 2 /\ n \in Nat
  BY RollbackAssumption
<1>1. CASE n < NumStates
  <2>1. new = Append(list, h)
    BY <1>1 DEF Saved
  <2>2. /\ Append(list, h) \in Seq(History) /\ Len(Append(list, h)) = n + 1
        /\ IsPool(Append(list, h), h)
        /\ Append(list, h)[1] = IF list = << >> THEN h ELSE list[1]
    BY PoolAppend
  <2>3. new # << >>
    BY <2>1, <2>2
  <2>. HIDE DEF n
  <2>. QED BY <1>1, <2>1, <2>2, <2>3
<1>2. CASE ~ n < NumStates
  <2>1. n > 1 /\ list # << >> /\ Head(list) = << >> /\ list[1] = << >>
    BY <1>2
  <2>2. Len(Head(list)) <= f
    BY <2>1
  <2>3. new = Append(Kept(list), h)
    BY <1>2, <2>1, <2>2 DEF Saved, Kept
  <2>4. /\ Kept(list) \in Seq(History) /\ Len(Kept(list)) = n - 1 /\ n - 1 \in Nat
        /\ Kept(list)[1] = << >>
    BY <2>1, KeptInPool
  <2>5. IsPool(Kept(list), h) /\ IsBelow(Kept(list), h)
    BY <2>1, KeptIsPool
  <2>. HIDE DEF n
  <2>6. Kept(list) # << >>
    BY <2>1, <2>4
  <2>7. /\ new \in Seq(History) /\ Len(new) = (n - 1) + 1 /\ IsPool(new, h)
        /\ new[1] = IF Kept(list) = << >> THEN h ELSE Kept(list)[1]
    BY <2>3, <2>4, <2>5, PoolAppend
  <2>8. n <= NumStates /\ (n - 1) + 1 = n /\ n # 0
    BY <1>2, <2>1 DEF n
  <2>. QED BY <2>4, <2>6, <2>7, <2>8
<1>. QED BY <1>1, <1>2

(* A pool up to one of its states is a pool of any game that goes on from that state.      *)
LEMMA RestoredIsPool ==
  ASSUME NEW list \in Seq(History), NEW h \in History, IsPool(list, h),
         NEW i \in DOMAIN list
  PROVE  LET new == SubSeq(list, 1, i)
         IN  /\ new \in Seq(History) /\ Len(new) = i /\ IsPool(new, list[i])
             /\ new # << >> /\ new[1] = list[1]
<1>. DEFINE new == SubSeq(list, 1, i)
<1>1. i \in 1 .. Len(list) /\ Len(list) \in Nat
  OBVIOUS
<1>2. /\ new \in Seq(History) /\ Len(new) = i /\ DOMAIN new = 1 .. i
      /\ \A j \in 1 .. i : new[j] = list[j] /\ j \in DOMAIN list
  BY <1>1
<1>. HIDE DEF new
<1>3. list[i] \in History /\ Len(list[i]) \in Nat /\ Len(h) \in Nat
      /\ Len(list[i]) \in 0 .. Len(h) /\ list[i] = SubSeq(h, 1, Len(list[i]))
  BY DEF IsPool, History
<1>4. \A m \in 0 .. Len(list[i]) : SubSeq(list[i], 1, m) = SubSeq(h, 1, m)
  BY <1>3, PastIsHistory
<1>5. ASSUME NEW j \in DOMAIN new
      PROVE  /\ Len(new[j]) <= Len(list[i])
             /\ new[j] = SubSeq(list[i], 1, Len(new[j]))
             /\ \A k \in 1 .. j - 1 : Len(new[k]) < Len(new[j])
  <2>1. j \in 1 .. i /\ j \in DOMAIN list /\ new[j] = list[j]
    BY <1>2
  <2>2. list[j] \in History /\ Len(list[j]) \in Nat
    BY <2>1 DEF History
  <2>3. j = i \/ j \in 1 .. i - 1
    BY <1>1, <2>1
  <2>4. Len(list[j]) <= Len(list[i])
    BY <1>3, <2>2, <2>3 DEF IsPool
  <2>5. list[j] = SubSeq(h, 1, Len(list[j]))
    BY <2>1 DEF IsPool
  <2>6. new[j] = SubSeq(list[i], 1, Len(new[j]))
    <3>1. Len(list[j]) \in 0 .. Len(list[i])
      BY <1>3, <2>2, <2>4
    <3>2. SubSeq(list[i], 1, Len(list[j])) = SubSeq(h, 1, Len(list[j]))
      BY <1>4, <3>1
    <3>. QED BY <2>1, <2>5, <3>2
  <2>7. ASSUME NEW k \in 1 .. j - 1 PROVE Len(new[k]) < Len(new[j])
    <3>1. k \in 1 .. i
      BY <1>1, <2>1
    <3>2. new[k] = list[k]
      BY <1>2, <3>1
    <3>. QED BY <2>1, <3>2 DEF IsPool
  <2>. QED BY <2>1, <2>4, <2>6, <2>7
<1>6. new # << >>
  BY <1>1, <1>2
<1>7. IsPool(new, list[i])
  BY <1>5 DEF IsPool
<1>8. new[1] = list[1]
  BY <1>1, <1>2
<1>. QED BY <1>2, <1>6, <1>7, <1>8 DEF new

(* A pool of a game stays one while the game goes on.                                      *)
LEMMA PoolOfLonger ==
  ASSUME NEW list \in Seq(History), NEW h \in History, IsPool(list, h),
         NEW longer \in History, Len(h) <= Len(longer),
         \A n \in 0 .. Len(h) : SubSeq(longer, 1, n) = SubSeq(h, 1, n)
  PROVE  IsPool(list, longer)
<1>. Len(h) \in Nat /\ Len(longer) \in Nat
  BY DEF History
<1>1. ASSUME NEW i \in DOMAIN list
      PROVE  /\ Len(list[i]) <= Len(longer)
             /\ list[i] = SubSeq(longer, 1, Len(list[i]))
             /\ \A j \in 1 .. i - 1 : Len(list[j]) < Len(list[i])
  <2>1. list[i] \in History /\ Len(list[i]) \in Nat
    BY DEF History
  <2>. QED BY <2>1 DEF IsPool
<1>. QED BY <1>1 DEF IsPool
-----------------------------------------------------------------------------
(* What holds of one peer, as a predicate on its variables. *)

Held(h, ownC, at, stopAt) ==
  /\ Len(h) <= EndFrame(ownC, 0)
  /\ at = "gate" => stopAt = NoFrame /\ Len(h) < MaxFrame /\ Len(h) < EndFrame(ownC, 0)
  /\ stopAt # NoFrame =>
       at = "top" /\ Len(h) <= stopAt /\ stopAt < MaxFrame /\ stopAt < EndFrame(ownC, 0)

Kinds(h, list, ownC, remoteC, at, stopAt) ==
  /\ h \in History /\ list \in Seq(History) /\ ownC \in Container /\ remoteC \in Container
  /\ at \in {"top", "gate", "left"} /\ stopAt \in {NoFrame} \cup 0 .. MaxFrame
  /\ Len(h) <= MaxFrame /\ Len(list) <= NumStates

Sound(h, list, ownC, remoteC, at, stopAt, p) ==
  /\ Held(h, ownC, at, stopAt)
  /\ IsPool(list, h)
  /\ UsedIn(h, ownC, remoteC, p)
  /\ at # "left" => IF list = << >> THEN at = "top" /\ stopAt = NoFrame /\ h = << >>
                    ELSE list[1] = << >>
  /\ at = "top" => IsBelow(list, h)

LEMMA StartFrameSound ==
  ASSUME NEW p, NEW h, NEW list, NEW ownC, NEW remoteC, NEW input \in Input, NEW f \in Nat,
         Kinds(h, list, ownC, remoteC, "top", NoFrame),
         Sound(h, list, ownC, remoteC, "top", NoFrame, p),
         Len(h) < MaxFrame,
         NEW list2, list2 = Saved(list, h, f),
         NEW own2, own2 = SetOnce(ownC, 0, Len(h) + Delay, input)
  PROVE  /\ Kinds(h, list2, own2, remoteC, "gate", NoFrame)
         /\ Sound(h, list2, own2, remoteC, "gate", NoFrame, p)
<1>1. /\ h \in History /\ list \in Seq(History) /\ ownC \in Container /\ remoteC \in Container
      /\ Len(h) \in Nat /\ Len(list) <= NumStates /\ Len(h) <= MaxFrame
  BY DEF Kinds, History
<1>2. /\ Len(h) <= EndFrame(ownC, 0) /\ IsPool(list, h) /\ UsedIn(h, ownC, remoteC, p)
      /\ IF list = << >> THEN h = << >> ELSE list[1] = << >>
      /\ IsBelow(list, h)
  BY DEF Sound, Held
<1>3. /\ list2 \in Seq(History) /\ Len(list2) <= NumStates /\ IsPool(list2, h)
      /\ list2 # << >> /\ list2[1] = << >>
  BY <1>1, <1>2, SavedIsPool
<1>. DEFINE ahead == Len(h) + Delay
<1>4. ahead \in Nat /\ ahead >= Len(h)
  BY <1>1, RollbackAssumption
<1>. HIDE DEF ahead
<1>5. /\ own2 \in Container
      /\ EndFrame(own2, 0) = IF ahead < EndFrame(ownC, 0) THEN EndFrame(ownC, 0) ELSE ahead + 1
      /\ SameReads(own2, ownC, EndFrame(ownC, 0))
  <2>1. own2 = SetOnce(ownC, 0, ahead, input)
    BY DEF ahead
  <2>. QED BY <1>1, <1>4, <2>1, SetOnceKeepsHeld
<1>6. EndFrame(ownC, 0) \in Nat /\ EndFrame(own2, 0) \in Nat
  BY <1>1, <1>5, RowIsHeld
<1>7. Len(h) < EndFrame(own2, 0)
  BY <1>1, <1>4, <1>5, <1>6
<1>8. Held(h, own2, "gate", NoFrame)
  BY <1>1, <1>6, <1>7 DEF Held
<1>9. UsedIn(h, own2, remoteC, p)
  <2>1. \A g \in 0 .. Len(h) - 1 : g \in 0 .. EndFrame(ownC, 0) - 1
    BY <1>1, <1>2, <1>6
  <2>2. \A g \in 0 .. Len(h) - 1 :
          /\ Get(own2, 0, g) = Get(ownC, 0, g)
          /\ Get(remoteC, 0, g) = Get(remoteC, 0, g) \/ Marked(remoteC, g)
          /\ Marked(remoteC, g) => Marked(remoteC, g)
    BY <1>5, <2>1 DEF SameReads
  <2>. QED BY <1>1, <1>2, <2>2, UsedOfReads
<1>10. Kinds(h, list2, own2, remoteC, "gate", NoFrame)
  BY <1>1, <1>3, <1>5 DEF Kinds
<1>. QED BY <1>3, <1>8, <1>9, <1>10 DEF Sound

(* A frame that is simulated, after the gate or in a rerun.                               *)
LEMMA PlaySound ==
  ASSUME NEW p, NEW h, NEW list, NEW ownC, NEW remoteC, NEW at, NEW stopAt, NEW stopAt2,
         Kinds(h, list, ownC, remoteC, at, stopAt),
         Sound(h, list, ownC, remoteC, at, stopAt, p),
         \/ at = "gate" /\ stopAt2 = stopAt
         \/ /\ at = "top" /\ stopAt # NoFrame
            /\ stopAt2 = IF Len(h) >= stopAt THEN NoFrame ELSE stopAt,
         NEW new, new = Play(h, Inputs(p, ownC, remoteC, Len(h)))
  PROVE  /\ Kinds(new, list, ownC, remoteC, "top", stopAt2)
         /\ Sound(new, list, ownC, remoteC, "top", stopAt2, p)
<1>1. /\ h \in History /\ list \in Seq(History) /\ ownC \in Container /\ remoteC \in Container
      /\ Len(h) \in Nat /\ Len(list) <= NumStates
      /\ stopAt \in {NoFrame} \cup 0 .. MaxFrame
  BY DEF Kinds, History
<1>2. /\ Held(h, ownC, at, stopAt) /\ IsPool(list, h) /\ UsedIn(h, ownC, remoteC, p)
      /\ list # << >> /\ list[1] = << >>
  BY DEF Sound
<1>3. EndFrame(ownC, 0) \in Nat /\ MaxFrame \in Nat
  BY <1>1, RowIsHeld, RollbackAssumption
<1>4. Inputs(p, ownC, remoteC, Len(h)) \in [Peers -> Input]
  BY <1>1, InputsAreInputs
<1>5. /\ new \in History /\ Len(new) = Len(h) + 1
      /\ \A n \in 0 .. Len(h) : SubSeq(new, 1, n) = SubSeq(h, 1, n)
  BY <1>1, <1>4, PlayExtends
<1>6. UsedIn(new, ownC, remoteC, p)
  BY <1>1, <1>2, UsedAfterPlay
<1>7. IsPool(list, new)
  <2>1. Len(h) <= Len(new)
    BY <1>1, <1>5
  <2>. QED BY <1>1, <1>2, <1>5, <2>1, PoolOfLonger
<1>8. Held(new, ownC, "top", stopAt2) /\ Len(new) <= MaxFrame
      /\ stopAt2 \in {NoFrame} \cup 0 .. MaxFrame
  BY <1>1, <1>2, <1>3, <1>5 DEF Held, NoFrame
<1>9. IsBelow(list, new)
  <2>1. ASSUME NEW i \in DOMAIN list PROVE Len(list[i]) < Len(new)
    <3>1. list[i] \in History /\ Len(list[i]) \in Nat /\ Len(list[i]) <= Len(h)
      BY <1>1, <1>2 DEF History, IsPool
    <3>. QED BY <1>1, <1>5, <3>1
  <2>. QED BY <2>1 DEF IsBelow
<1>10. Kinds(new, list, ownC, remoteC, "top", stopAt2)
  BY <1>1, <1>5, <1>8 DEF Kinds
<1>. QED BY <1>2, <1>6, <1>7, <1>8, <1>9, <1>10 DEF Sound

(* loadState finds a state at or before its target: the first one is at frame 0.          *)
LEMMA LoadIndexFits ==
  ASSUME NEW list \in Seq(History), list # << >>, list[1] = << >>, NEW target \in Nat,
         NEW i, i = LoadIndex(list, target)
  PROVE  i \in DOMAIN list /\ Len(list[i]) <= target
<1>. DEFINE n == Len(list)
            fit == {k \in DOMAIN list : Len(list[k]) <= target}
            back == {m \in Nat : n - m \in fit}
<1>1. n \in Nat /\ n >= 1 /\ 1 \in fit /\ fit \subseteq 1 .. n
  OBVIOUS
<1>. HIDE DEF n, fit
<1>2. n - 1 \in back /\ back \in SUBSET Nat
  BY <1>1
<1>3. PICK m \in back : \A k \in back : m <= k
  BY <1>2, SmallestIsThere
<1>4. n - m \in fit /\ m \in Nat
  OBVIOUS
<1>5. ASSUME NEW j \in fit PROVE j <= n - m
  <2>1. j \in Nat /\ n - j \in Nat /\ n - (n - j) = j
    BY <1>1
  <2>2. n - j \in back
    BY <2>1
  <2>3. m <= n - j
    BY <1>3, <2>2
  <2>. QED BY <1>1, <1>4, <2>1, <2>3
<1>6. \E k \in fit : \A j \in fit : j <= k
  BY <1>4, <1>5
<1>7. i = CHOOSE k \in fit : \A j \in fit : j <= k
  BY <1>1 DEF LoadIndex, fit
<1>8. i \in fit
  BY <1>6, <1>7
<1>. QED BY <1>8 DEF fit

(* The restored game, and its first frame with what is known now.                         *)
LEMMA RestoreSound ==
  ASSUME NEW p, NEW h, NEW list, NEW ownC, NEW remoteC,
         Kinds(h, list, ownC, remoteC, "gate", NoFrame),
         Sound(h, list, ownC, remoteC, "gate", NoFrame, p),
         Before(remoteC.changed, IndexedFrame(0, Len(h))),
         NEW i, i = LoadIndex(list, remoteC.changed[2]),
         NEW new, new = Play(list[i], Inputs(p, ownC, remoteC, Len(list[i]))),
         NEW remote2, remote2 = ClearLastChangedFrame(remoteC)
  PROVE  /\ Kinds(new, SubSeq(list, 1, i), ownC, remote2, "top", Len(h))
         /\ Sound(new, SubSeq(list, 1, i), ownC, remote2, "top", Len(h), p)
         /\ Len(new) <= remoteC.changed[2] + 1
<1>. DEFINE loaded == list[i]
            kept == SubSeq(list, 1, i)
            target == remoteC.changed[2]
<1>1. /\ h \in History /\ list \in Seq(History) /\ ownC \in Container /\ remoteC \in Container
      /\ Len(h) \in Nat /\ Len(list) \in Nat /\ Len(list) <= NumStates /\ NumStates \in Nat
  BY RollbackAssumption DEF Kinds, History
<1>2. /\ Held(h, ownC, "gate", NoFrame) /\ IsPool(list, h) /\ UsedIn(h, ownC, remoteC, p)
      /\ list # << >> /\ list[1] = << >>
  BY DEF Sound
<1>3. remoteC.changed \in Nat \X Nat
  BY <1>1 DEF Container
<1>4. /\ target \in Nat /\ target < Len(h)
      /\ \A f \in 0 .. target - 1 : ~ Marked(remoteC, f)
  BY <1>1, <1>3 DEF Before, IndexedFrame, Marked
<1>. HIDE DEF target
<1>5. i \in DOMAIN list /\ Len(loaded) <= target
  BY <1>1, <1>2, <1>4, LoadIndexFits DEF target
<1>6. loaded \in History /\ Len(loaded) \in Nat /\ loaded = SubSeq(h, 1, Len(loaded))
  <2>1. loaded \in History
    BY <1>1, <1>5
  <2>2. loaded = SubSeq(h, 1, Len(loaded))
    BY <1>2, <1>5 DEF IsPool
  <2>. QED BY <2>1, <2>2 DEF History
<1>7. /\ kept \in Seq(History) /\ Len(kept) = i /\ IsPool(kept, loaded)
      /\ kept # << >> /\ kept[1] = list[1]
  <2>1. i \in 1 .. Len(list) /\ h \in History /\ IsPool(list, h)
    BY <1>1, <1>2, <1>5
  <2>2. i \in DOMAIN list
    BY <1>5
  <2>3. kept = SubSeq(list, 1, i) /\ loaded = list[i]
    OBVIOUS
  <2>. HIDE DEF loaded, kept
  <2>4. kept \in Seq(History) /\ Len(kept) = i /\ IsPool(kept, list[i])
        /\ kept # << >> /\ kept[1] = list[1]
    <3>1. list \in Seq(History) /\ h \in History /\ IsPool(list, h) /\ i \in DOMAIN list
      BY <2>1, <2>2, <1>1
    <3>. QED BY <2>3, <3>1, RestoredIsPool
  <2>. QED BY <2>3, <2>4
<1>8. i <= NumStates
  BY <1>1, <1>5
<1>9. remote2 \in Container /\ Row(remote2, 0) = Row(remoteC, 0)
  BY <1>1, ClearKeepsRow
<1>10. UsedIn(loaded, ownC, remote2, p)
  <2>. DEFINE n == Len(loaded)
  <2>1. n \in 0 .. Len(h) /\ \A f \in 0 .. n - 1 : ~ Marked(remoteC, f)
    BY <1>1, <1>4, <1>5, <1>6
  <2>2. loaded = SubSeq(h, 1, n)
    BY <1>6
  <2>. HIDE DEF n, loaded
  <2>. QED BY <1>1, <1>2, <2>1, <2>2, UsedInPast
<1>. HIDE DEF loaded, kept
<1>11. Inputs(p, ownC, remoteC, Len(loaded)) = Inputs(p, ownC, remote2, Len(loaded))
  BY <1>1, <1>6, <1>9, Reads DEF Inputs
<1>12. new = Play(loaded, Inputs(p, ownC, remote2, Len(loaded)))
  BY <1>11 DEF loaded
<1>13. Inputs(p, ownC, remote2, Len(loaded)) \in [Peers -> Input]
  BY <1>1, <1>6, <1>9, InputsAreInputs
<1>14. /\ new \in History /\ Len(new) = Len(loaded) + 1
       /\ \A n \in 0 .. Len(loaded) : SubSeq(new, 1, n) = SubSeq(loaded, 1, n)
  BY <1>6, <1>12, <1>13, PlayExtends
<1>15. UsedIn(new, ownC, remote2, p)
  BY <1>1, <1>6, <1>9, <1>10, <1>12, UsedAfterPlay
<1>16. IsPool(kept, new)
  <2>1. Len(loaded) <= Len(new)
    BY <1>6, <1>14
  <2>. QED BY <1>6, <1>7, <1>14, <2>1, PoolOfLonger
<1>17. IsBelow(kept, new)
  <2>1. ASSUME NEW k \in DOMAIN kept PROVE Len(kept[k]) < Len(new)
    <3>1. kept[k] \in History /\ Len(kept[k]) \in Nat /\ Len(kept[k]) <= Len(loaded)
      BY <1>7 DEF History, IsPool
    <3>. QED BY <1>6, <1>14, <3>1
  <2>. QED BY <2>1 DEF IsBelow
<1>18. /\ Len(h) < MaxFrame /\ Len(h) < EndFrame(ownC, 0) /\ EndFrame(ownC, 0) \in Nat
       /\ MaxFrame \in Nat /\ Len(new) <= Len(h) /\ Len(new) <= target + 1 /\ Len(new) \in Nat
  BY <1>1, <1>2, <1>4, <1>5, <1>6, <1>14, RowIsHeld, RollbackAssumption DEF Held, loaded
<1>19. Held(new, ownC, "top", Len(h))
  BY <1>1, <1>18 DEF Held
<1>20. Kinds(new, kept, ownC, remote2, "top", Len(h))
  BY <1>1, <1>7, <1>8, <1>9, <1>14, <1>18 DEF Kinds
<1>21. kept[1] = << >>
  BY <1>2, <1>7
<1>. QED BY <1>7, <1>15, <1>16, <1>17, <1>18, <1>19, <1>20, <1>21 DEF Sound, kept, target

(* A batch of the opponent's: what it changes is marked.                                  *)
LEMMA ReceiveSound ==
  ASSUME NEW p, NEW h, NEW list, NEW ownC, NEW remoteC, NEW at, NEW stopAt,
         NEW start \in Nat, NEW batch \in Seq(Input),
         Kinds(h, list, ownC, remoteC, at, stopAt),
         Sound(h, list, ownC, remoteC, at, stopAt, p),
         NEW remote2, remote2 = SetBatch(remoteC, 0, start, batch, 0)
  PROVE  /\ Kinds(h, list, ownC, remote2, at, stopAt)
         /\ Sound(h, list, ownC, remote2, at, stopAt, p)
<1>1. h \in History /\ remoteC \in Container /\ Len(h) \in Nat
  BY DEF Kinds, History
<1>2. /\ remote2 \in Container
      /\ \A f \in Nat : /\ Marked(remoteC, f) => Marked(remote2, f)
                        /\ Get(remote2, 0, f) = Get(remoteC, 0, f) \/ Marked(remote2, f)
  BY <1>1, BatchMarksWhatItChanges
<1>3. UsedIn(h, ownC, remote2, p)
  <2>1. UsedIn(h, ownC, remoteC, p)
    BY DEF Sound
  <2>2. \A f \in 0 .. Len(h) - 1 :
          /\ Get(ownC, 0, f) = Get(ownC, 0, f)
          /\ Get(remote2, 0, f) = Get(remoteC, 0, f) \/ Marked(remote2, f)
          /\ Marked(remoteC, f) => Marked(remote2, f)
    BY <1>1, <1>2
  <2>. QED BY <1>1, <2>1, <2>2, UsedOfReads
<1>. QED BY <1>2, <1>3 DEF Kinds, Sound

(* The opponent's next index comes into being: no read of this one changes.               *)
LEMMA ReceiveIndexSound ==
  ASSUME NEW p, NEW h, NEW list, NEW ownC, NEW remoteC, NEW at, NEW stopAt,
         Kinds(h, list, ownC, remoteC, at, stopAt),
         Sound(h, list, ownC, remoteC, at, stopAt, p),
         NEW remote2, remote2 = Resize(remoteC, 1, 0, 0)
  PROVE  /\ Kinds(h, list, ownC, remote2, at, stopAt)
         /\ Sound(h, list, ownC, remote2, at, stopAt, p)
<1>1. h \in History /\ remoteC \in Container /\ Len(h) \in Nat
  BY DEF Kinds, History
<1>2. /\ remote2 \in Container /\ remote2.changed = remoteC.changed
      /\ Row(remote2, 0) = Row(remoteC, 0)
  <2>. DEFINE one == 1
              none == 0 + 0
  <2>1. one \in {0, 1} /\ none \in Nat /\ none = 0 /\ one # 0
    OBVIOUS
  <2>2. remote2 = Grow(remoteC, one, none)
    BY DEF Resize
  <2>. HIDE DEF one, none
  <2>3. /\ Grow(remoteC, one, none) \in Container
        /\ Grow(remoteC, one, none).changed = remoteC.changed
        /\ Row(Grow(remoteC, one, none), 0) = Row(remoteC, 0)
    BY <1>1, <2>1, Grows
  <2>. QED BY <2>2, <2>3
<1>3. UsedIn(h, ownC, remote2, p)
  <2>1. UsedIn(h, ownC, remoteC, p)
    BY DEF Sound
  <2>2. ASSUME NEW f \in 0 .. Len(h) - 1
        PROVE  /\ Get(ownC, 0, f) = Get(ownC, 0, f)
               /\ Get(remote2, 0, f) = Get(remoteC, 0, f) \/ Marked(remote2, f)
               /\ Marked(remoteC, f) => Marked(remote2, f)
    BY <1>1, <1>2, Reads DEF Marked
  <2>. QED BY <1>1, <2>1, <2>2, UsedOfReads
<1>. QED BY <1>2, <1>3 DEF Kinds, Sound
-----------------------------------------------------------------------------
(* The inductive invariant *)

PeerSound(p) == Sound(hist[p], states[p], own[p], remote[p], pc[p], stop[p], p)

IInv == TypeOK /\ \A p \in Peers : PeerSound(p)

LEMMA KindsOfPeer ==
  ASSUME TypeOK, NEW p \in Peers
  PROVE  /\ Kinds(hist[p], states[p], own[p], remote[p], pc[p], stop[p])
         /\ Frame(p) \in Nat /\ timer[p] \in 0 .. Spacing /\ over[p] \in -1 .. Rollback + Margin
         /\ sent[p] \in SUBSET [start : Nat, batch : Seq(Input)]
BY DEF TypeOK, Kinds, Frame, History

(* Only one peer moves in a step.                                                         *)
LEMMA OnePeerMoves ==
  ASSUME IInv, TypeOK', NEW p \in Peers,
         Sound(hist'[p], states'[p], own'[p], remote'[p], pc'[p], stop'[p], p),
         \A q \in Peers \ {p} :
           /\ hist'[q] = hist[q] /\ states'[q] = states[q] /\ own'[q] = own[q]
           /\ remote'[q] = remote[q] /\ pc'[q] = pc[q] /\ stop'[q] = stop[q]
  PROVE  IInv'
<1>1. ASSUME NEW q \in Peers PROVE PeerSound(q)'
  BY DEF IInv, PeerSound
<1>. QED BY <1>1 DEF IInv

LEMMA WindowIsMessage ==
  ASSUME NEW c \in Container
  PROVE  Window(c) \in [start : Nat, batch : Seq(Input)]
<1>. DEFINE end == EndFrame(c, 0)
            start == IF end < NumInputs THEN 0 ELSE end - NumInputs
<1>1. Row(c, 0) \in Seq(Input) /\ end = Len(Row(c, 0)) /\ end \in Nat
  BY RowIsHeld DEF EndFrame
<1>2. start \in Nat /\ start <= end
  BY <1>1, RollbackAssumption
<1>3. Window(c) = [start |-> start, batch |-> GetBatch(c, 0, start, end - start, << >>)]
  BY DEF Window
<1>. HIDE DEF end, start
<1>4. GetBatch(c, 0, start, end - start, << >>) \in Seq(Input)
  <2>1. start + (end - start) = end
    BY <1>1, <1>2
  <2>2. \A k \in start + 1 .. end : Row(c, 0)[k] \in Input
    BY <1>1, <1>2
  <2>3. SubSeq(Row(c, 0), start + 1, end) \in Seq(Input)
    BY <1>1, <1>2, <2>2
  <2>. QED BY <2>1, <2>3 DEF GetBatch
<1>. QED BY <1>2, <1>3, <1>4

LEMMA Timers ==
  /\ Spacing \in Nat \ {0, 1}
  /\ \A t \in 0 .. Spacing : Countdown(t) \in 0 .. Spacing
  /\ Rollback + Margin \in Nat /\ Rollback + Margin > 0
BY RollbackAssumption DEF Spacing, Countdown

LEMMA InitSound == Init => IInv
<1>. SUFFICES ASSUME Init PROVE IInv
  OBVIOUS
<1>1. EmptyContainer \in Container /\ EndFrame(EmptyContainer, 0) = 0
  BY DEF EmptyContainer, Container, MaxIndexedFrame, NoIndex, EndFrame, Row, EndIndex
<1>2. TypeOK
  <2>1. << >> \in History /\ << >> \in Seq(History) /\ Len(<< >>) = 0
    BY DEF History
  <2>. QED BY <1>1, <2>1, Timers, RollbackAssumption DEF Init, TypeOK, NoFrame
<1>3. ASSUME NEW p \in Peers PROVE PeerSound(p)
  BY <1>1, RollbackAssumption
     DEF Init, PeerSound, Sound, Held, IsPool, UsedIn, IsBelow, NoFrame
<1>. QED BY <1>2, <1>3 DEF IInv

-----------------------------------------------------------------------------
(* One lemma per action *)

LEMMA StartFrameStep ==
  ASSUME IInv, NEW p \in Peers, NEW input \in Presses(p, Frame(p)), StartFrame(p, input)
  PROVE  IInv'
<1>1. /\ Kinds(hist[p], states[p], own[p], remote[p], "top", NoFrame)
      /\ Sound(hist[p], states[p], own[p], remote[p], "top", NoFrame, p)
      /\ Frame(p) \in 0 .. MaxFrame /\ Frame(p) = Len(hist[p]) /\ Len(hist[p]) < MaxFrame
  BY KindsOfPeer DEF IInv, PeerSound, StartFrame, TypeOK, Frame
<1>2. input \in Input
  BY <1>1, RollbackAssumption DEF Peers
<1>3. RemoteFrame(remote[p]) \in Nat
  <2>1. remote[p] \in Container
    BY <1>1 DEF Kinds
  <2>2. LastEndFrame(remote[p]) \in Nat
    BY <2>1 DEF LastEndFrame, Container
  <2>. QED BY <2>2 DEF RemoteFrame
<1>4. /\ states' = [states EXCEPT ![p] = Saved(states[p], hist[p], RemoteFrame(remote[p]))]
      /\ own' = [own EXCEPT ![p] = SetOnce(own[p], 0, Len(hist[p]) + Delay, input)]
      /\ pc' = [pc EXCEPT ![p] = "gate"] /\ stop[p] = NoFrame
      /\ UNCHANGED << hist, remote, timer, stop >>
  BY DEF StartFrame, Frame
<1>5. TypeOK
  BY DEF IInv
<1>6. /\ states'[p] = Saved(states[p], hist[p], RemoteFrame(remote[p]))
      /\ own'[p] = SetOnce(own[p], 0, Len(hist[p]) + Delay, input)
      /\ hist'[p] = hist[p] /\ remote'[p] = remote[p] /\ pc'[p] = "gate" /\ stop'[p] = NoFrame
  BY <1>4, <1>5 DEF TypeOK
<1>7. /\ Kinds(hist[p], states'[p], own'[p], remote[p], "gate", NoFrame)
      /\ Sound(hist[p], states'[p], own'[p], remote[p], "gate", NoFrame, p)
  BY <1>1, <1>2, <1>3, <1>6, StartFrameSound
<1>8. sent' \in [Peers -> SUBSET [start : Nat, batch : Seq(Input)]]
  <2>1. Window(own'[p]) \in [start : Nat, batch : Seq(Input)]
    BY <1>7, WindowIsMessage DEF Kinds
  <2>. QED BY <1>5, <2>1 DEF StartFrame, TypeOK
<1>9. over' \in [Peers -> -1 .. Rollback + Margin]
  <2>1. CheckRoundOver(p) \in -1 .. Rollback + Margin
    <3>1. over[p] \in -1 .. Rollback + Margin
      BY <1>5 DEF TypeOK
    <3>. QED BY <3>1, Timers DEF CheckRoundOver
  <2>. DEFINE checked == CheckRoundOver(p)
              last == Rollback + Margin
              next == IF checked > 0 THEN checked - 1 ELSE checked
  <2>2. last \in Nat /\ over \in [Peers -> -1 .. last] /\ checked \in -1 .. last
    BY <1>5, <2>1, Timers DEF TypeOK
  <2>3. over' = [over EXCEPT ![p] = next]
    BY DEF StartFrame
  <2>. HIDE DEF checked, last
  <2>4. next \in -1 .. last
    BY <2>2
  <2>. HIDE DEF next
  <2>5. over' \in [Peers -> -1 .. last]
    BY <2>2, <2>3, <2>4
  <2>. QED BY <2>5 DEF last
<1>10. TypeOK'
  BY <1>4, <1>5, <1>7, <1>8, <1>9 DEF TypeOK, Kinds
<1>11. \A q \in Peers \ {p} :
         /\ hist'[q] = hist[q] /\ states'[q] = states[q] /\ own'[q] = own[q]
         /\ remote'[q] = remote[q] /\ pc'[q] = pc[q] /\ stop'[q] = stop[q]
  BY <1>4, <1>5 DEF TypeOK
<1>. QED BY <1>6, <1>7, <1>10, <1>11, OnePeerMoves

LEMMA PassGateStep ==
  ASSUME IInv, NEW p \in Peers, PassGate(p)
  PROVE  IInv'
<1>1. TypeOK /\ PeerSound(p) /\ pc[p] = "gate"
  BY DEF IInv, PassGate
<1>2. /\ Kinds(hist[p], states[p], own[p], remote[p], "gate", stop[p])
      /\ Sound(hist[p], states[p], own[p], remote[p], "gate", stop[p], p)
  BY <1>1, KindsOfPeer DEF PeerSound
<1>3. /\ hist' = [hist EXCEPT ![p] = Play(hist[p], Inputs(p, own[p], remote[p], Len(hist[p])))]
      /\ pc' = [pc EXCEPT ![p] = "top"] /\ timer' = [timer EXCEPT ![p] = Countdown(timer[p])]
      /\ UNCHANGED << own, remote, states, stop, over, sent >>
  BY DEF PassGate, Frame
<1>4. /\ hist'[p] = Play(hist[p], Inputs(p, own[p], remote[p], Len(hist[p])))
      /\ pc'[p] = "top" /\ own'[p] = own[p] /\ remote'[p] = remote[p]
      /\ states'[p] = states[p] /\ stop'[p] = stop[p]
  BY <1>1, <1>3 DEF TypeOK
<1>5. /\ Kinds(hist'[p], states[p], own[p], remote[p], "top", stop[p])
      /\ Sound(hist'[p], states[p], own[p], remote[p], "top", stop[p], p)
  BY <1>2, <1>4, PlaySound
<1>6. TypeOK'
  BY <1>1, <1>3, <1>5, Timers DEF TypeOK, Kinds
<1>7. \A q \in Peers \ {p} :
        /\ hist'[q] = hist[q] /\ states'[q] = states[q] /\ own'[q] = own[q]
        /\ remote'[q] = remote[q] /\ pc'[q] = pc[q] /\ stop'[q] = stop[q]
  BY <1>1, <1>3 DEF TypeOK
<1>. QED BY <1>4, <1>5, <1>6, <1>7, OnePeerMoves

LEMMA RerunStep ==
  ASSUME IInv, NEW p \in Peers, Rerun(p)
  PROVE  IInv'
<1>1. TypeOK /\ PeerSound(p) /\ pc[p] = "top" /\ stop[p] # NoFrame
  BY DEF IInv, Rerun
<1>. DEFINE stop2 == IF Len(hist[p]) >= stop[p] THEN NoFrame ELSE stop[p]
<1>2. /\ Kinds(hist[p], states[p], own[p], remote[p], "top", stop[p])
      /\ Sound(hist[p], states[p], own[p], remote[p], "top", stop[p], p)
  BY <1>1, KindsOfPeer DEF PeerSound
<1>3. /\ hist' = [hist EXCEPT ![p] = Play(hist[p], Inputs(p, own[p], remote[p], Len(hist[p])))]
      /\ stop' = [stop EXCEPT ![p] = stop2]
      /\ UNCHANGED << pc, own, remote, states, timer, sent >>
  BY DEF Rerun, Frame
<1>4. /\ hist'[p] = Play(hist[p], Inputs(p, own[p], remote[p], Len(hist[p])))
      /\ pc'[p] = "top" /\ own'[p] = own[p] /\ remote'[p] = remote[p]
      /\ states'[p] = states[p] /\ stop'[p] = stop2
  BY <1>1, <1>3 DEF TypeOK
<1>5. /\ Kinds(hist'[p], states[p], own[p], remote[p], "top", stop2)
      /\ Sound(hist'[p], states[p], own[p], remote[p], "top", stop2, p)
  BY <1>1, <1>2, <1>4, PlaySound
<1>6. over' \in [Peers -> -1 .. Rollback + Margin]
  <2>1. CheckRoundOver(p) \in -1 .. Rollback + Margin
    <3>1. over[p] \in -1 .. Rollback + Margin
      BY <1>1 DEF TypeOK
    <3>. QED BY <3>1, Timers DEF CheckRoundOver
  <2>. QED BY <1>1, <2>1 DEF Rerun, TypeOK
<1>. HIDE DEF stop2
<1>7. TypeOK'
  BY <1>1, <1>3, <1>5, <1>6 DEF TypeOK, Kinds
<1>8. \A q \in Peers \ {p} :
        /\ hist'[q] = hist[q] /\ states'[q] = states[q] /\ own'[q] = own[q]
        /\ remote'[q] = remote[q] /\ pc'[q] = pc[q] /\ stop'[q] = stop[q]
  BY <1>1, <1>3 DEF TypeOK
<1>. QED BY <1>4, <1>5, <1>7, <1>8, OnePeerMoves

LEMMA TriggerRollbackStep ==
  ASSUME IInv, NEW p \in Peers, TriggerRollback(p)
  PROVE  IInv' /\ Len(hist'[p]) <= remote[p].changed[2] + 1
<1>. DEFINE i == LoadIndex(states[p], remote[p].changed[2])
            loaded == states[p][i]
            played == Play(loaded, Inputs(p, own[p], remote[p], Len(loaded)))
<1>1. /\ TypeOK /\ PeerSound(p) /\ pc[p] = "gate"
      /\ Before(remote[p].changed, IndexedFrame(0, Len(hist[p])))
  BY DEF IInv, TriggerRollback, Diverged, Frame
<1>2. /\ Kinds(hist[p], states[p], own[p], remote[p], "gate", NoFrame)
      /\ Sound(hist[p], states[p], own[p], remote[p], "gate", NoFrame, p)
  BY <1>1, KindsOfPeer DEF PeerSound, Sound, Held
<1>3. /\ states' = [states EXCEPT ![p] = SubSeq(states[p], 1, i)]
      /\ hist' = [hist EXCEPT ![p] = played]
      /\ stop' = [stop EXCEPT ![p] = Len(hist[p])]
      /\ remote' = [remote EXCEPT ![p] = ClearLastChangedFrame(remote[p])]
      /\ timer' = [timer EXCEPT ![p] = Spacing - 1]
      /\ pc' = [pc EXCEPT ![p] = "top"]
      /\ UNCHANGED << own, over, sent >>
  BY DEF TriggerRollback, Frame
<1>. HIDE DEF i, loaded, played
<1>4. /\ hist'[p] = played /\ states'[p] = SubSeq(states[p], 1, i)
      /\ stop'[p] = Len(hist[p]) /\ remote'[p] = ClearLastChangedFrame(remote[p])
      /\ pc'[p] = "top" /\ own'[p] = own[p]
  BY <1>1, <1>3 DEF TypeOK
<1>5. /\ Kinds(played, SubSeq(states[p], 1, i), own[p], remote'[p], "top", Len(hist[p]))
      /\ Sound(played, SubSeq(states[p], 1, i), own[p], remote'[p], "top", Len(hist[p]), p)
      /\ Len(played) <= remote[p].changed[2] + 1
  BY <1>1, <1>2, <1>4, RestoreSound DEF i, loaded, played
<1>6. Spacing - 1 \in 0 .. Spacing
  BY Timers
<1>7. TypeOK'
  BY <1>1, <1>3, <1>4, <1>5, <1>6 DEF TypeOK, Kinds
<1>8. \A q \in Peers \ {p} :
        /\ hist'[q] = hist[q] /\ states'[q] = states[q] /\ own'[q] = own[q]
        /\ remote'[q] = remote[q] /\ pc'[q] = pc[q] /\ stop'[q] = stop[q]
  BY <1>1, <1>3 DEF TypeOK
<1>. QED BY <1>4, <1>5, <1>7, <1>8, OnePeerMoves

LEMMA LeaveStep ==
  ASSUME IInv, NEW p \in Peers, Leave(p)
  PROVE  IInv'
<1>1. TypeOK /\ PeerSound(p)
  BY DEF IInv
<1>2. /\ Kinds(hist[p], states[p], own[p], remote[p], pc[p], stop[p])
      /\ Sound(hist[p], states[p], own[p], remote[p], pc[p], stop[p], p)
  BY <1>1, KindsOfPeer DEF PeerSound
<1>3. /\ pc' = [pc EXCEPT ![p] = "left"] /\ over' = [over EXCEPT ![p] = -1]
      /\ stop' = [stop EXCEPT ![p] = NoFrame] /\ states' = [states EXCEPT ![p] = << >>]
      /\ UNCHANGED << hist, own, remote, timer, sent >>
  BY DEF Leave
<1>4. /\ hist'[p] = hist[p] /\ states'[p] = << >> /\ stop'[p] = NoFrame
      /\ remote'[p] = remote[p] /\ pc'[p] = "left" /\ own'[p] = own[p]
  BY <1>1, <1>3 DEF TypeOK
<1>5. Sound(hist'[p], states'[p], own'[p], remote'[p], pc'[p], stop'[p], p)
  <2>1. Held(hist[p], own[p], "left", NoFrame)
    BY <1>2 DEF Sound, Held
  <2>2. IsPool(<< >>, hist[p])
    BY DEF IsPool
  <2>. QED BY <1>2, <1>4, <2>1, <2>2 DEF Sound
<1>6. << >> \in Seq(History) /\ Len(<< >>) = 0 /\ -1 \in -1 .. Rollback + Margin /\ 0 <= NumStates
  BY Timers, RollbackAssumption
<1>7. TypeOK'
  BY <1>1, <1>3, <1>6 DEF TypeOK
<1>8. \A q \in Peers \ {p} :
        /\ hist'[q] = hist[q] /\ states'[q] = states[q] /\ own'[q] = own[q]
        /\ remote'[q] = remote[q] /\ pc'[q] = pc[q] /\ stop'[q] = stop[q]
  BY <1>1, <1>3 DEF TypeOK
<1>. QED BY <1>5, <1>7, <1>8, OnePeerMoves

LEMMA ReceiveStep ==
  ASSUME IInv, NEW p \in Peers, NEW msg \in sent[Other(p)], Receive(p, msg)
  PROVE  IInv'
<1>1. TypeOK /\ PeerSound(p) /\ Other(p) \in Peers
  BY DEF IInv, Other, Peers
<1>2. /\ Kinds(hist[p], states[p], own[p], remote[p], pc[p], stop[p])
      /\ Sound(hist[p], states[p], own[p], remote[p], pc[p], stop[p], p)
  BY <1>1, KindsOfPeer DEF PeerSound
<1>3. /\ remote' = [remote EXCEPT ![p] = SetBatch(remote[p], 0, msg.start, msg.batch, 0)]
      /\ UNCHANGED << hist, pc, own, states, timer, stop, over, sent >>
  BY DEF Receive
<1>4. remote'[p] = SetBatch(remote[p], 0, msg.start, msg.batch, 0)
  BY <1>1, <1>3 DEF TypeOK
<1>5. msg.start \in Nat /\ msg.batch \in Seq(Input)
  <2>1. msg \in [start : Nat, batch : Seq(Input)]
    BY <1>1 DEF TypeOK
  <2>. QED BY <2>1
<1>6. /\ Kinds(hist[p], states[p], own[p], remote'[p], pc[p], stop[p])
      /\ Sound(hist[p], states[p], own[p], remote'[p], pc[p], stop[p], p)
  BY <1>2, <1>4, <1>5, ReceiveSound
<1>7. TypeOK'
  BY <1>1, <1>3, <1>4, <1>6 DEF TypeOK, Kinds
<1>. QED BY <1>1, <1>3, <1>6, <1>7, OnePeerMoves DEF TypeOK

LEMMA ReceiveIndexStep ==
  ASSUME IInv, NEW p \in Peers, ReceiveIndex(p)
  PROVE  IInv'
<1>1. TypeOK /\ PeerSound(p)
  BY DEF IInv
<1>2. /\ Kinds(hist[p], states[p], own[p], remote[p], pc[p], stop[p])
      /\ Sound(hist[p], states[p], own[p], remote[p], pc[p], stop[p], p)
  BY <1>1, KindsOfPeer DEF PeerSound
<1>3. /\ remote' = [remote EXCEPT ![p] = Resize(remote[p], 1, 0, 0)]
      /\ UNCHANGED << hist, pc, own, states, timer, stop, over, sent >>
  BY DEF ReceiveIndex
<1>4. remote'[p] = Resize(remote[p], 1, 0, 0)
  BY <1>1, <1>3 DEF TypeOK
<1>5. /\ Kinds(hist[p], states[p], own[p], remote'[p], pc[p], stop[p])
      /\ Sound(hist[p], states[p], own[p], remote'[p], pc[p], stop[p], p)
  BY <1>2, <1>4, ReceiveIndexSound
<1>6. TypeOK'
  BY <1>1, <1>3, <1>4, <1>5 DEF TypeOK, Kinds
<1>. QED BY <1>1, <1>3, <1>5, <1>6, OnePeerMoves DEF TypeOK

LEMMA StepSound == IInv /\ [Next]_vars => IInv'
<1>. SUFFICES ASSUME IInv, [Next]_vars PROVE IInv'
  OBVIOUS
<1>1. ASSUME NEW p \in Peers, NEW input \in Presses(p, Frame(p)), StartFrame(p, input)
      PROVE  IInv'
  BY <1>1, StartFrameStep
<1>2. ASSUME NEW p \in Peers, PassGate(p) PROVE IInv'
  BY <1>2, PassGateStep
<1>3. ASSUME NEW p \in Peers, TriggerRollback(p) PROVE IInv'
  BY <1>3, TriggerRollbackStep
<1>4. ASSUME NEW p \in Peers, Rerun(p) PROVE IInv'
  BY <1>4, RerunStep
<1>5. ASSUME NEW p \in Peers, Leave(p) PROVE IInv'
  BY <1>5, LeaveStep
<1>6. ASSUME NEW p \in Peers, NEW msg \in sent[Other(p)], Receive(p, msg) PROVE IInv'
  BY <1>6, ReceiveStep
<1>7. ASSUME NEW p \in Peers, ReceiveIndex(p) PROVE IInv'
  BY <1>7, ReceiveIndexStep
<1>8. ASSUME UNCHANGED vars PROVE IInv'
  BY <1>8 DEF vars, IInv, TypeOK, PeerSound
<1>. QED BY <1>1, <1>2, <1>3, <1>4, <1>5, <1>6, <1>7, <1>8 DEF Next, Finished

LEMMA InductiveInvariant == Spec => []IInv
<1>. QED BY InitSound, StepSound, PTL DEF Spec

-----------------------------------------------------------------------------
(* Not one misprediction is forgotten, however batches arrive, whatever the window, the   *)
(* delay and the size of the pool: a frame that was simulated with something else than    *)
(* what its container says now is at or after the pending trigger.                        *)
THEOREM NothingIsForgotten == Spec => []UsedOrMarked
<1>1. IInv => UsedOrMarked
  BY DEF IInv, PeerSound, Sound, UsedIn, Used, Marked, UsedOrMarked, Frame
<1>. QED BY <1>1, InductiveInvariant, PTL

(* Histories, pool, timers and containers keep their bounds, and the pool holds nothing   *)
(* but pasts of the game as it stands (saveState and loadState together).                 *)
THEOREM PoolHolds == Spec => []Inv
<1>1. IInv => Inv
  BY PoolIsPastOf DEF IInv, Inv, PeerSound, Sound
<1>. QED BY <1>1, InductiveInvariant, PTL

(* A rollback never lands after its target: a pool of two slots or more always has a      *)
(* state to go back to, whatever the eviction of a full one dropped.                      *)
THEOREM RestoresInTime == Spec => RestoresBeforeTarget
<1>1. IInv /\ [Next]_vars =>
        [\A p \in Peers : TriggerRollback(p) => Len(hist'[p]) <= remote[p].changed[2] + 1]_vars
  BY TriggerRollbackStep
<1>. QED BY <1>1, InductiveInvariant, PTL DEF Spec, RestoresBeforeTarget

(* What the containers say of the opponent is what the opponent committed *)

(* What the window needs to cover the worst of the drift the gate allows. *)
WindowFits == 2 * Delay + 2 * Rollback + 2 <= NumInputs

(* A row that starts with another one, and one that holds a batch. *)
Starts(row, long) == Len(row) <= Len(long) /\ \A f \in 1 .. Len(row) : long[f] = row[f]
Holds(row, msg) ==
  /\ msg.start + Len(msg.batch) <= Len(row)
  /\ \A k \in 1 .. Len(msg.batch) : row[msg.start + k] = msg.batch[k]

GoneHasLeft == \A p \in Peers : EndIndex(remote[p]) > 1 => pc[Other(p)] = "left"

(* A peer's container ends Delay frames past the frame it has reached. *)
OwnFollows ==
  \A p \in Peers : pc[p] # "left" =>
    EndFrame(own[p], 0) = IF pc[p] = "gate" THEN Frame(p) + Delay + 1
                          ELSE IF Reached(p) = 0 THEN 0 ELSE Reached(p) + Delay

(* The gate keeps a peer near what it knows of an opponent that plays. *)
InReach ==
  \A p \in Peers : pc[p] # "left" /\ pc[Other(p)] # "left" /\ Reached(p) > 0 =>
    Reached(p) <= EndFrame(remote[p], 0) + Rollback

SentIsHeld == \A p \in Peers : \A msg \in sent[p] : Holds(Row(own[p], 0), msg)

NoGap ==
  \A p \in Peers : pc[p] # "left" => \A msg \in sent[Other(p)] : msg.start <= EndFrame(remote[p], 0)

KnownIsTrue == \A p \in Peers : Starts(Row(remote[p], 0), Row(own[Other(p)], 0))

Chain == GoneHasLeft /\ OwnFollows /\ InReach /\ SentIsHeld /\ NoGap /\ KnownIsTrue

-----------------------------------------------------------------------------
(* Rows *)

LEMMA SetOnceStarts ==
  ASSUME NEW c \in Container, NEW frame \in Nat, NEW t \in Input,
         NEW new, new = SetOnce(c, 0, frame, t)
  PROVE  Starts(Row(c, 0), Row(new, 0))
<1>1. CASE frame < EndFrame(c, 0)
  BY <1>1, RowIsHeld DEF SetOnce, Starts
<1>2. CASE ~ frame < EndFrame(c, 0)
  <2>. DEFINE batch == << t >>
              row == Row(c, 0)
  <2>1. batch \in Seq(Input) /\ Len(batch) = 1
    OBVIOUS
  <2>2. new = Store(Resize(c, 0, frame, Len(batch)), 0, frame, batch)
    BY <1>2, <2>1 DEF SetOnce
  <2>. HIDE DEF batch
  <2>3. Row(new, 0) = Batched(row, frame, batch)
    BY <2>1, <2>2, StoresBatch
  <2>4. row \in Seq(Input) /\ Len(row) \in Nat /\ ~ frame < Len(row)
    BY <1>2, RowIsHeld DEF EndFrame
  <2>. HIDE DEF row
  <2>5. IsBatched(Row(new, 0), row, frame, batch)
    BY <2>1, <2>3, <2>4, BatchedReads
  <2>6. Len(Row(new, 0)) = frame + 1
    BY <2>1, <2>4, <2>5 DEF IsBatched
  <2>7. ASSUME NEW f \in 1 .. Len(row) PROVE Row(new, 0)[f] = row[f]
    <3>. DEFINE g == f - 1
    <3>1. g \in 0 .. Len(Row(new, 0)) - 1 /\ g + 1 = f /\ g < Len(row)
          /\ g \notin frame .. frame + Len(batch) - 1
      BY <2>1, <2>4, <2>6
    <3>. HIDE DEF g
    <3>2. Row(new, 0)[g + 1] = ReadRow(row, g)
      BY <2>5, <3>1 DEF IsBatched
    <3>3. ReadRow(row, g) = row[g + 1]
      BY <3>1 DEF ReadRow
    <3>. QED BY <3>1, <3>2, <3>3
  <2>. QED BY <2>4, <2>6, <2>7 DEF Starts, row
<1>. QED BY <1>1, <1>2

LEMMA StartsStarts ==
  ASSUME NEW a \in Seq(Input), NEW b \in Seq(Input), NEW c \in Seq(Input), Starts(a, b), Starts(b, c)
  PROVE  Starts(a, c)
BY DEF Starts

LEMMA StartsHolds ==
  ASSUME NEW a \in Seq(Input), NEW b \in Seq(Input), Starts(a, b),
         NEW msg \in [start : Nat, batch : Seq(Input)], Holds(a, msg)
  PROVE  Holds(b, msg)
<1>1. msg.start \in Nat /\ Len(msg.batch) \in Nat /\ Len(a) \in Nat /\ Len(b) \in Nat
  OBVIOUS
<1>2. \A k \in 1 .. Len(msg.batch) : msg.start + k \in 1 .. Len(a)
  BY <1>1 DEF Holds
<1>. QED BY <1>1, <1>2 DEF Starts, Holds

(* A batch of what the opponent holds, stored where no gap is left.                       *)
LEMMA BatchKeepsTruth ==
  ASSUME NEW row \in Seq(Input), NEW long \in Seq(Input), Starts(row, long),
         NEW msg \in [start : Nat, batch : Seq(Input)], Holds(long, msg), msg.start <= Len(row),
         NEW new, new = Batched(row, msg.start, msg.batch)
  PROVE  Starts(new, long) /\ Len(row) <= Len(new)
<1>. DEFINE start == msg.start
            batch == msg.batch
            n == Len(batch)
<1>1. start \in Nat /\ batch \in Seq(Input) /\ n \in Nat /\ Len(row) \in Nat /\ Len(long) \in Nat
  OBVIOUS
<1>. HIDE DEF start, batch
<1>2. IsBatched(new, row, start, batch)
  BY <1>1, BatchedReads DEF start, batch
<1>3. /\ start + n <= Len(long) /\ Len(row) <= Len(long) /\ start <= Len(row)
      /\ \A k \in 1 .. n : long[start + k] = batch[k]
      /\ \A f \in 1 .. Len(row) : long[f] = row[f]
  BY DEF Holds, Starts, start, batch
<1>. HIDE DEF n
<1>4. Len(new) = IF start + n > Len(row) THEN start + n ELSE Len(row)
  BY <1>2 DEF IsBatched, n
<1>5. ASSUME NEW f \in 1 .. Len(new) PROVE long[f] = new[f]
  <2>. DEFINE g == f - 1
  <2>1. g \in 0 .. Len(new) - 1 /\ g + 1 = f /\ g \in Nat
    BY <1>1, <1>4
  <2>2. new[g + 1] = IF g \in start .. start + n - 1 THEN batch[g - start + 1] ELSE ReadRow(row, g)
    BY <1>2, <2>1 DEF IsBatched, n
  <2>. HIDE DEF g
  <2>3. CASE g \in start .. start + n - 1
    <3>1. g - start + 1 \in 1 .. n /\ start + (g - start + 1) = g + 1
      BY <1>1, <2>1, <2>3
    <3>. QED BY <1>3, <2>1, <2>2, <2>3, <3>1
  <2>4. CASE g \notin start .. start + n - 1
    <3>1. g < Len(row) /\ g + 1 \in 1 .. Len(row)
      BY <1>1, <1>3, <1>4, <2>1, <2>4
    <3>. QED BY <1>3, <2>1, <2>2, <2>4, <3>1 DEF ReadRow
  <2>. QED BY <2>3, <2>4
<1>. QED BY <1>1, <1>3, <1>4, <1>5 DEF Starts

(* The last window of a container is of what it holds, and begins near its end.           *)
LEMMA WindowIsHeld ==
  ASSUME NEW c \in Container, NEW msg, msg = Window(c)
  PROVE  /\ Holds(Row(c, 0), msg)
         /\ msg.start = IF EndFrame(c, 0) < NumInputs THEN 0 ELSE EndFrame(c, 0) - NumInputs
<1>. DEFINE end == EndFrame(c, 0)
            start == IF end < NumInputs THEN 0 ELSE end - NumInputs
            row == Row(c, 0)
<1>1. row \in Seq(Input) /\ end = Len(row) /\ end \in Nat
  BY RowIsHeld DEF EndFrame
<1>2. start \in Nat /\ start <= end
  BY <1>1, RollbackAssumption
<1>3. msg = [start |-> start, batch |-> GetBatch(c, 0, start, end - start, << >>)]
  BY DEF Window
<1>4. start + (end - start) = end
  BY <1>1, <1>2
<1>. HIDE DEF end, start, row
<1>5. msg.start = start /\ msg.batch = SubSeq(row, start + 1, end)
  <2>1. ~ start + (end - start) > end
    BY <1>1, <1>4
  <2>2. GetBatch(c, 0, start, end - start, << >>) = SubSeq(row, start + 1, start + (end - start))
    BY <2>1 DEF GetBatch, end, row
  <2>. QED BY <1>3, <1>4, <2>2
<1>6. Len(msg.batch) = end - start /\ \A k \in 1 .. end - start : msg.batch[k] = row[start + k]
  <2>1. \A k \in start + 1 .. end : row[k] \in Input
    BY <1>1, <1>2
  <2>2. /\ Len(SubSeq(row, start + 1, end)) = IF start + 1 <= end THEN end - (start + 1) + 1 ELSE 0
        /\ \A k \in 1 .. end - (start + 1) + 1 : SubSeq(row, start + 1, end)[k] = row[(start + 1) + k - 1]
    BY <1>1, <1>2, <2>1, SubSeqProperties
  <2>3. end - (start + 1) + 1 = end - start /\ (start + 1 > end => end - start = 0)
    BY <1>1, <1>2
  <2>4. \A k \in 1 .. end - start : (start + 1) + k - 1 = start + k
    BY <1>1, <1>2
  <2>. QED BY <1>1, <1>2, <1>5, <2>2, <2>3, <2>4
<1>. QED BY <1>1, <1>2, <1>4, <1>5, <1>6 DEF Holds, end, start, row
-----------------------------------------------------------------------------
(* Peers *)

LEMMA TwoPeers ==
  ASSUME NEW p \in Peers
  PROVE  Other(p) \in Peers /\ Other(p) # p /\ Other(Other(p)) = p
         /\ \A q \in Peers : q = p \/ q = Other(p)
BY DEF Peers, Other

LEMMA PeerFacts ==
  ASSUME IInv, NEW p \in Peers
  PROVE  /\ own[p] \in Container /\ remote[p] \in Container
         /\ Row(own[p], 0) \in Seq(Input) /\ Row(remote[p], 0) \in Seq(Input)
         /\ EndFrame(own[p], 0) = Len(Row(own[p], 0)) /\ EndFrame(own[p], 0) \in Nat
         /\ EndFrame(remote[p], 0) = Len(Row(remote[p], 0)) /\ EndFrame(remote[p], 0) \in Nat
         /\ Frame(p) \in Nat /\ Reached(p) \in Nat
         /\ pc[p] = "gate" => stop[p] = NoFrame
         /\ stop[p] # NoFrame => pc[p] = "top" /\ Frame(p) <= stop[p] /\ stop[p] \in Nat
         /\ pc[p] \in {"top", "gate", "left"}
<1>1. /\ own[p] \in Container /\ remote[p] \in Container /\ Frame(p) \in Nat
      /\ stop[p] \in {NoFrame} \cup 0 .. MaxFrame /\ pc[p] \in {"top", "gate", "left"}
  BY KindsOfPeer DEF IInv, Kinds
<1>2. /\ pc[p] = "gate" => stop[p] = NoFrame
      /\ stop[p] # NoFrame => pc[p] = "top" /\ Frame(p) <= stop[p]
  BY DEF IInv, PeerSound, Sound, Held, Frame
<1>3. stop[p] # NoFrame => stop[p] \in Nat
  BY <1>1, RollbackAssumption
<1>4. Reached(p) \in Nat
  BY <1>1, <1>3 DEF Reached
<1>. QED BY <1>1, <1>2, <1>3, <1>4, RowIsHeld DEF EndFrame

(* A peer's inputs end where it may be, and the delay later.                              *)
LEMMA OwnIsNear ==
  ASSUME IInv, Chain, NEW p \in Peers, pc[p] # "left"
  PROVE  EndFrame(own[p], 0) <= Reached(p) + Delay + 1
<1>1. EndFrame(own[p], 0) = IF pc[p] = "gate" THEN Frame(p) + Delay + 1
                            ELSE IF Reached(p) = 0 THEN 0 ELSE Reached(p) + Delay
  BY DEF Chain, OwnFollows
<1>2. pc[p] = "gate" => Reached(p) = Frame(p)
  BY PeerFacts DEF Reached
<1>3. Reached(p) \in Nat /\ Delay \in Nat
  BY PeerFacts, RollbackAssumption
<1>. QED BY <1>1, <1>2, <1>3

(* How far the next input of a peer can be from what the other has heard of it.           *)
LEMMA DriftIsBounded ==
  ASSUME IInv, Chain, NEW p \in Peers, NEW q \in Peers, q = Other(p),
         pc[p] # "left", pc[q] = "top", stop[q] = NoFrame
  PROVE  Frame(q) + Delay + 1 <= EndFrame(remote[p], 0) + 2 * Delay + 2 * Rollback + 2
<1>. DEFINE known == EndFrame(remote[p], 0)
            heard == EndFrame(remote[q], 0)
            held == EndFrame(own[p], 0)
            reached == Reached(p)
            frame == Frame(q)
<1>1. /\ known \in Nat /\ heard \in Nat /\ held \in Nat /\ reached \in Nat /\ frame \in Nat
      /\ Delay \in Nat /\ Rollback \in Nat
  BY PeerFacts, RollbackAssumption
<1>2. Other(q) = p
  BY TwoPeers
<1>3. heard <= held
  BY <1>2, PeerFacts DEF Chain, KnownIsTrue, Starts
<1>4. held <= reached + Delay + 1
  BY OwnIsNear
<1>5. reached > 0 => reached <= known + Rollback
  BY DEF Chain, InReach
<1>6. frame > 0 => frame <= heard + Rollback
  BY <1>2 DEF Chain, InReach, Reached
<1>. HIDE DEF known, heard, held, reached, frame
<1>7. frame + Delay + 1 <= known + 2 * Delay + 2 * Rollback + 2
  BY <1>1, <1>3, <1>4, <1>5, <1>6
<1>. QED BY <1>7 DEF known, frame

LEMMA ChainInit == Init => Chain
<1>. SUFFICES ASSUME Init PROVE Chain
  OBVIOUS
<1>1. \A p \in Peers : /\ own[p] = EmptyContainer /\ remote[p] = EmptyContainer
                       /\ sent[p] = {} /\ pc[p] = "top" /\ Reached(p) = 0
  BY DEF Init, Reached, Frame, NoFrame
<1>2. EndFrame(EmptyContainer, 0) = 0 /\ Row(EmptyContainer, 0) = << >> /\ EndIndex(EmptyContainer) = 0
  BY DEF EmptyContainer, EndFrame, Row, EndIndex
<1>3. Starts(<< >>, << >>)
  BY DEF Starts
<1>. QED BY <1>1, <1>2, <1>3, TwoPeers, RollbackAssumption
     DEF Chain, GoneHasLeft, OwnFollows, InReach, SentIsHeld, NoGap, KnownIsTrue

-----------------------------------------------------------------------------
(* One lemma per action *)

LEMMA StartFrameChain ==
  ASSUME WindowFits, IInv, IInv', Chain,
         NEW q \in Peers, NEW input \in Presses(q, Frame(q)), StartFrame(q, input)
  PROVE  Chain'
<1>. DEFINE p == Other(q)
            ahead == Frame(q) + Delay
            msg == Window(own'[q])
<1>1. /\ pc[q] = "top" /\ stop[q] = NoFrame /\ Reached(q) = Frame(q)
      /\ own' = [own EXCEPT ![q] = SetOnce(own[q], 0, ahead, input)]
      /\ sent' = [sent EXCEPT ![q] = sent[q] \cup {msg}]
      /\ pc' = [pc EXCEPT ![q] = "gate"]
      /\ UNCHANGED << hist, remote, stop >>
  BY DEF StartFrame, Reached
<1>2. TypeOK /\ Frame(q) \in 0 .. MaxFrame /\ ahead \in Nat /\ input \in Input
  <2>1. TypeOK /\ Frame(q) \in Nat /\ Frame(q) < MaxFrame
    BY PeerFacts DEF IInv, StartFrame
  <2>2. Frame(q) \in 0 .. MaxFrame /\ ahead \in Nat
    BY <2>1, RollbackAssumption
  <2>3. input \in Input
    BY <2>2, RollbackAssumption DEF Peers
  <2>. QED BY <2>1, <2>2, <2>3
<1>3. /\ own'[q] = SetOnce(own[q], 0, ahead, input) /\ sent'[q] = sent[q] \cup {msg}
      /\ pc'[q] = "gate"
      /\ own'[p] = own[p] /\ sent'[p] = sent[p] /\ pc'[p] = pc[p]
      /\ p \in Peers /\ Other(p) = q /\ Other(q) = p /\ p # q /\ \A r \in Peers : r = p \/ r = q
  BY <1>1, <1>2, TwoPeers DEF TypeOK
<1>4. \A r \in Peers : /\ remote'[r] = remote[r] /\ Frame(r)' = Frame(r)
                       /\ Reached(r)' = Reached(r)
  BY <1>1 DEF Frame, Reached
<1>. HIDE DEF p, ahead, msg
<1>5. /\ Starts(Row(own[q], 0), Row(own'[q], 0)) /\ own'[q] \in Container
      /\ EndFrame(own'[q], 0) = IF ahead < EndFrame(own[q], 0) THEN EndFrame(own[q], 0) ELSE ahead + 1
  <2>1. own[q] \in Container
    BY PeerFacts
  <2>2. Starts(Row(own[q], 0), Row(own'[q], 0))
    BY <1>2, <1>3, <2>1, SetOnceStarts
  <2>. QED BY <1>2, <1>3, <2>1, <2>2, SetOnceKeepsHeld
<1>6. EndFrame(own'[q], 0) = Frame(q) + Delay + 1
  BY <1>1, <1>2, <1>5, PeerFacts, RollbackAssumption DEF Chain, OwnFollows, ahead
<1>7. Holds(Row(own'[q], 0), msg) /\ msg \in [start : Nat, batch : Seq(Input)]
      /\ msg.start = IF EndFrame(own'[q], 0) < NumInputs THEN 0 ELSE EndFrame(own'[q], 0) - NumInputs
  BY <1>5, WindowIsHeld, WindowIsMessage DEF msg
<1>8. GoneHasLeft'
  BY <1>1, <1>3, <1>4 DEF Chain, GoneHasLeft
<1>9. OwnFollows'
  BY <1>3, <1>4, <1>6 DEF Chain, OwnFollows
<1>10. InReach'
  BY <1>1, <1>3, <1>4 DEF Chain, InReach
<1>11. SentIsHeld'
  <2>1. ASSUME NEW m \in sent[q] PROVE Holds(Row(own'[q], 0), m)
    <3>1. m \in [start : Nat, batch : Seq(Input)]
      BY <1>2 DEF TypeOK
    <3>2. Holds(Row(own[q], 0), m)
      BY DEF Chain, SentIsHeld
    <3>3. Row(own[q], 0) \in Seq(Input) /\ Row(own'[q], 0) \in Seq(Input)
      BY <1>5, PeerFacts, RowIsHeld
    <3>. QED BY <1>5, <3>1, <3>2, <3>3, StartsHolds
  <2>. QED BY <1>3, <1>7, <2>1 DEF Chain, SentIsHeld
<1>12. NoGap'
  <2>1. pc[p] # "left" => msg.start <= EndFrame(remote[p], 0)
    <3>1. SUFFICES ASSUME pc[p] # "left" PROVE msg.start <= EndFrame(remote[p], 0)
      OBVIOUS
    <3>2. Frame(q) + Delay + 1 <= EndFrame(remote[p], 0) + 2 * Delay + 2 * Rollback + 2
      BY <1>1, <1>3, <3>1, DriftIsBounded
    <3>. DEFINE end == EndFrame(own'[q], 0)
                known == EndFrame(remote[p], 0)
    <3>3. /\ end \in Nat /\ known \in Nat /\ end <= known + 2 * Delay + 2 * Rollback + 2
          /\ msg.start = IF end < NumInputs THEN 0 ELSE end - NumInputs
          /\ NumInputs \in Nat /\ 2 * Delay + 2 * Rollback + 2 <= NumInputs
          /\ Delay \in Nat /\ Rollback \in Nat
      BY <1>3, <1>5, <1>6, <1>7, <3>2, PeerFacts, RowIsHeld, RollbackAssumption DEF WindowFits
    <3>. HIDE DEF end, known
    <3>4. msg.start <= known
      BY <3>3
    <3>. QED BY <3>4 DEF known
  <2>2. ASSUME NEW r \in Peers, pc'[r] # "left", NEW m \in sent'[Other(r)]
        PROVE  m.start <= EndFrame(remote'[r], 0)
    <3>1. CASE r = p /\ m = msg
      BY <1>3, <1>4, <2>1, <2>2, <3>1
    <3>2. CASE ~ (r = p /\ m = msg)
      <4>1. m \in sent[Other(r)]
        BY <1>3, <2>2, <3>2
      <4>2. pc[r] # "left" /\ remote'[r] = remote[r]
        BY <1>1, <1>3, <1>4, <2>2
      <4>. QED BY <4>1, <4>2 DEF Chain, NoGap
    <3>. QED BY <3>1, <3>2
  <2>. QED BY <2>2 DEF NoGap
<1>13. KnownIsTrue'
  <2>1. Starts(Row(remote[p], 0), Row(own'[q], 0))
    <3>1. Starts(Row(remote[p], 0), Row(own[q], 0))
      BY <1>3 DEF Chain, KnownIsTrue
    <3>. QED BY <1>3, <1>5, <3>1, PeerFacts, RowIsHeld, StartsStarts
  <2>. QED BY <1>3, <1>4, <2>1 DEF Chain, KnownIsTrue
<1>. QED BY <1>8, <1>9, <1>10, <1>11, <1>12, <1>13 DEF Chain

(* Where a peer is after a step that writes no container.                                 *)
LEMMA PlayMoves ==
  ASSUME IInv, NEW p \in Peers,
         PassGate(p) \/ TriggerRollback(p) \/ Rerun(p) \/ Leave(p)
  PROVE  /\ UNCHANGED << own, sent >> /\ pc[p] # "left"
         /\ pc'[Other(p)] = pc[Other(p)] /\ remote'[Other(p)] = remote[Other(p)]
         /\ Reached(Other(p))' = Reached(Other(p)) /\ Frame(Other(p))' = Frame(Other(p))
         /\ Row(remote'[p], 0) = Row(remote[p], 0)
         /\ EndFrame(remote'[p], 0) = EndFrame(remote[p], 0)
         /\ EndIndex(remote'[p]) = EndIndex(remote[p])
         /\ \/ pc'[p] = "left"
            \/ pc'[p] = "top" /\ pc[p] = "gate" /\ Ready(p) /\ Reached(p)' = Frame(p) + 1
            \/ pc'[p] = "top" /\ pc[p] = "top" /\ Reached(p)' = Reached(p)
<1>1. /\ UNCHANGED << own, sent >> /\ TypeOK /\ pc[p] # "left"
      /\ Other(p) \in Peers /\ Other(p) # p /\ Other(Other(p)) = p
      /\ \A r \in Peers : r = p \/ r = Other(p)
  BY TwoPeers DEF PassGate, TriggerRollback, Rerun, Leave, IInv
<1>2. /\ pc'[Other(p)] = pc[Other(p)] /\ remote'[Other(p)] = remote[Other(p)]
      /\ Reached(Other(p))' = Reached(Other(p)) /\ Frame(Other(p))' = Frame(Other(p))
  <2>1. CASE PassGate(p)
    BY <1>1, <2>1 DEF PassGate, TypeOK, Reached, Frame
  <2>2. CASE TriggerRollback(p)
    BY <1>1, <2>2 DEF TriggerRollback, TypeOK, Reached, Frame
  <2>3. CASE Rerun(p)
    BY <1>1, <2>3 DEF Rerun, TypeOK, Reached, Frame
  <2>4. CASE Leave(p)
    BY <1>1, <2>4 DEF Leave, TypeOK, Reached, Frame
  <2>. QED BY <2>1, <2>2, <2>3, <2>4
<1>3. /\ Row(remote'[p], 0) = Row(remote[p], 0)
      /\ EndFrame(remote'[p], 0) = EndFrame(remote[p], 0)
      /\ EndIndex(remote'[p]) = EndIndex(remote[p])
  <2>1. remote'[p] = remote[p] \/ remote'[p] = ClearLastChangedFrame(remote[p])
    <3>1. CASE PassGate(p) \/ Rerun(p) \/ Leave(p)
      BY <3>1 DEF PassGate, Rerun, Leave
    <3>2. CASE TriggerRollback(p)
      <4>1. remote' = [remote EXCEPT ![p] = ClearLastChangedFrame(remote[p])]
        BY <3>2 DEF TriggerRollback
      <4>. QED BY <1>1, <4>1 DEF TypeOK
    <3>. QED BY <3>1, <3>2
  <2>2. ClearLastChangedFrame(remote[p]).inputs = remote[p].inputs
    BY DEF ClearLastChangedFrame
  <2>. QED BY <2>1, <2>2 DEF Row, EndFrame, EndIndex
<1>4. \/ pc'[p] = "left"
      \/ pc'[p] = "top" /\ pc[p] = "gate" /\ Ready(p) /\ Reached(p)' = Frame(p) + 1
      \/ pc'[p] = "top" /\ pc[p] = "top" /\ Reached(p)' = Reached(p)
  <2>1. CASE PassGate(p) \/ TriggerRollback(p)
    <3>1. pc[p] = "gate" /\ Ready(p) /\ stop[p] = NoFrame /\ pc'[p] = "top"
      BY <1>1, <2>1, PeerFacts DEF PassGate, TriggerRollback, TypeOK
    <3>2. CASE PassGate(p)
      <4>1. stop'[p] = NoFrame /\ Len(hist'[p]) = Len(hist[p]) + 1
        <5>1. hist'[p] = Play(hist[p], Inputs(p, own[p], remote[p], Frame(p)))
          BY <1>1, <3>2 DEF PassGate, TypeOK
        <5>2. hist[p] \in History /\ Inputs(p, own[p], remote[p], Frame(p)) \in [Peers -> Input]
          BY <1>1, PeerFacts, InputsAreInputs DEF TypeOK
        <5>. QED BY <3>1, <3>2, <5>1, <5>2, PlayExtends DEF PassGate
      <4>. QED BY <3>1, <4>1 DEF Reached, Frame
    <3>3. CASE TriggerRollback(p)
      <4>1. stop'[p] = Frame(p) /\ Frame(p) # NoFrame
        BY <1>1, <3>3, PeerFacts DEF TriggerRollback, TypeOK, NoFrame
      <4>. QED BY <3>1, <4>1 DEF Reached
    <3>. QED BY <2>1, <3>2, <3>3
  <2>2. CASE Rerun(p)
    <3>1. /\ pc[p] = "top" /\ pc'[p] = "top" /\ stop[p] # NoFrame /\ Frame(p) <= stop[p]
          /\ Frame(p) \in Nat /\ stop[p] \in Nat
          /\ stop'[p] = IF Frame(p) >= stop[p] THEN NoFrame ELSE stop[p]
      BY <1>1, <2>2, PeerFacts DEF Rerun, TypeOK
    <3>2. Len(hist'[p]) = Frame(p) + 1
      <4>1. hist'[p] = Play(hist[p], Inputs(p, own[p], remote[p], Frame(p)))
        BY <1>1, <2>2 DEF Rerun, TypeOK
      <4>2. hist[p] \in History /\ Inputs(p, own[p], remote[p], Frame(p)) \in [Peers -> Input]
        BY <1>1, PeerFacts, InputsAreInputs DEF TypeOK
      <4>. QED BY <4>1, <4>2, PlayExtends DEF Frame
    <3>. QED BY <3>1, <3>2 DEF Reached, Frame
  <2>3. CASE Leave(p)
    BY <1>1, <2>3 DEF Leave, TypeOK
  <2>. QED BY <2>1, <2>2, <2>3
<1>. QED BY <1>1, <1>2, <1>3, <1>4

(* A step that writes no container: only where the peers are may change.                  *)
LEMMA PlayChain ==
  ASSUME IInv, IInv', Chain, NEW p \in Peers,
         PassGate(p) \/ TriggerRollback(p) \/ Rerun(p) \/ Leave(p)
  PROVE  Chain'
<1>1. /\ UNCHANGED << own, sent >> /\ pc[p] # "left"
      /\ Other(p) \in Peers /\ Other(p) # p /\ Other(Other(p)) = p
      /\ \A r \in Peers : r = p \/ r = Other(p)
  BY PlayMoves, TwoPeers
<1>2. /\ pc'[Other(p)] = pc[Other(p)] /\ remote'[Other(p)] = remote[Other(p)]
      /\ Reached(Other(p))' = Reached(Other(p)) /\ Frame(Other(p))' = Frame(Other(p))
  BY PlayMoves
<1>3. /\ Row(remote'[p], 0) = Row(remote[p], 0)
      /\ EndFrame(remote'[p], 0) = EndFrame(remote[p], 0)
      /\ EndIndex(remote'[p]) = EndIndex(remote[p])
  BY PlayMoves
<1>4. \/ pc'[p] = "left"
      \/ pc'[p] = "top" /\ pc[p] = "gate" /\ Ready(p) /\ Reached(p)' = Frame(p) + 1
      \/ pc'[p] = "top" /\ pc[p] = "top" /\ Reached(p)' = Reached(p)
  BY PlayMoves
<1>5. GoneHasLeft'
  BY <1>1, <1>2, <1>3, <1>4 DEF Chain, GoneHasLeft
<1>6. OwnFollows'
  <2>1. pc'[p] # "left" =>
          EndFrame(own[p], 0) = IF Reached(p)' = 0 THEN 0 ELSE Reached(p)' + Delay
    BY <1>1, <1>4, PeerFacts, RollbackAssumption DEF Chain, OwnFollows
  <2>. QED BY <1>1, <1>2, <1>4, <2>1 DEF Chain, OwnFollows
<1>7. InReach'
  <2>1. ASSUME pc[Other(p)] # "left", Ready(p)
        PROVE  Frame(p) + 1 <= EndFrame(remote[p], 0) + Rollback
    <3>1. ~ EndIndex(remote[p]) > 1
      BY <2>1 DEF Chain, GoneHasLeft
    <3>. QED BY <2>1, <3>1, PeerFacts, RollbackAssumption DEF Ready
  <2>2. pc'[p] # "left" /\ pc[Other(p)] # "left" /\ Reached(p)' > 0 =>
          Reached(p)' <= EndFrame(remote[p], 0) + Rollback
    BY <1>1, <1>4, <2>1 DEF Chain, InReach
  <2>. QED BY <1>1, <1>2, <1>3, <1>4, <2>2 DEF Chain, InReach
<1>8. SentIsHeld' /\ NoGap' /\ KnownIsTrue'
  BY <1>1, <1>2, <1>3, <1>4 DEF Chain, SentIsHeld, NoGap, KnownIsTrue
<1>. QED BY <1>5, <1>6, <1>7, <1>8 DEF Chain

(* A batch of the truth contradicts nothing that is known, and shortens no row.           *)
LEMMA ReceiveMarks ==
  ASSUME IInv, Chain, NEW p \in Peers, NEW msg \in sent[Other(p)], Receive(p, msg)
  PROVE  /\ EndFrame(remote[p], 0) <= EndFrame(remote'[p], 0)
         /\ \/ remote'[p].changed = remote[p].changed
            \/ \E g \in Nat : g >= EndFrame(remote[p], 0) /\ remote'[p].changed = IndexedFrame(0, g)
<1>. DEFINE row == Row(remote[p], 0)
            long == Row(own[Other(p)], 0)
            start == msg.start
            batch == msg.batch
            c == remote[p]
            wrong == Contradicted(c, 0, start, batch)
            first == CHOOSE g \in wrong : \A h \in wrong : g <= h
<1>1. /\ TypeOK /\ Other(p) \in Peers /\ pc[p] # "left"
      /\ remote' = [remote EXCEPT ![p] = SetBatch(c, 0, start, batch, 0)]
  BY TwoPeers DEF Receive, IInv
<1>2. msg \in [start : Nat, batch : Seq(Input)]
  BY <1>1 DEF TypeOK
<1>3. start \in Nat /\ batch \in Seq(Input) /\ Len(batch) \in Nat
  BY <1>2
<1>4. /\ c \in Container /\ row \in Seq(Input) /\ EndFrame(c, 0) = Len(row) /\ Len(row) \in Nat
      /\ long \in Seq(Input) /\ Len(long) \in Nat
  BY <1>1, PeerFacts
<1>5. Starts(row, long) /\ Holds(long, msg)
  BY <1>1, TwoPeers DEF Chain, KnownIsTrue, SentIsHeld
<1>6. remote'[p] = SetBatch(c, 0, start, batch, 0)
  BY <1>1 DEF TypeOK
<1>. HIDE DEF row, long, start, batch, c, first
<1>7. \A g \in wrong : g \in Nat /\ g >= Len(row)
  <2>. SUFFICES ASSUME NEW g \in wrong, ~ g >= Len(row) PROVE FALSE
    BY <1>3 DEF Contradicted
  <2>1. /\ g \in Nat /\ start <= g /\ g < start + Len(batch) /\ g < Len(row)
        /\ Get(c, 0, g) # batch[g - start + 1]
    BY <1>3, <1>4 DEF Contradicted
  <2>2. Get(c, 0, g) = row[g + 1]
    BY <1>4, <2>1, Reads DEF ReadRow, row, c
  <2>3. g + 1 \in 1 .. Len(row)
    BY <1>4, <2>1
  <2>4. row[g + 1] = long[g + 1]
    BY <1>5, <2>3 DEF Starts
  <2>5. /\ g - start + 1 \in 1 .. Len(batch) /\ start + (g - start + 1) = g + 1
    BY <1>3, <2>1
  <2>6. long[start + (g - start + 1)] = batch[g - start + 1]
    BY <1>5, <2>5 DEF Holds, start, batch
  <2>. QED BY <2>1, <2>2, <2>4, <2>5, <2>6
<1>8. wrong # {} => first \in wrong
  <2>1. wrong \subseteq Nat
    BY <1>7
  <2>. HIDE DEF wrong
  <2>2. wrong # {} => \E g \in wrong : \A h \in wrong : g <= h
    BY <2>1, SmallestIsThere
  <2>. QED BY <2>2 DEF first
<1>9. remote'[p].changed = IF wrong # {} THEN Earlier(c.changed, IndexedFrame(0, first)) ELSE c.changed
  BY <1>6 DEF SetBatch, first
<1>. HIDE DEF wrong
<1>10. \/ remote'[p].changed = c.changed
       \/ \E g \in Nat : g >= Len(row) /\ remote'[p].changed = IndexedFrame(0, g)
  BY <1>7, <1>8, <1>9 DEF Earlier
<1>11. EndFrame(remote[p], 0) <= EndFrame(remote'[p], 0)
  <2>1. Row(remote'[p], 0) = Batched(row, start, batch)
    BY <1>3, <1>4, <1>6, BatchMarksWhatItChanges DEF row, c
  <2>2. IsBatched(Row(remote'[p], 0), row, start, batch)
    BY <1>3, <1>4, <2>1, BatchedReads
  <2>3. Len(Row(remote'[p], 0)) >= Len(row)
    BY <1>3, <1>4, <2>2 DEF IsBatched
  <2>. QED BY <1>4, <2>3 DEF EndFrame, c
<1>. QED BY <1>4, <1>10, <1>11 DEF c

LEMMA ReceiveChain ==
  ASSUME IInv, IInv', Chain, NEW p \in Peers, NEW msg \in sent[Other(p)], Receive(p, msg)
  PROVE  Chain'
<1>. DEFINE q == Other(p)
<1>1. /\ UNCHANGED << hist, pc, own, stop, sent >> /\ pc[p] # "left" /\ TypeOK
      /\ remote' = [remote EXCEPT ![p] = SetBatch(remote[p], 0, msg.start, msg.batch, 0)]
      /\ q \in Peers /\ Other(q) = p /\ p # q /\ \A r \in Peers : r = p \/ r = q
  BY TwoPeers DEF Receive, IInv
<1>2. /\ remote'[p] = SetBatch(remote[p], 0, msg.start, msg.batch, 0) /\ remote'[q] = remote[q]
  BY <1>1 DEF TypeOK
<1>3. \A r \in Peers : Frame(r)' = Frame(r) /\ Reached(r)' = Reached(r)
  BY <1>1 DEF Frame, Reached
<1>4. msg \in [start : Nat, batch : Seq(Input)] /\ msg.start \in Nat /\ msg.batch \in Seq(Input)
  <2>1. msg \in [start : Nat, batch : Seq(Input)]
    BY <1>1 DEF TypeOK
  <2>. QED BY <2>1
<1>5. Row(remote'[p], 0) = Batched(Row(remote[p], 0), msg.start, msg.batch)
  BY <1>2, <1>4, PeerFacts, BatchMarksWhatItChanges
<1>6. /\ Starts(Row(remote[p], 0), Row(own[q], 0)) /\ Holds(Row(own[q], 0), msg)
      /\ msg.start <= Len(Row(remote[p], 0))
  BY <1>1, PeerFacts DEF Chain, KnownIsTrue, SentIsHeld, NoGap
<1>. HIDE DEF q
<1>7. /\ Starts(Row(remote'[p], 0), Row(own[q], 0))
      /\ EndFrame(remote[p], 0) <= EndFrame(remote'[p], 0)
      /\ EndFrame(remote[p], 0) \in Nat /\ EndFrame(remote'[p], 0) \in Nat
  <2>1. Row(remote[p], 0) \in Seq(Input) /\ Row(own[q], 0) \in Seq(Input)
    BY <1>1, PeerFacts
  <2>2. /\ Starts(Row(remote'[p], 0), Row(own[q], 0))
        /\ Len(Row(remote[p], 0)) <= Len(Row(remote'[p], 0))
    BY <1>4, <1>5, <1>6, <2>1, BatchKeepsTruth
  <2>3. remote'[p] \in Container
    BY <1>1 DEF IInv, TypeOK
  <2>. QED BY <2>2, <2>3, PeerFacts, RowIsHeld DEF EndFrame
<1>8. EndIndex(remote'[p]) > 1 => EndIndex(remote[p]) > 1
  <2>. DEFINE grown == Resize(remote[p], 0, msg.start, Len(msg.batch))
              top == IF 0 >= EndIndex(remote[p]) THEN 0 + 1 ELSE EndIndex(remote[p])
  <2>1. EndIndex(remote[p]) \in Nat
    BY PeerFacts DEF EndIndex, Container
  <2>2. top \in Nat /\ (top > 1 => EndIndex(remote[p]) > 1)
    BY <2>1
  <2>3. DOMAIN grown.inputs = 1 .. top
    BY DEF Resize, Grow
  <2>. HIDE DEF grown, top
  <2>4. remote'[p].inputs = [grown.inputs EXCEPT ![0 + 1] = Overwritten(Row(grown, 0), msg.start, msg.batch)]
    BY <1>2 DEF SetBatch, Store, grown
  <2>5. DOMAIN remote'[p].inputs = 1 .. top /\ remote'[p].inputs \in Seq(Seq(Input))
    BY <1>1, <2>3, <2>4 DEF IInv, TypeOK, Container
  <2>6. EndIndex(remote'[p]) = top
    BY <2>2, <2>5 DEF EndIndex
  <2>. QED BY <2>2, <2>6
<1>9. GoneHasLeft'
  BY <1>1, <1>2, <1>8 DEF Chain, GoneHasLeft
<1>10. OwnFollows'
  BY <1>1, <1>3 DEF Chain, OwnFollows
<1>11. InReach'
  <2>1. ASSUME pc[p] # "left", pc[q] # "left", Reached(p) > 0
        PROVE  Reached(p) <= EndFrame(remote'[p], 0) + Rollback
    <3>1. Reached(p) <= EndFrame(remote[p], 0) + Rollback
      BY <2>1 DEF Chain, InReach, q
    <3>. QED BY <1>7, <3>1, PeerFacts, RollbackAssumption
  <2>. QED BY <1>1, <1>2, <1>3, <2>1 DEF Chain, InReach, q
<1>12. SentIsHeld'
  BY <1>1 DEF Chain, SentIsHeld
<1>13. NoGap'
  <2>1. ASSUME NEW r \in Peers, pc'[r] # "left", NEW m \in sent'[Other(r)]
        PROVE  m.start <= EndFrame(remote'[r], 0)
    <3>1. m.start <= EndFrame(remote[r], 0) /\ m.start \in Nat
      <4>1. m \in [start : Nat, batch : Seq(Input)]
        BY <1>1, <2>1, TwoPeers DEF TypeOK
      <4>. QED BY <1>1, <2>1, <4>1 DEF Chain, NoGap
    <3>. QED BY <1>1, <1>2, <1>7, <3>1
  <2>. QED BY <2>1 DEF NoGap
<1>14. KnownIsTrue'
  <2>1. Starts(Row(remote[q], 0), Row(own[p], 0))
    BY <1>1 DEF Chain, KnownIsTrue
  <2>2. ASSUME NEW r \in Peers PROVE Starts(Row(remote'[r], 0), Row(own[Other(r)], 0))
    BY <1>1, <1>2, <1>7, <2>1 DEF q
  <2>. QED BY <1>1, <2>2 DEF KnownIsTrue
<1>. QED BY <1>9, <1>10, <1>11, <1>12, <1>13, <1>14 DEF Chain

LEMMA ReceiveIndexChain ==
  ASSUME IInv, IInv', Chain, NEW p \in Peers, ReceiveIndex(p)
  PROVE  Chain'
<1>1. /\ UNCHANGED << hist, pc, own, stop, sent >> /\ TypeOK
      /\ remote' = [remote EXCEPT ![p] = Resize(remote[p], 1, 0, 0)]
      /\ pc[Other(p)] = "left"
  BY DEF ReceiveIndex, IInv
<1>2. remote'[p] = Resize(remote[p], 1, 0, 0) /\ \A r \in Peers \ {p} : remote'[r] = remote[r]
  BY <1>1 DEF TypeOK
<1>3. \A r \in Peers : Frame(r)' = Frame(r) /\ Reached(r)' = Reached(r)
  BY <1>1 DEF Frame, Reached
<1>4. Row(remote'[p], 0) = Row(remote[p], 0)
  <2>. DEFINE one == 1
              none == 0 + 0
  <2>1. one \in {0, 1} /\ none \in Nat /\ none = 0 /\ one # 0
    OBVIOUS
  <2>2. remote'[p] = Grow(remote[p], one, none)
    BY <1>2 DEF Resize
  <2>. HIDE DEF one, none
  <2>3. Row(Grow(remote[p], one, none), 0) = Row(remote[p], 0)
    BY <2>1, PeerFacts, Grows
  <2>. QED BY <2>2, <2>3
<1>5. \A r \in Peers : /\ Row(remote'[r], 0) = Row(remote[r], 0)
                       /\ EndFrame(remote'[r], 0) = EndFrame(remote[r], 0)
  BY <1>2, <1>4 DEF EndFrame
<1>6. GoneHasLeft'
  BY <1>1, <1>2 DEF Chain, GoneHasLeft
<1>7. OwnFollows' /\ InReach' /\ SentIsHeld' /\ NoGap' /\ KnownIsTrue'
  BY <1>1, <1>3, <1>5 DEF Chain, OwnFollows, InReach, SentIsHeld, NoGap, KnownIsTrue
<1>. QED BY <1>6, <1>7 DEF Chain

LEMMA ChainStep == ASSUME WindowFits PROVE IInv /\ Chain /\ [Next]_vars => (IInv /\ Chain)'
<1>. SUFFICES ASSUME IInv, Chain, [Next]_vars PROVE IInv' /\ Chain'
  OBVIOUS
<1>. IInv'
  BY StepSound
<1>1. ASSUME NEW p \in Peers, NEW input \in Presses(p, Frame(p)), StartFrame(p, input)
      PROVE  Chain'
  BY <1>1, StartFrameChain
<1>2. ASSUME NEW p \in Peers, PassGate(p) \/ TriggerRollback(p) \/ Rerun(p) \/ Leave(p)
      PROVE  Chain'
  BY <1>2, PlayChain
<1>3. ASSUME NEW p \in Peers, NEW msg \in sent[Other(p)], Receive(p, msg) PROVE Chain'
  BY <1>3, ReceiveChain
<1>4. ASSUME NEW p \in Peers, ReceiveIndex(p) PROVE Chain'
  BY <1>4, ReceiveIndexChain
<1>5. ASSUME UNCHANGED vars PROVE Chain'
  BY <1>5 DEF vars, Chain, GoneHasLeft, OwnFollows, InReach, SentIsHeld, NoGap, KnownIsTrue,
              Frame, Reached
<1>. QED BY <1>1, <1>2, <1>3, <1>4, <1>5 DEF Next, Finished

-----------------------------------------------------------------------------

LEMMA ChainSettles == IInv /\ Chain => SettledIsCommitted
<1>. SUFFICES ASSUME IInv, Chain, NEW p \in Peers, NEW f \in Settled(p),
                     ~ Over(SubSeq(hist[p], 1, f))
              PROVE  IsCommitted(hist[p], f)
  BY DEF SettledIsCommitted
<1>. DEFINE r == Other(p)
<1>1. f \in 0 .. Frame(p) - 1 /\ f < EndFrame(remote[p], 0) /\ ~ Marked(remote[p], f)
  BY DEF Settled, Certain, Marked
<1>2. /\ f \in Nat /\ f < EndFrame(own[p], 0) /\ Frame(p) \in Nat
      /\ hist[p][f + 1] = Inputs(p, own[p], remote[p], f)
  <2>1. UsedIn(hist[p], own[p], remote[p], p) /\ Frame(p) <= EndFrame(own[p], 0)
    BY DEF IInv, PeerSound, Sound, Held, Frame
  <2>2. Used(hist[p], own[p], remote[p], p, f)
    BY <1>1, <2>1 DEF UsedIn, Frame
  <2>. QED BY <1>1, <2>1, <2>2, PeerFacts DEF Used
<1>3. r \in Peers /\ r # p /\ \A q \in Peers : q = p \/ q = r
  BY TwoPeers
<1>4. /\ Starts(Row(remote[p], 0), Row(own[r], 0))
      /\ EndFrame(remote[p], 0) = Len(Row(remote[p], 0)) /\ EndFrame(remote[p], 0) \in Nat
      /\ EndFrame(own[r], 0) = Len(Row(own[r], 0)) /\ EndFrame(own[r], 0) \in Nat
      /\ EndFrame(own[p], 0) = Len(Row(own[p], 0)) /\ EndFrame(own[p], 0) \in Nat
  BY <1>3, PeerFacts DEF Chain, KnownIsTrue
<1>. HIDE DEF r
<1>5. /\ f + 1 \in 1 .. Len(Row(remote[p], 0)) /\ f < Len(Row(own[p], 0))
      /\ f < EndFrame(own[r], 0)
  BY <1>1, <1>2, <1>4 DEF Starts
<1>6. Get(own[p], 0, f) = Row(own[p], 0)[f + 1]
  BY <1>2, <1>5, PeerFacts, Reads DEF ReadRow
<1>7. Get(remote[p], 0, f) = Row(own[r], 0)[f + 1]
  <2>1. Get(remote[p], 0, f) = Row(remote[p], 0)[f + 1]
    BY <1>2, <1>4, <1>5, PeerFacts, Reads DEF ReadRow
  <2>. QED BY <1>4, <1>5, <2>1 DEF Starts
<1>8. ASSUME NEW q \in Peers, f < EndFrame(own[q], 0)
      PROVE  Row(own[q], 0) = own[q].inputs[1]
  <2>1. own[q] \in Container
    BY PeerFacts
  <2>2. own[q].inputs # << >>
    BY <1>2, <1>8 DEF EndFrame, Row, EndIndex
  <2>. QED BY <2>1, <2>2 DEF Row, EndIndex, Container
<1>9. ASSUME NEW q \in Peers
      PROVE  f < EndFrame(own[q], 0) /\ hist[p][f + 1][q] = own[q].inputs[1][f + 1]
  BY <1>2, <1>3, <1>5, <1>6, <1>7, <1>8 DEF Inputs
<1>. QED BY <1>9 DEF IsCommitted

(* Whatever was predicted, lost, late, repeated or rerun, every frame that a peer has no  *)
(* reason to doubt was simulated with what both players committed: the two games agree on *)
(* all that both consider settled.                                                        *)
THEOREM GamesAgree == ASSUME WindowFits PROVE Spec => []SettledIsCommitted
<1>. QED BY InitSound, ChainInit, ChainStep, ChainSettles, PTL DEF Spec

-----------------------------------------------------------------------------
(* Nobody is stuck.  It takes no more than where a peer's own container ends, which needs *)
(* nothing of the window: what a lost input costs is a prediction that is never corrected. *)

LEMMA OwnFollowsStep ==
  ASSUME IInv, OwnFollows, [Next]_vars
  PROVE  OwnFollows'
<1>1. TypeOK
  BY DEF IInv
<1>2. ASSUME NEW q \in Peers, NEW input \in Presses(q, Frame(q)), StartFrame(q, input)
      PROVE  OwnFollows'
  <2>. DEFINE ahead == Frame(q) + Delay
  <2>1. /\ pc[q] = "top" /\ stop[q] = NoFrame /\ Reached(q) = Frame(q) /\ Frame(q) < MaxFrame
        /\ own' = [own EXCEPT ![q] = SetOnce(own[q], 0, ahead, input)]
        /\ pc' = [pc EXCEPT ![q] = "gate"] /\ UNCHANGED << hist, stop >>
    BY <1>2 DEF StartFrame, Reached
  <2>2. Frame(q) \in Nat /\ Delay \in Nat /\ ahead \in Nat
    BY PeerFacts, RollbackAssumption
  <2>3. input \in Input
    <3>1. Frame(q) \in 0 .. MaxFrame
      BY <2>1, <2>2, RollbackAssumption
    <3>. QED BY <1>2, <3>1, RollbackAssumption DEF Peers
  <2>4. own'[q] = SetOnce(own[q], 0, ahead, input) /\ own[q] \in Container
    BY <1>1, <2>1 DEF TypeOK
  <2>. HIDE DEF ahead
  <2>5. EndFrame(own'[q], 0) = IF ahead < EndFrame(own[q], 0) THEN EndFrame(own[q], 0) ELSE ahead + 1
    BY <2>2, <2>3, <2>4, SetOnceKeepsHeld
  <2>6. EndFrame(own[q], 0) = IF Frame(q) = 0 THEN 0 ELSE Frame(q) + Delay
    BY <2>1 DEF OwnFollows
  <2>7. EndFrame(own'[q], 0) = Frame(q) + Delay + 1
    BY <2>2, <2>5, <2>6 DEF ahead
  <2>8. Frame(q)' = Frame(q) /\ pc'[q] = "gate"
    BY <1>1, <2>1 DEF Frame, TypeOK
  <2>9. ASSUME NEW r \in Peers, r # q
        PROVE  own'[r] = own[r] /\ pc'[r] = pc[r] /\ Frame(r)' = Frame(r) /\ Reached(r)' = Reached(r)
    BY <1>1, <2>1, <2>9 DEF TypeOK, Frame, Reached
  <2>. QED BY <2>7, <2>8, <2>9 DEF OwnFollows
<1>3. ASSUME NEW p \in Peers, PassGate(p) \/ TriggerRollback(p) \/ Rerun(p) \/ Leave(p)
      PROVE  OwnFollows'
  <2>. DEFINE q == Other(p)
  <2>1. q \in Peers /\ \A r \in Peers : r = p \/ r = q
    BY TwoPeers
  <2>2. /\ UNCHANGED own /\ pc[p] # "left"
        /\ pc'[q] = pc[q] /\ Reached(q)' = Reached(q) /\ Frame(q)' = Frame(q)
        /\ \/ pc'[p] = "left"
           \/ pc'[p] = "top" /\ pc[p] = "gate" /\ Ready(p) /\ Reached(p)' = Frame(p) + 1
           \/ pc'[p] = "top" /\ pc[p] = "top" /\ Reached(p)' = Reached(p)
    BY <1>3, PlayMoves
  <2>. HIDE DEF q
  <2>3. pc'[p] # "left" =>
          EndFrame(own[p], 0) = IF Reached(p)' = 0 THEN 0 ELSE Reached(p)' + Delay
    BY <2>2, PeerFacts, RollbackAssumption DEF OwnFollows
  <2>. QED BY <2>1, <2>2, <2>3 DEF OwnFollows
<1>4. ASSUME NEW p \in Peers, (\E msg \in sent[Other(p)] : Receive(p, msg)) \/ ReceiveIndex(p)
      PROVE  OwnFollows'
  <2>1. UNCHANGED << hist, pc, own, stop >>
    BY <1>4 DEF Receive, ReceiveIndex
  <2>. QED BY <2>1 DEF OwnFollows, Frame, Reached
<1>5. ASSUME UNCHANGED vars PROVE OwnFollows'
  BY <1>5 DEF vars, OwnFollows, Frame, Reached
<1>. QED BY <1>2, <1>3, <1>4, <1>5 DEF Next, Finished

(* At the gate, with all the opponent has resent and no smaller frame than the opponent's *)
(* to wait for, a peer finds it open.                                                     *)
LEMMA GateOpens ==
  ASSUME IInv, OwnFollows, NEW p \in Peers, NEW q \in Peers, q = Other(p), pc[p] = "gate",
         IF pc[q] = "left" THEN ~ EndIndex(remote[p]) <= 1
         ELSE ~ EndFrame(remote[p], 0) < EndFrame(own[q], 0),
         \/ pc[q] = "left"
         \/ pc[q] = "gate" /\ Frame(p) <= Frame(q)
         \/ pc[q] = "top" /\ stop[q] = NoFrame /\ ~ Frame(q) < MaxFrame
  PROVE  Ready(p)
<1>1. /\ Frame(p) \in Nat /\ Frame(q) \in Nat /\ Delay \in Nat /\ Rollback \in Nat
      /\ EndFrame(remote[p], 0) \in Nat /\ EndFrame(own[q], 0) \in Nat /\ MaxFrame \in Nat
  <2>1. /\ Frame(p) \in Nat /\ Frame(q) \in Nat
        /\ EndFrame(remote[p], 0) \in Nat /\ EndFrame(own[q], 0) \in Nat
    BY PeerFacts
  <2>2. Delay \in Nat /\ Rollback \in Nat /\ MaxFrame \in Nat
    BY RollbackAssumption
  <2>. QED BY <2>1, <2>2
<1>2. CASE pc[q] = "left"
  <2>1. EndIndex(remote[p]) \in Nat
    BY PeerFacts DEF EndIndex, Container
  <2>. QED BY <1>2, <2>1 DEF Ready
<1>3. CASE pc[q] # "left"
  <2>1. EndFrame(own[q], 0) > Frame(p)
    <3>1. CASE pc[q] = "gate"
      <4>1. EndFrame(own[q], 0) = Frame(q) + Delay + 1
        BY <3>1 DEF OwnFollows
      <4>. QED BY <1>1, <3>1, <4>1
    <3>2. CASE pc[q] = "top"
      <4>1. Frame(p) < MaxFrame
        BY DEF IInv, PeerSound, Sound, Held, Frame
      <4>2. Reached(q) = Frame(q) /\ Frame(q) > Frame(p)
        BY <1>1, <3>2, <4>1 DEF Reached
      <4>3. EndFrame(own[q], 0) = IF Reached(q) = 0 THEN 0 ELSE Reached(q) + Delay
        BY <3>2 DEF OwnFollows
      <4>. QED BY <1>1, <4>2, <4>3
    <3>. QED BY <1>3, <3>1, <3>2
  <2>2. EndFrame(remote[p], 0) > Frame(p)
    BY <1>1, <1>3, <2>1
  <2>. QED BY <1>1, <2>2 DEF Ready
<1>. QED BY <1>2, <1>3

LEMMA SomebodyIsNotStuck == IInv /\ OwnFollows => NobodyIsStuck
<1>. SUFFICES ASSUME IInv, OwnFollows,
                     NEW r \in Peers,
                     pc[r] = "gate" \/ (pc[r] = "top" /\ (stop[r] # NoFrame \/ Frame(r) < MaxFrame)),
                     \A p \in Peers :
                       pc[p] = "top" => stop[p] = NoFrame /\ ~ Frame(p) < MaxFrame,
                     \A p \in Peers : pc[p] = "gate" =>
                       /\ ~ Ready(p)
                       /\ IF pc[Other(p)] = "left" THEN ~ EndIndex(remote[p]) <= 1
                          ELSE ~ EndFrame(remote[p], 0) < EndFrame(own[Other(p)], 0)
              PROVE  FALSE
  BY DEF NobodyIsStuck
<1>. DEFINE q == Other(r)
<1>1. q \in Peers /\ Other(q) = r /\ pc[r] = "gate"
  BY TwoPeers
<1>2. pc[q] \in {"top", "gate", "left"} /\ Frame(r) \in Nat /\ Frame(q) \in Nat
  BY <1>1, PeerFacts DEF IInv, TypeOK
<1>. HIDE DEF q
<1>3. CASE pc[q] \in {"top", "left"}
  BY <1>1, <1>3, GateOpens DEF q
<1>4. CASE pc[q] = "gate"
  <2>1. CASE Frame(r) <= Frame(q)
    BY <1>1, <1>4, <2>1, GateOpens DEF q
  <2>2. CASE Frame(q) <= Frame(r)
    BY <1>1, <1>4, <2>2, GateOpens
  <2>. QED BY <1>2, <2>1, <2>2
<1>. QED BY <1>2, <1>3, <1>4

(* Neither the gate nor the end of the round leaves the two peers waiting for each other, *)
(* for any delay, prediction window, pool and size of the input window, be it too small.  *)
THEOREM NeverStuck == Spec => []NobodyIsStuck
<1>1. Init => OwnFollows
  BY ChainInit DEF Chain
<1>2. IInv /\ OwnFollows /\ [Next]_vars => IInv' /\ OwnFollows'
  BY StepSound, OwnFollowsStep
<1>. QED BY <1>1, <1>2, InitSound, SomebodyIsNotStuck, PTL DEF Spec

-----------------------------------------------------------------------------
(* The exchange of inputs.  Speculation, rollbacks and reruns are invisible in it: while   *)
(* nobody leaves the round, every step of Rollback is a step of Lockstep, or one that     *)
(* Lockstep does not see.  A rerun is the latter, since the frame a peer has reached      *)
(* stays; a rollback is a passed gate.  The container of the opponent's inputs is what    *)
(* Lockstep calls both `remote' and `received', which takes Chain: no batch leaves a gap. *)

(* No input is a blow that ends the round. *)
NoKnockOut == Attack \notin Input

NobodyLeft == \A p \in Peers : pc[p] # "left"

(* The last frame of a batch, and where a window that ends there starts. *)
LastFrame(msg) == msg.start + Len(msg.batch) - 1
IsWindow(msg) ==
  msg.start = IF LastFrame(msg) + 1 < NumInputs THEN 0 ELSE LastFrame(msg) + 1 - NumInputs
SentAreWindows == \A p \in Peers : \A msg \in sent[p] : IsWindow(msg)

Whole == IInv /\ Chain /\ NobodyLeft /\ SentAreWindows

-----------------------------------------------------------------------------

LEMMA WindowIsWindow ==
  ASSUME NEW c \in Container, NEW msg, msg = Window(c)
  PROVE  IsWindow(msg) /\ LastFrame(msg) = EndFrame(c, 0) - 1
<1>. DEFINE end == EndFrame(c, 0)
            start == IF end < NumInputs THEN 0 ELSE end - NumInputs
            row == Row(c, 0)
<1>1. row \in Seq(Input) /\ end = Len(row) /\ end \in Nat /\ NumInputs \in Nat
  BY RowIsHeld, RollbackAssumption DEF EndFrame
<1>2. start \in Nat /\ start <= end
  BY <1>1
<1>3. msg = [start |-> start, batch |-> GetBatch(c, 0, start, end - start, << >>)]
  BY DEF Window
<1>4. start + (end - start) = end
  BY <1>1, <1>2
<1>5. start = IF end < NumInputs THEN 0 ELSE end - NumInputs
  OBVIOUS
<1>. HIDE DEF end, start, row
<1>6. msg.start = start /\ msg.batch = SubSeq(row, start + 1, end)
  <2>1. ~ start + (end - start) > end
    BY <1>1, <1>4
  <2>2. GetBatch(c, 0, start, end - start, << >>) = SubSeq(row, start + 1, start + (end - start))
    BY <2>1 DEF GetBatch, end, row
  <2>. QED BY <1>3, <1>4, <2>2
<1>7. Len(msg.batch) = end - start
  <2>1. \A k \in start + 1 .. end : row[k] \in Input
    BY <1>1, <1>2
  <2>2. Len(SubSeq(row, start + 1, end)) = IF start + 1 <= end THEN end - (start + 1) + 1 ELSE 0
    BY <1>1, <1>2, <2>1, SubSeqProperties
  <2>. QED BY <1>1, <1>2, <1>6, <2>2
<1>8. LastFrame(msg) = end - 1
  BY <1>1, <1>2, <1>6, <1>7 DEF LastFrame
<1>9. (end - 1) + 1 = end
  BY <1>1
<1>10. IsWindow(msg)
  <2>1. LastFrame(msg) + 1 = end
    BY <1>8, <1>9
  <2>2. msg.start = IF end < NumInputs THEN 0 ELSE end - NumInputs
    BY <1>5, <1>6
  <2>3. LastFrame(msg) + 1 - NumInputs = end - NumInputs
    BY <1>1, <1>8
  <2>. QED BY <2>1, <2>2, <2>3 DEF IsWindow
<1>. QED BY <1>8, <1>10 DEF end

(* Without a knock-out no round is over.                                                  *)
LEMMA NoRoundIsOver ==
  ASSUME NoKnockOut, IInv, NEW p \in Peers
  PROVE  ~ Over(hist[p])
<1>1. hist[p] \in Seq([Peers -> Input])
  BY DEF IInv, TypeOK, History
<1>2. \A i \in DOMAIN hist[p] : hist[p][i][1] \in Input
  BY <1>1 DEF Peers
<1>. QED BY <1>2 DEF Over, NoKnockOut

LEMMA WholeInit == Init => Whole
<1>1. Init => NobodyLeft /\ SentAreWindows
  BY DEF Init, NobodyLeft, SentAreWindows
<1>. QED BY <1>1, InitSound, ChainInit DEF Whole

LEMMA WholeStep ==
  ASSUME WindowFits, NoKnockOut PROVE Whole /\ [Next]_vars => Whole'
<1>. SUFFICES ASSUME Whole, [Next]_vars PROVE NobodyLeft' /\ SentAreWindows'
  BY ChainStep DEF Whole
<1>. USE DEF Whole
<1>1. TypeOK /\ IInv'
  BY StepSound DEF IInv
<1>2. ASSUME NEW p \in Peers, NEW input \in Presses(p, Frame(p)), StartFrame(p, input)
      PROVE  NobodyLeft' /\ SentAreWindows'
  <2>1. /\ pc' = [pc EXCEPT ![p] = "gate"]
        /\ sent' = [sent EXCEPT ![p] = sent[p] \cup {Window(own'[p])}]
    BY <1>2 DEF StartFrame
  <2>2. IsWindow(Window(own'[p]))
    BY <1>1, WindowIsWindow DEF IInv, TypeOK
  <2>. QED BY <1>1, <2>1, <2>2 DEF TypeOK, NobodyLeft, SentAreWindows
<1>3. ASSUME NEW p \in Peers, PassGate(p) \/ TriggerRollback(p)
      PROVE  NobodyLeft' /\ SentAreWindows'
  <2>1. pc' = [pc EXCEPT ![p] = "top"] /\ UNCHANGED sent
    BY <1>3 DEF PassGate, TriggerRollback
  <2>. QED BY <1>1, <2>1 DEF TypeOK, NobodyLeft, SentAreWindows
<1>4. ASSUME NEW p \in Peers, Rerun(p) PROVE NobodyLeft' /\ SentAreWindows'
  BY <1>4 DEF Rerun, NobodyLeft, SentAreWindows
<1>5. ASSUME NEW p \in Peers, Leave(p) PROVE FALSE
  BY <1>5, NoRoundIsOver DEF Leave, RoundIsOver
<1>6. ASSUME NEW p \in Peers, NEW msg \in sent[Other(p)], Receive(p, msg)
      PROVE  NobodyLeft' /\ SentAreWindows'
  BY <1>6 DEF Receive, NobodyLeft, SentAreWindows
<1>7. ASSUME NEW p \in Peers, ReceiveIndex(p) PROVE FALSE
  BY <1>7, TwoPeers DEF ReceiveIndex, NobodyLeft
<1>8. ASSUME UNCHANGED vars PROVE NobodyLeft' /\ SentAreWindows'
  BY <1>8 DEF vars, NobodyLeft, SentAreWindows
<1>. QED BY <1>2, <1>3, <1>4, <1>5, <1>6, <1>7, <1>8 DEF Next, Finished

-----------------------------------------------------------------------------
(* The steps, as Lockstep sees them.  What it sees of a state: *)

FrameMap == [p \in Peers |-> Reached(p)]
SizeMap == [p \in Peers |-> EndFrame(own[p], 0)]
KnownMap == [p \in Peers |-> EndFrame(remote[p], 0)]
ToldMap == [p \in Peers |-> 0 .. EndFrame(remote[p], 0) - 1]
LastMap == [p \in Peers |-> {LastFrame(msg) : msg \in sent[p]}]

LEMMA StartFrameMaps ==
  ASSUME Whole, Whole', NEW p \in Peers, NEW input \in Presses(p, Frame(p)), StartFrame(p, input)
  PROVE  Exchange!StartFrame(p)
<1>. DEFINE ahead == Frame(p) + Delay
            end == IF ahead < EndFrame(own[p], 0) THEN EndFrame(own[p], 0) ELSE ahead + 1
<1>1. /\ pc[p] = "top" /\ stop[p] = NoFrame /\ Frame(p) < MaxFrame /\ Reached(p) = Frame(p)
      /\ own' = [own EXCEPT ![p] = SetOnce(own[p], 0, ahead, input)]
      /\ sent' = [sent EXCEPT ![p] = sent[p] \cup {Window(own'[p])}]
      /\ pc' = [pc EXCEPT ![p] = "gate"]
      /\ UNCHANGED << hist, remote, stop >>
  BY DEF StartFrame, Reached
<1>2. TypeOK /\ TypeOK' /\ Frame(p) \in 0 .. MaxFrame /\ ahead \in Nat /\ input \in Input
  <2>1. TypeOK /\ TypeOK' /\ Frame(p) \in Nat /\ Frame(p) < MaxFrame
    BY <1>1, PeerFacts DEF Whole, IInv
  <2>2. Frame(p) \in 0 .. MaxFrame /\ ahead \in Nat
    BY <2>1, RollbackAssumption
  <2>3. input \in Input
    BY <2>2, RollbackAssumption DEF Peers
  <2>. QED BY <2>1, <2>2, <2>3
<1>3. own'[p] = SetOnce(own[p], 0, ahead, input) /\ own'[p] \in Container /\ own[p] \in Container
  BY <1>1, <1>2 DEF TypeOK
<1>. HIDE DEF ahead
<1>4. EndFrame(own'[p], 0) = end
  BY <1>2, <1>3, SetOnceKeepsHeld
<1>5. LastFrame(Window(own'[p])) = end - 1
  BY <1>3, <1>4, WindowIsWindow
<1>. HIDE DEF end
<1>6. SizeMap' = [SizeMap EXCEPT ![p] = end]
  BY <1>1, <1>2, <1>4 DEF SizeMap, TypeOK
<1>7. LastMap' = [LastMap EXCEPT ![p] = LastMap[p] \cup {end - 1}]
  <2>. DEFINE w == Window(own'[p])
              lasts(msgs) == {LastFrame(msg) : msg \in msgs}
  <2>1. sent'[p] = sent[p] \cup {w} /\ \A q \in Peers \ {p} : sent'[q] = sent[q]
    BY <1>1, <1>2 DEF TypeOK
  <2>. HIDE DEF w
  <2>2. lasts(sent'[p]) = lasts(sent[p]) \cup {LastFrame(w)}
    BY <2>1
  <2>3. \A q \in Peers \ {p} : lasts(sent'[q]) = lasts(sent[q])
    BY <2>1
  <2>4. LastMap = [q \in Peers |-> lasts(sent[q])] /\ LastMap' = [q \in Peers |-> lasts(sent'[q])]
    BY DEF LastMap
  <2>. HIDE DEF lasts
  <2>5. LastFrame(w) = end - 1
    BY <1>5 DEF w
  <2>. QED BY <2>2, <2>3, <2>4, <2>5
<1>8. FrameMap' = FrameMap /\ KnownMap' = KnownMap /\ ToldMap' = ToldMap
  BY <1>1 DEF FrameMap, KnownMap, ToldMap, Reached, Frame
<1>9. FrameMap[p] = Frame(p) /\ SizeMap[p] = EndFrame(own[p], 0)
  BY <1>1 DEF FrameMap, SizeMap
<1>10. end = IF FrameMap[p] + Delay < SizeMap[p] THEN SizeMap[p] ELSE FrameMap[p] + Delay + 1
  BY <1>9 DEF end, ahead
<1>. QED BY <1>1, <1>6, <1>7, <1>8, <1>9, <1>10
     DEF Exchange!StartFrame, FrameMap, SizeMap, KnownMap, ToldMap, LastMap, LastFrame

LEMMA GateMaps ==
  ASSUME Whole, Whole', NEW p \in Peers, PassGate(p) \/ TriggerRollback(p)
  PROVE  Exchange!PassGate(p)
<1>1. /\ pc[p] = "gate" /\ Ready(p) /\ stop[p] = NoFrame /\ TypeOK /\ TypeOK'
      /\ pc' = [pc EXCEPT ![p] = "top"] /\ UNCHANGED << own, sent >>
  BY PeerFacts DEF PassGate, TriggerRollback, Whole, IInv
<1>2. ~ EndIndex(remote[p]) > 1
  BY TwoPeers DEF Whole, Chain, GoneHasLeft, NobodyLeft
<1>3. EndFrame(remote[p], 0) > 0 /\ EndFrame(remote[p], 0) - 1 + Rollback >= Frame(p)
  BY <1>1, <1>2 DEF Ready
<1>4. Reached(p) = Frame(p) /\ Reached(p)' = Frame(p) + 1
  <2>1. CASE PassGate(p)
    <3>1. stop'[p] = NoFrame /\ hist'[p] = Play(hist[p], Inputs(p, own[p], remote[p], Frame(p)))
      BY <1>1, <2>1 DEF PassGate, TypeOK
    <3>2. hist[p] \in History /\ Inputs(p, own[p], remote[p], Frame(p)) \in [Peers -> Input]
      BY <1>1, PeerFacts, InputsAreInputs DEF TypeOK, Whole
    <3>. QED BY <1>1, <3>1, <3>2, PlayExtends DEF Reached, Frame
  <2>2. CASE TriggerRollback(p)
    <3>1. stop'[p] = Frame(p) /\ Frame(p) # NoFrame
      BY <1>1, <2>2, PeerFacts DEF TriggerRollback, TypeOK, NoFrame, Whole
    <3>. QED BY <1>1, <3>1 DEF Reached
  <2>. QED BY <2>1, <2>2
<1>5. ASSUME NEW q \in Peers, q # p PROVE Reached(q)' = Reached(q)
  <2>1. CASE PassGate(p)
    BY <1>1, <1>5, <2>1 DEF PassGate, Reached, Frame, TypeOK
  <2>2. CASE TriggerRollback(p)
    BY <1>1, <1>5, <2>2 DEF TriggerRollback, Reached, Frame, TypeOK
  <2>. QED BY <2>1, <2>2
<1>6. ASSUME NEW q \in Peers PROVE EndFrame(remote'[q], 0) = EndFrame(remote[q], 0)
  <2>1. remote'[q] = remote[q] \/ remote'[q] = ClearLastChangedFrame(remote[q])
    <3>1. CASE PassGate(p)
      BY <3>1 DEF PassGate
    <3>2. CASE TriggerRollback(p)
      <4>1. remote' = [remote EXCEPT ![p] = ClearLastChangedFrame(remote[p])]
        BY <3>2 DEF TriggerRollback
      <4>. QED BY <1>1, <4>1 DEF TypeOK
    <3>. QED BY <3>1, <3>2
  <2>2. ClearLastChangedFrame(remote[q]).inputs = remote[q].inputs
    BY DEF ClearLastChangedFrame
  <2>. QED BY <2>1, <2>2 DEF Row, EndFrame, EndIndex
<1>7. FrameMap' = [FrameMap EXCEPT ![p] = FrameMap[p] + 1] /\ FrameMap[p] = Frame(p)
  BY <1>4, <1>5 DEF FrameMap
<1>8. KnownMap' = KnownMap /\ ToldMap' = ToldMap /\ KnownMap[p] = EndFrame(remote[p], 0)
  BY <1>6 DEF KnownMap, ToldMap
<1>9. SizeMap' = SizeMap /\ LastMap' = LastMap
  BY <1>1 DEF SizeMap, LastMap
<1>. QED BY <1>1, <1>3, <1>7, <1>8, <1>9
     DEF Exchange!PassGate, Exchange!Ready, FrameMap, SizeMap, KnownMap, ToldMap, LastMap, LastFrame

LEMMA RerunMaps ==
  ASSUME Whole, Whole', NEW p \in Peers, Rerun(p)
  PROVE  UNCHANGED << FrameMap, pc, SizeMap, KnownMap, ToldMap, LastMap >>
<1>1. /\ TypeOK /\ UNCHANGED << pc, own, remote, sent >>
      /\ stop[p] # NoFrame /\ Frame(p) <= stop[p] /\ Frame(p) \in Nat /\ stop[p] \in Nat
      /\ stop' = [stop EXCEPT ![p] = IF Frame(p) >= stop[p] THEN NoFrame ELSE stop[p]]
      /\ hist' = [hist EXCEPT ![p] = Play(hist[p], Inputs(p, own[p], remote[p], Frame(p)))]
  BY PeerFacts DEF Rerun, Whole, IInv
<1>2. Len(hist'[p]) = Frame(p) + 1
  <2>1. hist'[p] = Play(hist[p], Inputs(p, own[p], remote[p], Frame(p)))
    BY <1>1 DEF TypeOK
  <2>2. hist[p] \in History /\ Inputs(p, own[p], remote[p], Frame(p)) \in [Peers -> Input]
    BY <1>1, PeerFacts, InputsAreInputs DEF TypeOK, Whole
  <2>. QED BY <2>1, <2>2, PlayExtends DEF Frame
<1>3. stop'[p] = IF Frame(p) >= stop[p] THEN NoFrame ELSE stop[p]
  BY <1>1 DEF TypeOK
<1>4. Reached(p)' = Reached(p)
  BY <1>1, <1>2, <1>3 DEF Reached, Frame
<1>5. ASSUME NEW q \in Peers, q # p PROVE Reached(q)' = Reached(q)
  BY <1>1, <1>5 DEF Reached, Frame, TypeOK
<1>. QED BY <1>1, <1>4, <1>5 DEF FrameMap, SizeMap, KnownMap, ToldMap, LastMap

LEMMA ReceiveMaps ==
  ASSUME Whole, Whole', NEW p \in Peers, NEW msg \in sent[Other(p)], Receive(p, msg)
  PROVE  \E last \in LastMap[Other(p)] : Exchange!Receive(p, last)
<1>. DEFINE last == LastFrame(msg)
            row == Row(remote[p], 0)
            known == EndFrame(remote[p], 0)
            known2 == EndFrame(remote'[p], 0)
<1>1. /\ TypeOK /\ TypeOK' /\ Other(p) \in Peers /\ UNCHANGED << hist, pc, own, stop, sent >>
      /\ remote' = [remote EXCEPT ![p] = SetBatch(remote[p], 0, msg.start, msg.batch, 0)]
  BY TwoPeers DEF Receive, Whole, IInv
<1>2. remote'[p] = SetBatch(remote[p], 0, msg.start, msg.batch, 0)
  BY <1>1 DEF TypeOK
<1>3. msg.start \in Nat /\ msg.batch \in Seq(Input) /\ Len(msg.batch) \in Nat
  <2>1. msg \in [start : Nat, batch : Seq(Input)]
    BY <1>1 DEF TypeOK
  <2>. QED BY <2>1
<1>4. row \in Seq(Input) /\ known = Len(row) /\ known \in Nat
  BY PeerFacts DEF Whole
<1>5. IsBatched(Row(remote'[p], 0), row, msg.start, msg.batch)
  <2>1. Row(remote'[p], 0) = Batched(row, msg.start, msg.batch)
    <3>1. remote[p] \in Container
      BY PeerFacts DEF Whole
    <3>2. Row(SetBatch(remote[p], 0, msg.start, msg.batch, 0), 0) = Batched(row, msg.start, msg.batch)
      BY <1>3, <3>1, BatchMarksWhatItChanges
    <3>. QED BY <1>2, <3>2
  <2>. HIDE DEF row
  <2>. QED BY <1>3, <1>4, <2>1, BatchedReads
<1>6. known2 = IF msg.start + Len(msg.batch) > known THEN msg.start + Len(msg.batch) ELSE known
  BY <1>4, <1>5 DEF IsBatched, EndFrame
<1>7. msg.start <= known /\ IsWindow(msg)
  BY <1>1, <1>4 DEF Whole, NobodyLeft, Chain, NoGap, SentAreWindows
<1>8. last = msg.start + Len(msg.batch) - 1
  BY DEF LastFrame
<1>9. last \in LastMap[Other(p)]
  BY <1>1 DEF LastMap
<1>10. msg.start = Exchange!WindowStart(last)
  BY <1>7 DEF IsWindow, Exchange!WindowStart
<1>. HIDE DEF row, known, known2, last
<1>11. last + 1 = msg.start + Len(msg.batch) /\ last \in Int /\ last >= msg.start - 1
  BY <1>3, <1>8
<1>12. known2 = IF last + 1 > known THEN last + 1 ELSE known
  BY <1>6, <1>11
<1>13. 0 .. known2 - 1 = (0 .. known - 1) \cup (msg.start .. last)
  <2>1. ASSUME NEW f \in 0 .. known2 - 1 PROVE f \in 0 .. known - 1 \/ f \in msg.start .. last
    BY <1>3, <1>4, <1>7, <1>11, <1>12
  <2>2. ASSUME NEW f \in 0 .. known - 1 PROVE f \in 0 .. known2 - 1
    BY <1>4, <1>11, <1>12
  <2>3. ASSUME NEW f \in msg.start .. last PROVE f \in 0 .. known2 - 1
    BY <1>3, <1>4, <1>11, <1>12
  <2>. QED BY <2>1, <2>2, <2>3
<1>14. \A q \in Peers \ {p} : remote'[q] = remote[q]
  BY <1>1 DEF TypeOK
<1>15. KnownMap' = [KnownMap EXCEPT ![p] = IF last + 1 > KnownMap[p] THEN last + 1 ELSE KnownMap[p]]
  BY <1>12, <1>14 DEF KnownMap, known, known2
<1>16. ToldMap' = [ToldMap EXCEPT ![p] = ToldMap[p] \cup Exchange!Window(last)]
  <2>1. Exchange!Window(last) = msg.start .. last
    BY <1>10 DEF Exchange!Window
  <2>2. ToldMap'[p] = ToldMap[p] \cup Exchange!Window(last)
    BY <1>13, <2>1 DEF ToldMap, known, known2
  <2>. QED BY <1>14, <2>2 DEF ToldMap
<1>17. FrameMap' = FrameMap /\ SizeMap' = SizeMap /\ LastMap' = LastMap /\ pc' = pc
  BY <1>1 DEF FrameMap, SizeMap, LastMap, Reached, Frame
<1>18. Exchange!Receive(p, last)
  BY <1>1, <1>9, <1>15, <1>16, <1>17, TwoPeers
     DEF Exchange!Receive, Exchange!Other, Other, FrameMap, SizeMap, KnownMap, ToldMap, LastMap, LastFrame
<1>. QED BY <1>9, <1>18

-----------------------------------------------------------------------------

LEMMA InitMaps == Init => Exchange!Init
<1>. SUFFICES ASSUME Init PROVE Exchange!Init
  OBVIOUS
<1>1. \A p \in Peers : /\ EndFrame(own[p], 0) = 0 /\ EndFrame(remote[p], 0) = 0
                       /\ sent[p] = {} /\ pc[p] = "top" /\ Reached(p) = 0
  BY DEF Init, Reached, Frame, NoFrame, EmptyContainer, EndFrame, Row, EndIndex
<1>2. pc = [p \in Peers |-> "top"]
  BY DEF Init
<1>. QED BY <1>1, <1>2 DEF Exchange!Init, Exchange!Peers, Peers

LEMMA NextMaps ==
  ASSUME Whole, Whole', [Next]_vars
  PROVE  Exchange!Next \/ UNCHANGED << FrameMap, pc, SizeMap, KnownMap, ToldMap, LastMap >>
<1>0. Exchange!Peers = Peers /\ \A p \in Peers : Exchange!Other(p) = Other(p)
  BY DEF Exchange!Peers, Peers, Exchange!Other, Other
<1>1. ASSUME NEW p \in Peers, NEW input \in Presses(p, Frame(p)), StartFrame(p, input)
      PROVE  Exchange!Next
  BY <1>0, <1>1, StartFrameMaps DEF Exchange!Next
<1>2. ASSUME NEW p \in Peers, PassGate(p) \/ TriggerRollback(p) PROVE Exchange!Next
  BY <1>0, <1>2, GateMaps DEF Exchange!Next
<1>3. ASSUME NEW p \in Peers, Rerun(p)
      PROVE  UNCHANGED << FrameMap, pc, SizeMap, KnownMap, ToldMap, LastMap >>
  BY <1>3, RerunMaps
<1>4. ASSUME NEW p \in Peers, Leave(p) PROVE FALSE
  BY <1>4, TwoPeers DEF Leave, Whole, NobodyLeft, IInv, TypeOK
<1>5. ASSUME NEW p \in Peers, NEW msg \in sent[Other(p)], Receive(p, msg) PROVE Exchange!Next
  <2>1. PICK last \in LastMap[Other(p)] : Exchange!Receive(p, last)
    BY <1>5, ReceiveMaps
  <2>. QED BY <1>0, <2>1 DEF Exchange!Next, Exchange!Receive
<1>6. ASSUME NEW p \in Peers, ReceiveIndex(p) PROVE FALSE
  BY <1>6, TwoPeers DEF ReceiveIndex, Whole, NobodyLeft
<1>7. ASSUME UNCHANGED vars PROVE UNCHANGED << FrameMap, pc, SizeMap, KnownMap, ToldMap, LastMap >>
  BY <1>7 DEF vars, FrameMap, SizeMap, KnownMap, ToldMap, LastMap, Reached, Frame
<1>. QED BY <1>1, <1>2, <1>3, <1>4, <1>5, <1>6, <1>7 DEF Next, Finished

(* Rollback implements Lockstep: whatever is predicted and rerun, the frames the two      *)
(* peers have reached, and what each has been told, move as in the exchange of inputs     *)
(* alone.                                                                                 *)
THEOREM ExchangeIsLockstep == ASSUME WindowFits, NoKnockOut PROVE Spec => RefinesLockstep
<1>1. Whole /\ Whole' /\ [Next]_vars => [Exchange!Next]_(Exchange!vars)
  BY NextMaps DEF Exchange!vars, FrameMap, SizeMap, KnownMap, ToldMap, LastMap, LastFrame
<1>. QED BY <1>1, WholeInit, WholeStep, InitMaps, PTL DEF Spec, RefinesLockstep, Exchange!Spec

-----------------------------------------------------------------------------
(* The end of the round.  A contradiction comes within the prediction window and what the *)
(* spacing timer adds (CorrectionIsBounded).  The round-over timer counts the frames      *)
(* since the first knock-out seen, so that a peer that leaves before its opponent has had *)
(* time to be contradicted and corrected, and the opponent has come far enough to lack    *)
(* only so many of the inputs that decided the round.                                     *)

(* The margin outlasts the spacing timer: in the code it is 5, and the spacing 4 or less. *)
SpacingFits == Spacing <= Margin + 1

(* The margin outlasts the time an input takes to be heard of and played.  Not a premise: *)
(* the code's settings are on either side.                                                *)
MarginFits == Delay + Rollback < Margin

Doubted(p) == remote[p].changed # MaxIndexedFrame
Mark(p) == remote[p].changed[2]

(* The frames played while the spacing timer holds the next rollback back. *)
Slack(p) == IF timer[p] = Spacing THEN 0 ELSE Spacing - 1 - timer[p]
OnTime(p) == Reached(p) <= Mark(p) + Rollback + Slack(p)

FoughtBefore(p, end) == \A f \in Fought(hist[p]) : f < end

MarkIsHere(p) == Doubted(p) => remote[p].changed[1] = 0

(* A contradiction comes within the prediction window, or from an opponent that has left: *)
(* past the end of its fight if the margin fits.                                          *)
Timely(p) ==
  pc[p] # "left" /\ Doubted(p) =>
    \/ OnTime(p)
    \/ pc[Other(p)] = "left" /\ (MarginFits => FoughtBefore(Other(p), Mark(p)))

(* The frames the round-over timer has counted, and the last one it was decremented for. *)
Waited(p) == IF over[p] < 0 THEN 0 ELSE (Rollback + Margin) - over[p]
Entered(p) == IF pc[p] = "gate" THEN Frame(p) + 1 ELSE Reached(p)

TimerIsRight(p) ==
  pc[p] # "left" =>
    IF Over(hist[p]) THEN FoughtBefore(p, Entered(p) - Waited(p))
    ELSE stop[p] = NoFrame => over[p] < 0

Delivered(p) ==
  pc[Other(p)] = "left" /\ pc[p] # "left" =>
    \A f \in Fought(hist[Other(p)]) : f + Margin <= EndFrame(remote[p], 0) + Delay + Rollback

(* The fight is known and committed, to its end. *)
FightIsKnown(p) ==
  /\ Over(hist[p])
  /\ FoughtBefore(p, EndFrame(remote[p], 0))
  /\ \A f \in Fought(hist[p]) : IsCommitted(hist[p], f)

SettledLeaver(p) ==
  pc[p] = "left" =>
    \/ FightIsKnown(p)
    \/ /\ ~ MarginFits
       /\ pc[Other(p)] = "left" /\ FightIsKnown(Other(p))
       /\ \E f \in Fought(hist[Other(p)]) : ~ Certain(p, f)

RoundOf(p) ==
  MarkIsHere(p) /\ Timely(p) /\ TimerIsRight(p) /\ Delivered(p) /\ SettledLeaver(p)

Round == \A p \in Peers : RoundOf(p)

-----------------------------------------------------------------------------
(* Knock-outs *)

LEMMA FoughtFrames ==
  ASSUME NEW h \in History, NEW f \in Fought(h)
  PROVE  f \in Nat /\ f < Len(h)
BY DEF Fought, History

(* The first knock-out of a history ends the fight.                                       *)
LEMMA KnockOutEnds ==
  ASSUME NEW h \in History, Over(h)
  PROVE  \E k \in Fought(h) : /\ h[k + 1][1] = Attack /\ h[k + 1][2] # Attack
                              /\ \A f \in Fought(h) : f <= k
<1>. DEFINE blows == {i \in 1 .. Len(h) : h[i][1] = Attack /\ h[i][2] # Attack}
<1>1. Len(h) \in Nat /\ h \in Seq([Peers -> Input]) /\ DOMAIN h = 1 .. Len(h)
  BY DEF History
<1>2. blows \subseteq Nat /\ blows # {}
  BY <1>1 DEF Over
<1>3. PICK i \in blows : \A j \in blows : i <= j
  <2>. HIDE DEF blows
  <2>. QED BY <1>2, SmallestIsThere
<1>. DEFINE k == i - 1
<1>4. i \in 1 .. Len(h) /\ k \in 0 .. Len(h) - 1 /\ k + 1 = i /\ h[i][1] = Attack /\ h[i][2] # Attack
  BY <1>1, <1>3
<1>. HIDE DEF k
<1>5. ASSUME NEW f \in 0 .. Len(h) - 1
      PROVE  Over(SubSeq(h, 1, f)) <=> \E j \in blows : j <= f
  <2>1. f \in 0 .. Len(h) /\ f \in Nat
    BY <1>1
  <2>. DEFINE past == SubSeq(h, 1, f)
  <2>2. past \in History /\ Len(past) = f /\ \A g \in 0 .. f - 1 : past[g + 1] = h[g + 1]
    BY <2>1, PastIsHistory
  <2>. HIDE DEF past
  <2>3. DOMAIN past = 1 .. f
    BY <2>2 DEF History
  <2>4. ASSUME NEW j \in 1 .. f PROVE past[j] = h[j] /\ j \in 1 .. Len(h)
    <3>1. j - 1 \in 0 .. f - 1 /\ (j - 1) + 1 = j
      BY <2>1
    <3>2. past[(j - 1) + 1] = h[(j - 1) + 1]
      BY <2>2, <3>1
    <3>. QED BY <1>1, <2>1, <3>1, <3>2
  <2>5. \A j \in 1 .. Len(h) : j <= f => j \in 1 .. f
    BY <1>1, <2>1
  <2>6. Over(past) <=> \E j \in 1 .. f : past[j][1] = Attack /\ past[j][2] # Attack
    BY <2>3 DEF Over
  <2>7. Over(past) => \E j \in blows : j <= f
    <3>1. SUFFICES ASSUME NEW j \in 1 .. f, past[j][1] = Attack, past[j][2] # Attack
                   PROVE  \E i2 \in blows : i2 <= f
      BY <2>6
    <3>2. j \in blows /\ j <= f
      BY <2>1, <2>4, <3>1
    <3>. QED BY <3>2
  <2>8. ASSUME NEW j \in blows, j <= f PROVE Over(past)
    BY <2>4, <2>5, <2>6, <2>8
  <2>. QED BY <2>7, <2>8 DEF past
<1>6. k \in Fought(h)
  BY <1>1, <1>3, <1>4, <1>5 DEF Fought
<1>7. \A f \in Fought(h) : f <= k
  <2>1. ASSUME NEW f \in Fought(h), ~ f <= k PROVE FALSE
    <3>1. f \in 0 .. Len(h) - 1 /\ ~ Over(SubSeq(h, 1, f))
      BY DEF Fought
    <3>2. i <= f
      BY <1>1, <1>4, <2>1, <3>1
    <3>. QED BY <1>3, <1>5, <3>1, <3>2
  <2>. QED BY <2>1
<1>. QED BY <1>4, <1>6, <1>7

(* What is played after the knock-out is not fought.                                      *)
LEMMA PlayAfterOver ==
  ASSUME NEW h \in History, NEW inputs \in [Peers -> Input], NEW new, new = Play(h, inputs),
         Over(h)
  PROVE  Over(new) /\ Fought(new) \subseteq Fought(h)
<1>1. /\ new \in History /\ Len(new) = Len(h) + 1 /\ Len(h) \in Nat
      /\ \A f \in 0 .. Len(h) - 1 : new[f + 1] = h[f + 1]
      /\ \A n \in 0 .. Len(h) : SubSeq(new, 1, n) = SubSeq(h, 1, n)
      /\ SubSeq(new, 1, Len(h)) = h
  BY PlayExtends DEF History
<1>2. Over(new)
  <2>1. PICK i \in 1 .. Len(h) : h[i][1] = Attack /\ h[i][2] # Attack
    BY DEF Over, History
  <2>2. i - 1 \in 0 .. Len(h) - 1 /\ (i - 1) + 1 = i /\ i \in 1 .. Len(new)
    BY <1>1
  <2>3. new[(i - 1) + 1] = h[(i - 1) + 1] /\ DOMAIN new = 1 .. Len(new)
    BY <1>1, <2>2 DEF History
  <2>. QED BY <2>1, <2>2, <2>3 DEF Over
<1>3. ASSUME NEW f \in Fought(new) PROVE f \in Fought(h)
  <2>1. f \in 0 .. Len(h) /\ ~ Over(SubSeq(new, 1, f))
    BY <1>1 DEF Fought
  <2>2. f # Len(h)
    BY <1>1, <2>1
  <2>3. SubSeq(new, 1, f) = SubSeq(h, 1, f)
    BY <1>1, <2>1
  <2>4. f \in 0 .. Len(h) - 1
    <3>1. Len(h) \in Nat /\ f \in 0 .. Len(h)
      BY <1>1, <2>1
    <3>. QED BY <2>2, <3>1
  <2>. QED BY <2>1, <2>3, <2>4 DEF Fought
<1>. QED BY <1>2, <1>3

(* A frame that is played again in its past may end the fight earlier, not later.         *)
LEMMA ReplayShortens ==
  ASSUME NEW h \in History, NEW n \in 0 .. Len(h) - 1, NEW inputs \in [Peers -> Input],
         NEW new, new = Play(SubSeq(h, 1, n), inputs)
  PROVE  Fought(new) \subseteq Fought(h)
<1>. DEFINE past == SubSeq(h, 1, n)
<1>1. Len(h) \in Nat /\ n \in 0 .. Len(h)
  BY DEF History
<1>2. past \in History /\ Len(past) = n /\ \A m \in 0 .. n : SubSeq(past, 1, m) = SubSeq(h, 1, m)
  BY <1>1, PastIsHistory
<1>. HIDE DEF past
<1>3. Len(new) = n + 1 /\ \A m \in 0 .. n : SubSeq(new, 1, m) = SubSeq(past, 1, m)
  <2>1. new = Play(past, inputs)
    BY DEF past
  <2>2. /\ Len(new) = Len(past) + 1
        /\ \A m \in 0 .. Len(past) : SubSeq(new, 1, m) = SubSeq(past, 1, m)
    <3>1. past \in History
      BY <1>2
    <3>. QED BY <2>1, <3>1, PlayExtends, Z3
  <2>. QED BY <1>2, <2>2
<1>4. ASSUME NEW f \in Fought(new) PROVE f \in Fought(h)
  <2>1. f \in 0 .. n /\ ~ Over(SubSeq(new, 1, f))
    BY <1>1, <1>3 DEF Fought
  <2>2. SubSeq(new, 1, f) = SubSeq(h, 1, f) /\ f \in 0 .. Len(h) - 1
    BY <1>1, <1>2, <1>3, <2>1
  <2>. QED BY <2>1, <2>2 DEF Fought
<1>. QED BY <1>4
-----------------------------------------------------------------------------
(* What a step of one peer leaves alone *)

Moves(p) ==
  \/ \E input \in Presses(p, Frame(p)) : StartFrame(p, input)
  \/ PassGate(p) \/ TriggerRollback(p) \/ Rerun(p) \/ Leave(p)
  \/ \E msg \in sent[Other(p)] : Receive(p, msg)
  \/ ReceiveIndex(p)

LEMMA OtherStays ==
  ASSUME TypeOK, NEW p \in Peers, Moves(p), NEW q \in Peers, q # p
  PROVE  /\ hist'[q] = hist[q] /\ pc'[q] = pc[q] /\ own'[q] = own[q] /\ remote'[q] = remote[q]
         /\ timer'[q] = timer[q] /\ stop'[q] = stop[q] /\ over'[q] = over[q]
         /\ pc[p] # "left"
<1>1. CASE \E input \in Presses(p, Frame(p)) : StartFrame(p, input)
  BY <1>1 DEF StartFrame, TypeOK
<1>2. CASE PassGate(p)
  BY <1>2 DEF PassGate, TypeOK
<1>3. CASE TriggerRollback(p)
  BY <1>3 DEF TriggerRollback, TypeOK
<1>4. CASE Rerun(p)
  BY <1>4 DEF Rerun, TypeOK
<1>5. CASE Leave(p)
  BY <1>5 DEF Leave, TypeOK
<1>6. CASE \E msg \in sent[Other(p)] : Receive(p, msg)
  BY <1>6 DEF Receive, TypeOK
<1>7. CASE ReceiveIndex(p)
  BY <1>7 DEF ReceiveIndex, TypeOK
<1>. QED BY <1>1, <1>2, <1>3, <1>4, <1>5, <1>6, <1>7 DEF Moves

(* The next index leaves the row and the mark of this one alone.                          *)
LEMMA ReceiveIndexKeeps ==
  ASSUME IInv, NEW p \in Peers, ReceiveIndex(p)
  PROVE  Row(remote'[p], 0) = Row(remote[p], 0) /\ remote'[p].changed = remote[p].changed
<1>1. remote'[p] = Resize(remote[p], 1, 0, 0) /\ remote[p] \in Container
  BY PeerFacts DEF ReceiveIndex, IInv, TypeOK
<1>. DEFINE one == 1
            none == 0 + 0
<1>2. one \in {0, 1} /\ none \in Nat /\ none = 0 /\ one # 0
  OBVIOUS
<1>3. remote'[p] = Grow(remote[p], one, none)
  BY <1>1 DEF Resize
<1>. HIDE DEF one, none
<1>. QED BY <1>1, <1>2, <1>3, Grows

(* No step shortens what a peer holds, or changes what it has committed.                  *)
LEMMA RowsGrow ==
  ASSUME IInv, Chain, NEW p \in Peers, Moves(p), NEW q \in Peers
  PROVE  /\ Starts(Row(own[q], 0), Row(own'[q], 0))
         /\ EndFrame(remote[q], 0) <= EndFrame(remote'[q], 0)
<1>1. /\ TypeOK /\ own[q] \in Container /\ remote[q] \in Container
      /\ EndFrame(remote[q], 0) \in Nat
  BY PeerFacts DEF IInv
<1>2. Starts(Row(own[q], 0), Row(own[q], 0))
  BY <1>1, RowIsHeld DEF Starts
<1>3. CASE q # p
  <2>1. own'[q] = own[q] /\ remote'[q] = remote[q]
    BY <1>1, <1>3, OtherStays
  <2>. QED BY <1>1, <1>2, <2>1
<1>4. CASE q = p
  <2>1. ASSUME NEW input \in Presses(p, Frame(p)), StartFrame(p, input)
        PROVE  Starts(Row(own[p], 0), Row(own'[p], 0)) /\ remote'[p] = remote[p]
    <3>1. /\ own'[p] = SetOnce(own[p], 0, Frame(p) + Delay, input) /\ remote'[p] = remote[p]
          /\ Frame(p) \in Nat /\ Frame(p) < MaxFrame /\ MaxFrame \in Nat
      BY <1>1, <2>1, PeerFacts, RollbackAssumption DEF StartFrame, TypeOK
    <3>2. input \in Input /\ Frame(p) + Delay \in Nat
      BY <3>1, RollbackAssumption DEF Peers
    <3>. QED BY <1>1, <1>4, <3>1, <3>2, SetOnceStarts
  <2>2. ASSUME PassGate(p) \/ TriggerRollback(p) \/ Rerun(p) \/ Leave(p)
        PROVE  own'[p] = own[p] /\ EndFrame(remote'[p], 0) = EndFrame(remote[p], 0)
    BY <2>2, PlayMoves
  <2>3. ASSUME NEW msg \in sent[Other(p)], Receive(p, msg)
        PROVE  own'[p] = own[p] /\ EndFrame(remote[p], 0) <= EndFrame(remote'[p], 0)
    BY <2>3, ReceiveMarks DEF Receive
  <2>4. ASSUME ReceiveIndex(p)
        PROVE  own'[p] = own[p] /\ EndFrame(remote'[p], 0) = EndFrame(remote[p], 0)
    BY <2>4, ReceiveIndexKeeps DEF ReceiveIndex, EndFrame
  <2>. QED BY <1>1, <1>2, <1>4, <2>1, <2>2, <2>3, <2>4 DEF Moves
<1>. QED BY <1>3, <1>4

LEMMA FirstRow ==
  ASSUME NEW c \in Container, NEW f \in Nat, f < EndFrame(c, 0)
  PROVE  Row(c, 0) = c.inputs[1]
<1>1. c.inputs \in Seq(Seq(Input)) /\ c.inputs # << >>
  BY DEF EndFrame, Row, EndIndex, Container
<1>. QED BY <1>1 DEF Row, EndIndex

LEMMA CommittedStays ==
  ASSUME IInv, IInv', Chain, NEW p \in Peers, Moves(p), NEW h, NEW f \in Nat, IsCommitted(h, f)
  PROVE  IsCommitted(h, f)'
<1>1. ASSUME NEW q \in Peers
      PROVE  f < EndFrame(own'[q], 0) /\ h[f + 1][q] = own'[q].inputs[1][f + 1]
  <2>1. /\ own[q] \in Container /\ own'[q] \in Container
        /\ EndFrame(own[q], 0) = Len(Row(own[q], 0)) /\ EndFrame(own'[q], 0) = Len(Row(own'[q], 0))
        /\ Len(Row(own[q], 0)) \in Nat /\ Len(Row(own'[q], 0)) \in Nat
    <3>1. own[q] \in Container /\ own'[q] \in Container
      BY DEF IInv, TypeOK
    <3>. QED BY <3>1, RowIsHeld DEF EndFrame
  <2>2. Starts(Row(own[q], 0), Row(own'[q], 0))
    BY RowsGrow
  <2>3. f < EndFrame(own[q], 0) /\ h[f + 1][q] = own[q].inputs[1][f + 1]
    BY DEF IsCommitted
  <2>4. f + 1 \in 1 .. Len(Row(own[q], 0)) /\ f < EndFrame(own'[q], 0)
    BY <2>1, <2>2, <2>3 DEF Starts
  <2>5. Row(own[q], 0) = own[q].inputs[1] /\ Row(own'[q], 0) = own'[q].inputs[1]
    BY <2>1, <2>3, <2>4, FirstRow
  <2>. QED BY <2>2, <2>3, <2>4, <2>5 DEF Starts
<1>. QED BY <1>1 DEF IsCommitted

(* What a peer is owed while the other one moves.                                         *)
LEMMA BystanderKeeps ==
  ASSUME IInv, IInv', Chain, Round, NEW p \in Peers, Moves(p), NEW q \in Peers, q = Other(p)
  PROVE  MarkIsHere(q)' /\ Timely(q)' /\ TimerIsRight(q)' /\ SettledLeaver(q)' /\ Delivered(p)'
<1>1. TypeOK /\ q # p /\ Other(q) = p
  BY TwoPeers DEF IInv
<1>2. /\ hist'[q] = hist[q] /\ pc'[q] = pc[q] /\ own'[q] = own[q] /\ remote'[q] = remote[q]
      /\ timer'[q] = timer[q] /\ stop'[q] = stop[q] /\ over'[q] = over[q]
      /\ pc[p] # "left"
  BY <1>1, OtherStays
<1>3. MarkIsHere(q)' /\ TimerIsRight(q)'
  BY <1>2 DEF Round, RoundOf, MarkIsHere, TimerIsRight, Doubted, FoughtBefore, Entered, Waited,
              Frame, Reached
<1>4. Timely(q)'
  BY <1>1, <1>2 DEF Round, RoundOf, Timely, Doubted, OnTime, Mark, Slack, Frame, Reached
<1>5. SettledLeaver(q)'
  <2>. SUFFICES ASSUME pc[q] = "left" PROVE FightIsKnown(q)'
    BY <1>2 DEF SettledLeaver
  <2>1. FightIsKnown(q)
    BY <1>1, <1>2 DEF Round, RoundOf, SettledLeaver
  <2>2. ASSUME NEW f \in Fought(hist[q]) PROVE IsCommitted(hist[q], f)'
    <3>1. IsCommitted(hist[q], f)
      BY <2>1 DEF FightIsKnown
    <3>2. f \in Nat
      BY <1>1, FoughtFrames DEF TypeOK
    <3>. DEFINE h == hist[q]
    <3>3. hist'[q] = h
      BY <1>2
    <3>. HIDE DEF h
    <3>4. IsCommitted(h, f)
      BY <3>1 DEF h
    <3>. QED BY <3>2, <3>3, <3>4, CommittedStays DEF IsCommitted
  <2>. QED BY <1>2, <2>1, <2>2 DEF FightIsKnown, FoughtBefore
<1>6. Delivered(p)'
  <2>1. /\ EndFrame(remote[p], 0) <= EndFrame(remote'[p], 0)
        /\ EndFrame(remote[p], 0) \in Nat /\ EndFrame(remote'[p], 0) \in Nat
    <3>1. remote[p] \in Container /\ remote'[p] \in Container
      BY DEF IInv, TypeOK
    <3>. QED BY <3>1, RowsGrow, RowIsHeld
  <2>2. \A f \in Fought(hist[q]) : f \in Nat
    BY <1>1, FoughtFrames DEF TypeOK
  <2>3. Margin \in Nat /\ Delay \in Nat /\ Rollback \in Nat
    BY RollbackAssumption
  <2>4. Delivered(p)
    BY DEF Round, RoundOf
  <2>. QED BY <1>1, <1>2, <2>1, <2>2, <2>3, <2>4 DEF Delivered
<1>. QED BY <1>3, <1>4, <1>5, <1>6

-----------------------------------------------------------------------------
(* The pending contradiction *)

LEMMA SlackFacts ==
  ASSUME TypeOK, NEW p \in Peers
  PROVE  Slack(p) \in Nat /\ Slack(p) <= Spacing - 1 /\ timer[p] \in 0 .. Spacing
         /\ Spacing \in Nat \ {0, 1} /\ Rollback \in Nat \ {0} /\ remote[p].changed \in Nat \X Nat
         /\ Mark(p) \in Nat
<1>1. timer[p] \in 0 .. Spacing /\ Spacing \in Nat \ {0, 1} /\ remote[p] \in Container
  BY Timers DEF TypeOK
<1>2. remote[p].changed \in Nat \X Nat
  BY <1>1 DEF Container
<1>. QED BY <1>1, <1>2, RollbackAssumption DEF Slack, Mark

(* While a peer plays on with a contradiction pending, the timer counts; and at rest it   *)
(* lets nobody past the contradiction.                                                    *)
LEMMA GateKeepsTime ==
  ASSUME IInv, IInv', NEW p \in Peers, PassGate(p), MarkIsHere(p), Doubted(p)
  PROVE  OnTime(p)' \/ ~ OnTime(p)
<1>1. /\ pc[p] = "gate" /\ timer' = [timer EXCEPT ![p] = Countdown(timer[p])]
      /\ ~ (timer'[p] = Spacing /\ Diverged(p)) /\ remote' = remote /\ stop' = stop
      /\ hist' = [hist EXCEPT ![p] = Play(hist[p], Inputs(p, own[p], remote[p], Frame(p)))]
      /\ TypeOK /\ TypeOK'
  BY DEF PassGate, IInv
<1>2. Reached(p) = Frame(p) /\ Frame(p) \in Nat /\ Reached(p)' = Frame(p) + 1
  <2>1. hist'[p] = Play(hist[p], Inputs(p, own[p], remote[p], Frame(p))) /\ hist[p] \in History
    BY <1>1 DEF TypeOK
  <2>2. Inputs(p, own[p], remote[p], Frame(p)) \in [Peers -> Input] /\ stop[p] = NoFrame
    BY <1>1, PeerFacts, InputsAreInputs
  <2>3. Len(hist'[p]) = Len(hist[p]) + 1
    BY <2>1, <2>2, PlayExtends
  <2>. QED BY <1>1, <2>2, <2>3, PeerFacts DEF Reached, Frame
<1>. DEFINE t == timer[p]
            slack == IF t = Spacing THEN 0 ELSE Spacing - 1 - t
            next == Countdown(t)
            slack2 == IF next = Spacing THEN 0 ELSE Spacing - 1 - next
<1>3. /\ Slack(p) = slack /\ timer'[p] = next /\ Slack(p)' = slack2
      /\ Mark(p)' = Mark(p) /\ remote[p].changed[1] = 0
  BY <1>1 DEF Slack, TypeOK, Mark, MarkIsHere, Spacing
<1>4. /\ t \in 0 .. Spacing /\ Spacing \in Nat \ {0, 1} /\ Rollback \in Nat \ {0} /\ Mark(p) \in Nat
  BY <1>1, SlackFacts
<1>5. CASE next = Spacing
  <2>1. ~ Mark(p) < Frame(p)
    BY <1>1, <1>3, <1>5 DEF Diverged, Before, IndexedFrame, Mark
  <2>2. Frame(p) + 1 <= Mark(p) + Rollback + slack2
    BY <1>2, <1>4, <1>5, <2>1
  <2>. QED BY <1>2, <1>3, <2>2 DEF OnTime
<1>6. CASE next # Spacing
  <2>. SUFFICES ASSUME OnTime(p) PROVE OnTime(p)'
    OBVIOUS
  <2>1. Frame(p) <= Mark(p) + Rollback + slack
    BY <1>2, <1>3 DEF OnTime
  <2>2. slack2 = slack + 1 /\ slack \in Nat
    BY <1>4, <1>6 DEF Countdown
  <2>. HIDE DEF slack, slack2
  <2>3. Frame(p) + 1 <= Mark(p) + Rollback + slack2
    BY <1>2, <1>4, <2>1, <2>2
  <2>. QED BY <1>2, <1>3, <2>3 DEF OnTime
<1>. QED BY <1>5, <1>6

(* A new contradiction is past what was known, and within the window of an opponent that  *)
(* plays; one that is pending stays, unless an earlier one replaces it.                   *)
MarkMoved(p) ==
  /\ MarkIsHere(p)'
  /\ Doubted(p)' /\ pc'[p] # "left" =>
       \/ OnTime(p)'
       \/ Doubted(p) /\ ~ OnTime(p) /\ Mark(p)' = Mark(p)
       \/ pc[Other(p)] = "left" /\ Mark(p)' >= EndFrame(remote[p], 0)

LEMMA MarkMoves ==
  ASSUME IInv, IInv', Chain, NEW p \in Peers, Moves(p), MarkIsHere(p)
  PROVE  MarkMoved(p)
<1>1. TypeOK
  BY DEF IInv
<1>2. ASSUME remote'[p].changed = remote[p].changed, Doubted(p) /\ pc'[p] # "left" => OnTime(p)' \/ ~ OnTime(p)
      PROVE  MarkMoved(p)
  BY <1>2 DEF MarkMoved, MarkIsHere, Doubted, Mark
<1>3. ASSUME NEW input \in Presses(p, Frame(p)), StartFrame(p, input) PROVE MarkMoved(p)
  <2>1. UNCHANGED << hist, remote, timer, stop >>
    BY <1>3 DEF StartFrame
  <2>2. OnTime(p)' <=> OnTime(p)
    BY <2>1 DEF OnTime, Reached, Frame, Mark, Slack, Spacing
  <2>. QED BY <1>2, <2>1, <2>2
<1>4. CASE PassGate(p)
  <2>1. remote' = remote
    BY <1>4 DEF PassGate
  <2>. QED BY <1>2, <1>4, <2>1, GateKeepsTime DEF MarkMoved
<1>5. CASE TriggerRollback(p)
  <2>1. remote'[p] = ClearLastChangedFrame(remote[p])
    BY <1>1, <1>5 DEF TriggerRollback, TypeOK
  <2>2. ~ Doubted(p)'
    BY <2>1 DEF Doubted, ClearLastChangedFrame
  <2>. QED BY <2>2 DEF MarkIsHere, MarkMoved
<1>6. CASE Rerun(p) \/ Leave(p)
  <2>1. remote' = remote /\ timer' = timer /\ pc[p] = "top"
    BY <1>6 DEF Rerun, Leave
  <2>2. pc'[p] # "left" => Reached(p)' = Reached(p)
    BY <1>6, <2>1, PlayMoves
  <2>3. pc'[p] # "left" => (OnTime(p)' <=> OnTime(p))
    BY <2>1, <2>2 DEF OnTime, Mark, Slack, Spacing
  <2>. QED BY <1>2, <2>1, <2>3
<1>7. ASSUME NEW msg \in sent[Other(p)], Receive(p, msg) PROVE MarkMoved(p)
  <2>. DEFINE known == EndFrame(remote[p], 0)
  <2>1. /\ UNCHANGED << hist, pc, timer, stop >> /\ pc[p] # "left" /\ Other(p) \in Peers
        /\ known \in Nat /\ Reached(p) \in Nat
    BY <1>7, PeerFacts, TwoPeers DEF Receive
  <2>2. Reached(p)' = Reached(p) /\ Slack(p)' = Slack(p)
    BY <2>1 DEF Reached, Frame, Slack, Spacing
  <2>3. \/ remote'[p].changed = remote[p].changed
        \/ \E g \in Nat : g >= known /\ remote'[p].changed = IndexedFrame(0, g)
    BY <1>7, ReceiveMarks
  <2>4. CASE remote'[p].changed = remote[p].changed
    BY <1>2, <2>2, <2>4 DEF OnTime, Mark
  <2>5. ASSUME NEW g \in Nat, g >= known, remote'[p].changed = IndexedFrame(0, g) PROVE MarkMoved(p)
    <3>1. Mark(p)' = g /\ remote'[p].changed[1] = 0
      BY <2>5 DEF Mark, IndexedFrame
    <3>2. ASSUME pc[Other(p)] # "left" PROVE OnTime(p)'
      <4>1. Reached(p) > 0 => Reached(p) <= known + Rollback
        BY <2>1, <3>2 DEF Chain, InReach
      <4>2. Reached(p) <= g + Rollback + Slack(p)
        BY <1>1, <2>1, <2>5, <4>1, SlackFacts
      <4>. QED BY <2>2, <3>1, <4>2 DEF OnTime
    <3>. QED BY <2>5, <3>1, <3>2 DEF MarkMoved, MarkIsHere
  <2>. QED BY <2>3, <2>4, <2>5
<1>8. CASE ReceiveIndex(p)
  <2>1. UNCHANGED << hist, timer, stop >> /\ remote'[p].changed = remote[p].changed
    BY <1>8, ReceiveIndexKeeps DEF ReceiveIndex
  <2>2. OnTime(p)' <=> OnTime(p)
    BY <2>1 DEF OnTime, Reached, Frame, Mark, Slack, Spacing
  <2>. QED BY <1>2, <2>1, <2>2
<1>. QED BY <1>3, <1>4, <1>5, <1>6, <1>7, <1>8 DEF Moves

(* A contradiction of an opponent that plays comes within the prediction window.          *)
InTime(p) ==
  MarkIsHere(p) /\ (pc[p] # "left" /\ Doubted(p) => OnTime(p) \/ pc[Other(p)] = "left")

LEMMA InTimeStep ==
  ASSUME IInv, IInv', Chain, \A p \in Peers : InTime(p), [Next]_vars
  PROVE  \A p \in Peers : InTime(p)'
<1>1. ASSUME NEW p \in Peers, Moves(p), NEW r \in Peers PROVE InTime(r)'
  <2>1. /\ TypeOK /\ Other(r) \in Peers /\ Other(r) # r /\ (r # p => Other(r) = p)
        /\ InTime(r) /\ pc[p] # "left"
    BY <1>1, TwoPeers, OtherStays DEF IInv
  <2>2. CASE r # p
    <3>1. /\ hist'[r] = hist[r] /\ pc'[r] = pc[r] /\ remote'[r] = remote[r]
          /\ timer'[r] = timer[r] /\ stop'[r] = stop[r]
      BY <1>1, <2>1, <2>2, OtherStays
    <3>. QED BY <2>1, <2>2, <3>1
         DEF InTime, MarkIsHere, Doubted, OnTime, Mark, Slack, Spacing, Reached, Frame
  <2>3. CASE r = p
    <3>1. pc'[Other(p)] = pc[Other(p)]
      BY <1>1, <2>1, <2>3, OtherStays
    <3>. QED BY <1>1, <2>1, <2>3, <3>1, MarkMoves DEF MarkMoved, InTime
  <2>. QED BY <2>2, <2>3
<1>2. ASSUME UNCHANGED vars, NEW r \in Peers PROVE InTime(r)'
  BY <1>2 DEF vars, InTime, MarkIsHere, Doubted, OnTime, Mark, Slack, Spacing, Reached, Frame
<1>. QED BY <1>1, <1>2 DEF Next, Finished, Moves

(* How far back a rollback can have to go while both play: the prediction window and the  *)
(* frames that the spacing timer lets pass, whatever the delay and the network.           *)
THEOREM CorrectionsAreBounded == ASSUME WindowFits PROVE Spec => []CorrectionIsBounded
<1>. DEFINE Inv1 == IInv /\ Chain /\ \A p \in Peers : InTime(p)
<1>1. Init => Inv1
  <2>. SUFFICES ASSUME Init, NEW p \in Peers PROVE InTime(p)
    BY InitSound, ChainInit
  <2>. QED BY DEF Init, InTime, MarkIsHere, Doubted, EmptyContainer
<1>2. Inv1 /\ [Next]_vars => Inv1'
  BY ChainStep, InTimeStep
<1>3. Inv1 => CorrectionIsBounded
  <2>. SUFFICES ASSUME IInv, NEW p \in Peers, InTime(p), Doubted(p), stop[p] = NoFrame,
                       \A q \in Peers : pc[q] # "left"
                PROVE  Frame(p) - Mark(p) <= Rollback + Spacing - 1
    BY DEF CorrectionIsBounded, Doubted, Mark
  <2>1. Frame(p) <= Mark(p) + Rollback + Slack(p)
    BY TwoPeers DEF InTime, OnTime, Reached
  <2>. QED BY <2>1, SlackFacts, PeerFacts DEF IInv
<1>. QED BY <1>1, <1>2, <1>3, PTL DEF Spec

-----------------------------------------------------------------------------
(* The round-over timer *)

LEMMA FoughtIsReached ==
  ASSUME NEW h \in History, NEW ownC, NEW at, NEW stopAt \in {NoFrame} \cup 0 .. MaxFrame,
         Held(h, ownC, at, stopAt), NEW f \in Fought(h)
  PROVE  f \in Nat /\ f < IF stopAt = NoFrame THEN Len(h) ELSE stopAt + 1
<1>1. f \in Nat /\ f < Len(h) /\ Len(h) \in Nat /\ (stopAt # NoFrame => stopAt \in Nat)
  BY FoughtFrames, RollbackAssumption DEF History
<1>2. stopAt # NoFrame => Len(h) <= stopAt
  BY DEF Held
<1>. QED BY <1>1, <1>2

(* The game that is played on or again, and where it is then.                              *)
LEMMA PlayedOn ==
  ASSUME IInv, NEW p \in Peers, PassGate(p) \/ Rerun(p), Over(hist[p])
  PROVE  Over(hist'[p]) /\ Fought(hist'[p]) \subseteq Fought(hist[p])
<1>1. hist'[p] = Play(hist[p], Inputs(p, own[p], remote[p], Frame(p))) /\ hist[p] \in History
  BY DEF PassGate, Rerun, IInv, TypeOK
<1>2. Inputs(p, own[p], remote[p], Frame(p)) \in [Peers -> Input]
  BY PeerFacts, InputsAreInputs
<1>. QED BY <1>1, <1>2, PlayAfterOver

LEMMA PlayedAgain ==
  ASSUME IInv, NEW p \in Peers, TriggerRollback(p)
  PROVE  Fought(hist'[p]) \subseteq Fought(hist[p])
<1>. DEFINE i == LoadIndex(states[p], remote[p].changed[2])
            loaded == states[p][i]
            ins == Inputs(p, own[p], remote[p], Len(loaded))
<1>1. TypeOK /\ PeerSound(p) /\ Diverged(p) /\ pc[p] = "gate" /\ hist'[p] = Play(loaded, ins)
  BY DEF IInv, TriggerRollback, TypeOK
<1>2. /\ Kinds(hist[p], states[p], own[p], remote[p], "gate", stop[p])
      /\ Sound(hist[p], states[p], own[p], remote[p], "gate", stop[p], p)
  BY <1>1, KindsOfPeer DEF PeerSound
<1>. DEFINE target == remote[p].changed[2]
            h == hist[p]
<1>3. /\ h \in History /\ Len(h) \in Nat /\ states[p] \in Seq(History) /\ remote[p] \in Container
      /\ own[p] \in Container /\ IsPool(states[p], h) /\ states[p] # << >> /\ states[p][1] = << >>
      /\ remote[p].changed \in Nat \X Nat
  BY <1>2 DEF Kinds, Sound, History, Container
<1>4. target \in Nat /\ target < Len(h)
  BY <1>1, <1>3 DEF Diverged, Before, IndexedFrame, Frame
<1>. HIDE DEF target, h
<1>5. i \in DOMAIN states[p] /\ Len(loaded) <= target
  BY <1>3, <1>4, LoadIndexFits DEF target
<1>6. loaded \in History /\ Len(loaded) \in Nat /\ loaded = SubSeq(h, 1, Len(loaded))
  BY <1>3, <1>5 DEF History, IsPool
<1>7. ins \in [Peers -> Input] /\ Len(loaded) \in 0 .. Len(h) - 1
  <2>1. ins \in [Peers -> Input]
    BY <1>3, <1>6, InputsAreInputs
  <2>. QED BY <1>3, <1>4, <1>5, <1>6, <2>1
<1>8. hist'[p] = Play(SubSeq(h, 1, Len(loaded)), ins)
  BY <1>1, <1>6
<1>. HIDE DEF ins, loaded
<1>. QED BY <1>3, <1>7, <1>8, ReplayShortens DEF h

LEMMA MoverKeepsTimer ==
  ASSUME IInv, IInv', Round, NEW p \in Peers, Moves(p)
  PROVE  TimerIsRight(p)'
<1>1. /\ TypeOK /\ over[p] \in -1 .. Rollback + Margin /\ Rollback + Margin \in Nat
      /\ Rollback + Margin > 0 /\ Frame(p) \in Nat /\ Reached(p) \in Nat /\ TimerIsRight(p)
  BY KindsOfPeer, Timers, PeerFacts DEF IInv, Round, RoundOf
<1>2. FoughtBefore(p, Reached(p)) /\ FoughtBefore(p, Reached(p))'
  <2>1. /\ hist[p] \in History /\ stop[p] \in {NoFrame} \cup 0 .. MaxFrame
        /\ Held(hist[p], own[p], pc[p], stop[p])
    BY DEF IInv, TypeOK, PeerSound, Sound
  <2>2. /\ hist'[p] \in History /\ stop'[p] \in {NoFrame} \cup 0 .. MaxFrame
        /\ Held(hist'[p], own'[p], pc'[p], stop'[p])
    BY DEF IInv, TypeOK, PeerSound, Sound
  <2>3. \A f \in Fought(hist[p]) : f < IF stop[p] = NoFrame THEN Len(hist[p]) ELSE stop[p] + 1
    BY <2>1, FoughtIsReached
  <2>4. \A f \in Fought(hist'[p]) : f < IF stop'[p] = NoFrame THEN Len(hist'[p]) ELSE stop'[p] + 1
    BY <2>2, FoughtIsReached
  <2>. QED BY <2>3, <2>4 DEF FoughtBefore, Reached, Frame
<1>3. (\A f \in Fought(hist[p]) : f \in Nat) /\ (\A f \in Fought(hist'[p]) : f \in Nat)
  BY FoughtFrames DEF IInv, TypeOK
<1>. DEFINE last == Rollback + Margin
<1>4. ASSUME NEW input \in Presses(p, Frame(p)), StartFrame(p, input)
      PROVE  TimerIsRight(p)'
  <2>1. /\ pc[p] = "top" /\ stop[p] = NoFrame /\ ~ RoundIsOver(p) /\ UNCHANGED << hist, stop >>
        /\ pc' = [pc EXCEPT ![p] = "gate"] /\ Reached(p) = Frame(p) /\ Frame(p)' = Frame(p)
    BY <1>4 DEF StartFrame, Reached, Frame
  <2>2. pc'[p] = "gate" /\ Entered(p)' = Frame(p) + 1 /\ Entered(p) = Frame(p)
    BY <1>1, <2>1 DEF TypeOK, Entered
  <2>. DEFINE checked == CheckRoundOver(p)
              next == IF checked > 0 THEN checked - 1 ELSE checked
  <2>3. over' = [over EXCEPT ![p] = next]
    BY <1>4 DEF StartFrame
  <2>. HIDE DEF next
  <2>4. over'[p] = next
    BY <1>1, <2>3 DEF TypeOK
  <2>5. CASE ~ Over(hist[p])
    <3>1. checked = -1
      BY <2>5 DEF CheckRoundOver
    <3>2. over'[p] < 0
      BY <2>4, <3>1 DEF next
    <3>. QED BY <2>1, <2>5, <3>2 DEF TimerIsRight
  <2>6. CASE Over(hist[p])
    <3>1. Waited(p)' = Waited(p) + 1 /\ Waited(p) \in Nat
      <4>1. over[p] # 0 /\ checked = IF over[p] < 0 THEN last ELSE over[p]
        BY <2>1, <2>6 DEF RoundIsOver, CheckRoundOver
      <4>. HIDE DEF last, checked
      <4>2. over[p] \in -1 .. last /\ last \in Nat /\ last > 0
        BY <1>1 DEF last
      <4>3. next >= 0 /\ last - next = (IF over[p] < 0 THEN 0 ELSE last - over[p]) + 1
            /\ (IF over[p] < 0 THEN 0 ELSE last - over[p]) \in Nat
        BY <4>1, <4>2 DEF next
      <4>. HIDE DEF next
      <4>4. Waited(p) = IF over[p] < 0 THEN 0 ELSE last - over[p]
        BY DEF Waited, last
      <4>5. Waited(p)' = IF next < 0 THEN 0 ELSE last - next
        BY <2>4 DEF Waited, last
      <4>6. ~ next < 0
        BY <4>1, <4>2, <4>3 DEF next
      <4>. QED BY <4>3, <4>4, <4>5, <4>6
    <3>2. FoughtBefore(p, Entered(p) - Waited(p))
      BY <1>1, <2>1, <2>6 DEF TimerIsRight
    <3>3. Entered(p)' - Waited(p)' = Entered(p) - Waited(p)
      BY <1>1, <2>2, <3>1
    <3>4. FoughtBefore(p, Entered(p) - Waited(p))'
      BY <2>1, <3>2, <3>3 DEF FoughtBefore
    <3>. QED BY <2>1, <2>6, <3>4 DEF TimerIsRight
  <2>. QED BY <2>5, <2>6
<1>5. ASSUME PassGate(p) \/ TriggerRollback(p) PROVE TimerIsRight(p)'
  <2>1. /\ pc[p] = "gate" /\ stop[p] = NoFrame /\ over' = over
        /\ pc'[p] = "top" /\ Reached(p)' = Frame(p) + 1
    <3>1. pc[p] = "gate" /\ over' = over /\ pc'[p] = "top"
      BY <1>1, <1>5 DEF PassGate, TriggerRollback, TypeOK
    <3>. QED BY <1>5, <3>1, PlayMoves, PeerFacts
  <2>2. Entered(p)' = Entered(p) /\ Waited(p)' = Waited(p)
    BY <2>1 DEF Entered, Waited
  <2>3. CASE Over(hist[p]) /\ Over(hist'[p])
    <3>1. Fought(hist'[p]) \subseteq Fought(hist[p])
      BY <1>5, <2>3, PlayedOn, PlayedAgain
    <3>2. FoughtBefore(p, Entered(p) - Waited(p))
      BY <1>1, <2>1, <2>3 DEF TimerIsRight
    <3>. QED BY <2>2, <2>3, <3>1, <3>2 DEF TimerIsRight, FoughtBefore
  <2>4. CASE Over(hist[p]) /\ ~ Over(hist'[p])
    <3>1. stop'[p] # NoFrame
      <4>1. TriggerRollback(p)
        BY <1>5, <2>4, PlayedOn
      <4>. QED BY <1>1, <4>1 DEF TriggerRollback, TypeOK, NoFrame
    <3>. QED BY <2>4, <3>1 DEF TimerIsRight
  <2>5. CASE ~ Over(hist[p])
    <3>1. over[p] < 0
      BY <1>1, <2>1, <2>5 DEF TimerIsRight
    <3>2. Waited(p)' = 0 /\ Entered(p)' = Reached(p)' /\ Reached(p)' \in Nat
      BY <1>1, <2>1, <2>2, <3>1 DEF Waited, Entered
    <3>3. FoughtBefore(p, Entered(p) - Waited(p))'
      BY <1>2, <3>2 DEF FoughtBefore
    <3>. QED BY <2>1, <3>1, <3>3 DEF TimerIsRight
  <2>. QED BY <2>3, <2>4, <2>5
<1>6. ASSUME Rerun(p) PROVE TimerIsRight(p)'
  <2>1. /\ pc[p] = "top" /\ pc'[p] = "top" /\ over'[p] = CheckRoundOver(p)
        /\ Reached(p)' = Reached(p)
    <3>1. pc[p] = "top" /\ pc'[p] = "top" /\ over'[p] = CheckRoundOver(p)
      BY <1>1, <1>6 DEF Rerun, TypeOK
    <3>. QED BY <1>6, <3>1, PlayMoves
  <2>2. CASE ~ Over(hist[p]) \/ over[p] < 0
    <3>1. Waited(p)' = 0 /\ (Over(hist[p]) \/ over'[p] < 0)
      <4>1. over'[p] = IF Over(hist[p]) THEN last ELSE -1
        BY <2>1, <2>2 DEF CheckRoundOver
      <4>. HIDE DEF last
      <4>2. last \in Nat /\ Waited(p)' = IF over'[p] < 0 THEN 0 ELSE last - over'[p]
        BY <1>1 DEF last, Waited
      <4>. QED BY <4>1, <4>2
    <3>2. FoughtBefore(p, Entered(p) - Waited(p))'
      BY <1>1, <1>2, <2>1, <3>1 DEF FoughtBefore, Entered
    <3>3. Over(hist[p]) => Over(hist'[p])
      BY <1>6, PlayedOn
    <3>. QED BY <3>1, <3>2, <3>3 DEF TimerIsRight
  <2>3. CASE Over(hist[p]) /\ ~ over[p] < 0
    <3>1. Waited(p)' = Waited(p) /\ Entered(p)' = Entered(p)
      BY <2>1, <2>3 DEF CheckRoundOver, Waited, Entered
    <3>2. Over(hist'[p]) /\ Fought(hist'[p]) \subseteq Fought(hist[p])
      BY <1>6, <2>3, PlayedOn
    <3>3. FoughtBefore(p, Entered(p) - Waited(p))
      BY <1>1, <2>1, <2>3 DEF TimerIsRight
    <3>. QED BY <3>1, <3>2, <3>3 DEF TimerIsRight, FoughtBefore
  <2>. QED BY <2>2, <2>3
<1>7. ASSUME Leave(p) PROVE TimerIsRight(p)'
  BY <1>1, <1>7 DEF Leave, TypeOK, TimerIsRight
<1>8. ASSUME UNCHANGED << hist, pc, stop, over >> PROVE TimerIsRight(p)'
  BY <1>1, <1>8 DEF TimerIsRight, FoughtBefore, Entered, Waited, Frame, Reached
<1>9. ASSUME NEW msg \in sent[Other(p)], Receive(p, msg) PROVE UNCHANGED << hist, pc, stop, over >>
  BY <1>9 DEF Receive
<1>10. ReceiveIndex(p) => UNCHANGED << hist, pc, stop, over >>
  BY DEF ReceiveIndex
<1>. QED BY <1>4, <1>5, <1>6, <1>7, <1>8, <1>9, <1>10 DEF Moves

-----------------------------------------------------------------------------
(* Leaving *)

LEMMA FoughtIsPast ==
  ASSUME NEW h \in History, NEW f \in Fought(h), NEW g \in 0 .. f - 1
  PROVE  g \in Fought(h) /\ ~ (h[g + 1][1] = Attack /\ h[g + 1][2] # Attack)
<1>1. f \in 0 .. Len(h) - 1 /\ Len(h) \in Nat /\ ~ Over(SubSeq(h, 1, f))
  BY DEF Fought, History
<1>. DEFINE past == SubSeq(h, 1, f)
            older == SubSeq(h, 1, g)
<1>2. f \in 0 .. Len(h) /\ g \in 0 .. Len(h) /\ g + 1 \in 1 .. f /\ g \in 0 .. Len(h) - 1
  BY <1>1
<1>3. /\ past \in History /\ Len(past) = f /\ \A n \in 0 .. f - 1 : past[n + 1] = h[n + 1]
      /\ older \in History /\ Len(older) = g /\ \A n \in 0 .. g - 1 : older[n + 1] = h[n + 1]
  BY <1>2, PastIsHistory
<1>. HIDE DEF past, older
<1>4. DOMAIN past = 1 .. f /\ DOMAIN older = 1 .. g
  BY <1>3 DEF History
<1>5. ~ (h[g + 1][1] = Attack /\ h[g + 1][2] # Attack)
  <2>1. past[g + 1] = h[g + 1]
    BY <1>3
  <2>. QED BY <1>1, <1>2, <1>4, <2>1 DEF Over, past
<1>6. ~ Over(older)
  <2>. SUFFICES ASSUME NEW i \in 1 .. g, older[i][1] = Attack, older[i][2] # Attack PROVE FALSE
    BY <1>4 DEF Over
  <2>1. i - 1 \in 0 .. g - 1 /\ (i - 1) + 1 = i /\ i - 1 \in 0 .. f - 1 /\ i \in 1 .. f
    BY <1>1, <1>2
  <2>2. older[(i - 1) + 1] = past[(i - 1) + 1]
    BY <1>3, <2>1
  <2>3. past[i][1] = Attack /\ past[i][2] # Attack
    BY <2>1, <2>2
  <2>. QED BY <1>1, <1>4, <2>1, <2>3 DEF Over, past
<1>. QED BY <1>2, <1>5, <1>6 DEF Fought, older

LEMMA FoughtIsCommitted ==
  ASSUME IInv, Chain, NEW p \in Peers, MarkIsHere(p), NEW f \in Fought(hist[p]),
         f < EndFrame(remote[p], 0), Doubted(p) => f < Mark(p)
  PROVE  IsCommitted(hist[p], f)
<1>1. f \in 0 .. Frame(p) - 1 /\ ~ Over(SubSeq(hist[p], 1, f)) /\ f \in Nat
  BY PeerFacts DEF Fought, Frame
<1>2. Before(IndexedFrame(0, f), remote[p].changed)
  BY DEF Before, IndexedFrame, Doubted, MaxIndexedFrame, NoIndex, MarkIsHere, Mark
<1>3. f \in Settled(p)
  BY <1>1, <1>2 DEF Settled, Certain
<1>. QED BY <1>1, <1>3, ChainSettles DEF SettledIsCommitted

(* The timer has run out: whatever was fought lies well behind the frame reached.         *)
LEMMA LeaverWaited ==
  ASSUME SpacingFits, IInv, Round, NEW p \in Peers, Leave(p), NEW f \in Fought(hist[p])
  PROVE  /\ f \in Nat /\ f + Rollback + Margin < Reached(p)
         /\ Doubted(p) /\ OnTime(p) => f < Mark(p)
<1>1. /\ pc[p] = "top" /\ Over(hist[p]) /\ over[p] = 0 /\ TypeOK /\ Reached(p) \in Nat
  BY PeerFacts DEF Leave, RoundIsOver, IInv
<1>2. f \in Nat
  BY <1>1, FoughtFrames DEF TypeOK
<1>3. Rollback \in Nat \ {0} /\ Margin \in Nat
  BY RollbackAssumption
<1>4. f < Reached(p) - (Rollback + Margin)
  <2>1. Waited(p) = Rollback + Margin /\ Entered(p) = Reached(p)
    BY <1>1, <1>3 DEF Waited, Entered
  <2>. QED BY <1>1, <2>1 DEF Round, RoundOf, TimerIsRight, FoughtBefore
<1>5. ASSUME OnTime(p) PROVE f < Mark(p)
  <2>1. Slack(p) \in Nat /\ Slack(p) <= Margin /\ Mark(p) \in Nat
    BY <1>1, <1>3, SlackFacts DEF SpacingFits
  <2>2. Reached(p) <= Mark(p) + Rollback + Slack(p)
    BY <1>5 DEF OnTime
  <2>. QED BY <1>1, <1>2, <1>3, <1>4, <2>1, <2>2
<1>. QED BY <1>1, <1>2, <1>3, <1>4, <1>5

(* The first to leave knows more than it needs, and has been heard of enough.             *)
LEMMA FirstLeaves ==
  ASSUME SpacingFits, IInv, Chain, Round, NEW p \in Peers, Leave(p), NEW q \in Peers, q = Other(p),
         pc[q] # "left", NEW f \in Fought(hist[p])
  PROVE  /\ f < EndFrame(remote[p], 0) /\ IsCommitted(hist[p], f)
         /\ f + Margin <= EndFrame(remote[q], 0) + Delay + Rollback
<1>1. /\ f \in Nat /\ f + Rollback + Margin < Reached(p) /\ (Doubted(p) /\ OnTime(p) => f < Mark(p))
  BY LeaverWaited
<1>2. pc[p] # "left" /\ Other(q) = p /\ Other(p) = q
  BY TwoPeers DEF Leave
<1>. DEFINE known == EndFrame(remote[p], 0)
            heard == EndFrame(remote[q], 0)
            held == EndFrame(own[q], 0)
<1>3. /\ known \in Nat /\ heard \in Nat /\ held \in Nat /\ Reached(p) \in Nat /\ Reached(q) \in Nat
      /\ Rollback \in Nat \ {0} /\ Margin \in Nat /\ Delay \in Nat
  BY PeerFacts, RollbackAssumption
<1>4. Reached(p) <= known + Rollback
  <2>1. Reached(p) > 0
    BY <1>1, <1>3
  <2>. QED BY <1>2, <2>1 DEF Chain, InReach
<1>5. known <= held
  BY <1>2, PeerFacts DEF Chain, KnownIsTrue, Starts
<1>6. held <= Reached(q) + Delay + 1
  BY OwnIsNear
<1>7. Reached(q) > 0 => Reached(q) <= heard + Rollback
  BY <1>2 DEF Chain, InReach
<1>. HIDE DEF known, heard, held
<1>8. f < known /\ f + Margin <= heard + Delay + Rollback
  BY <1>1, <1>3, <1>4, <1>5, <1>6, <1>7
<1>9. MarkIsHere(p) /\ (Doubted(p) => f < Mark(p))
  BY <1>1, <1>2 DEF Round, RoundOf, Timely
<1>. QED BY <1>8, <1>9, FoughtIsCommitted DEF known, heard

(* Nothing the opponent has fought is unknown, or contradicted and not to be corrected.   *)
Hearable(p, k) == k < EndFrame(remote[p], 0) /\ (Doubted(p) => OnTime(p) \/ k < Mark(p))

(* The second to leave has seen the same knock-out as the first, if it can know of it.    *)
LEMMA SecondLeaves ==
  ASSUME SpacingFits, IInv, Chain, Round, NEW p \in Peers, Leave(p), NEW q \in Peers, q = Other(p),
         FightIsKnown(q), \A k \in Fought(hist[q]) : Hearable(p, k), NEW f \in Fought(hist[p])
  PROVE  f < EndFrame(remote[p], 0) /\ IsCommitted(hist[p], f)
<1>1. /\ pc[p] # "left" /\ hist[p] \in History /\ hist[q] \in History
      /\ EndFrame(remote[p], 0) \in Nat
  BY PeerFacts DEF Leave, IInv, TypeOK
<1>2. MarkIsHere(p) /\ Over(hist[q])
  BY DEF Round, RoundOf, FightIsKnown
<1>3. PICK k \in Fought(hist[q]) : hist[q][k + 1][1] = Attack /\ hist[q][k + 1][2] # Attack
  BY <1>1, <1>2, KnockOutEnds
<1>4. k \in Nat /\ Hearable(p, k) /\ k < EndFrame(remote[p], 0) /\ IsCommitted(hist[q], k)
  BY <1>1, <1>2, FoughtFrames DEF FightIsKnown, Hearable
<1>5. ASSUME NEW g \in Fought(hist[p]), g <= k
      PROVE  g < EndFrame(remote[p], 0) /\ IsCommitted(hist[p], g)
  <2>1. g \in Nat /\ (Doubted(p) /\ OnTime(p) => g < Mark(p))
    BY LeaverWaited
  <2>2. g < EndFrame(remote[p], 0)
    BY <1>1, <1>4, <1>5, <2>1
  <2>3. Doubted(p) => g < Mark(p)
    <3>1. Mark(p) \in Nat
      BY SlackFacts DEF IInv
    <3>2. Doubted(p) => OnTime(p) \/ k < Mark(p)
      BY <1>4 DEF Hearable
    <3>. QED BY <1>4, <1>5, <2>1, <3>1, <3>2
  <2>. QED BY <1>2, <2>2, <2>3, FoughtIsCommitted
<1>6. f \in Nat
  BY <1>1, FoughtFrames
<1>7. f <= k
  <2>. SUFFICES ASSUME ~ f <= k PROVE FALSE
    OBVIOUS
  <2>1. k \in 0 .. f - 1
    BY <1>4, <1>6
  <2>2. k \in Fought(hist[p]) /\ ~ (hist[p][k + 1][1] = Attack /\ hist[p][k + 1][2] # Attack)
    BY <1>1, <2>1, FoughtIsPast
  <2>3. IsCommitted(hist[p], k)
    BY <1>4, <1>5, <2>2
  <2>4. \A r \in Peers : hist[p][k + 1][r] = hist[q][k + 1][r]
    BY <1>4, <2>3 DEF IsCommitted
  <2>. QED BY <1>3, <2>2, <2>4 DEF Peers
<1>. QED BY <1>5, <1>7

(* The second to leave, for either relation of margin, delay and window.                  *)
LEMMA SecondSettles ==
  ASSUME SpacingFits, IInv, IInv', Chain, Round, NEW p \in Peers, Leave(p), NEW q \in Peers, q = Other(p),
         pc[q] = "left"
  PROVE  SettledLeaver(p)'
<1>1. /\ UNCHANGED << hist, own, remote >> /\ Over(hist[p]) /\ Other(q) = p /\ q # p
      /\ pc[p] # "left" /\ pc'[q] = "left" /\ TypeOK
  BY TwoPeers DEF Leave, RoundIsOver, IInv, TypeOK
<1>2. FightIsKnown(q) /\ Timely(p) /\ Delivered(p) /\ MarkIsHere(p)
  BY <1>1 DEF Round, RoundOf, SettledLeaver
<1>3. FightIsKnown(q)'
  BY <1>1, <1>2 DEF FightIsKnown, FoughtBefore, IsCommitted
<1>4. CASE \A k \in Fought(hist[q]) : Hearable(p, k)
  <2>1. \A f \in Fought(hist[p]) : f < EndFrame(remote[p], 0) /\ IsCommitted(hist[p], f)
    BY <1>2, <1>4, SecondLeaves
  <2>2. FightIsKnown(p)'
    BY <1>1, <2>1 DEF FightIsKnown, FoughtBefore, IsCommitted
  <2>. QED BY <2>2 DEF SettledLeaver
<1>5. CASE \E k \in Fought(hist[q]) : ~ Hearable(p, k)
  <2>1. PICK k \in Fought(hist[q]) : ~ Hearable(p, k)
    BY <1>5
  <2>2. k \in Nat /\ EndFrame(remote[p], 0) \in Nat /\ Mark(p) \in Nat
    BY <1>1, PeerFacts, FoughtFrames, SlackFacts DEF TypeOK
  <2>3. ~ MarginFits
    <3>. SUFFICES ASSUME MarginFits PROVE FALSE
      OBVIOUS
    <3>1. k + Margin <= EndFrame(remote[p], 0) + Delay + Rollback
      BY <1>1, <1>2 DEF Delivered
    <3>2. Margin \in Nat /\ Delay \in Nat /\ Rollback \in Nat /\ Delay + Rollback < Margin
      BY RollbackAssumption DEF MarginFits
    <3>3. k < EndFrame(remote[p], 0)
      BY <2>2, <3>1, <3>2
    <3>4. Doubted(p) => OnTime(p) \/ k < Mark(p)
      BY <1>1, <1>2 DEF Timely, FoughtBefore
    <3>. QED BY <2>1, <3>3, <3>4 DEF Hearable
  <2>4. ~ Certain(p, k)
    <3>. SUFFICES ASSUME Certain(p, k) PROVE FALSE
      OBVIOUS
    <3>1. k < EndFrame(remote[p], 0) /\ Before(IndexedFrame(0, k), remote[p].changed)
      BY DEF Certain
    <3>2. Doubted(p) => remote[p].changed[1] = 0
      BY <1>2 DEF MarkIsHere
    <3>3. Doubted(p) => k < Mark(p)
      BY <2>2, <3>1, <3>2 DEF Before, IndexedFrame, Mark
    <3>. QED BY <2>1, <3>1, <3>3 DEF Hearable
  <2>5. k \in Fought(hist'[q]) /\ ~ Certain(p, k)'
    BY <1>1, <2>4 DEF Certain
  <2>6. ~ MarginFits'
    BY <2>3 DEF MarginFits
  <2>. QED BY <1>1, <1>3, <2>5, <2>6 DEF SettledLeaver
<1>. QED BY <1>4, <1>5

LEMMA LeaveSettles ==
  ASSUME SpacingFits, IInv, IInv', Chain, Round, NEW p \in Peers, Leave(p), NEW q \in Peers, q = Other(p)
  PROVE  SettledLeaver(p)' /\ Delivered(q)'
<1>1. /\ UNCHANGED << hist, own, remote >> /\ Over(hist[p]) /\ Other(q) = p /\ q # p
      /\ pc'[q] = pc[q]
  BY TwoPeers DEF Leave, RoundIsOver, IInv, TypeOK
<1>2. CASE pc[q] # "left"
  <2>1. \A f \in Fought(hist[p]) :
          /\ f < EndFrame(remote[p], 0) /\ IsCommitted(hist[p], f)
          /\ f + Margin <= EndFrame(remote[q], 0) + Delay + Rollback
    BY <1>2, FirstLeaves
  <2>2. FightIsKnown(p)'
    BY <1>1, <2>1 DEF FightIsKnown, FoughtBefore, IsCommitted
  <2>. QED BY <1>1, <2>1, <2>2 DEF SettledLeaver, Delivered
<1>3. CASE pc[q] = "left"
  BY <1>1, <1>3, SecondSettles DEF Delivered
<1>. QED BY <1>2, <1>3

-----------------------------------------------------------------------------

LEMMA RoundInit == Init => Round
<1>. SUFFICES ASSUME Init, NEW p \in Peers PROVE RoundOf(p)
  BY DEF Round
<1>1. /\ pc[p] = "top" /\ pc[Other(p)] = "top" /\ over[p] = -1 /\ hist[p] = << >>
      /\ remote[p] = EmptyContainer
  BY TwoPeers DEF Init
<1>2. ~ Over(<< >>)
  BY DEF Over
<1>. QED BY <1>1, <1>2
     DEF RoundOf, MarkIsHere, Timely, TimerIsRight, Delivered, SettledLeaver, Doubted, EmptyContainer

LEMMA RoundStep ==
  ASSUME SpacingFits, IInv, IInv', Chain, Round, NEW p \in Peers, Moves(p)
  PROVE  Round'
<1>. DEFINE q == Other(p)
<1>1. q \in Peers /\ q # p /\ Other(q) = p /\ \A r \in Peers : r = p \/ r = q
  BY TwoPeers
<1>2. MarkIsHere(q)' /\ Timely(q)' /\ TimerIsRight(q)' /\ SettledLeaver(q)' /\ Delivered(p)'
  BY <1>1, BystanderKeeps
<1>3. MarkIsHere(p)' /\ Timely(p)' /\ TimerIsRight(p)'
  <2>1. /\ TypeOK /\ MarkIsHere(p) /\ Timely(p) /\ Delivered(p)
        /\ EndFrame(remote[p], 0) \in Nat /\ Mark(p)' \in Nat
        /\ Margin \in Nat /\ Delay \in Nat /\ Rollback \in Nat
    BY PeerFacts, SlackFacts, RollbackAssumption DEF IInv, Round, RoundOf, TypeOK, Mark, Container
  <2>2. hist'[q] = hist[q] /\ pc'[q] = pc[q] /\ pc[p] # "left"
    BY <1>1, <2>1, OtherStays
  <2>3. \A f \in Fought(hist[q]) : f \in Nat
    BY <1>1, <2>1, FoughtFrames DEF TypeOK
  <2>4. MarginFits /\ pc[q] = "left" => FoughtBefore(q, EndFrame(remote[p], 0))
    BY <1>1, <2>1, <2>2, <2>3 DEF MarginFits, Delivered, FoughtBefore
  <2>5. MarkIsHere(p)' /\ TimerIsRight(p)' /\ MarkMoved(p)
    BY <2>1, MarkMoves, MoverKeepsTimer DEF MarkMoved
  <2>6. Timely(p)'
    BY <1>1, <2>1, <2>2, <2>3, <2>4, <2>5 DEF MarkMoved, Timely, MarginFits, FoughtBefore
  <2>. QED BY <2>5, <2>6
<1>4. SettledLeaver(p)' /\ Delivered(q)'
  <2>1. CASE Leave(p)
    BY <1>1, <2>1, LeaveSettles
  <2>2. CASE ~ Leave(p)
    <3>1. pc'[p] # "left"
      <4>1. TypeOK /\ pc[p] # "left"
        BY <1>1, OtherStays DEF IInv
      <4>2. CASE \E input \in Presses(p, Frame(p)) : StartFrame(p, input)
        BY <4>1, <4>2 DEF StartFrame, TypeOK
      <4>3. CASE PassGate(p) \/ TriggerRollback(p) \/ Rerun(p)
        BY <4>1, <4>3 DEF PassGate, TriggerRollback, Rerun, TypeOK
      <4>4. CASE (\E msg \in sent[Other(p)] : Receive(p, msg)) \/ ReceiveIndex(p)
        BY <4>1, <4>4 DEF Receive, ReceiveIndex
      <4>. QED BY <2>2, <4>2, <4>3, <4>4 DEF Moves
    <3>. QED BY <1>1, <3>1 DEF SettledLeaver, Delivered
  <2>. QED BY <2>1, <2>2
<1>. QED BY <1>1, <1>2, <1>3, <1>4 DEF Round, RoundOf

LEMMA RoundInductive ==
  ASSUME WindowFits, SpacingFits PROVE Spec => [](IInv /\ Chain /\ Round)
<1>1. Init => IInv /\ Chain /\ Round
  BY InitSound, ChainInit, RoundInit
<1>2. IInv /\ Chain /\ Round /\ [Next]_vars => (IInv /\ Chain /\ Round)'
  <2>. SUFFICES ASSUME IInv, Chain, Round, [Next]_vars PROVE IInv' /\ Chain' /\ Round'
    OBVIOUS
  <2>1. IInv' /\ Chain'
    BY ChainStep
  <2>2. ASSUME NEW p \in Peers, Moves(p) PROVE Round'
    BY <2>1, <2>2, RoundStep
  <2>3. ASSUME UNCHANGED vars PROVE Round'
    <3>. SUFFICES ASSUME NEW p \in Peers PROVE RoundOf(p)'
      BY DEF Round
    <3>1. RoundOf(p)
      BY DEF Round
    <3>2. MarkIsHere(p)' = MarkIsHere(p) /\ Timely(p)' = Timely(p)
      BY <2>3 DEF vars, MarkIsHere, Timely, MarginFits, Doubted, Mark, OnTime, Slack,
                  FoughtBefore, Frame, Reached
    <3>3. TimerIsRight(p)' = TimerIsRight(p)
      BY <2>3 DEF vars, TimerIsRight, FoughtBefore, Waited, Entered, Frame, Reached
    <3>4. Delivered(p)' = Delivered(p) /\ SettledLeaver(p)' = SettledLeaver(p)
      BY <2>3 DEF vars, Delivered, SettledLeaver, FightIsKnown, MarginFits, FoughtBefore,
                  IsCommitted, Certain
    <3>. QED BY <3>1, <3>2, <3>3, <3>4 DEF RoundOf
  <2>. QED BY <2>1, <2>2, <2>3 DEF Next, Finished, Moves
<1>. QED BY <1>1, <1>2, PTL DEF Spec

(* For any delay, window and margin: the first peer to leave InGame has simulated every   *)
(* frame of the fight with what both players committed, up to a real knock-out; and so    *)
(* has the second, unless delay and window use up the margin and something of the fight   *)
(* that ended for the first never came to it, or came too late to be corrected.           *)
THEOREM LeaversAreSettled ==
  ASSUME WindowFits, SpacingFits PROVE Spec => []LeaverIsSettled
<1>1. ASSUME NEW p \in Peers PROVE FightIsKnown(p) => SettledFight(p)
  BY DEF FightIsKnown, SettledFight
<1>2. ASSUME IInv, Round, NEW p \in Peers, pc[p] = "left"
      PROVE  \/ SettledFight(p)
             \/ /\ Delay + Rollback >= Margin
                /\ pc[Other(p)] = "left" /\ SettledFight(Other(p))
                /\ \E f \in Fought(hist[Other(p)]) : ~ Certain(p, f)
  <2>1. Other(p) \in Peers /\ (~ MarginFits => Delay + Rollback >= Margin)
    BY TwoPeers, RollbackAssumption DEF MarginFits
  <2>2. SettledLeaver(p)
    BY <1>2 DEF Round, RoundOf
  <2>. QED BY <1>1, <1>2, <2>1, <2>2 DEF SettledLeaver
<1>3. IInv /\ Chain /\ Round => LeaverIsSettled
  BY <1>2 DEF LeaverIsSettled
<1>. QED BY <1>3, RoundInductive, PTL

(* For any delay, window and margin: a peer whose opponent has left, and sends this index *)
(* no more, lacks of the inputs that decided the round at most the last                   *)
(* Delay + Rollback + 1 - Margin, and none if delay and window stay below the margin.     *)
THEOREM RoundIsDelivered ==
  ASSUME WindowFits, SpacingFits PROVE Spec => []BoundaryDelivered
<1>1. Round => BoundaryDelivered
  BY DEF Round, RoundOf, Delivered, BoundaryDelivered
<1>. QED BY <1>1, RoundInductive, PTL

-----------------------------------------------------------------------------
(* What the hashes are of *)

Hash == [frame : Nat, state : History \X BOOLEAN]
Entries(list) == {list[i] : i \in DOMAIN list}

(* A history that is what the owners of the containers committed. *)
Real(h, owns) ==
  \A f \in 0 .. Len(h) - 1 :
    IF Over(SubSeq(h, 1, f)) THEN h[f + 1] = Neutral
    ELSE \A q \in Peers : f < Len(Row(owns[q], 0)) /\ h[f + 1][q] = Row(owns[q], 0)[f + 1]

(* A hash that peer q, which has hashed these frames, has made. *)
IsMade(h, q, frames, owns, wrong) ==
  /\ h.frame \in frames
  /\ Len(h.state[1]) = h.frame
  /\ Real(h.state[1], owns)
  /\ h.state[2] = (wrong[1] = q /\ wrong[2] < h.frame)

AreMade(list, q, frames, owns, wrong) ==
  /\ list \in Seq(Hash)
  /\ \A i \in DOMAIN list : IsMade(list[i], q, frames, owns, wrong)

(* The inputs up to a hashed frame are known, and no contradiction is pending up to it. *)
Known(f, c) == f < EndFrame(c, 0) /\ (c.changed[1] = 0 => f < c.changed[2])

Kinded ==
  /\ flaw \in {NoFlaw} \cup (Peers \X (1 .. MaxFrame))
  /\ {local, incoming, channel} \subseteq [Peers -> Seq(Hash)]
  /\ {made, compared} \subseteq [Peers -> SUBSET {f \in 0 .. MaxFrame : RightTime(f)}]
  /\ stopped \in [Peers -> BOOLEAN]

HashesAreMade ==
  \A p \in Peers :
    /\ AreMade(local[p], p, made[p], own, flaw)
    /\ AreMade(incoming[p], Other(p), made[Other(p)], own, flaw)
    /\ AreMade(channel[p], Other(p), made[Other(p)], own, flaw)

MadeIsKnown == \A p \in Peers : \A f \in made[p] : Known(f, remote[p])
ComparedIsMade == \A p \in Peers : compared[p] \subseteq made[p]

Engine == IInv /\ Chain /\ NobodyLeft
SyncIInv == Engine /\ Kinded /\ HashesAreMade /\ MadeIsKnown /\ ComparedIsMade /\ NoFalseAlarm

-----------------------------------------------------------------------------
(* Lists of hashes *)

(* A recursive function over the positions of a list exists.                             *)
LEMMA AmongIsFunction ==
  ASSUME NEW list \in Seq(Hash), NEW frames
  PROVE  \E kept :
           /\ kept = [i \in 0 .. Len(list) |->
                        IF i = 0 THEN << >>
                        ELSE IF list[i].frame \in frames THEN Append(kept[i - 1], list[i])
                        ELSE kept[i - 1]]
           /\ Among(list, frames) = kept[Len(list)]
<1>. DEFINE n == Len(list)
            Next_(f, i) == IF i = 0 THEN << >>
                           ELSE IF list[i].frame \in frames THEN Append(f[i - 1], list[i])
                           ELSE f[i - 1]
            Fits(f, m) == f = [i \in 0 .. m |-> Next_(f, i)]
            kept == CHOOSE f : Fits(f, n)
            Bad == {m \in Nat : ~ \E f : Fits(f, m)}
<1>0. n \in Nat
  OBVIOUS
<1>1. Bad = {}
  <2>. SUFFICES ASSUME Bad # {} PROVE FALSE
    OBVIOUS
  <2>1. PICK m \in Bad : \A k \in Bad : m <= k
    BY SmallestIsThere
  <2>2. CASE m = 0
    <3>. DEFINE f == [i \in 0 .. 0 |-> << >>]
    <3>1. Fits(f, 0)
      OBVIOUS
    <3>. QED BY <2>1, <2>2, <3>1
  <2>3. CASE m # 0
    <3>1. m - 1 \in Nat /\ m \in Nat /\ m - 1 \notin Bad
      <4>1. Bad \subseteq Nat
        OBVIOUS
      <4>. HIDE DEF Bad
      <4>. QED BY <2>1, <2>3, <4>1
    <3>2. PICK g : Fits(g, m - 1)
      BY <3>1
    <3>. DEFINE f == [i \in 0 .. m |-> IF i < m THEN g[i] ELSE Next_(g, m)]
    <3>3. ASSUME NEW i \in 0 .. m PROVE f[i] = Next_(f, i)
      <4>1. CASE i < m
        <5>1. i \in 0 .. m - 1 /\ f[i] = g[i] /\ (i # 0 => i - 1 \in 0 .. m /\ i - 1 < m)
          BY <3>1, <4>1
        <5>2. g[i] = Next_(g, i)
          BY <3>2, <5>1
        <5>3. i # 0 => f[i - 1] = g[i - 1]
          BY <5>1
        <5>. QED BY <5>1, <5>2, <5>3
      <4>2. CASE i = m
        <5>1. f[m - 1] = g[m - 1] /\ f[i] = Next_(g, m)
          BY <3>1, <4>2
        <5>. QED BY <4>2, <5>1
      <4>. QED BY <3>1, <4>1, <4>2
    <3>4. Fits(f, m)
      BY <3>3
    <3>. QED BY <2>1, <3>4
  <2>. QED BY <2>2, <2>3
<1>2. Fits(kept, n)
  BY <1>0, <1>1
<1>3. Among(list, frames) = kept[n]
  BY DEF Among
<1>. HIDE DEF kept
<1>. QED BY <1>2, <1>3

LEMMA AmongEntries ==
  ASSUME NEW list \in Seq(Hash), NEW frames
  PROVE  Among(list, frames) \in Seq(Entries(list))
<1>. DEFINE n == Len(list)
            S == Entries(list)
            Next_(f, i) == IF i = 0 THEN << >>
                           ELSE IF list[i].frame \in frames THEN Append(f[i - 1], list[i])
                           ELSE f[i - 1]
<1>0. n \in Nat
  OBVIOUS
<1>1. PICK kept : kept = [i \in 0 .. n |-> Next_(kept, i)] /\ Among(list, frames) = kept[n]
  BY AmongIsFunction
<1>. DEFINE Odd == {i \in 0 .. n : kept[i] \notin Seq(S)}
<1>4. Odd = {}
  <2>. SUFFICES ASSUME Odd # {} PROVE FALSE
    OBVIOUS
  <2>1. PICK i \in Odd : \A k \in Odd : i <= k
    <3>1. Odd \subseteq Nat
      BY <1>0
    <3>. HIDE DEF Odd
    <3>. QED BY <3>1, SmallestIsThere
  <2>2. kept[i] = Next_(kept, i)
    BY <1>1, <2>1
  <2>3. CASE i = 0
    <3>1. kept[i] = << >>
      BY <2>2, <2>3
    <3>2. kept[i] \in Seq(S)
      BY <3>1
    <3>. QED BY <2>1, <3>2
  <2>4. CASE i # 0
    <3>1. i - 1 \in 0 .. n /\ i - 1 \notin Odd /\ i \in DOMAIN list
      BY <1>0, <2>1, <2>4
    <3>2. kept[i - 1] \in Seq(S) /\ list[i] \in S
      BY <3>1 DEF Entries
    <3>. HIDE DEF S
    <3>3. Next_(kept, i) \in Seq(S)
      BY <2>4, <3>2
    <3>. QED BY <2>1, <2>2, <3>3
  <2>. QED BY <2>3, <2>4
<1>5. n \in 0 .. n /\ n \notin Odd
  BY <1>0, <1>4
<1>6. kept[n] \in Seq(S)
  BY <1>5
<1>. QED BY <1>1, <1>6

LEMMA NotAheadEntries ==
  ASSUME NEW list \in Seq(Hash), NEW f \in Nat
  PROVE  NotAhead(list, f) \in Seq(Entries(list))
<1>. DEFINE old == {i \in DOMAIN list : list[i].frame <= f}
            a == CHOOSE i \in old : \A j \in old : i <= j
            S == Entries(list)
<1>1. CASE old = {}
  BY <1>1 DEF NotAhead
<1>2. CASE old # {}
  <2>1. old \subseteq Nat
    OBVIOUS
  <2>2. \E i \in old : \A j \in old : i <= j
    <3>. HIDE DEF old
    <3>. QED BY <1>2, <2>1, SmallestIsThere
  <2>3. a \in old
    <3>. HIDE DEF old
    <3>. QED BY <2>2
  <2>4. a \in 1 .. Len(list) /\ list \in Seq(S)
    BY <2>3 DEF Entries
  <2>5. NotAhead(list, f) = SubSeq(list, a, Len(list))
    BY <1>2 DEF NotAhead
  <2>. HIDE DEF a, S
  <2>6. SubSeq(list, a, Len(list)) \in Seq(S)
    BY <2>4
  <2>. QED BY <2>5, <2>6 DEF S
<1>. QED BY <1>1, <1>2

LEMMA EntriesAreMade ==
  ASSUME NEW list, NEW q, NEW frames, NEW owns, NEW wrong, AreMade(list, q, frames, owns, wrong),
         NEW new \in Seq(Entries(list))
  PROVE  AreMade(new, q, frames, owns, wrong)
<1>1. Entries(list) \subseteq Hash /\ \A h \in Entries(list) : IsMade(h, q, frames, owns, wrong)
  BY DEF AreMade, Entries
<1>. HIDE DEF Entries
<1>2. \A i \in DOMAIN new : new[i] \in Entries(list)
  OBVIOUS
<1>3. new \in Seq(Hash)
  BY <1>1
<1>. QED BY <1>1, <1>2, <1>3 DEF AreMade

LEMMA ConcatIsMade ==
  ASSUME NEW a, NEW b, NEW q, NEW frames, NEW owns, NEW wrong,
         AreMade(a, q, frames, owns, wrong), AreMade(b, q, frames, owns, wrong)
  PROVE  AreMade(a \o b, q, frames, owns, wrong)
<1>1. a \in Seq(Hash) /\ b \in Seq(Hash)
  BY DEF AreMade
<1>2. /\ a \o b \in Seq(Hash) /\ Len(a \o b) = Len(a) + Len(b)
      /\ \A i \in 1 .. Len(a) + Len(b) :
           (a \o b)[i] = IF i <= Len(a) THEN a[i] ELSE b[i - Len(a)]
  BY <1>1, ConcatProperties
<1>3. ASSUME NEW i \in DOMAIN (a \o b) PROVE IsMade((a \o b)[i], q, frames, owns, wrong)
  <2>1. i \in 1 .. Len(a) + Len(b) /\ Len(a) \in Nat /\ Len(b) \in Nat
    BY <1>1, <1>2
  <2>2. CASE i <= Len(a)
    BY <1>1, <1>2, <2>1, <2>2 DEF AreMade
  <2>3. CASE ~ i <= Len(a)
    <3>1. i - Len(a) \in DOMAIN b
      BY <1>1, <2>1, <2>3
    <3>. QED BY <1>2, <2>1, <2>3, <3>1 DEF AreMade
  <2>. QED BY <2>2, <2>3
<1>. QED BY <1>2, <1>3 DEF AreMade

-----------------------------------------------------------------------------
(* Lists in the order of their frames                                        *)

Rising(list) == \A i, j \in DOMAIN list : i < j => list[i].frame < list[j].frame

(* What is taken from a list keeps its order, and is all that was to be taken.           *)
LEMMA AmongKeeps ==
  ASSUME NEW list \in Seq(Hash), Rising(list), NEW frames
  PROVE  /\ Among(list, frames) \in Seq(Hash) /\ Rising(Among(list, frames))
         /\ Frames(Among(list, frames)) = Frames(list) \cap frames
<1>. DEFINE n == Len(list)
            part(k, i) == /\ k[i] \in Seq(Hash) /\ Rising(k[i])
                          /\ Frames(k[i]) = {list[j].frame : j \in 1 .. i} \cap frames
<1>0. n \in Nat
  OBVIOUS
<1>1. PICK kept : /\ kept = [i \in 0 .. n |-> IF i = 0 THEN << >>
                               ELSE IF list[i].frame \in frames THEN Append(kept[i - 1], list[i])
                               ELSE kept[i - 1]]
                  /\ Among(list, frames) = kept[n]
  BY AmongIsFunction
<1>. DEFINE Odd == {i \in 0 .. n : ~ part(kept, i)}
<1>2. Odd = {}
  <2>. SUFFICES ASSUME Odd # {} PROVE FALSE
    OBVIOUS
  <2>1. PICK i \in Odd : \A k \in Odd : i <= k
    <3>1. Odd \subseteq Nat
      BY <1>0
    <3>. HIDE DEF Odd
    <3>. QED BY <3>1, SmallestIsThere
  <2>2. i \in 0 .. n /\ ~ part(kept, i)
    BY <2>1
  <2>3. CASE i = 0
    <3>1. kept[i] = << >>
      BY <1>0, <1>1, <2>3
    <3>. QED BY <2>2, <2>3, <3>1 DEF Rising, Frames
  <2>4. CASE i # 0
    <3>1. i \in 1 .. n /\ i - 1 \in 0 .. n /\ i - 1 \notin Odd /\ 1 .. i = 1 .. i - 1 \cup {i}
      <4>1. i \in 1 .. n /\ i - 1 \in 0 .. n /\ 1 .. i = 1 .. i - 1 \cup {i} /\ ~ i <= i - 1
        BY <1>0, <2>2, <2>4
      <4>. HIDE DEF Odd
      <4>. QED BY <2>1, <4>1
    <3>2. part(kept, i - 1)
      BY <3>1
    <3>3. list[i] \in Hash /\ i \in Nat
      BY <3>1
    <3>. DEFINE old == kept[i - 1]
                new == Append(old, list[i])
    <3>4. kept[i] = IF list[i].frame \in frames THEN new ELSE old
      BY <1>1, <2>4, <3>1
    <3>5. /\ old \in Seq(Hash) /\ Rising(old)
          /\ Frames(old) = {list[j].frame : j \in 1 .. i - 1} \cap frames
      BY <3>2
    <3>. HIDE DEF old
    <3>6. CASE list[i].frame \notin frames
      <4>1. {list[j].frame : j \in 1 .. i} \cap frames = {list[j].frame : j \in 1 .. i - 1} \cap frames
        BY <3>1, <3>6
      <4>. QED BY <2>2, <3>4, <3>5, <3>6, <4>1
    <3>7. CASE list[i].frame \in frames
      <4>1. /\ new \in Seq(Hash) /\ Len(new) = Len(old) + 1 /\ Len(old) \in Nat
            /\ new[Len(old) + 1] = list[i] /\ \A j \in 1 .. Len(old) : new[j] = old[j]
            /\ DOMAIN new = 1 .. Len(old) + 1 /\ DOMAIN old = 1 .. Len(old)
        BY <3>3, <3>5
      <4>. HIDE DEF new
      <4>2. \A f \in Frames(old) : f < list[i].frame
        <5>1. \A j \in 1 .. i - 1 : list[j].frame < list[i].frame
          BY <3>1 DEF Rising
        <5>. QED BY <3>5, <5>1
      <4>3. ASSUME NEW a \in DOMAIN new, NEW b \in DOMAIN new, a < b
            PROVE  new[a].frame < new[b].frame
        <5>1. a \in 1 .. Len(old) /\ new[a] = old[a]
          BY <4>1, <4>3
        <5>2. CASE b = Len(old) + 1
          <6>1. old[a].frame \in Frames(old)
            BY <4>1, <5>1 DEF Frames
          <6>. QED BY <4>1, <4>2, <5>1, <5>2, <6>1
        <5>3. CASE b # Len(old) + 1
          <6>1. b \in 1 .. Len(old) /\ new[b] = old[b]
            BY <4>1, <5>3
          <6>. QED BY <3>5, <4>1, <4>3, <5>1, <6>1 DEF Rising
        <5>. QED BY <5>2, <5>3
      <4>4. Frames(new) = Frames(old) \cup {list[i].frame}
        <5>1. DOMAIN new = DOMAIN old \cup {Len(old) + 1}
          BY <4>1
        <5>. QED BY <4>1, <5>1 DEF Frames
      <4>5. Frames(new) = {list[j].frame : j \in 1 .. i} \cap frames
        BY <3>1, <3>5, <3>7, <4>4
      <4>. QED BY <2>2, <3>4, <3>7, <4>1, <4>3, <4>5 DEF Rising
    <3>. QED BY <3>6, <3>7
  <2>. QED BY <2>3, <2>4
<1>3. part(kept, n)
  <2>1. n \in 0 .. n
    BY <1>0
  <2>. QED BY <1>2, <2>1
<1>4. Frames(list) = {list[j].frame : j \in 1 .. n}
  BY DEF Frames
<1>. QED BY <1>1, <1>3, <1>4

(* Two lists in order, one after the other.                                              *)
LEMMA ConcatKeeps ==
  ASSUME NEW a \in Seq(Hash), NEW b \in Seq(Hash), Rising(a), Rising(b),
         \A f \in Frames(a), g \in Frames(b) : f < g
  PROVE  /\ a \o b \in Seq(Hash) /\ Rising(a \o b)
         /\ Frames(a \o b) = Frames(a) \cup Frames(b)
<1>. DEFINE c == a \o b
<1>1. /\ c \in Seq(Hash) /\ Len(c) = Len(a) + Len(b) /\ Len(a) \in Nat /\ Len(b) \in Nat
      /\ DOMAIN c = 1 .. Len(a) + Len(b) /\ DOMAIN a = 1 .. Len(a) /\ DOMAIN b = 1 .. Len(b)
      /\ \A i \in 1 .. Len(a) : c[i] = a[i]
      /\ \A i \in 1 .. Len(b) : c[Len(a) + i] = b[i]
  BY ConcatProperties
<1>. HIDE DEF c
<1>2. ASSUME NEW i \in DOMAIN c
      PROVE  \/ i \in DOMAIN a /\ c[i] = a[i]
             \/ i > Len(a) /\ i - Len(a) \in DOMAIN b /\ c[i] = b[i - Len(a)]
  <2>1. CASE i <= Len(a)
    BY <1>1, <2>1
  <2>2. CASE i > Len(a)
    <3>1. i - Len(a) \in 1 .. Len(b) /\ Len(a) + (i - Len(a)) = i
      BY <1>1, <2>2
    <3>. QED BY <1>1, <2>2, <3>1
  <2>. QED BY <1>1, <2>1, <2>2
<1>3. Frames(c) = Frames(a) \cup Frames(b)
  <2>1. ASSUME NEW i \in DOMAIN c PROVE c[i].frame \in Frames(a) \cup Frames(b)
    BY <1>2 DEF Frames
  <2>2. ASSUME NEW i \in DOMAIN a PROVE a[i].frame \in Frames(c)
    <3>1. i \in DOMAIN c /\ c[i] = a[i]
      BY <1>1
    <3>. QED BY <3>1 DEF Frames
  <2>3. ASSUME NEW i \in DOMAIN b PROVE b[i].frame \in Frames(c)
    <3>1. Len(a) + i \in DOMAIN c /\ c[Len(a) + i] = b[i]
      BY <1>1
    <3>. QED BY <3>1 DEF Frames
  <2>. QED BY <2>1, <2>2, <2>3 DEF Frames
<1>4. ASSUME NEW i \in DOMAIN c, NEW j \in DOMAIN c, i < j PROVE c[i].frame < c[j].frame
  <2>1. CASE j \in DOMAIN a /\ c[j] = a[j]
    <3>1. i \in DOMAIN a /\ c[i] = a[i]
      BY <1>1, <1>4, <2>1
    <3>. QED BY <1>4, <2>1, <3>1 DEF Rising
  <2>2. CASE j > Len(a) /\ j - Len(a) \in DOMAIN b /\ c[j] = b[j - Len(a)]
    <3>1. CASE i \in DOMAIN a /\ c[i] = a[i]
      BY <2>2, <3>1 DEF Frames
    <3>2. CASE i > Len(a) /\ i - Len(a) \in DOMAIN b /\ c[i] = b[i - Len(a)]
      <4>1. i - Len(a) < j - Len(a)
        BY <1>1, <1>4
      <4>. QED BY <2>2, <3>2, <4>1 DEF Rising
    <3>. QED BY <1>2, <3>1, <3>2
  <2>. QED BY <1>2, <2>1, <2>2
<1>. QED BY <1>1, <1>3, <1>4 DEF Rising, c

(* A list in order is let through, or all of it is ahead.                                *)
LEMMA NotAheadKeeps ==
  ASSUME NEW list \in Seq(Hash), Rising(list), NEW f \in Nat
  PROVE  \/ NotAhead(list, f) = list
         \/ NotAhead(list, f) = << >> /\ \A g \in Frames(list) : g > f
<1>. DEFINE old == {i \in DOMAIN list : list[i].frame <= f}
<1>0. /\ DOMAIN list = 1 .. Len(list) /\ Len(list) \in Nat
      /\ \A i \in DOMAIN list : list[i].frame \in Nat
  <2>1. \A i \in DOMAIN list : list[i] \in Hash
    OBVIOUS
  <2>. QED BY <2>1 DEF Hash
<1>1. CASE old = {}
  <2>1. NotAhead(list, f) = << >>
    BY <1>1 DEF NotAhead
  <2>2. \A i \in DOMAIN list : list[i].frame > f
    BY <1>0, <1>1
  <2>. QED BY <2>1, <2>2 DEF Frames
<1>2. CASE old # {}
  <2>1. PICK k : k \in old
    BY <1>2
  <2>2. 1 \in old /\ \A i \in old : 1 <= i
    <3>1. k \in 1 .. Len(list) /\ list[k].frame <= f
      BY <1>0, <2>1
    <3>2. 1 \in DOMAIN list /\ (k # 1 => list[1].frame < list[k].frame)
      BY <1>0, <3>1 DEF Rising
    <3>3. list[1].frame <= f
      BY <1>0, <3>1, <3>2
    <3>. QED BY <1>0, <3>2, <3>3
  <2>3. old \subseteq Nat
    BY <1>0
  <2>4. (CHOOSE i \in old : \A j \in old : i <= j) = 1
    <3>. HIDE DEF old
    <3>1. \A i \in old : (\A j \in old : i <= j) => i = 1
      BY <2>2, <2>3
    <3>. QED BY <2>2, <3>1
  <2>5. NotAhead(list, f) = SubSeq(list, 1, Len(list))
    BY <1>2, <2>4 DEF NotAhead
  <2>6. SubSeq(list, 1, Len(list)) = list
    BY <1>0
  <2>. QED BY <2>5, <2>6
<1>. QED BY <1>1, <1>2

-----------------------------------------------------------------------------
(* Histories that are real *)

(* What is committed is played in one way.                                               *)
LEMMA RealAgree ==
  ASSUME NEW a \in History, NEW b \in History, Len(a) = Len(b), NEW owns,
         Real(a, owns), Real(b, owns)
  PROVE  a = b
<1>. DEFINE n == Len(a)
            D == {f \in 0 .. n - 1 : a[f + 1] # b[f + 1]}
<1>0. n \in Nat /\ D \subseteq Nat
  BY DEF History
<1>1. D = {}
  <2>. SUFFICES ASSUME D # {} PROVE FALSE
    OBVIOUS
  <2>1. PICK m \in D : \A k \in D : m <= k
    <3>. HIDE DEF D
    <3>. QED BY <1>0, SmallestIsThere
  <2>2. m \in 0 .. n - 1 /\ m \in 0 .. n /\ a[m + 1] # b[m + 1] /\ m + 1 \in 1 .. n
    BY <1>0, <2>1
  <2>3. ASSUME NEW h \in {a, b}
        PROVE  /\ Len(SubSeq(h, 1, m)) = m /\ SubSeq(h, 1, m) \in History
               /\ \A f \in 0 .. m - 1 : SubSeq(h, 1, m)[f + 1] = h[f + 1]
    <3>1. h \in History /\ m \in 0 .. Len(h)
      BY <2>2
    <3>. QED BY <3>1, PastIsHistory
  <2>4. ASSUME NEW i \in 1 .. m PROVE SubSeq(a, 1, m)[i] = SubSeq(b, 1, m)[i]
    <3>1. i - 1 \in 0 .. m - 1 /\ i - 1 \in 0 .. n - 1 /\ ~ m <= i - 1 /\ (i - 1) + 1 = i
      BY <1>0, <2>2
    <3>2. a[i] = b[i]
      BY <2>1, <3>1
    <3>. QED BY <2>3, <3>1, <3>2
  <2>5. SubSeq(a, 1, m) = SubSeq(b, 1, m)
    <3>. DEFINE x == SubSeq(a, 1, m)
                y == SubSeq(b, 1, m)
    <3>1. x \in Seq([Peers -> Input]) /\ y \in Seq([Peers -> Input]) /\ Len(x) = m /\ Len(y) = m
          /\ \A i \in 1 .. m : x[i] = y[i]
      BY <2>3, <2>4 DEF History
    <3>. HIDE DEF x, y
    <3>2. x = y
      BY <3>1
    <3>. QED BY <3>2 DEF x, y
  <2>6. a[m + 1] \in [Peers -> Input] /\ b[m + 1] \in [Peers -> Input]
    BY <2>2 DEF History
  <2>7. CASE Over(SubSeq(a, 1, m))
    BY <2>2, <2>5, <2>7 DEF Real
  <2>8. CASE ~ Over(SubSeq(a, 1, m))
    <3>1. \A q \in Peers : a[m + 1][q] = b[m + 1][q]
      BY <2>2, <2>5, <2>8 DEF Real
    <3>. QED BY <2>2, <2>6, <3>1
  <2>. QED BY <2>7, <2>8
<1>2. \A i \in 1 .. n : a[i] = b[i]
  <2>1. ASSUME NEW i \in 1 .. n PROVE a[i] = b[i]
    <3>1. i - 1 \in 0 .. n - 1 /\ (i - 1) + 1 = i
      BY <1>0
    <3>2. i - 1 \notin D
      BY <1>1
    <3>. QED BY <3>1, <3>2
  <2>. QED BY <2>1
<1>. QED BY <1>2 DEF History

LEMMA RealStays ==
  ASSUME NEW h \in History, NEW owns, NEW owns2, Real(h, owns),
         \A q \in Peers : /\ Row(owns[q], 0) \in Seq(Input) /\ Row(owns2[q], 0) \in Seq(Input)
                          /\ Starts(Row(owns[q], 0), Row(owns2[q], 0))
  PROVE  Real(h, owns2)
<1>. SUFFICES ASSUME NEW f \in 0 .. Len(h) - 1, ~ Over(SubSeq(h, 1, f)), NEW q \in Peers
              PROVE  f < Len(Row(owns2[q], 0)) /\ h[f + 1][q] = Row(owns2[q], 0)[f + 1]
  BY DEF Real
<1>. DEFINE a == Row(owns[q], 0)
            b == Row(owns2[q], 0)
<1>1. f \in Nat /\ f < Len(a) /\ h[f + 1][q] = a[f + 1]
  BY DEF Real, History
<1>2. a \in Seq(Input) /\ b \in Seq(Input) /\ Starts(a, b)
  OBVIOUS
<1>. HIDE DEF a, b
<1>3. f < Len(b) /\ b[f + 1] = a[f + 1]
  <2>1. Len(a) \in Nat /\ Len(b) \in Nat /\ f + 1 \in 1 .. Len(a)
    BY <1>1, <1>2
  <2>. QED BY <1>1, <1>2, <2>1 DEF Starts
<1>. QED BY <1>1, <1>3 DEF b

-----------------------------------------------------------------------------
(* The engine below *)

LEMMA ReceiveKeepsKnown ==
  ASSUME IInv, IInv', Chain, NEW p \in Peers, NEW msg \in sent[Other(p)], Receive(p, msg),
         NEW f \in Nat, Known(f, remote[p])
  PROVE  Known(f, remote'[p])
<1>1. /\ EndFrame(remote[p], 0) <= EndFrame(remote'[p], 0)
      /\ \/ remote'[p].changed = remote[p].changed
         \/ \E g \in Nat : g >= EndFrame(remote[p], 0) /\ remote'[p].changed = IndexedFrame(0, g)
  BY ReceiveMarks
<1>2. /\ EndFrame(remote[p], 0) \in Nat /\ EndFrame(remote'[p], 0) \in Nat
      /\ f < EndFrame(remote[p], 0) /\ (remote[p].changed[1] = 0 => f < remote[p].changed[2])
  <2>1. remote[p] \in Container /\ remote'[p] \in Container
    BY DEF IInv, TypeOK
  <2>. QED BY <2>1, RowIsHeld DEF Known
<1>3. remote'[p].changed[1] = 0 => f < remote'[p].changed[2]
  BY <1>1, <1>2 DEF IndexedFrame
<1>. QED BY <1>1, <1>2, <1>3 DEF Known

LEMMA RollbackKeepsKnown ==
  ASSUME IInv, NEW p \in Peers, TriggerRollback(p), NEW f \in Nat, Known(f, remote[p])
  PROVE  Known(f, remote'[p])
<1>1. remote'[p] = ClearLastChangedFrame(remote[p]) /\ remote[p] \in Container
  BY PeerFacts DEF TriggerRollback, IInv, TypeOK
<1>2. /\ remote'[p].changed = MaxIndexedFrame
      /\ EndFrame(remote'[p], 0) = EndFrame(remote[p], 0)
  BY <1>1, ClearKeepsRow DEF EndFrame
<1>. QED BY <1>2 DEF Known, MaxIndexedFrame, NoIndex

(* A step of the engine takes nothing back: what is committed, and what is known.        *)
LEMMA EngineStep ==
  ASSUME WindowFits, Engine, [Next]_vars, \A p \in Peers : ~ Leave(p)
  PROVE  /\ Engine'
         /\ \A q \in Peers : Starts(Row(own[q], 0), Row(own'[q], 0))
         /\ \A p \in Peers : \A f \in Nat : Known(f, remote[p]) => Known(f, remote'[p])
<1>1. IInv /\ Chain /\ IInv' /\ Chain' /\ TypeOK /\ TypeOK'
  BY ChainStep DEF Engine, IInv
<1>2. NobodyLeft'
  <2>1. ASSUME NEW p \in Peers, NEW at \in {"top", "gate"}, pc' = pc \/ pc' = [pc EXCEPT ![p] = at]
        PROVE  NobodyLeft'
    BY <1>1, <2>1 DEF Engine, NobodyLeft, TypeOK
  <2>2. ASSUME NEW p \in Peers, NEW input \in Presses(p, Frame(p)), StartFrame(p, input)
        PROVE  pc' = [pc EXCEPT ![p] = "gate"]
    BY <2>2 DEF StartFrame
  <2>3. ASSUME NEW p \in Peers, PassGate(p) \/ TriggerRollback(p) PROVE pc' = [pc EXCEPT ![p] = "top"]
    BY <2>3 DEF PassGate, TriggerRollback
  <2>4. ASSUME NEW p \in Peers, Rerun(p) \/ ReceiveIndex(p) \/ \E msg \in sent[Other(p)] : Receive(p, msg)
        PROVE  pc' = pc
    BY <2>4 DEF Rerun, ReceiveIndex, Receive
  <2>5. ASSUME UNCHANGED vars PROVE NobodyLeft'
    BY <2>5 DEF vars, Engine, NobodyLeft
  <2>. QED BY <2>1, <2>2, <2>3, <2>4, <2>5 DEF Next, Finished
<1>3. ASSUME NEW q \in Peers PROVE Starts(Row(own[q], 0), Row(own'[q], 0))
  <2>1. own[q] \in Container /\ Row(own[q], 0) \in Seq(Input)
    BY <1>1, PeerFacts
  <2>2. own'[q] = own[q] => Starts(Row(own[q], 0), Row(own'[q], 0))
    BY <2>1 DEF Starts
  <2>3. ASSUME NEW p \in Peers, NEW input \in Presses(p, Frame(p)), StartFrame(p, input)
        PROVE  Starts(Row(own[q], 0), Row(own'[q], 0))
    <3>. DEFINE ahead == Frame(p) + Delay
    <3>1. /\ own' = [own EXCEPT ![p] = SetOnce(own[p], 0, ahead, input)] /\ Frame(p) < MaxFrame
      BY <2>3 DEF StartFrame
    <3>2. Frame(p) \in 0 .. MaxFrame /\ ahead \in Nat
      BY <1>1, <3>1, PeerFacts, RollbackAssumption
    <3>3. input \in Input
      BY <3>2, RollbackAssumption DEF Peers
    <3>. HIDE DEF ahead
    <3>4. CASE q = p
      <4>1. own'[q] = SetOnce(own[q], 0, ahead, input)
        BY <1>1, <3>1, <3>4 DEF TypeOK
      <4>. QED BY <2>1, <3>2, <3>3, <4>1, SetOnceStarts
    <3>5. CASE q # p
      <4>1. own'[q] = own[q]
        BY <1>1, <3>1, <3>5 DEF TypeOK
      <4>. QED BY <2>2, <4>1
    <3>. QED BY <3>4, <3>5
  <2>4. ASSUME NEW p \in Peers, \/ PassGate(p) \/ TriggerRollback(p) \/ Rerun(p) \/ ReceiveIndex(p)
                                \/ \E msg \in sent[Other(p)] : Receive(p, msg)
        PROVE  own' = own
    BY <2>4 DEF PassGate, TriggerRollback, Rerun, ReceiveIndex, Receive
  <2>5. UNCHANGED vars => own' = own
    BY DEF vars
  <2>. QED BY <2>2, <2>3, <2>4, <2>5 DEF Next, Finished
<1>4. ASSUME NEW q \in Peers, NEW f \in Nat, Known(f, remote[q]) PROVE Known(f, remote'[q])
  <2>1. ASSUME NEW p \in Peers, NEW msg \in sent[Other(p)], Receive(p, msg) PROVE Known(f, remote'[q])
    <3>1. p # q => remote'[q] = remote[q]
      BY <1>1, <2>1 DEF Receive, TypeOK
    <3>. QED BY <1>1, <1>4, <2>1, <3>1, ReceiveKeepsKnown
  <2>2. ASSUME NEW p \in Peers, TriggerRollback(p) PROVE Known(f, remote'[q])
    <3>1. p # q => remote'[q] = remote[q]
      BY <1>1, <2>2 DEF TriggerRollback, TypeOK
    <3>. QED BY <1>1, <1>4, <2>2, <3>1, RollbackKeepsKnown
  <2>3. ASSUME NEW p \in Peers, ReceiveIndex(p) PROVE FALSE
    BY <2>3, TwoPeers DEF ReceiveIndex, Engine, NobodyLeft
  <2>4. ASSUME NEW p \in Peers, PassGate(p) \/ Rerun(p) \/ \E input \in Presses(p, Frame(p)) : StartFrame(p, input)
        PROVE  remote' = remote
    BY <2>4 DEF PassGate, Rerun, StartFrame
  <2>5. UNCHANGED vars => remote' = remote
    BY DEF vars
  <2>. QED BY <1>4, <2>1, <2>2, <2>3, <2>4, <2>5 DEF Next, Finished
<1>. QED BY <1>1, <1>2, <1>3, <1>4 DEF Engine

(* What the guard of step 9 is worth: a history that is hashed is real, and stays so.    *)
LEMMA ConfirmedIsReal ==
  ASSUME Engine, NEW p \in Peers, Confirmed(p), Frame(p) # 0
  PROVE  Real(hist[p], own) /\ Known(Frame(p), remote[p])
<1>. DEFINE c == remote[p]
<1>1. /\ IInv /\ Chain /\ TypeOK /\ c \in Container /\ Frame(p) \in Nat
      /\ EndFrame(c, 0) \in Nat
  BY PeerFacts DEF Engine, IInv
<1>2. ~ EndIndex(c) > 1
  BY TwoPeers DEF Engine, NobodyLeft, Chain, GoneHasLeft
<1>3. c.changed = MaxIndexedFrame /\ RemoteFrame(c) >= Frame(p)
  BY DEF Confirmed
<1>. HIDE DEF c
<1>4. c.inputs \in Seq(Seq(Input)) /\ Len(c.inputs) \in Nat /\ ~ Len(c.inputs) > 1
  BY <1>1, <1>2 DEF Container, EndIndex
<1>5. LastEndFrame(c) = EndFrame(c, 0)
  <2>1. CASE c.inputs = << >>
    BY <1>4, <2>1 DEF LastEndFrame, EndFrame, Row, EndIndex
  <2>2. CASE c.inputs # << >>
    <3>1. Len(c.inputs) # 0
      BY <1>4, <2>2, EmptySeq
    <3>2. \A n \in Nat : n # 0 /\ ~ n > 1 => n = 1
      OBVIOUS
    <3>3. Len(c.inputs) = 1
      BY <1>4, <3>1, <3>2, Zenon
    <3>. QED BY <2>2, <3>3 DEF LastEndFrame, EndFrame, Row, EndIndex
  <2>. QED BY <2>1, <2>2
<1>6. Frame(p) < EndFrame(c, 0)
  BY <1>1, <1>3, <1>5 DEF RemoteFrame
<1>7. Known(Frame(p), c)
  BY <1>3, <1>6 DEF Known, MaxIndexedFrame, NoIndex
<1>8. ASSUME NEW f \in 0 .. Len(hist[p]) - 1
      PROVE  IF Over(SubSeq(hist[p], 1, f)) THEN hist[p][f + 1] = Neutral
             ELSE \A q \in Peers : f < Len(Row(own[q], 0)) /\ hist[p][f + 1][q] = Row(own[q], 0)[f + 1]
  <2>1. f \in 0 .. Frame(p) - 1 /\ f < EndFrame(c, 0) /\ f \in Nat
    BY <1>1, <1>6 DEF Frame
  <2>2. Before(IndexedFrame(0, f), c.changed) /\ ~ Marked(c, f)
    BY <1>3, <2>1 DEF Before, IndexedFrame, MaxIndexedFrame, NoIndex, Marked
  <2>3. UsedIn(hist[p], own[p], remote[p], p)
    BY <1>1 DEF IInv, PeerSound, Sound
  <2>4. Used(hist[p], own[p], remote[p], p, f)
    BY <2>2, <2>3 DEF UsedIn, c
  <2>5. Over(SubSeq(hist[p], 1, f)) => hist[p][f + 1] = Neutral
    BY <2>4 DEF Used
  <2>6. f \in Settled(p)
    BY <2>1, <2>2 DEF Settled, Certain, c
  <2>7. ~ Over(SubSeq(hist[p], 1, f)) => IsCommitted(hist[p], f)
    BY <1>1, <2>6, ChainSettles DEF SettledIsCommitted
  <2>8. ASSUME NEW q \in Peers, f < EndFrame(own[q], 0)
        PROVE  Row(own[q], 0) = own[q].inputs[1] /\ EndFrame(own[q], 0) = Len(Row(own[q], 0))
    <3>1. own[q] \in Container
      BY <1>1, PeerFacts
    <3>2. own[q].inputs # << >>
      BY <2>1, <2>8 DEF EndFrame, Row, EndIndex
    <3>. QED BY <3>1, <3>2 DEF Row, EndIndex, Container, EndFrame
  <2>. QED BY <2>5, <2>7, <2>8 DEF IsCommitted
<1>. QED BY <1>7, <1>8 DEF Real, c

-----------------------------------------------------------------------------
(* Every step keeps the hashes what they are *)

LEMMA MadeStays ==
  ASSUME NEW list, NEW q, NEW frames, NEW more, frames \subseteq more,
         NEW owns, NEW owns2, NEW wrong, AreMade(list, q, frames, owns, wrong),
         \A x \in Peers : /\ Row(owns[x], 0) \in Seq(Input) /\ Row(owns2[x], 0) \in Seq(Input)
                          /\ Starts(Row(owns[x], 0), Row(owns2[x], 0))
  PROVE  AreMade(list, q, more, owns2, wrong)
<1>1. list \in Seq(Hash)
  BY DEF AreMade
<1>2. ASSUME NEW i \in DOMAIN list PROVE IsMade(list[i], q, more, owns2, wrong)
  <2>1. list[i] \in Hash /\ IsMade(list[i], q, frames, owns, wrong)
    BY <1>1 DEF AreMade
  <2>2. list[i].state[1] \in History /\ Real(list[i].state[1], owns)
    BY <2>1 DEF Hash, IsMade
  <2>3. Real(list[i].state[1], owns2)
    BY <2>2, RealStays
  <2>. QED BY <2>1, <2>3 DEF IsMade
<1>. QED BY <1>1, <1>2 DEF AreMade

(* A step of the engine that does not touch a list of hashes.                            *)
LEMMA ListsStay ==
  ASSUME WindowFits, SyncIInv, [Next]_vars,
         NEW x \in Peers, NEW at \in {"top", "gate"}, pc' \in {pc, [pc EXCEPT ![x] = at]}
  PROVE  /\ Engine'
         /\ \A q \in Peers : \A list, more :
              AreMade(list, q, made[q], own, flaw) /\ made[q] \subseteq more =>
                AreMade(list, q, more, own', flaw)
         /\ \A p \in Peers : \A f \in made[p] : Known(f, remote'[p])
<1>1. Engine /\ IInv /\ TypeOK /\ NobodyLeft /\ Kinded
  BY DEF SyncIInv, Engine, IInv
<1>2. \A p \in Peers : ~ Leave(p)
  BY <1>1 DEF Leave, NobodyLeft, TypeOK
<1>3. /\ Engine'
      /\ \A q \in Peers : Starts(Row(own[q], 0), Row(own'[q], 0))
      /\ \A p \in Peers : \A f \in Nat : Known(f, remote[p]) => Known(f, remote'[p])
  BY <1>1, <1>2, EngineStep
<1>4. \A q \in Peers : Row(own[q], 0) \in Seq(Input) /\ Row(own'[q], 0) \in Seq(Input)
  <2>1. \A q \in Peers : Row(own[q], 0) \in Seq(Input)
    BY <1>1, PeerFacts
  <2>2. TypeOK'
    BY <1>3 DEF Engine, IInv
  <2>3. \A q \in Peers : own'[q] \in Container
    BY <2>2 DEF TypeOK
  <2>4. \A q \in Peers : Row(own'[q], 0) \in Seq(Input)
    BY <2>3, RowIsHeld
  <2>. QED BY <2>1, <2>4
<1>5. ASSUME NEW q \in Peers, NEW list, NEW more, AreMade(list, q, made[q], own, flaw), made[q] \subseteq more
      PROVE  AreMade(list, q, more, own', flaw)
  BY <1>3, <1>4, <1>5, MadeStays
<1>6. ASSUME NEW p \in Peers, NEW f \in made[p] PROVE Known(f, remote'[p])
  <2>1. f \in Nat
    BY <1>1, RollbackAssumption DEF Kinded
  <2>. QED BY <1>3, <2>1 DEF SyncIInv, MadeIsKnown
<1>. QED BY <1>3, <1>5, <1>6

(* What the invariant says of one peer's part of it, as SyncIInv is used below.          *)
LEMMA SyncFacts ==
  ASSUME SyncIInv, NEW p \in Peers
  PROVE  /\ AreMade(local[p], p, made[p], own, flaw)
         /\ AreMade(incoming[p], Other(p), made[Other(p)], own, flaw)
         /\ AreMade(channel[p], Other(p), made[Other(p)], own, flaw)
         /\ AreMade(channel[Other(p)], p, made[p], own, flaw)
         /\ made[p] \subseteq {f \in 0 .. MaxFrame : RightTime(f)}
         /\ compared[p] \subseteq made[p]
         /\ Other(p) \in Peers /\ Other(p) # p
<1>1. Other(p) \in Peers /\ Other(Other(p)) = p /\ Other(p) # p
  BY TwoPeers
<1>2. HashesAreMade /\ Kinded /\ ComparedIsMade
  BY DEF SyncIInv
<1>3. AreMade(channel[Other(p)], Other(Other(p)), made[Other(Other(p))], own, flaw)
  BY <1>1, <1>2 DEF HashesAreMade
<1>. QED BY <1>1, <1>2, <1>3 DEF HashesAreMade, Kinded, ComparedIsMade

LEMMA InitSyncSound == InitSync => SyncIInv
<1>. SUFFICES ASSUME InitSync PROVE SyncIInv
  OBVIOUS
<1>1. IInv /\ Chain /\ NobodyLeft
  BY InitSound, ChainInit DEF InitSync, Init, NobodyLeft
<1>2. \A q, frames, owns, wrong : AreMade(<< >>, q, frames, owns, wrong)
  BY DEF AreMade
<1>3. Kinded
  BY DEF InitSync, Kinded
<1>4. HashesAreMade
  BY <1>2 DEF InitSync, HashesAreMade
<1>. QED BY <1>1, <1>3, <1>4 DEF InitSync, SyncIInv, Engine, MadeIsKnown, ComparedIsMade, NoFalseAlarm

LEMMA HashIsMade ==
  ASSUME SyncIInv, NEW p \in Peers, Scheduled(p)
  PROVE  /\ AreMade(<< HashOf(p) >>, p, {Frame(p)}, own, flaw)
         /\ Known(Frame(p), remote[p])
         /\ Frame(p) \in {f \in 0 .. MaxFrame : RightTime(f)}
<1>1. Engine /\ TypeOK /\ RightTime(Frame(p)) /\ Confirmed(p) /\ Frame(p) # 0
  BY DEF SyncIInv, Engine, IInv, Scheduled, RightTime
<1>2. Real(hist[p], own) /\ Known(Frame(p), remote[p])
  BY <1>1, ConfirmedIsReal
<1>3. hist[p] \in History /\ Frame(p) \in Nat /\ Frame(p) <= MaxFrame /\ Len(hist[p]) = Frame(p)
  BY <1>1 DEF TypeOK, Frame, History
<1>. DEFINE h == HashOf(p)
            wrong == flaw[1] = p /\ flaw[2] < Frame(p)
<1>4. h.frame = Frame(p) /\ h.state[1] = hist[p] /\ h.state[2] = wrong
  BY DEF HashOf
<1>5. h \in Hash
  <2>1. h = [frame |-> Frame(p), state |-> << hist[p], wrong >>]
    BY DEF HashOf
  <2>2. wrong \in BOOLEAN
    OBVIOUS
  <2>. HIDE DEF wrong, h
  <2>. QED BY <1>3, <2>1, <2>2 DEF Hash
<1>6. IsMade(h, p, {Frame(p)}, own, flaw)
  BY <1>2, <1>3, <1>4 DEF IsMade
<1>. HIDE DEF h
<1>7. AreMade(<< h >>, p, {Frame(p)}, own, flaw)
  BY <1>5, <1>6 DEF AreMade
<1>. QED BY <1>1, <1>2, <1>3, <1>7, RollbackAssumption DEF h

(* Hashes of one frame differ only if a game has gone wrong before it.                   *)
LEMMA DifferIsFlaw ==
  ASSUME NEW p \in Peers, NEW q \in Peers, q # p, NEW a \in Hash, NEW b \in Hash,
         NEW frames, NEW frames2, NEW owns, NEW wrong,
         IsMade(a, p, frames, owns, wrong), IsMade(b, q, frames2, owns, wrong),
         a.frame = b.frame, a.state # b.state
  PROVE  wrong[1] \in Peers /\ wrong[2] < a.frame
<1>1. a.state[1] \in History /\ b.state[1] \in History
  BY DEF Hash
<1>2. a.state[1] = b.state[1]
  BY <1>1, RealAgree DEF IsMade
<1>3. a.state[2] # b.state[2]
  <2>1. a.state \in History \X BOOLEAN /\ b.state \in History \X BOOLEAN
    BY DEF Hash
  <2>. QED BY <1>2, <2>1
<1>. QED BY <1>3 DEF IsMade

LEMMA LeftoverIsMade ==
  ASSUME NEW mine, NEW theirs, NEW p, NEW frames, NEW owns, NEW wrong,
         AreMade(mine, p, frames, owns, wrong)
  PROVE  AreMade(Leftover(mine, theirs), p, frames, owns, wrong)
<1>1. mine \in Seq(Hash)
  BY DEF AreMade
<1>2. \A f : AreMade(Among(mine, f), p, frames, owns, wrong)
  <2>1. ASSUME NEW f PROVE AreMade(Among(mine, f), p, frames, owns, wrong)
    <3>1. Among(mine, f) \in Seq(Entries(mine))
      BY <1>1, AmongEntries
    <3>. QED BY <3>1, EntriesAreMade
  <2>. QED BY <2>1
<1>. QED BY <1>2 DEF Leftover

LEMMA CompareSound ==
  ASSUME NEW p \in Peers, NEW q \in Peers, q # p, NEW mine, NEW theirs,
         NEW frames, NEW frames2, AreMade(mine, p, frames, own, flaw),
         AreMade(theirs, q, frames2, own, flaw), Compare(p, mine, theirs),
         Kinded, compared[p] \subseteq frames
  PROVE  /\ local' \in [Peers -> Seq(Hash)] /\ incoming' \in [Peers -> Seq(Hash)]
         /\ stopped' \in [Peers -> BOOLEAN]
         /\ AreMade(local'[p], p, frames, own, flaw)
         /\ AreMade(incoming'[p], q, frames2, own, flaw)
         /\ \A x \in Peers \ {p} : /\ local'[x] = local[x] /\ incoming'[x] = incoming[x]
                                   /\ compared'[x] = compared[x] /\ stopped'[x] = stopped[x]
         /\ compared' = [compared EXCEPT ![p] = compared'[p]] /\ compared'[p] \subseteq frames
         /\ stopped'[p] => flaw[1] \in Peers /\ \E f \in compared'[p] : flaw[2] < f
<1>. DEFINE M == Matches(mine, theirs)
            differ == {m \in M : mine[m[1]].state # theirs[m[2]].state}
            left == IF differ # {} THEN << >> ELSE Leftover(mine, theirs)
            right == IF differ # {} THEN << >> ELSE Leftover(theirs, mine)
            seen == {mine[m[1]].frame : m \in M}
<1>1. /\ stopped' = [stopped EXCEPT ![p] = differ # {}]
      /\ compared' = [compared EXCEPT ![p] = @ \cup seen]
      /\ local' = [local EXCEPT ![p] = left]
      /\ incoming' = [incoming EXCEPT ![p] = right]
  BY DEF Compare
<1>2. /\ local \in [Peers -> Seq(Hash)] /\ incoming \in [Peers -> Seq(Hash)]
      /\ stopped \in [Peers -> BOOLEAN]
      /\ compared \in [Peers -> SUBSET {f \in 0 .. MaxFrame : RightTime(f)}]
  BY DEF Kinded
<1>3. AreMade(left, p, frames, own, flaw) /\ AreMade(right, q, frames2, own, flaw)
  <2>1. \A x, f : AreMade(<< >>, x, f, own, flaw)
    BY DEF AreMade
  <2>. QED BY <2>1, LeftoverIsMade
<1>4. ASSUME NEW m \in M
      PROVE  /\ mine[m[1]] \in Hash /\ theirs[m[2]] \in Hash
             /\ IsMade(mine[m[1]], p, frames, own, flaw)
             /\ IsMade(theirs[m[2]], q, frames2, own, flaw)
             /\ mine[m[1]].frame = theirs[m[2]].frame
             /\ mine[m[1]].frame \in frames
  <2>1. /\ m[1] \in DOMAIN mine /\ m[2] \in DOMAIN theirs
        /\ mine[m[1]].frame = theirs[m[2]].frame
    BY DEF Matches
  <2>2. IsMade(mine[m[1]], p, frames, own, flaw)
    BY <2>1 DEF AreMade
  <2>3. /\ mine[m[1]] \in Hash /\ theirs[m[2]] \in Hash
        /\ IsMade(theirs[m[2]], q, frames2, own, flaw)
    BY <2>1 DEF AreMade
  <2>. QED BY <2>1, <2>2, <2>3 DEF IsMade
<1>. HIDE DEF M
<1>5. ASSUME differ # {} PROVE flaw[1] \in Peers /\ \E f \in seen : flaw[2] < f
  <2>1. PICK m \in M : mine[m[1]].state # theirs[m[2]].state
    BY <1>5
  <2>2. flaw[1] \in Peers /\ flaw[2] < mine[m[1]].frame
    BY <1>4, <2>1, DifferIsFlaw
  <2>. QED BY <2>2
<1>6. seen \subseteq frames
  BY <1>4
<1>7. left \in Seq(Hash) /\ right \in Seq(Hash)
  BY <1>3 DEF AreMade
<1>. HIDE DEF left, right, differ, seen
<1>8. /\ local'[p] = left /\ incoming'[p] = right /\ compared'[p] = compared[p] \cup seen
      /\ stopped'[p] = (differ # {})
  BY <1>1, <1>2
<1>9. /\ local' \in [Peers -> Seq(Hash)] /\ incoming' \in [Peers -> Seq(Hash)]
      /\ stopped' \in [Peers -> BOOLEAN]
  BY <1>1, <1>2, <1>7
<1>10. \A x \in Peers \ {p} : /\ local'[x] = local[x] /\ incoming'[x] = incoming[x]
                              /\ compared'[x] = compared[x] /\ stopped'[x] = stopped[x]
  BY <1>1, <1>2
<1>11. compared' = [compared EXCEPT ![p] = compared'[p]]
  BY <1>1, <1>2, <1>8
<1>. QED BY <1>3, <1>5, <1>6, <1>8, <1>9, <1>10, <1>11

LEMMA HashAndPassSound ==
  ASSUME WindowFits, SyncIInv, NEW p \in Peers, HashAndPass(p)
  PROVE  SyncIInv'
<1>. DEFINE q == Other(p)
            new == IF Scheduled(p) THEN << HashOf(p) >> ELSE << >>
            more == made[p] \cup {h.frame : h \in {new[i] : i \in DOMAIN new}}
            mine == NotAhead(local[p] \o new, Frame(p))
            theirs == NotAhead(incoming[p], Frame(p))
<1>1. /\ PassGate(p) /\ made' = [made EXCEPT ![p] = more]
      /\ channel' = [channel EXCEPT ![q] = @ \o new]
      /\ Compare(p, mine, theirs) /\ flaw' = flaw
  BY DEF HashAndPass
<1>2. [Next]_vars /\ pc' = [pc EXCEPT ![p] = "top"] /\ own' = own /\ remote' = remote
  BY <1>1 DEF Next, PassGate
<1>3. /\ Kinded /\ Frame(p) \in Nat /\ q \in Peers /\ q # p
      /\ AreMade(local[p], p, made[p], own, flaw) /\ AreMade(incoming[p], q, made[q], own, flaw)
      /\ AreMade(channel[q], p, made[p], own, flaw) /\ compared[p] \subseteq made[p]
  BY SyncFacts, PeerFacts DEF SyncIInv, Engine
<1>4. /\ Engine'
      /\ \A x \in Peers : \A list : AreMade(list, x, made[x], own, flaw) => AreMade(list, x, made[x], own', flaw)
  BY <1>2, ListsStay
<1>5. /\ AreMade(new, p, more, own, flaw)
      /\ more \subseteq {f \in 0 .. MaxFrame : RightTime(f)}
      /\ \A f \in more : f \in made[p] \/ Known(f, remote[p])
      /\ made[p] \subseteq more
  <2>1. made[p] \subseteq {f \in 0 .. MaxFrame : RightTime(f)}
    BY SyncFacts
  <2>2. CASE Scheduled(p)
    <3>. DEFINE h == HashOf(p)
    <3>1. /\ AreMade(<< h >>, p, {Frame(p)}, own, flaw) /\ Known(Frame(p), remote[p])
          /\ Frame(p) \in {f \in 0 .. MaxFrame : RightTime(f)}
      BY <2>2, HashIsMade
    <3>2. h.frame = Frame(p) /\ new = << h >>
      BY <2>2 DEF HashOf
    <3>. HIDE DEF h, new
    <3>3. {x.frame : x \in {new[i] : i \in DOMAIN new}} = {Frame(p)}
      <4>1. DOMAIN new = {1} /\ new[1] = h
        BY <3>2
      <4>. HIDE DEF new
      <4>. QED BY <3>2, <4>1
    <3>4. more = made[p] \cup {Frame(p)}
      BY <3>3
    <3>5. AreMade(new, p, more, own, flaw)
      BY <3>1, <3>2, <3>4 DEF AreMade, IsMade
    <3>. HIDE DEF more
    <3>. QED BY <2>1, <3>1, <3>4, <3>5
  <2>3. CASE ~ Scheduled(p)
    <3>1. new = << >> /\ more = made[p]
      BY <2>3
    <3>. HIDE DEF new, more
    <3>2. AreMade(new, p, more, own, flaw)
      BY <3>1 DEF AreMade
    <3>. QED BY <2>1, <3>1, <3>2
  <2>. QED BY <2>2, <2>3
<1>. HIDE DEF new, more
<1>6. \A list : AreMade(list, p, made[p], own, flaw) => AreMade(list, p, more, own, flaw)
  BY <1>5 DEF AreMade, IsMade
<1>7. AreMade(mine, p, more, own, flaw)
  <2>1. AreMade(local[p] \o new, p, more, own, flaw)
    BY <1>3, <1>5, <1>6, ConcatIsMade
  <2>2. local[p] \o new \in Seq(Hash)
    BY <2>1 DEF AreMade
  <2>3. mine \in Seq(Entries(local[p] \o new))
    BY <1>3, <2>2, NotAheadEntries
  <2>. QED BY <2>1, <2>3, EntriesAreMade
<1>8. AreMade(theirs, q, made[q], own, flaw)
  <2>1. incoming[p] \in Seq(Hash)
    BY <1>3 DEF AreMade
  <2>2. theirs \in Seq(Entries(incoming[p]))
    BY <1>3, <2>1, NotAheadEntries
  <2>. QED BY <1>3, <2>2, EntriesAreMade
<1>. HIDE DEF mine, theirs, q
<1>9. compared[p] \subseteq more
  BY <1>3, <1>5
<1>10. /\ local' \in [Peers -> Seq(Hash)] /\ incoming' \in [Peers -> Seq(Hash)]
       /\ stopped' \in [Peers -> BOOLEAN]
       /\ AreMade(local'[p], p, more, own, flaw) /\ AreMade(incoming'[p], q, made[q], own, flaw)
       /\ \A x \in Peers \ {p} : /\ local'[x] = local[x] /\ incoming'[x] = incoming[x]
                                 /\ compared'[x] = compared[x] /\ stopped'[x] = stopped[x]
       /\ compared' = [compared EXCEPT ![p] = compared'[p]] /\ compared'[p] \subseteq more
       /\ stopped'[p] => flaw[1] \in Peers /\ \E f \in compared'[p] : flaw[2] < f
  BY <1>1, <1>3, <1>7, <1>8, <1>9, CompareSound
<1>11. /\ made'[p] = more /\ \A x \in Peers \ {p} : made'[x] = made[x]
       /\ made' \in [Peers -> SUBSET {f \in 0 .. MaxFrame : RightTime(f)}]
  BY <1>1, <1>3, <1>5 DEF Kinded
<1>12. /\ channel' \in [Peers -> Seq(Hash)] /\ \A x \in Peers \ {q} : channel'[x] = channel[x]
       /\ AreMade(channel'[q], p, more, own, flaw)
  <2>1. AreMade(channel[q] \o new, p, more, own, flaw)
    BY <1>3, <1>5, <1>6, ConcatIsMade
  <2>2. channel[q] \o new \in Seq(Hash)
    BY <2>1 DEF AreMade
  <2>. QED BY <1>1, <1>3, <2>1, <2>2 DEF Kinded
<1>13. Kinded'
  <2>1. compared' \in [Peers -> SUBSET {f \in 0 .. MaxFrame : RightTime(f)}]
    BY <1>5, <1>10, <1>3 DEF Kinded
  <2>2. flaw \in {NoFlaw} \cup (Peers \X (1 .. MaxFrame))
    BY <1>3 DEF Kinded
  <2>3. \A f : RightTime(f)' = RightTime(f)
    BY DEF RightTime
  <2>. QED BY <1>1, <1>10, <1>11, <1>12, <2>1, <2>2 DEF Kinded, NoFlaw, RightTime
<1>14. \A x \in Peers : x = p \/ x = q
  BY TwoPeers DEF q
<1>15. Other(p) = q /\ Other(q) = p
  BY TwoPeers DEF q
<1>16. /\ AreMade(local[q], q, made[q], own, flaw) /\ AreMade(incoming[q], p, made[p], own, flaw)
       /\ AreMade(channel[p], q, made[q], own, flaw)
  BY <1>3, <1>15, SyncFacts
<1>17. HashesAreMade'
  <2>1. /\ AreMade(local'[p], p, made'[p], own', flaw')
        /\ AreMade(incoming'[p], q, made'[q], own', flaw')
        /\ AreMade(channel'[p], q, made'[q], own', flaw')
    BY <1>1, <1>2, <1>3, <1>10, <1>11, <1>12, <1>16
  <2>2. /\ AreMade(local'[q], q, made'[q], own', flaw')
        /\ AreMade(incoming'[q], p, made'[p], own', flaw')
        /\ AreMade(channel'[q], p, made'[p], own', flaw')
    BY <1>1, <1>2, <1>3, <1>6, <1>10, <1>11, <1>12, <1>16
  <2>. QED BY <1>14, <1>15, <2>1, <2>2 DEF HashesAreMade
<1>18. MadeIsKnown'
  <2>1. MadeIsKnown
    BY DEF SyncIInv
  <2>2. \A x \in Peers : \A f \in made'[x] : f \in made[x] \/ Known(f, remote[x])
    BY <1>5, <1>11, <1>14
  <2>3. \A x \in Peers : \A f \in made'[x] : Known(f, remote[x])
    BY <2>1, <2>2 DEF MadeIsKnown
  <2>. QED BY <1>2, <2>3 DEF MadeIsKnown
<1>19. ComparedIsMade' /\ NoFalseAlarm'
  <2>1. ComparedIsMade /\ NoFalseAlarm /\ ComparedIsMade'
    BY <1>10, <1>11, <1>14, <1>3 DEF SyncIInv, ComparedIsMade
  <2>2. flaw[1] \in Peers => flaw # NoFlaw
    BY DEF NoFlaw, Peers
  <2>3. stopped'[p] => flaw' # NoFlaw /\ \E f \in compared'[p] : flaw'[2] < f
    BY <1>1, <1>10, <2>2
  <2>4. ASSUME NEW x \in Peers \ {p}, stopped'[x]
        PROVE  flaw' # NoFlaw /\ \E f \in compared'[x] : flaw'[2] < f
    <3>1. stopped'[x] = stopped[x] /\ compared'[x] = compared[x]
      BY <1>10
    <3>. QED BY <1>1, <2>1, <2>4, <3>1 DEF NoFalseAlarm
  <2>. QED BY <2>1, <2>3, <2>4 DEF NoFalseAlarm, NoFlaw
<1>. QED BY <1>4, <1>13, <1>17, <1>18, <1>19 DEF SyncIInv

LEMMA RollbackAndForgetSound ==
  ASSUME WindowFits, SyncIInv, NEW p \in Peers, RollbackAndForget(p)
  PROVE  SyncIInv'
<1>. DEFINE before == 0 .. remote[p].changed[2] - 1
<1>1. /\ TriggerRollback(p)
      /\ local' = [local EXCEPT ![p] = Among(local[p], before)]
      /\ incoming' = [incoming EXCEPT ![p] = Among(incoming[p], before)]
      /\ UNCHANGED << flaw, channel, made, compared, stopped >>
  BY DEF RollbackAndForget
<1>2. [Next]_vars /\ pc' = [pc EXCEPT ![p] = "top"] /\ own' = own
  BY <1>1 DEF Next, TriggerRollback
<1>3. /\ Engine' /\ \A x \in Peers : \A f \in made[x] : Known(f, remote'[x])
  BY <1>2, ListsStay
<1>4. Kinded /\ HashesAreMade /\ ComparedIsMade /\ NoFalseAlarm
  BY DEF SyncIInv
<1>. HIDE DEF before
<1>5. ASSUME NEW list, NEW x, AreMade(list, x, made[x], own, flaw)
      PROVE  AreMade(Among(list, before), x, made[x], own, flaw)
  <2>1. list \in Seq(Hash)
    BY <1>5 DEF AreMade
  <2>2. Among(list, before) \in Seq(Entries(list))
    BY <2>1, AmongEntries
  <2>. QED BY <1>5, <2>2, EntriesAreMade
<1>6. /\ AreMade(Among(local[p], before), p, made[p], own, flaw)
      /\ AreMade(Among(incoming[p], before), Other(p), made[Other(p)], own, flaw)
  BY <1>5, SyncFacts
<1>7. Among(local[p], before) \in Seq(Hash) /\ Among(incoming[p], before) \in Seq(Hash)
  BY <1>6 DEF AreMade
<1>8. Kinded'
  BY <1>1, <1>4, <1>7 DEF Kinded, NoFlaw, RightTime
<1>9. HashesAreMade'
  <2>1. ASSUME NEW x \in Peers
        PROVE  /\ AreMade(local'[x], x, made[x], own, flaw)
               /\ AreMade(incoming'[x], Other(x), made[Other(x)], own, flaw)
               /\ AreMade(channel[x], Other(x), made[Other(x)], own, flaw)
    <3>1. CASE x = p
      BY <1>1, <1>4, <1>6, <3>1 DEF Kinded, HashesAreMade
    <3>2. CASE x # p
      <4>1. local'[x] = local[x] /\ incoming'[x] = incoming[x]
        BY <1>1, <1>4, <3>2 DEF Kinded
      <4>. QED BY <1>4, <4>1 DEF HashesAreMade
    <3>. QED BY <3>1, <3>2
  <2>. QED BY <1>1, <1>2, <2>1 DEF HashesAreMade
<1>10. MadeIsKnown' /\ ComparedIsMade' /\ NoFalseAlarm'
  BY <1>1, <1>3, <1>4 DEF MadeIsKnown, ComparedIsMade, NoFalseAlarm, NoFlaw
<1>. QED BY <1>3, <1>8, <1>9, <1>10 DEF SyncIInv

LEMMA ReceiveHashSound ==
  ASSUME WindowFits, SyncIInv, NEW p \in Peers, ReceiveHash(p)
  PROVE  SyncIInv'
<1>. DEFINE q == Other(p)
            first == Head(channel[p])
            rest == Tail(channel[p])
            longer == Append(incoming[p], first)
<1>1. /\ channel[p] # << >> /\ incoming' = [incoming EXCEPT ![p] = longer]
      /\ channel' = [channel EXCEPT ![p] = rest]
      /\ UNCHANGED << vars, flaw, local, made, compared, stopped >>
  BY DEF ReceiveHash
<1>2. [Next]_vars /\ pc' = pc /\ own' = own
  BY <1>1 DEF vars
<1>3. /\ Engine' /\ \A x \in Peers : \A f \in made[x] : Known(f, remote'[x])
  BY <1>1, <1>2, ListsStay
<1>4. Kinded /\ HashesAreMade /\ ComparedIsMade /\ NoFalseAlarm
  BY DEF SyncIInv
<1>5. AreMade(channel[p], q, made[q], own, flaw) /\ AreMade(incoming[p], q, made[q], own, flaw)
  BY SyncFacts
<1>. HIDE DEF q
<1>6. AreMade(rest, q, made[q], own, flaw) /\ AreMade(longer, q, made[q], own, flaw)
  <2>1. channel[p] \in Seq(Hash) /\ incoming[p] \in Seq(Hash)
    BY <1>5 DEF AreMade
  <2>2. /\ first = channel[p][1] /\ first \in Hash /\ 1 \in DOMAIN channel[p]
        /\ rest \in Seq(Hash) /\ longer \in Seq(Hash)
    BY <1>1, <2>1
  <2>3. IsMade(first, q, made[q], own, flaw)
    BY <1>5, <2>2 DEF AreMade
  <2>4. ASSUME NEW i \in DOMAIN rest PROVE IsMade(rest[i], q, made[q], own, flaw)
    <3>1. rest[i] = channel[p][i + 1] /\ i + 1 \in DOMAIN channel[p]
      BY <1>1, <2>1
    <3>. QED BY <1>5, <3>1 DEF AreMade
  <2>5. ASSUME NEW i \in DOMAIN longer PROVE IsMade(longer[i], q, made[q], own, flaw)
    <3>1. longer[i] = first \/ (i \in DOMAIN incoming[p] /\ longer[i] = incoming[p][i])
      BY <2>1, <2>2
    <3>. QED BY <1>5, <2>3, <3>1 DEF AreMade
  <2>. HIDE DEF first, rest, longer
  <2>. QED BY <2>2, <2>4, <2>5 DEF AreMade
<1>7. rest \in Seq(Hash) /\ longer \in Seq(Hash)
  BY <1>6 DEF AreMade
<1>. HIDE DEF rest, longer, first
<1>8. Kinded'
  BY <1>1, <1>4, <1>7 DEF Kinded, NoFlaw, RightTime
<1>9. HashesAreMade'
  <2>1. ASSUME NEW x \in Peers
        PROVE  /\ AreMade(local[x], x, made[x], own, flaw)
               /\ AreMade(incoming'[x], Other(x), made[Other(x)], own, flaw)
               /\ AreMade(channel'[x], Other(x), made[Other(x)], own, flaw)
    <3>1. CASE x = p
      BY <1>1, <1>4, <1>6, <3>1 DEF Kinded, HashesAreMade, q
    <3>2. CASE x # p
      <4>1. channel'[x] = channel[x] /\ incoming'[x] = incoming[x]
        BY <1>1, <1>4, <3>2 DEF Kinded
      <4>. QED BY <1>4, <4>1 DEF HashesAreMade
    <3>. QED BY <3>1, <3>2
  <2>. QED BY <1>1, <1>2, <2>1 DEF HashesAreMade
<1>10. MadeIsKnown' /\ ComparedIsMade' /\ NoFalseAlarm'
  BY <1>1, <1>3, <1>4 DEF MadeIsKnown, ComparedIsMade, NoFalseAlarm, NoFlaw
<1>. QED BY <1>3, <1>8, <1>9, <1>10 DEF SyncIInv

(* A step of the engine alone, or none.                                                  *)
LEMMA EngineAloneSound ==
  ASSUME WindowFits, SyncIInv, [Next]_vars, UNCHANGED syncVars,
         NEW p \in Peers, NEW at \in {"top", "gate"}, pc' \in {pc, [pc EXCEPT ![p] = at]}
  PROVE  SyncIInv'
<1>1. /\ Engine'
      /\ \A q \in Peers : \A list : AreMade(list, q, made[q], own, flaw) => AreMade(list, q, made[q], own', flaw)
      /\ \A q \in Peers : \A f \in made[q] : Known(f, remote'[q])
  BY ListsStay
<1>2. UNCHANGED << flaw, local, incoming, channel, made, compared, stopped >>
  BY DEF syncVars
<1>3. Kinded /\ HashesAreMade /\ ComparedIsMade /\ NoFalseAlarm
  BY DEF SyncIInv
<1>4. HashesAreMade'
  <2>1. ASSUME NEW x \in Peers
        PROVE  /\ AreMade(local[x], x, made[x], own', flaw)
               /\ AreMade(incoming[x], Other(x), made[Other(x)], own', flaw)
               /\ AreMade(channel[x], Other(x), made[Other(x)], own', flaw)
    BY <1>1, <1>3, TwoPeers DEF HashesAreMade
  <2>. QED BY <1>2, <2>1 DEF HashesAreMade
<1>5. Kinded' /\ MadeIsKnown' /\ ComparedIsMade' /\ NoFalseAlarm'
  BY <1>1, <1>2, <1>3 DEF Kinded, MadeIsKnown, ComparedIsMade, NoFalseAlarm, NoFlaw, RightTime
<1>. QED BY <1>1, <1>4, <1>5 DEF SyncIInv

LEMMA SyncStep ==
  ASSUME WindowFits, SyncIInv, [NextSync]_<< vars, syncVars >>
  PROVE  SyncIInv'
<1>1. ASSUME NEW p \in Peers, HashAndPass(p) PROVE SyncIInv'
  BY <1>1, HashAndPassSound
<1>2. ASSUME NEW p \in Peers, RollbackAndForget(p) PROVE SyncIInv'
  BY <1>2, RollbackAndForgetSound
<1>3. ASSUME NEW p \in Peers, ReceiveHash(p) PROVE SyncIInv'
  BY <1>3, ReceiveHashSound
<1>4. ASSUME NEW p \in Peers, NEW input \in Presses(p, Frame(p)), StartFrame(p, input), UNCHANGED syncVars
      PROVE  SyncIInv'
  <2>1. [Next]_vars /\ pc' = [pc EXCEPT ![p] = "gate"]
    BY <1>4 DEF Next, StartFrame
  <2>. QED BY <1>4, <2>1, EngineAloneSound
<1>5. ASSUME NEW p \in Peers, Rerun(p), UNCHANGED syncVars PROVE SyncIInv'
  <2>1. [Next]_vars /\ pc' = pc
    BY <1>5 DEF Next, Rerun
  <2>. QED BY <1>5, <2>1, EngineAloneSound
<1>6. ASSUME NEW p \in Peers, NEW msg \in sent[Other(p)], Receive(p, msg), UNCHANGED syncVars
      PROVE  SyncIInv'
  <2>1. [Next]_vars /\ pc' = pc
    BY <1>6 DEF Next, Receive
  <2>. QED BY <1>6, <2>1, EngineAloneSound
<1>7. ASSUME UNCHANGED << vars, syncVars >> PROVE SyncIInv'
  <2>1. [Next]_vars /\ pc' = pc /\ 1 \in Peers
    BY <1>7 DEF vars, Peers
  <2>. QED BY <1>7, <2>1, EngineAloneSound
<1>. QED BY <1>1, <1>2, <1>3, <1>4, <1>5, <1>6, <1>7 DEF NextSync, Done

LEMMA SyncInductive == ASSUME WindowFits PROVE SpecSync => []SyncIInv
<1>1. InitSync => SyncIInv
  BY InitSyncSound
<1>2. SyncIInv /\ [NextSync]_<< vars, syncVars >> => SyncIInv'
  BY SyncStep
<1>. QED BY <1>1, <1>2, PTL DEF SpecSync

-----------------------------------------------------------------------------
(* No session is stopped for a misprediction: whatever was predicted, rolled back or     *)
(* received late while hashes were queued or on their way, step 9 of frameStep calls     *)
(* delayedStop("Desync!") only if a game has computed a frame wrongly, and only over a   *)
(* frame after that one; and what the two lists hold are hashes of scheduled frames.     *)
THEOREM NoFalseDesync == ASSUME WindowFits PROVE SpecSync => []InvSync
<1>1. SyncIInv => InvSync
  <2>. SUFFICES ASSUME SyncIInv PROVE InvSync
    OBVIOUS
  <2>1. TypeOK /\ Kinded /\ NoFalseAlarm /\ ComparedIsMade
    BY DEF SyncIInv, Engine, IInv
  <2>2. ASSUME NEW list, NEW q \in Peers, AreMade(list, q, made[q], own, flaw)
        PROVE  Frames(list) \subseteq {f \in 0 .. MaxFrame : RightTime(f)}
    <3>1. \A i \in DOMAIN list : list[i].frame \in made[q]
      BY <2>2 DEF AreMade, IsMade
    <3>2. made[q] \subseteq {f \in 0 .. MaxFrame : RightTime(f)}
      BY SyncFacts
    <3>. QED BY <3>1, <3>2 DEF Frames
  <2>3. ASSUME NEW p \in Peers, NEW list \in {local[p], incoming[p], channel[p]}
        PROVE  Frames(list) \subseteq {f \in 0 .. MaxFrame : RightTime(f)}
    BY <2>2, SyncFacts
  <2>. QED BY <2>1, <2>3 DEF InvSync, TypeOKSync, Kinded, ComparedIsMade
<1>. QED BY <1>1, SyncInductive, PTL

(* The speculative-state guard of step 9 is enough by itself: no rollback ever targets a *)
(* frame that was hashed, or one before it, so the invalidation of hashes after loadState never *)
(* has one of its own to remove.                                                         *)
THEOREM HashesAreFinal == ASSUME WindowFits PROVE SpecSync => HashedIsFinal
<1>1. SyncIInv /\ [NextSync]_<< vars, syncVars >> =>
        [\A p \in Peers : RollbackAndForget(p) =>
           \A f \in made[p] : f < remote[p].changed[2]]_<< vars, syncVars >>
  <2>. SUFFICES ASSUME SyncIInv, NEW p \in Peers, RollbackAndForget(p), NEW f \in made[p]
                PROVE  f < remote[p].changed[2]
    OBVIOUS
  <2>1. Known(f, remote[p])
    BY DEF SyncIInv, MadeIsKnown
  <2>2. remote[p] \in Container /\ Frame(p) \in Nat
    BY PeerFacts DEF SyncIInv, Engine
  <2>3. Diverged(p)
    BY DEF RollbackAndForget, TriggerRollback
  <2>. QED BY <2>1, <2>2, <2>3 DEF Known, Diverged, Before, IndexedFrame, Container
<1>. QED BY <1>1, SyncInductive, PTL DEF SpecSync, HashedIsFinal

-----------------------------------------------------------------------------
(* No pair of hashes is lost                                                 *)

(* The frames a peer has hashed lie behind the frame it has reached.                     *)
MadeIsPast == \A p \in Peers : \A f \in made[p] : f < Reached(p)

(* Hashes are kept, sent and received in the order of their frames.                      *)
InOrder ==
  \A p \in Peers :
    /\ Rising(local[p]) /\ Rising(incoming[p]) /\ Rising(channel[p])
    /\ \A f \in Frames(incoming[p]), g \in Frames(channel[p]) : f < g

Alive == \A p \in Peers : ~ stopped[p]

(* A hash stays for its partner until the other peer has hashed a later frame.           *)
Awaited ==
  \A p \in Peers : \A f \in made[p] \ made[Other(p)] :
    f \in Frames(local[p]) \/ \E g \in made[Other(p)] : g > f

PairInv == MadeIsPast /\ InOrder /\ (Alive => Awaited) /\ NoPairLost

(* Where the hashes of each list are from.                                               *)
LEMMA ListFrames ==
  ASSUME SyncIInv, NEW p \in Peers
  PROVE  /\ local[p] \in Seq(Hash) /\ incoming[p] \in Seq(Hash) /\ channel[p] \in Seq(Hash)
         /\ Frames(local[p]) \subseteq made[p]
         /\ Frames(incoming[p]) \subseteq made[Other(p)]
         /\ Frames(channel[p]) \subseteq made[Other(p)]
         /\ made[p] \subseteq 0 .. MaxFrame /\ MaxFrame \in Nat
<1>1. ASSUME NEW list, NEW q, AreMade(list, q, made[q], own, flaw)
      PROVE  list \in Seq(Hash) /\ Frames(list) \subseteq made[q]
  <2>1. \A i \in DOMAIN list : list[i].frame \in made[q]
    BY <1>1 DEF AreMade, IsMade
  <2>. QED BY <1>1, <2>1 DEF AreMade, Frames
<1>. QED BY <1>1, SyncFacts, RollbackAssumption

(* What a merge leaves is in order; what it throws away has something as late on the     *)
(* other side.                                                                           *)
LEMMA LeftoverKeeps ==
  ASSUME NEW mine \in Seq(Hash), NEW theirs \in Seq(Hash), Rising(mine), Rising(theirs),
         Frames(mine) \subseteq 0 .. MaxFrame
  PROVE  /\ Leftover(mine, theirs) \in Seq(Hash) /\ Rising(Leftover(mine, theirs))
         /\ Frames(Leftover(mine, theirs)) \subseteq Frames(mine)
         /\ \A f \in Frames(mine) \ Frames(Leftover(mine, theirs)) : \E g \in Frames(theirs) : g >= f
<1>1. CASE theirs = << >>
  BY <1>1 DEF Leftover
<1>2. CASE theirs # << >>
  <2>. DEFINE last == theirs[Len(theirs)].frame
              left == Among(mine, last + 1 .. MaxFrame)
  <2>1. Len(theirs) \in DOMAIN theirs /\ theirs[Len(theirs)] \in Hash
    BY <1>2
  <2>2. last \in Nat /\ last \in Frames(theirs)
    BY <2>1 DEF Hash, Frames
  <2>. HIDE DEF last
  <2>3. left \in Seq(Hash) /\ Rising(left) /\ Frames(left) = Frames(mine) \cap (last + 1 .. MaxFrame)
    BY AmongKeeps
  <2>4. Leftover(mine, theirs) = left
    BY <1>2 DEF Leftover, last
  <2>. HIDE DEF left
  <2>5. ASSUME NEW f \in Frames(mine) \ Frames(left) PROVE last >= f
    <3>1. f \in 0 .. MaxFrame /\ f \notin last + 1 .. MaxFrame
      BY <2>3
    <3>. QED BY <2>2, <3>1, RollbackAssumption
  <2>. QED BY <2>2, <2>3, <2>4, <2>5
<1>. QED BY <1>1, <1>2

(* The comparison of step 9, as the lists of frames see it.                              *)
LEMMA CompareKeeps ==
  ASSUME NEW p \in Peers, NEW mine, NEW theirs, Compare(p, mine, theirs), Kinded
  PROVE  /\ \A x \in Peers \ {p} : /\ local'[x] = local[x] /\ incoming'[x] = incoming[x]
                                   /\ compared'[x] = compared[x] /\ stopped'[x] = stopped[x]
         /\ compared'[p] = compared[p] \cup (Frames(mine) \cap Frames(theirs))
         /\ \/ /\ ~ stopped'[p]
               /\ local'[p] = Leftover(mine, theirs) /\ incoming'[p] = Leftover(theirs, mine)
            \/ /\ stopped'[p] /\ local'[p] = << >> /\ incoming'[p] = << >>
<1>. DEFINE M == Matches(mine, theirs)
            differ == {m \in M : mine[m[1]].state # theirs[m[2]].state}
            left == IF differ # {} THEN << >> ELSE Leftover(mine, theirs)
            right == IF differ # {} THEN << >> ELSE Leftover(theirs, mine)
            seen == {mine[m[1]].frame : m \in M}
<1>1. /\ stopped' = [stopped EXCEPT ![p] = differ # {}]
      /\ compared' = [compared EXCEPT ![p] = @ \cup seen]
      /\ local' = [local EXCEPT ![p] = left]
      /\ incoming' = [incoming EXCEPT ![p] = right]
  BY DEF Compare
<1>2. /\ local \in [Peers -> Seq(Hash)] /\ incoming \in [Peers -> Seq(Hash)]
      /\ stopped \in [Peers -> BOOLEAN]
      /\ compared \in [Peers -> SUBSET {f \in 0 .. MaxFrame : RightTime(f)}]
  BY DEF Kinded
<1>3. seen = Frames(mine) \cap Frames(theirs)
  <2>1. ASSUME NEW f \in seen PROVE f \in Frames(mine) \cap Frames(theirs)
    <3>1. PICK m \in M : f = mine[m[1]].frame
      OBVIOUS
    <3>2. m[1] \in DOMAIN mine /\ m[2] \in DOMAIN theirs /\ f = theirs[m[2]].frame
      BY <3>1 DEF Matches
    <3>. QED BY <3>1, <3>2 DEF Frames
  <2>2. ASSUME NEW f \in Frames(mine) \cap Frames(theirs) PROVE f \in seen
    <3>1. PICK i \in DOMAIN mine : f = mine[i].frame
      BY DEF Frames
    <3>2. PICK j \in DOMAIN theirs : f = theirs[j].frame
      BY DEF Frames
    <3>3. << i, j >> \in M /\ << i, j >>[1] = i
      BY <3>1, <3>2 DEF Matches
    <3>. HIDE DEF M
    <3>. QED BY <3>1, <3>3
  <2>. QED BY <2>1, <2>2
<1>. HIDE DEF M, differ, seen
<1>4. local'[p] = left /\ incoming'[p] = right /\ stopped'[p] = (differ # {})
  BY <1>1, <1>2
<1>5. compared'[p] = compared[p] \cup seen
  BY <1>1, <1>2
<1>6. \A x \in Peers \ {p} : /\ local'[x] = local[x] /\ incoming'[x] = incoming[x]
                             /\ compared'[x] = compared[x] /\ stopped'[x] = stopped[x]
  BY <1>1, <1>2
<1>. QED BY <1>3, <1>4, <1>5, <1>6

(* A list without a frame is empty.                                                      *)
LEMMA NoFramesIsEmpty ==
  ASSUME NEW list \in Seq(Hash), Frames(list) = {}
  PROVE  list = << >>
<1>1. ASSUME 1 \in DOMAIN list PROVE FALSE
  <2>1. list[1].frame \in Frames(list)
    BY <1>1 DEF Frames
  <2>. QED BY <2>1
<1>2. Len(list) = 0
  BY <1>1
<1>. QED BY <1>2

LEMMA ReachedIsNat ==
  ASSUME TypeOK', NEW q \in Peers
  PROVE  Reached(q)' \in Nat
<1>1. hist'[q] \in History /\ stop'[q] \in {NoFrame} \cup 0 .. MaxFrame
  BY DEF TypeOK
<1>2. Len(hist'[q]) \in Nat
  BY <1>1 DEF History
<1>. QED BY <1>1, <1>2, RollbackAssumption DEF Reached, Frame, NoFrame

(* No step of the engine takes a peer back behind the frame it has reached.              *)
LEMMA ReachedGrows ==
  ASSUME IInv, IInv', NEW p \in Peers,
         \/ PassGate(p) \/ TriggerRollback(p) \/ Rerun(p)
         \/ \E input \in Presses(p, Frame(p)) : StartFrame(p, input)
         \/ \E msg \in sent[Other(p)] : Receive(p, msg)
         \/ UNCHANGED vars
  PROVE  /\ \A q \in Peers : Reached(q) <= Reached(q)'
         /\ PassGate(p) => Reached(p)' = Frame(p) + 1 /\ Reached(p) = Frame(p)
<1>1. ASSUME NEW q \in Peers
      PROVE  /\ Reached(q) \in Nat /\ Frame(q) \in Nat /\ hist[q] \in History
             /\ (pc[q] = "gate" => stop[q] = NoFrame)
             /\ (stop[q] # NoFrame => Frame(q) <= stop[q] /\ stop[q] \in Nat)
  <2>1. hist[q] \in History
    BY DEF IInv, TypeOK
  <2>. QED BY <2>1, PeerFacts
<1>2. TypeOK
  BY DEF IInv
<1>3. UNCHANGED << hist, stop >> => \A q \in Peers : Reached(q)' = Reached(q)
  BY DEF Reached, Frame
<1>4. ASSUME NEW h \in History, NEW i PROVE Len(Play(h, i)) = Len(h) + 1
  BY DEF Play, History
<1>5. ASSUME PassGate(p)
      PROVE  /\ \A q \in Peers : Reached(q) <= Reached(q)'
             /\ Reached(p)' = Frame(p) + 1 /\ Reached(p) = Frame(p)
  <2>1. /\ pc[p] = "gate" /\ stop' = stop /\ stop[p] = NoFrame
        /\ hist' = [hist EXCEPT ![p] = Play(@, Inputs(p, own[p], remote[p], Frame(p)))]
    BY <1>1, <1>5 DEF PassGate
  <2>2. Len(hist'[p]) = Len(hist[p]) + 1
    BY <1>1, <1>2, <1>4, <2>1 DEF TypeOK
  <2>3. \A q \in Peers \ {p} : hist'[q] = hist[q]
    BY <1>2, <2>1 DEF TypeOK
  <2>. QED BY <1>1, <2>1, <2>2, <2>3 DEF Reached, Frame
<1>6. ASSUME TriggerRollback(p) PROVE \A q \in Peers : Reached(q) <= Reached(q)'
  <2>1. /\ pc[p] = "gate" /\ stop[p] = NoFrame /\ stop' = [stop EXCEPT ![p] = Frame(p)]
        /\ \A q \in Peers \ {p} : hist'[q] = hist[q]
    BY <1>1, <1>2, <1>6 DEF TriggerRollback, TypeOK
  <2>2. stop'[p] = Frame(p) /\ \A q \in Peers \ {p} : stop'[q] = stop[q]
    BY <1>2, <2>1 DEF TypeOK
  <2>. QED BY <1>1, <2>1, <2>2 DEF Reached, Frame, NoFrame
<1>7. ASSUME Rerun(p) PROVE \A q \in Peers : Reached(q) <= Reached(q)'
  <2>1. /\ stop[p] # NoFrame
        /\ stop' = [stop EXCEPT ![p] = IF Frame(p) >= stop[p] THEN NoFrame ELSE stop[p]]
        /\ hist' = [hist EXCEPT ![p] = Play(@, Inputs(p, own[p], remote[p], Frame(p)))]
    BY <1>7 DEF Rerun
  <2>2. Len(hist'[p]) = Len(hist[p]) + 1 /\ stop'[p] = IF Frame(p) >= stop[p] THEN NoFrame ELSE stop[p]
    BY <1>1, <1>2, <1>4, <2>1 DEF TypeOK
  <2>3. \A q \in Peers \ {p} : hist'[q] = hist[q] /\ stop'[q] = stop[q]
    BY <1>2, <2>1 DEF TypeOK
  <2>. QED BY <1>1, <2>1, <2>2, <2>3 DEF Reached, Frame, NoFrame
<1>8. ASSUME \/ \E input \in Presses(p, Frame(p)) : StartFrame(p, input)
             \/ \E msg \in sent[Other(p)] : Receive(p, msg)
             \/ UNCHANGED vars
      PROVE  \A q \in Peers : Reached(q) <= Reached(q)'
  <2>1. UNCHANGED << hist, stop >>
    BY <1>8 DEF StartFrame, Receive, vars
  <2>. QED BY <1>1, <1>3, <2>1
<1>. QED BY <1>5, <1>6, <1>7, <1>8

LEMMA InitPairs == InitSync => PairInv
<1>. SUFFICES ASSUME InitSync PROVE PairInv
  OBVIOUS
<1>1. \A p \in Peers : /\ local[p] = << >> /\ incoming[p] = << >> /\ channel[p] = << >>
                       /\ made[p] = {}
  BY DEF InitSync
<1>2. Rising(<< >>) /\ Frames(<< >>) = {}
  BY DEF Rising, Frames
<1>3. 1 \in Peers
  BY DEF Peers
<1>4. MadeIsPast /\ InOrder /\ Awaited
  BY <1>1, <1>2 DEF MadeIsPast, InOrder, Awaited
<1>5. NoPairLost
  BY <1>1, <1>3 DEF NoPairLost
<1>. QED BY <1>4, <1>5 DEF PairInv

(* A hash of the frame a peer is at comes after all that it has made.                    *)
LEMMA HashAndPassPairs ==
  ASSUME SyncIInv, SyncIInv', PairInv, NEW p \in Peers, HashAndPass(p)
  PROVE  PairInv'
<1>. DEFINE q == Other(p)
            F == Frame(p)
            new == IF Scheduled(p) THEN << HashOf(p) >> ELSE << >>
            fresh == {h.frame : h \in {new[i] : i \in DOMAIN new}}
            mine == NotAhead(local[p] \o new, F)
            theirs == NotAhead(incoming[p], F)
<1>1. /\ PassGate(p) /\ made' = [made EXCEPT ![p] = @ \cup fresh]
      /\ channel' = [channel EXCEPT ![q] = @ \o new]
      /\ Compare(p, mine, theirs) /\ ~ stopped[p]
  BY DEF HashAndPass
<1>2. /\ q \in Peers /\ q # p /\ Other(q) = p /\ \A x \in Peers : x = p \/ x = q
      /\ F \in Nat /\ Kinded /\ IInv /\ IInv'
  BY TwoPeers, PeerFacts DEF SyncIInv, Engine
<1>3. /\ local[p] \in Seq(Hash) /\ incoming[p] \in Seq(Hash) /\ channel[p] \in Seq(Hash)
      /\ local[q] \in Seq(Hash) /\ incoming[q] \in Seq(Hash) /\ channel[q] \in Seq(Hash)
      /\ Frames(local[p]) \subseteq made[p] /\ Frames(incoming[p]) \subseteq made[q]
      /\ Frames(channel[p]) \subseteq made[q] /\ Frames(incoming[q]) \subseteq made[p]
      /\ Frames(channel[q]) \subseteq made[p] /\ Frames(local[q]) \subseteq made[q]
      /\ made[p] \subseteq 0 .. MaxFrame /\ made[q] \subseteq 0 .. MaxFrame /\ MaxFrame \in Nat
  BY <1>2, ListFrames
<1>4. /\ Reached(p) = F /\ Reached(p)' = F + 1 /\ \A x \in Peers : Reached(x) <= Reached(x)'
      /\ Reached(q) \in Nat /\ Reached(q)' \in Nat
  <2>1. Reached(q) \in Nat
    BY <1>2, PeerFacts
  <2>3. Reached(q)' \in Nat
    BY <1>2, ReachedIsNat DEF IInv
  <2>. QED BY <1>1, <1>2, <2>1, <2>3, ReachedGrows
<1>5. \A f \in made[p] : f < F
  BY <1>4 DEF PairInv, MadeIsPast
<1>6. /\ new \in Seq(Hash) /\ Rising(new) /\ Frames(new) = fresh
      /\ fresh = {} \/ fresh = {F}
      /\ \A f \in fresh : f \in 0 .. MaxFrame
  <2>1. CASE Scheduled(p)
    <3>. DEFINE h == HashOf(p)
    <3>1. AreMade(<< h >>, p, {F}, own, flaw) /\ F \in 0 .. MaxFrame
      BY <2>1, HashIsMade
    <3>2. h.frame = F /\ new = << h >>
      BY <2>1 DEF HashOf
    <3>. HIDE DEF h, new
    <3>3. << h >> \in Seq(Hash) /\ DOMAIN new = {1} /\ new[1] = h
      BY <3>1, <3>2 DEF AreMade
    <3>4. fresh = {F} /\ Frames(new) = {F}
      BY <3>2, <3>3 DEF Frames
    <3>5. Rising(new)
      BY <3>3 DEF Rising
    <3>. QED BY <3>1, <3>2, <3>3, <3>4, <3>5
  <2>2. CASE ~ Scheduled(p)
    <3>1. new = << >>
      BY <2>2
    <3>. QED BY <3>1 DEF Frames, Rising
  <2>. QED BY <2>1, <2>2
<1>. HIDE DEF new, fresh, F
<1>7. /\ local[p] \o new \in Seq(Hash) /\ Rising(local[p] \o new)
      /\ Frames(local[p] \o new) = Frames(local[p]) \cup fresh
      /\ \A f \in Frames(local[p] \o new) : f <= F /\ f \in 0 .. MaxFrame
  <2>1. \A f \in Frames(local[p]), g \in fresh : f < g
    BY <1>3, <1>5, <1>6
  <2>2. /\ local[p] \o new \in Seq(Hash) /\ Rising(local[p] \o new)
        /\ Frames(local[p] \o new) = Frames(local[p]) \cup fresh
    BY <1>2, <1>3, <1>6, <2>1, ConcatKeeps DEF PairInv, InOrder
  <2>3. ASSUME NEW f \in Frames(local[p]) \cup fresh PROVE f <= F /\ f \in 0 .. MaxFrame
    <3>1. CASE f \in Frames(local[p])
      <4>1. f \in made[p]
        BY <1>3, <3>1
      <4>2. f < F /\ f \in 0 .. MaxFrame
        BY <1>3, <1>5, <4>1
      <4>. QED BY <1>2, <4>2
    <3>2. CASE f \in fresh
      BY <1>2, <1>6, <3>2
    <3>. QED BY <3>1, <3>2
  <2>. QED BY <2>2, <2>3
<1>8. mine = local[p] \o new
  <2>1. \/ mine = local[p] \o new
        \/ mine = << >> /\ \A g \in Frames(local[p] \o new) : g > F
    BY <1>2, <1>7, NotAheadKeeps
  <2>2. ASSUME mine = << >>, \A g \in Frames(local[p] \o new) : g > F
        PROVE  local[p] \o new = << >>
    <3>1. \A g \in Frames(local[p] \o new) : g > F /\ g <= F /\ g \in Nat
      BY <1>7, <2>2
    <3>2. Frames(local[p] \o new) = {}
      BY <1>2, <3>1
    <3>. QED BY <1>7, <3>2, NoFramesIsEmpty
  <2>. QED BY <2>1, <2>2
<1>9. /\ theirs \in Seq(Hash) /\ Rising(theirs) /\ Frames(theirs) \subseteq Frames(incoming[p])
      /\ \A f \in Frames(incoming[p]) : f <= F => theirs = incoming[p]
  <2>1. Rising(incoming[p])
    BY DEF PairInv, InOrder
  <2>2. theirs = incoming[p] \/ (theirs = << >> /\ \A g \in Frames(incoming[p]) : g > F)
    BY <1>2, <1>3, <2>1, NotAheadKeeps
  <2>3. Rising(<< >>) /\ Frames(<< >>) = {} /\ << >> \in Seq(Hash)
    BY DEF Rising, Frames
  <2>4. \A f \in Frames(incoming[p]) : f \in Nat
    BY <1>3
  <2>5. CASE theirs = incoming[p]
    BY <1>3, <2>1, <2>5
  <2>6. CASE theirs = << >> /\ \A g \in Frames(incoming[p]) : g > F
    <3>1. \A f \in Frames(incoming[p]) : ~ f <= F
      BY <1>2, <2>4, <2>6
    <3>. QED BY <2>3, <2>6, <3>1
  <2>. QED BY <2>2, <2>5, <2>6
<1>. HIDE DEF mine, theirs, q
<1>10. /\ local'[q] = local[q] /\ incoming'[q] = incoming[q]
       /\ compared'[q] = compared[q] /\ stopped'[q] = stopped[q]
       /\ compared'[p] = compared[p] \cup (Frames(mine) \cap Frames(theirs))
       /\ \/ /\ ~ stopped'[p]
             /\ local'[p] = Leftover(mine, theirs) /\ incoming'[p] = Leftover(theirs, mine)
          \/ /\ stopped'[p] /\ local'[p] = << >> /\ incoming'[p] = << >>
  BY <1>1, <1>2, CompareKeeps
<1>11. /\ made'[p] = made[p] \cup fresh /\ made'[q] = made[q]
       /\ channel'[q] = channel[q] \o new /\ channel'[p] = channel[p]
  BY <1>1, <1>2 DEF Kinded
<1>12. /\ Leftover(mine, theirs) \in Seq(Hash) /\ Rising(Leftover(mine, theirs))
       /\ Frames(Leftover(mine, theirs)) \subseteq Frames(mine)
       /\ \A f \in Frames(mine) \ Frames(Leftover(mine, theirs)) : \E g \in Frames(theirs) : g >= f
  BY <1>7, <1>8, <1>9, LeftoverKeeps
<1>13. /\ Leftover(theirs, mine) \in Seq(Hash) /\ Rising(Leftover(theirs, mine))
       /\ Frames(Leftover(theirs, mine)) \subseteq Frames(theirs)
  <2>1. Frames(theirs) \subseteq 0 .. MaxFrame
    BY <1>3, <1>9
  <2>. QED BY <1>7, <1>8, <1>9, <2>1, LeftoverKeeps
<1>14. MadeIsPast'
  <2>1. ASSUME NEW x \in Peers, NEW f \in made'[x] PROVE f < Reached(x)'
    <3>1. CASE x = p
      <4>1. f < F \/ f = F
        BY <1>5, <1>6, <1>11, <2>1, <3>1
      <4>2. f \in Nat
        BY <1>3, <1>6, <1>11, <2>1, <3>1
      <4>. QED BY <1>2, <1>4, <3>1, <4>1, <4>2
    <3>2. CASE x = q
      <4>1. f < Reached(q) /\ f \in Nat
        BY <1>2, <1>3, <1>11, <2>1, <3>2 DEF PairInv, MadeIsPast
      <4>. QED BY <1>2, <1>4, <3>2, <4>1
    <3>. QED BY <1>2, <3>1, <3>2
  <2>. QED BY <2>1 DEF MadeIsPast
<1>15. InOrder'
  <2>1. /\ Rising(local'[p]) /\ Rising(incoming'[p]) /\ Rising(channel'[p])
        /\ \A f \in Frames(incoming'[p]), g \in Frames(channel'[p]) : f < g
    <3>1. Rising(<< >>) /\ Frames(<< >>) = {}
      BY DEF Rising, Frames
    <3>2. Rising(channel[p]) /\ \A f \in Frames(incoming[p]), g \in Frames(channel[p]) : f < g
      BY DEF PairInv, InOrder
    <3>3. Frames(incoming'[p]) \subseteq Frames(incoming[p])
      BY <1>9, <1>10, <1>13, <3>1
    <3>. QED BY <1>10, <1>11, <1>12, <1>13, <3>1, <3>2, <3>3
  <2>2. /\ Rising(local'[q]) /\ Rising(incoming'[q]) /\ Rising(channel'[q])
        /\ \A f \in Frames(incoming'[q]), g \in Frames(channel'[q]) : f < g
    <3>1. /\ Rising(local[q]) /\ Rising(incoming[q]) /\ Rising(channel[q])
          /\ \A f \in Frames(incoming[q]), g \in Frames(channel[q]) : f < g
      BY <1>2 DEF PairInv, InOrder
    <3>2. \A f \in made[p], g \in fresh : f < g
      BY <1>5, <1>6
    <3>3. /\ Rising(channel[q] \o new)
          /\ Frames(channel[q] \o new) = Frames(channel[q]) \cup fresh
      BY <1>3, <1>6, <3>1, <3>2, ConcatKeeps
    <3>. QED BY <1>3, <1>10, <1>11, <3>1, <3>2, <3>3
  <2>. QED BY <1>2, <2>1, <2>2 DEF InOrder
<1>16. ASSUME Alive'
       PROVE  Alive /\ Awaited /\ NoPairLost /\ local'[p] = Leftover(mine, theirs)
  <2>1. ~ stopped'[p] /\ ~ stopped'[q]
    BY <1>2, <1>16 DEF Alive
  <2>2. Alive
    BY <1>1, <1>2, <1>10, <2>1 DEF Alive
  <2>. QED BY <1>10, <2>1, <2>2 DEF PairInv
<1>17. ASSUME Alive' PROVE Awaited'
  <2>1. Awaited /\ local'[p] = Leftover(mine, theirs)
    BY <1>16, <1>17
  <2>2. ASSUME NEW f \in made'[p] \ made'[q]
        PROVE  f \in Frames(local'[p]) \/ \E g \in made'[q] : g > f
    <3>1. f \in made[p] \ made[q] \/ (f \in fresh /\ f \notin made[q])
      BY <1>11, <2>2
    <3>2. f \in Frames(mine) \/ \E g \in made[q] : g > f
      BY <1>2, <1>7, <1>8, <2>1, <3>1 DEF Awaited, q
    <3>3. ASSUME f \in Frames(mine), f \notin Frames(local'[p]) PROVE \E g \in made[q] : g > f
      <4>1. PICK g \in Frames(theirs) : g >= f
        BY <1>12, <2>1, <3>3
      <4>2. g \in made[q] /\ g \in Nat /\ f \in Nat /\ g # f
        BY <1>3, <1>7, <1>8, <1>9, <1>11, <2>2, <3>3
      <4>. QED BY <4>1, <4>2
    <3>. QED BY <1>11, <3>2, <3>3
  <2>3. ASSUME NEW f \in made'[q] \ made'[p]
        PROVE  f \in Frames(local'[q]) \/ \E g \in made'[p] : g > f
    BY <1>2, <1>10, <1>11, <2>1, <2>3 DEF Awaited
  <2>4. Other(p) = q
    BY DEF q
  <2>. QED BY <1>2, <2>2, <2>3, <2>4 DEF Awaited
<1>18. NoPairLost'
  <2>. SUFFICES ASSUME Alive', NEW f \in made'[1] \cap made'[2]
                PROVE  \E x \in Peers : f \in compared'[x] \/ WillCompare(x, f)'
    BY DEF NoPairLost, Alive
  <2>1. Awaited /\ NoPairLost /\ Alive /\ local'[p] = Leftover(mine, theirs)
    BY <1>16
  <2>2. f \in made'[p] /\ f \in made'[q]
    BY <1>2 DEF Peers
  <2>3. Frames(channel'[q]) = Frames(channel[q]) \cup fresh
    <3>1. Rising(channel[q]) /\ \A a \in Frames(channel[q]), b \in fresh : a < b
      BY <1>2, <1>3, <1>5, <1>6 DEF PairInv, InOrder
    <3>. QED BY <1>3, <1>6, <1>11, <3>1, ConcatKeeps
  <2>4. CASE f \notin made[p]
    <3>1. f \in fresh /\ f = F /\ f \in made[q]
      BY <1>6, <1>11, <2>2, <2>4
    <3>2. ~ \E g \in made[p] : g > f
      BY <1>2, <1>3, <1>5, <3>1
    <3>3. f \in Frames(local[q])
      BY <1>2, <2>1, <2>4, <3>1, <3>2 DEF Awaited
    <3>4. WillCompare(q, f)'
      BY <1>10, <2>3, <3>1, <3>3 DEF WillCompare
    <3>. QED BY <1>2, <3>4
  <2>5. CASE f \in made[p]
    <3>1. f \in made[1] \cap made[2] /\ f < F /\ f \in Nat
      BY <1>2, <1>3, <1>5, <1>11, <2>2, <2>5 DEF Peers
    <3>2. PICK x \in Peers : f \in compared[x] \/ WillCompare(x, f)
      BY <2>1, <3>1 DEF NoPairLost, Alive
    <3>3. CASE f \in compared[x]
      BY <1>2, <1>10, <3>3
    <3>4. CASE x = q /\ WillCompare(q, f)
      BY <1>10, <2>3, <3>4 DEF WillCompare
    <3>5. CASE x = p /\ WillCompare(p, f)
      <4>1. f \in Frames(mine) /\ f \in Frames(channel[p]) \cup Frames(incoming[p])
        BY <1>7, <1>8, <3>5 DEF WillCompare
      <4>2. CASE f \in Frames(incoming[p])
        BY <1>2, <1>9, <1>10, <3>1, <4>1, <4>2
      <4>3. CASE f \in Frames(channel[p])
        <5>1. \A g \in Frames(theirs) : g < f /\ g \in Nat
          BY <1>3, <1>9, <4>3 DEF PairInv, InOrder
        <5>2. f \in Frames(local'[p])
          <6>1. ~ \E g \in Frames(theirs) : g >= f
            BY <3>1, <5>1
          <6>. QED BY <1>12, <2>1, <4>1, <6>1
        <5>. QED BY <1>11, <4>3, <5>2 DEF WillCompare
      <4>. QED BY <4>1, <4>2, <4>3
    <3>. QED BY <1>2, <3>2, <3>3, <3>4, <3>5
  <2>. QED BY <2>4, <2>5
<1>. QED BY <1>14, <1>15, <1>17, <1>18 DEF PairInv

(* Every hash of a peer that rolls back is of a frame before the target.                 *)
LEMMA HashedBeforeTarget ==
  ASSUME SyncIInv, NEW p \in Peers, RollbackAndForget(p)
  PROVE  \A f \in made[p] : f \in 0 .. remote[p].changed[2] - 1
<1>. SUFFICES ASSUME NEW f \in made[p] PROVE f \in 0 .. remote[p].changed[2] - 1
  OBVIOUS
<1>1. Known(f, remote[p])
  BY DEF SyncIInv, MadeIsKnown
<1>2. remote[p] \in Container /\ Frame(p) \in Nat
  BY PeerFacts DEF SyncIInv, Engine
<1>3. Diverged(p)
  BY DEF RollbackAndForget, TriggerRollback
<1>4. f \in Nat
  BY SyncFacts
<1>. QED BY <1>1, <1>2, <1>3, <1>4 DEF Known, Diverged, Before, IndexedFrame, Container

(* The invalidation of a rollback touches no hash of its own peer, and drops what came   *)
(* in for frames that the peer is going to play again.                                   *)
LEMMA RollbackAndForgetPairs ==
  ASSUME SyncIInv, SyncIInv', PairInv, NEW p \in Peers, RollbackAndForget(p)
  PROVE  PairInv'
<1>. DEFINE before == 0 .. remote[p].changed[2] - 1
            mine == Among(local[p], before)
            theirs == Among(incoming[p], before)
<1>1. /\ TriggerRollback(p)
      /\ local' = [local EXCEPT ![p] = mine] /\ incoming' = [incoming EXCEPT ![p] = theirs]
      /\ UNCHANGED << flaw, channel, made, compared, stopped >>
  BY DEF RollbackAndForget
<1>2. /\ Kinded /\ IInv /\ IInv'
  BY DEF SyncIInv, Engine
<1>3. /\ local[p] \in Seq(Hash) /\ incoming[p] \in Seq(Hash)
      /\ Frames(local[p]) \subseteq made[p]
  BY ListFrames
<1>4. \A f \in made[p] : f \in before
  BY HashedBeforeTarget
<1>5. Rising(local[p]) /\ Rising(incoming[p])
  BY DEF PairInv, InOrder
<1>. HIDE DEF before
<1>6. /\ Rising(mine) /\ Frames(mine) = Frames(local[p]) \cap before
      /\ Rising(theirs) /\ Frames(theirs) = Frames(incoming[p]) \cap before
  BY <1>3, <1>5, AmongKeeps
<1>7. Frames(mine) = Frames(local[p]) /\ Frames(theirs) \subseteq Frames(incoming[p])
  BY <1>3, <1>4, <1>6
<1>. HIDE DEF mine, theirs
<1>8. /\ local'[p] = mine /\ incoming'[p] = theirs
      /\ \A x \in Peers \ {p} : local'[x] = local[x] /\ incoming'[x] = incoming[x]
  BY <1>1, <1>2 DEF Kinded
<1>9. \A x \in Peers : Frames(local'[x]) = Frames(local[x])
  BY <1>7, <1>8
<1>10. MadeIsPast'
  <2>1. ASSUME NEW x \in Peers, NEW f \in made[x] PROVE f < Reached(x)'
    <3>1. f < Reached(x) /\ Reached(x) <= Reached(x)'
      BY <1>1, <1>2, ReachedGrows DEF PairInv, MadeIsPast
    <3>2. f \in Nat
      BY SyncFacts
    <3>3. Reached(x) \in Nat
      BY <1>2, PeerFacts
    <3>4. TypeOK'
      BY <1>2 DEF IInv
    <3>5. Reached(x)' \in Nat
      BY <3>4, ReachedIsNat
    <3>. QED BY <3>1, <3>2, <3>3, <3>5
  <2>. QED BY <1>1, <2>1 DEF MadeIsPast
<1>11. InOrder'
  <2>1. ASSUME NEW x \in Peers
        PROVE  /\ Rising(local'[x]) /\ Rising(incoming'[x]) /\ Rising(channel[x])
               /\ \A f \in Frames(incoming'[x]), g \in Frames(channel[x]) : f < g
    <3>1. /\ Rising(local[x]) /\ Rising(incoming[x]) /\ Rising(channel[x])
          /\ \A f \in Frames(incoming[x]), g \in Frames(channel[x]) : f < g
      BY DEF PairInv, InOrder
    <3>2. CASE x = p
      BY <1>6, <1>7, <1>8, <3>1, <3>2
    <3>3. CASE x # p
      BY <1>8, <3>1, <3>3
    <3>. QED BY <3>2, <3>3
  <2>. QED BY <1>1, <2>1 DEF InOrder
<1>12. ASSUME Alive' PROVE Awaited'
  <2>1. Awaited
    BY <1>1, <1>12 DEF PairInv, Alive
  <2>. QED BY <1>1, <1>9, <2>1 DEF Awaited
<1>13. NoPairLost'
  <2>. SUFFICES ASSUME Alive', NEW f \in made[1] \cap made[2]
                PROVE  \E x \in Peers : f \in compared[x] \/ WillCompare(x, f)'
    BY <1>1 DEF NoPairLost, Alive
  <2>1. PICK x \in Peers : f \in compared[x] \/ WillCompare(x, f)
    BY <1>1 DEF PairInv, NoPairLost, Alive
  <2>2. CASE f \in compared[x]
    BY <2>2
  <2>3. CASE WillCompare(x, f) /\ x # p
    BY <1>1, <1>8, <2>3 DEF WillCompare
  <2>4. CASE WillCompare(x, f) /\ x = p
    <3>1. f \in made[p]
      BY DEF Peers
    <3>2. f \in before
      BY <1>4, <3>1
    <3>3. f \in Frames(channel[p]) \cup Frames(theirs)
      BY <1>6, <2>4, <3>2 DEF WillCompare
    <3>. QED BY <1>1, <1>7, <1>8, <2>4, <3>3 DEF WillCompare
  <2>. QED BY <2>1, <2>2, <2>3, <2>4
<1>. QED BY <1>10, <1>11, <1>12, <1>13 DEF PairInv

(* The head of a list in order, and the rest of it.                                      *)
LEMMA HeadIsFirst ==
  ASSUME NEW list \in Seq(Hash), list # << >>, Rising(list)
  PROVE  /\ << Head(list) >> \in Seq(Hash) /\ Rising(<< Head(list) >>)
         /\ Frames(<< Head(list) >>) = {Head(list).frame}
         /\ Tail(list) \in Seq(Hash) /\ Rising(Tail(list))
         /\ Frames(list) = {Head(list).frame} \cup Frames(Tail(list))
         /\ \A f \in Frames(Tail(list)) : Head(list).frame < f
<1>. DEFINE h == Head(list)
            t == Tail(list)
            one == << h >>
<1>1. /\ h = list[1] /\ h \in Hash /\ t \in Seq(Hash) /\ DOMAIN list = 1 .. Len(list)
      /\ Len(list) \in Nat /\ Len(list) >= 1 /\ Len(t) = Len(list) - 1 /\ DOMAIN t = 1 .. Len(t)
      /\ \A i \in 1 .. Len(t) : t[i] = list[i + 1]
  OBVIOUS
<1>2. one \in Seq(Hash) /\ DOMAIN one = {1} /\ one[1] = h
  BY <1>1
<1>. HIDE DEF h, t, one
<1>3. Rising(one) /\ Frames(one) = {h.frame}
  BY <1>2 DEF Rising, Frames
<1>4. Rising(t)
  <2>. SUFFICES ASSUME NEW i \in DOMAIN t, NEW j \in DOMAIN t, i < j PROVE t[i].frame < t[j].frame
    BY DEF Rising
  <2>1. /\ i + 1 \in DOMAIN list /\ j + 1 \in DOMAIN list /\ i + 1 < j + 1
        /\ t[i] = list[i + 1] /\ t[j] = list[j + 1]
    BY <1>1
  <2>. QED BY <2>1 DEF Rising
<1>5. ASSUME NEW f \in Frames(t) PROVE f \in Frames(list) /\ h.frame < f
  <2>1. PICK i \in DOMAIN t : f = t[i].frame
    BY DEF Frames
  <2>2. t[i] = list[i + 1] /\ i + 1 \in DOMAIN list /\ 1 \in DOMAIN list /\ 1 < i + 1
    BY <1>1
  <2>. QED BY <1>1, <2>1, <2>2 DEF Rising, Frames
<1>6. ASSUME NEW f \in Frames(list) PROVE f = h.frame \/ f \in Frames(t)
  <2>1. PICK i \in DOMAIN list : f = list[i].frame
    BY DEF Frames
  <2>2. CASE i = 1
    BY <1>1, <2>1, <2>2
  <2>3. CASE i # 1
    <3>1. i - 1 \in DOMAIN t /\ t[i - 1] = list[i]
      BY <1>1, <2>3
    <3>. QED BY <2>1, <3>1 DEF Frames
  <2>. QED BY <2>2, <2>3
<1>7. h.frame \in Frames(list)
  BY <1>1 DEF Frames
<1>8. Frames(list) = {h.frame} \cup Frames(t)
  BY <1>5, <1>6, <1>7
<1>. QED BY <1>1, <1>2, <1>3, <1>4, <1>5, <1>8 DEF h, t, one

(* A hash that comes in moves from the one list to the other.                            *)
LEMMA ReceiveHashPairs ==
  ASSUME SyncIInv, SyncIInv', PairInv, NEW p \in Peers, ReceiveHash(p)
  PROVE  PairInv'
<1>. DEFINE first == Head(channel[p])
            rest == Tail(channel[p])
            longer == Append(incoming[p], first)
<1>1. /\ channel[p] # << >> /\ incoming' = [incoming EXCEPT ![p] = longer]
      /\ channel' = [channel EXCEPT ![p] = rest]
      /\ UNCHANGED << vars, flaw, local, made, compared, stopped >>
  BY DEF ReceiveHash
<1>2. Kinded /\ incoming[p] \in Seq(Hash) /\ channel[p] \in Seq(Hash)
  BY ListFrames DEF SyncIInv
<1>3. /\ Rising(incoming[p]) /\ Rising(channel[p])
      /\ \A f \in Frames(incoming[p]), g \in Frames(channel[p]) : f < g
  BY DEF PairInv, InOrder
<1>4. /\ << first >> \in Seq(Hash) /\ Rising(<< first >>) /\ Frames(<< first >>) = {first.frame}
      /\ Rising(rest) /\ Frames(channel[p]) = {first.frame} \cup Frames(rest)
      /\ \A f \in Frames(rest) : first.frame < f
  BY <1>1, <1>2, <1>3, HeadIsFirst
<1>5. longer = incoming[p] \o << first >>
  <2>1. first \in Hash
    BY <1>1, <1>2
  <2>. QED BY <1>2, <2>1
<1>. HIDE DEF longer, rest, first
<1>6. Rising(longer) /\ Frames(longer) = Frames(incoming[p]) \cup {first.frame}
  <2>1. \A f \in Frames(incoming[p]), g \in Frames(<< first >>) : f < g
    BY <1>3, <1>4
  <2>2. /\ Rising(incoming[p] \o << first >>)
        /\ Frames(incoming[p] \o << first >>) = Frames(incoming[p]) \cup Frames(<< first >>)
    BY <1>2, <1>3, <1>4, <2>1, ConcatKeeps
  <2>. QED BY <1>4, <1>5, <2>2
<1>7. /\ incoming'[p] = longer /\ channel'[p] = rest
      /\ \A x \in Peers \ {p} : incoming'[x] = incoming[x] /\ channel'[x] = channel[x]
  BY <1>1, <1>2 DEF Kinded
<1>8. \A x \in Peers : Frames(channel'[x]) \cup Frames(incoming'[x])
                         = Frames(channel[x]) \cup Frames(incoming[x])
  <2>1. ASSUME NEW x \in Peers
        PROVE  Frames(channel'[x]) \cup Frames(incoming'[x]) = Frames(channel[x]) \cup Frames(incoming[x])
    <3>1. CASE x = p
      BY <1>4, <1>6, <1>7, <3>1
    <3>2. CASE x # p
      BY <1>7, <3>2
    <3>. QED BY <3>1, <3>2
  <2>. QED BY <2>1
<1>9. MadeIsPast'
  BY <1>1 DEF PairInv, MadeIsPast, Reached, Frame, vars
<1>10. InOrder'
  <2>1. ASSUME NEW x \in Peers
        PROVE  /\ Rising(local[x]) /\ Rising(incoming'[x]) /\ Rising(channel'[x])
               /\ \A f \in Frames(incoming'[x]), g \in Frames(channel'[x]) : f < g
    <3>1. /\ Rising(local[x]) /\ Rising(incoming[x]) /\ Rising(channel[x])
          /\ \A f \in Frames(incoming[x]), g \in Frames(channel[x]) : f < g
      BY DEF PairInv, InOrder
    <3>2. CASE x = p
      BY <1>3, <1>4, <1>6, <1>7, <3>1, <3>2
    <3>3. CASE x # p
      BY <1>7, <3>1, <3>3
    <3>. QED BY <3>2, <3>3
  <2>. QED BY <1>1, <2>1 DEF InOrder
<1>11. ASSUME Alive' PROVE Awaited'
  BY <1>1, <1>11 DEF PairInv, Alive, Awaited
<1>12. NoPairLost'
  <2>. SUFFICES ASSUME Alive', NEW f \in made[1] \cap made[2]
                PROVE  \E x \in Peers : f \in compared[x] \/ WillCompare(x, f)'
    BY <1>1 DEF NoPairLost, Alive
  <2>1. PICK x \in Peers : f \in compared[x] \/ WillCompare(x, f)
    BY <1>1 DEF PairInv, NoPairLost, Alive
  <2>2. WillCompare(x, f) => WillCompare(x, f)'
    BY <1>1, <1>8 DEF WillCompare
  <2>. QED BY <2>1, <2>2
<1>. QED BY <1>9, <1>10, <1>11, <1>12 DEF PairInv

(* A step of the engine alone, or none, only plays on.                                   *)
LEMMA EngineAlonePairs ==
  ASSUME PairInv, SyncIInv, SyncIInv', UNCHANGED syncVars, NEW p \in Peers,
         \/ Rerun(p)
         \/ \E input \in Presses(p, Frame(p)) : StartFrame(p, input)
         \/ \E msg \in sent[Other(p)] : Receive(p, msg)
         \/ UNCHANGED vars
  PROVE  PairInv'
<1>1. UNCHANGED << flaw, local, incoming, channel, made, compared, stopped >> /\ IInv /\ IInv'
  BY DEF syncVars, SyncIInv, Engine
<1>2. \A q \in Peers : Reached(q) <= Reached(q)'
  BY <1>1, ReachedGrows
<1>3. ASSUME NEW x \in Peers, NEW f \in made[x] PROVE f < Reached(x)'
  <2>1. f < Reached(x)
    BY DEF PairInv, MadeIsPast
  <2>2. f \in Nat
    BY SyncFacts
  <2>3. Reached(x) \in Nat
    BY <1>1, PeerFacts
  <2>4. TypeOK'
    BY <1>1 DEF IInv
  <2>5. Reached(x)' \in Nat
    BY <2>4, ReachedIsNat
  <2>. QED BY <1>2, <2>1, <2>2, <2>3, <2>5
<1>4. MadeIsPast'
  BY <1>1, <1>3 DEF MadeIsPast
<1>. QED BY <1>1, <1>4 DEF PairInv, InOrder, Alive, Awaited, NoPairLost, WillCompare

LEMMA PairStep ==
  ASSUME WindowFits, SyncIInv, PairInv, [NextSync]_<< vars, syncVars >>
  PROVE  PairInv'
<1>. SyncIInv'
  BY SyncStep
<1>1. ASSUME NEW p \in Peers, HashAndPass(p) PROVE PairInv'
  BY <1>1, HashAndPassPairs
<1>2. ASSUME NEW p \in Peers, RollbackAndForget(p) PROVE PairInv'
  BY <1>2, RollbackAndForgetPairs
<1>3. ASSUME NEW p \in Peers, ReceiveHash(p) PROVE PairInv'
  BY <1>3, ReceiveHashPairs
<1>4. ASSUME UNCHANGED syncVars, NEW p \in Peers,
             \/ \E input \in Presses(p, Frame(p)) : StartFrame(p, input)
             \/ Rerun(p)
             \/ \E msg \in sent[Other(p)] : Receive(p, msg)
      PROVE  PairInv'
  BY <1>4, EngineAlonePairs
<1>5. ASSUME UNCHANGED << vars, syncVars >> PROVE PairInv'
  <2>1. 1 \in Peers /\ UNCHANGED vars /\ UNCHANGED syncVars
    BY <1>5 DEF Peers
  <2>. QED BY <2>1, EngineAlonePairs
<1>. QED BY <1>1, <1>2, <1>3, <1>4, <1>5 DEF NextSync, Done

(* Two games that differ do not pass unnoticed because a hash went astray: as long as no *)
(* session has stopped, any frame that both have hashed was compared by one of the two,  *)
(* or is still to be, by a peer that has kept its own hash of it and has the other one   *)
(* queued or on its way.  Neither the staleness guard and the merge of step 9 nor the    *)
(* invalidation after loadState ever takes both chances from one frame.                  *)
THEOREM NoPairIsLost == ASSUME WindowFits PROVE SpecSync => []NoPairLost
<1>1. InitSync => SyncIInv /\ PairInv
  BY InitSyncSound, InitPairs
<1>2. (SyncIInv /\ PairInv) /\ [NextSync]_<< vars, syncVars >> => (SyncIInv /\ PairInv)'
  BY SyncStep, PairStep
<1>3. PairInv => NoPairLost
  BY DEF PairInv
<1>. QED BY <1>1, <1>2, <1>3, PTL DEF SpecSync
=============================================================================
