------------------------- MODULE ContainerUseProofs -------------------------
(***************************************************************************)
(* What was written is read, and the trigger is the earliest contradiction,*)
(* for every number of indices, of frames and of inputs in a batch.        *)
(*                                                                         *)
(* A position that was written reads back because it lies inside its row   *)
(* and holds the value there: growth fills only what lies past the end of  *)
(* a row, and an erasure shifts whole rows.                                *)
(***************************************************************************)
EXTENDS ContainerUse, SequenceTheorems, WellFoundedInduction, TLAPS

(* What the operations of a container do to the rows of every index *)

LEMMA SmallestIsThere ==
  ASSUME NEW T \in SUBSET Nat, T # {}
  PROVE  \E m \in T : \A k \in T : m <= k
<1>. DEFINE less == OpToRel(<, Nat)
<1>1. IsWellFoundedOn(less, Nat)
  BY NatLessThanWellFounded
<1>2. \A x, y \in Nat : x < y => << x, y >> \in less
  BY DEF OpToRel
<1>. HIDE DEF less
<1>3. PICK m \in T : \A k \in T : << k, m >> \notin less
  BY <1>1, WFMin
<1>4. ASSUME NEW k \in T PROVE m <= k
  <2>1. m \in Nat /\ k \in Nat /\ ~ k < m
    BY <1>2, <1>3
  <2>. QED BY <2>1
<1>. QED BY <1>4


LEMMA GrownIsRow ==
  ASSUME NEW row \in Seq(Input), NEW size \in Nat, NEW fill \in Input
  PROVE  /\ Grown(row, size, fill) \in Seq(Input)
         /\ Len(Grown(row, size, fill)) = IF size > Len(row) THEN size ELSE Len(row)
<1>1. \A f \in 1 .. (IF size > Len(row) THEN size ELSE Len(row)) :
        (IF f <= Len(row) THEN row[f] ELSE fill) \in Input
  OBVIOUS
<1>. QED BY <1>1 DEF Grown

LEMMA OverwrittenIsRow ==
  ASSUME NEW row \in Seq(Input), NEW frame \in Nat, NEW batch \in Seq(Input)
  PROVE  /\ Overwritten(row, frame, batch) \in Seq(Input)
         /\ Len(Overwritten(row, frame, batch)) = Len(row)
<1>1. \A f \in 1 .. Len(row) :
        (IF f \in frame + 1 .. frame + Len(batch) THEN batch[f - frame] ELSE row[f]) \in Input
  OBVIOUS
<1>. QED BY <1>1 DEF Overwritten

LEMMA NoIndexIsOne == NoIndex \in Nat
BY SMT DEF NoIndex

LEMMA RowAt ==
  ASSUME NEW d \in Container, NEW i \in Nat
  PROVE  /\ Row(d, i) \in Seq(Input) /\ EndFrame(d, i) = Len(Row(d, i)) /\ EndFrame(d, i) \in Nat
BY DEF Container, Row, EndFrame, EndIndex

LEMMA RowsAre ==
  ASSUME NEW d \in Container
  PROVE  EndIndex(d) \in Nat /\ d.inputs \in Seq(Seq(Input)) /\ Len(d.inputs) = EndIndex(d)
BY DEF Container, EndIndex

LEMMA LargestIsThere ==
  ASSUME NEW n \in Nat, NEW T \in SUBSET (1 .. n), T # {}
  PROVE  \E m \in T : \A k \in T : k <= m
<1>. DEFINE gaps == {n - k : k \in T}
<1>1. gaps \subseteq Nat /\ gaps # {}
  <2>1. \A k \in T : n - k \in Nat /\ n - k \in gaps
    OBVIOUS
  <2>. QED BY <2>1
<1>2. PICK g \in gaps : \A h \in gaps : g <= h
  <2>. HIDE DEF gaps
  <2>. QED BY <1>1, SmallestIsThere
<1>3. PICK m \in T : g = n - m
  BY <1>2
<1>4. ASSUME NEW k \in T PROVE k <= m
  <2>1. n - m <= n - k
    BY <1>2, <1>3
  <2>. QED BY <2>1
<1>. QED BY <1>4

LEMMA LastIsInput ==
  ASSUME NEW d \in Container, NEW i \in Nat
  PROVE  LastInputBefore(d, i) \in Input
<1>. DEFINE held == {j \in 1 .. Len(d.inputs) : j <= i /\ d.inputs[j] # << >>}
            last == CHOOSE j \in held : \A k \in held : k <= j
<1>1. d.inputs \in Seq(Seq(Input)) /\ Len(d.inputs) \in Nat
  BY RowsAre
<1>2. CASE held = {}
  BY <1>2, NeutralInput DEF LastInputBefore
<1>3. CASE held # {}
  <2>1. \E j \in held : \A k \in held : k <= j
    <3>. HIDE DEF held
    <3>1. held \subseteq 1 .. Len(d.inputs)
      BY DEF held
    <3>. QED BY <1>1, <1>3, <3>1, LargestIsThere
  <2>2. last \in held
    BY <2>1
  <2>3. LastInputBefore(d, i) = d.inputs[last][Len(d.inputs[last])]
    BY <1>3 DEF LastInputBefore
  <2>. HIDE DEF last
  <2>4. d.inputs[last] \in Seq(Input) /\ d.inputs[last] # << >>
    BY <1>1, <2>2
  <2>. QED BY <2>3, <2>4
<1>. QED BY <1>2, <1>3

LEMMA FillIsInput ==
  ASSUME NEW d \in Container, NEW i \in Nat
  PROVE  FillValue(d, i) \in Input
<1>1. Row(d, i) \in Seq(Input) /\ EndFrame(d, i) = Len(Row(d, i)) /\ EndIndex(d) \in Nat
  BY RowAt, RowsAre
<1>. QED BY <1>1, LastIsInput, NeutralInput DEF FillValue

LEMMA GrowsAt ==
  ASSUME NEW d \in Container, NEW index \in Nat, NEW size \in Nat
  PROVE  /\ Grow(d, index, size) \in Container
         /\ Grow(d, index, size).changed = d.changed
         /\ index < EndIndex(Grow(d, index, size))
         /\ \A i \in Nat : Row(Grow(d, index, size), i) =
                           IF i = index THEN Grown(Row(d, index), size, FillValue(d, index))
                           ELSE Row(d, i)
<1>. DEFINE new == Grow(d, index, size)
            top == IF index >= EndIndex(d) THEN index + 1 ELSE EndIndex(d)
            grown == Grown(Row(d, index), size, FillValue(d, index))
            rows == [i \in 1 .. top |-> IF i = index + 1 THEN grown ELSE Row(d, i - 1)]
<1>1. EndIndex(d) \in Nat /\ top \in Nat /\ top >= index + 1 /\ top >= EndIndex(d)
  BY RowsAre
<1>2. grown \in Seq(Input)
  BY RowAt, FillIsInput, GrownIsRow
<1>3. \A i \in 1 .. top : Row(d, i - 1) \in Seq(Input)
  BY <1>1, RowAt
<1>4. new = [inputs |-> rows, changed |-> d.changed]
  BY DEF Grow
<1>. HIDE DEF grown, top, new
<1>5. /\ rows \in Seq(Seq(Input)) /\ Len(rows) = top
      /\ \A i \in 1 .. top : rows[i] = IF i = index + 1 THEN grown ELSE Row(d, i - 1)
  BY <1>1, <1>2, <1>3
<1>. HIDE DEF rows
<1>6. new \in Container /\ new.changed = d.changed /\ new.inputs = rows /\ EndIndex(new) = top
  BY <1>4, <1>5 DEF Container, EndIndex
<1>7. ASSUME NEW i \in Nat PROVE Row(new, i) = IF i = index THEN grown ELSE Row(d, i)
  <2>1. CASE i < top
    <3>1. Row(new, i) = rows[i + 1] /\ i + 1 \in 1 .. top /\ (i + 1) - 1 = i
      BY <1>1, <1>6, <2>1 DEF Row
    <3>. QED BY <1>5, <3>1
  <2>2. CASE ~ i < top
    <3>1. Row(new, i) = << >> /\ Row(d, i) = << >> /\ i # index
      BY <1>1, <1>6, <2>2 DEF Row
    <3>. QED BY <3>1
  <2>. QED BY <2>1, <2>2
<1>. QED BY <1>1, <1>6, <1>7 DEF grown, new

LEMMA StoresAt ==
  ASSUME NEW d \in Container, NEW index \in Nat, index < EndIndex(d),
         NEW frame \in Nat, NEW batch \in Seq(Input), NEW new, new = Store(d, index, frame, batch)
  PROVE  /\ new \in Container /\ new.changed = d.changed
         /\ \A i \in Nat : Row(new, i) = IF i = index THEN Overwritten(Row(d, index), frame, batch)
                                         ELSE Row(d, i)
<1>. DEFINE row == Overwritten(Row(d, index), frame, batch)
            rows == [d.inputs EXCEPT ![index + 1] = row]
<1>1. /\ d.inputs \in Seq(Seq(Input)) /\ Len(d.inputs) = EndIndex(d) /\ EndIndex(d) \in Nat
      /\ index + 1 \in 1 .. EndIndex(d)
  BY RowsAre
<1>2. row \in Seq(Input)
  BY RowAt, OverwrittenIsRow
<1>3. new = [inputs |-> rows, changed |-> d.changed]
  BY DEF Store
<1>. HIDE DEF row
<1>4. rows \in Seq(Seq(Input)) /\ Len(rows) = EndIndex(d)
  BY <1>1, <1>2
<1>5. \A i \in 1 .. EndIndex(d) : rows[i] = IF i = index + 1 THEN row ELSE d.inputs[i]
  BY <1>1
<1>. HIDE DEF rows
<1>6. new \in Container /\ new.changed = d.changed /\ new.inputs = rows /\ EndIndex(new) = EndIndex(d)
  BY <1>3, <1>4 DEF Container, EndIndex
<1>7. ASSUME NEW i \in Nat PROVE Row(new, i) = IF i = index THEN row ELSE Row(d, i)
  <2>1. CASE i < EndIndex(d)
    <3>1. i + 1 \in 1 .. EndIndex(d) /\ (i + 1 = index + 1 <=> i = index)
      BY <1>1, <2>1
    <3>2. Row(new, i) = rows[i + 1] /\ Row(d, i) = d.inputs[i + 1]
      BY <1>6, <2>1 DEF Row
    <3>. QED BY <1>5, <3>1, <3>2
  <2>2. CASE ~ i < EndIndex(d)
    <3>1. Row(new, i) = << >> /\ Row(d, i) = << >> /\ i # index
      BY <1>6, <2>2 DEF Row
    <3>. QED BY <3>1
  <2>. QED BY <2>1, <2>2
<1>. QED BY <1>6, <1>7 DEF row

(* The container that makes room for a batch and stores it.                               *)
Put(d, index, frame, batch) == Store(Resize(d, index, frame, Len(batch)), index, frame, batch)

(* It holds the batch, and all it held elsewhere.                                         *)
HasPut(new, d, index, frame, batch) ==
  /\ new \in Container /\ new.changed = d.changed
  /\ \A i \in Nat : /\ EndFrame(d, i) <= EndFrame(new, i)
                    /\ i = index => frame + Len(batch) <= EndFrame(new, i)
  /\ \A i \in Nat, f \in Nat :
       IF i = index /\ f \in frame .. frame + Len(batch) - 1
       THEN Row(new, i)[f + 1] = batch[f - frame + 1]
       ELSE f < EndFrame(d, i) => Row(new, i)[f + 1] = Row(d, i)[f + 1]

LEMMA WritesAt ==
  ASSUME NEW d \in Container, NEW index \in Nat, NEW frame \in Nat, NEW batch \in Seq(Input)
  PROVE  HasPut(Put(d, index, frame, batch), d, index, frame, batch)
<1>. DEFINE new == Put(d, index, frame, batch)
            size == frame + Len(batch)
            grown == Grow(d, index, size)
            row == Row(d, index)
            longer == Grown(row, size, FillValue(d, index))
<1>1. size \in Nat /\ Len(batch) \in Nat /\ row \in Seq(Input) /\ FillValue(d, index) \in Input
  <2>1. row \in Seq(Input)
    BY RowAt
  <2>. QED BY <2>1, FillIsInput
<1>2. /\ grown \in Container /\ grown.changed = d.changed /\ index < EndIndex(grown)
      /\ \A i \in Nat : Row(grown, i) = IF i = index THEN longer ELSE Row(d, i)
  <2>. HIDE DEF size
  <2>. QED BY <1>1, GrowsAt
<1>3. new = Store(grown, index, frame, batch)
  BY DEF Put, Resize
<1>. HIDE DEF grown, new
<1>4. /\ longer \in Seq(Input) /\ Len(longer) = IF size > Len(row) THEN size ELSE Len(row)
      /\ \A f \in 1 .. Len(row) : longer[f] = row[f]
  BY <1>1, GrownIsRow DEF Grown
<1>. HIDE DEF longer
<1>5. /\ new \in Container /\ new.changed = grown.changed
      /\ \A i \in Nat : Row(new, i) = IF i = index THEN Overwritten(longer, frame, batch) ELSE Row(d, i)
  <2>1. /\ new \in Container /\ new.changed = grown.changed
        /\ \A i \in Nat : Row(new, i) = IF i = index THEN Overwritten(Row(grown, index), frame, batch)
                                        ELSE Row(grown, i)
    BY <1>2, <1>3, StoresAt
  <2>. QED BY <1>2, <2>1
<1>. DEFINE stored == Overwritten(longer, frame, batch)
<1>6. /\ stored \in Seq(Input) /\ Len(stored) = Len(longer)
      /\ \A f \in 1 .. Len(longer) :
           stored[f] = IF f \in frame + 1 .. frame + Len(batch) THEN batch[f - frame] ELSE longer[f]
  BY <1>4, OverwrittenIsRow DEF Overwritten
<1>. HIDE DEF stored, row
<1>7. ASSUME NEW i \in Nat
      PROVE  EndFrame(d, i) <= EndFrame(new, i) /\ (i = index => size <= EndFrame(new, i))
  <2>1. EndFrame(d, i) = Len(Row(d, i)) /\ EndFrame(new, i) = Len(Row(new, i)) /\ EndFrame(d, i) \in Nat
    BY <1>5, RowAt
  <2>. QED BY <1>1, <1>4, <1>5, <1>6, <2>1 DEF row, stored
<1>8. ASSUME NEW f \in frame .. frame + Len(batch) - 1
      PROVE  Row(new, index)[f + 1] = batch[f - frame + 1]
  <2>1. /\ f + 1 \in frame + 1 .. frame + Len(batch) /\ f + 1 \in 1 .. Len(longer)
        /\ (f + 1) - frame = f - frame + 1
    BY <1>1, <1>4
  <2>2. stored[f + 1] = batch[(f + 1) - frame]
    BY <1>6, <2>1
  <2>. QED BY <1>5, <2>1, <2>2 DEF stored
<1>9. ASSUME NEW f \in Nat, f \notin frame .. frame + Len(batch) - 1, f < EndFrame(d, index)
      PROVE  Row(new, index)[f + 1] = Row(d, index)[f + 1]
  <2>1. EndFrame(d, index) = Len(row) /\ Len(row) \in Nat
    BY <1>1 DEF EndFrame, row
  <2>2. /\ f + 1 \in 1 .. Len(row) /\ f + 1 \in 1 .. Len(longer)
        /\ f + 1 \notin frame + 1 .. frame + Len(batch)
    BY <1>1, <1>4, <1>9, <2>1
  <2>3. stored[f + 1] = row[f + 1]
    BY <1>4, <1>6, <2>2
  <2>. QED BY <1>5, <2>3 DEF stored, row
<1>10. ASSUME NEW i \in Nat, i # index PROVE Row(new, i) = Row(d, i)
  BY <1>5, <1>10
<1>11. HasPut(new, d, index, frame, batch)
  BY <1>2, <1>5, <1>7, <1>8, <1>9, <1>10 DEF HasPut
<1>. QED BY <1>11 DEF new

-----------------------------------------------------------------------------
(* What is kept *)

(* What is written lies inside the rows. *)
Holding ==
  \A p \in DOMAIN written : /\ p[2] < EndFrame(c, p[1])
                            /\ Row(c, p[1])[p[2] + 1] = written[p]

(* The trigger is one of the contradictions, and none comes before it. *)
Triggered ==
  IF wrong = {} THEN c.changed = MaxIndexedFrame
  ELSE c.changed \in wrong /\ \A q \in wrong : ~ Before(q, c.changed)

UseInv == TypeOK /\ Holding /\ Triggered

-----------------------------------------------------------------------------
(* One lemma per operation *)

LEMMA BatchIsRow ==
  ASSUME NEW batch \in Batches
  PROVE  batch \in Seq(Input) /\ Len(batch) \in Nat \ {0}
BY UseBounds DEF Batches

(* What is remembered of a batch that is stored is what the container holds then.         *)
LEMMA WriteHolds ==
  ASSUME UseInv, NEW index \in Indices, NEW frame \in Nat, NEW batch \in Seq(Input),
         frame + Len(batch) - 1 <= MaxFrame,
         NEW stored, stored = Put(c, index, frame, batch),
         c'.inputs = stored.inputs, written' = Remember(index, frame, batch)
  PROVE  Holding' /\ DOMAIN written' \subseteq Indices \X Frames /\ stored \in Container
<1>. DEFINE slots == frame .. frame + Len(batch) - 1
<1>1. /\ c \in Container /\ index \in Nat /\ Len(batch) \in Nat
      /\ DOMAIN written \subseteq Indices \X Frames /\ MaxIndex \in Nat /\ MaxFrame \in Nat
  BY UseBounds DEF UseInv, TypeOK, Indices
<1>2. /\ stored \in Container
      /\ \A i \in Nat : /\ EndFrame(c, i) <= EndFrame(stored, i)
                        /\ i = index => frame + Len(batch) <= EndFrame(stored, i)
      /\ \A i \in Nat, f \in Nat :
           IF i = index /\ f \in slots
           THEN Row(stored, i)[f + 1] = batch[f - frame + 1]
           ELSE f < EndFrame(c, i) => Row(stored, i)[f + 1] = Row(c, i)[f + 1]
  <2>1. HasPut(stored, c, index, frame, batch)
    BY <1>1, WritesAt
  <2>. QED BY <2>1 DEF HasPut
<1>3. \A i : Row(c', i) = Row(stored, i) /\ EndFrame(c', i) = EndFrame(stored, i)
  BY DEF Row, EndFrame, EndIndex
<1>4. /\ DOMAIN written' = DOMAIN written \cup {<< index, f >> : f \in slots}
      /\ \A p \in DOMAIN written' :
           written'[p] = IF p[1] = index /\ p[2] \in slots THEN batch[p[2] - frame + 1] ELSE written[p]
  BY DEF Remember
<1>. HIDE DEF slots
<1>5. slots \subseteq Frames
  BY <1>1 DEF slots, Frames
<1>6. DOMAIN written' \subseteq Indices \X Frames
  BY <1>1, <1>4, <1>5
<1>7. ASSUME NEW p \in DOMAIN written'
      PROVE  p[2] < EndFrame(c', p[1]) /\ Row(c', p[1])[p[2] + 1] = written'[p]
  <2>1. p \in Indices \X Frames /\ p[1] \in Nat /\ p[2] \in Nat
    BY <1>6 DEF Indices, Frames
  <2>2. /\ EndFrame(c, p[1]) \in Nat /\ EndFrame(stored, p[1]) \in Nat
        /\ EndFrame(c, p[1]) <= EndFrame(stored, p[1])
    BY <1>1, <1>2, <2>1, RowAt
  <2>3. CASE p[1] = index /\ p[2] \in slots
    <3>1. p[2] < frame + Len(batch)
      BY <1>1, <2>3 DEF slots
    <3>2. frame + Len(batch) <= EndFrame(stored, p[1])
      BY <1>2, <2>1, <2>3
    <3>3. Row(stored, p[1])[p[2] + 1] = batch[p[2] - frame + 1]
      BY <1>2, <2>1, <2>3
    <3>4. p[2] < EndFrame(stored, p[1])
      BY <1>1, <2>1, <2>2, <3>1, <3>2
    <3>5. written'[p] = batch[p[2] - frame + 1]
      BY <1>4, <2>3
    <3>. QED BY <1>3, <3>3, <3>4, <3>5
  <2>4. CASE ~ (p[1] = index /\ p[2] \in slots)
    <3>1. p \in DOMAIN written
      <4>1. p \notin {<< index, f >> : f \in slots}
        BY <2>4
      <4>. QED BY <1>4, <4>1
    <3>2. p[2] < EndFrame(c, p[1]) /\ Row(c, p[1])[p[2] + 1] = written[p]
      BY <3>1 DEF UseInv, Holding
    <3>3. Row(stored, p[1])[p[2] + 1] = Row(c, p[1])[p[2] + 1]
      BY <1>2, <2>1, <2>4, <3>2
    <3>. QED BY <1>3, <1>4, <2>1, <2>2, <2>4, <3>2, <3>3
  <2>. QED BY <2>3, <2>4
<1>. QED BY <1>2, <1>6, <1>7 DEF Holding

LEMMA SetInputStep ==
  ASSUME UseInv, NEW frame \in Frames, NEW t \in Input, SetInput(frame, t)
  PROVE  UseInv'
<1>1. /\ TypeOK /\ cur \in Indices /\ cur \in Nat /\ frame \in Nat /\ UNCHANGED << remote, cur, wrong >>
      /\ frame <= MaxFrame
  BY UseBounds DEF UseInv, TypeOK, SetInput, Indices, Frames
<1>2. CASE frame < EndFrame(c, cur)
  <2>1. UNCHANGED << c, written >>
    BY <1>2 DEF SetInput, SetOnce
  <2>. QED BY <1>1, <2>1 DEF UseInv, TypeOK, Holding, Triggered
<1>3. CASE ~ frame < EndFrame(c, cur)
  <2>. DEFINE batch == << t >>
              stored == Put(c, cur, frame, batch)
  <2>1. batch \in Seq(Input) /\ Len(batch) = 1
    OBVIOUS
  <2>2. c' = stored /\ written' = Remember(cur, frame, batch)
    BY <1>3, <2>1 DEF SetInput, SetOnce, Put
  <2>3. frame + Len(batch) - 1 <= MaxFrame
    BY <1>1, <2>1, UseBounds
  <2>. HIDE DEF batch
  <2>4. stored \in Container /\ stored.changed = c.changed
    BY <1>1, <2>1, WritesAt DEF TypeOK, HasPut
  <2>. HIDE DEF stored
  <2>5. Holding' /\ DOMAIN written' \subseteq Indices \X Frames
    BY <1>1, <2>1, <2>2, <2>3, WriteHolds DEF stored
  <2>. QED BY <1>1, <2>2, <2>4, <2>5 DEF UseInv, TypeOK, Triggered
<1>. QED BY <1>2, <1>3

(* The scan of a batch keeps the trigger the earliest of all the contradictions.          *)
LEMMA ScanTriggers ==
  ASSUME UseInv, NEW index \in Indices, NEW frames \in SUBSET Nat, frames # {},
         NEW first \in frames, \A f \in frames : first <= f,
         NEW changed, changed = Earlier(c.changed, IndexedFrame(index, first)),
         NEW all, all = wrong \cup {<< index, f >> : f \in frames}
  PROVE  changed \in all /\ (\A q \in all : ~ Before(q, changed)) /\ changed \in Nat \X Nat
<1>1. /\ index \in Nat /\ index < NoIndex /\ first \in Nat /\ wrong \subseteq Nat \X Nat
  BY UseBounds, NoIndexIsOne DEF UseInv, TypeOK, Indices, Frames
<1>2. << index, first >> \in all /\ wrong \subseteq all
  OBVIOUS
<1>3. \A q \in all : q \in Nat \X Nat /\ (q \in wrong \/ (q[1] = index /\ first <= q[2]))
  BY <1>1
<1>4. CASE wrong = {}
  <2>1. c.changed = << NoIndex, NoIndex >>
    BY <1>4 DEF UseInv, Triggered, MaxIndexedFrame
  <2>2. changed = << index, first >>
    BY <1>1, <2>1, NoIndexIsOne DEF Earlier, Before, IndexedFrame
  <2>3. ASSUME NEW q \in all PROVE ~ Before(q, changed)
    <3>1. q \in Nat \X Nat /\ q[1] = index /\ first <= q[2]
      BY <1>3, <1>4
    <3>. QED BY <1>1, <2>2, <3>1 DEF Before
  <2>. QED BY <1>1, <1>2, <2>2, <2>3
<1>5. CASE wrong # {}
  <2>1. c.changed \in wrong /\ c.changed \in Nat \X Nat /\ \A q \in wrong : ~ Before(q, c.changed)
    BY <1>1, <1>5 DEF UseInv, Triggered
  <2>2. changed = IF Before(<< index, first >>, c.changed) THEN << index, first >> ELSE c.changed
    BY DEF Earlier, IndexedFrame
  <2>3. ASSUME NEW q \in all PROVE ~ Before(q, changed)
    <3>1. q \in Nat \X Nat /\ (q \in wrong \/ (q[1] = index /\ first <= q[2]))
      BY <1>3
    <3>2. q \in wrong => ~ Before(q, c.changed)
      BY <2>1
    <3>. QED BY <1>1, <2>1, <2>2, <3>1, <3>2 DEF Before
  <2>4. changed \in all /\ changed \in Nat \X Nat
    BY <1>1, <1>2, <2>1, <2>2
  <2>. QED BY <2>3, <2>4
<1>. QED BY <1>4, <1>5

LEMMA SetInputsStep ==
  ASSUME UseInv, NEW index \in Indices, NEW frame \in Frames, NEW batch \in Batches,
         NEW inRollback \in BOOLEAN, SetInputs(index, frame, batch, inRollback)
  PROVE  UseInv'
<1>. DEFINE from == IF inRollback THEN cur ELSE NoIndex
            contradicted == Contradicted(c, index, frame, batch)
            first == CHOOSE f \in contradicted : \A g \in contradicted : f <= g
            stored == Put(c, index, frame, batch)
            changed == IF index >= from /\ contradicted # {}
                       THEN Earlier(c.changed, IndexedFrame(index, first)) ELSE c.changed
<1>1. /\ batch \in Seq(Input) /\ Len(batch) \in Nat \ {0} /\ frame \in Nat /\ index \in Nat
      /\ frame + Len(batch) - 1 <= MaxFrame /\ TypeOK /\ UNCHANGED << remote, cur >>
      /\ c \in Container /\ MaxFrame \in Nat
  BY BatchIsRow, UseBounds DEF SetInputs, Frames, Indices, UseInv, TypeOK
<1>2. c' = [inputs |-> stored.inputs, changed |-> changed] /\ written' = Remember(index, frame, batch)
  BY DEF SetInputs, SetBatch, Put
<1>3. wrong' = IF index >= from THEN wrong \cup {<< index, f >> : f \in contradicted} ELSE wrong
  BY DEF SetInputs
<1>4. contradicted \subseteq Frames /\ contradicted \subseteq Nat
  BY <1>1 DEF Contradicted, Frames
<1>. HIDE DEF from, contradicted, stored
<1>5. contradicted # {} => first \in contradicted /\ \A g \in contradicted : first <= g
  <2>1. contradicted # {} => \E f \in contradicted : \A g \in contradicted : f <= g
    BY <1>4, SmallestIsThere
  <2>. QED BY <2>1
<1>. HIDE DEF first
<1>6. Holding' /\ DOMAIN written' \subseteq Indices \X Frames /\ stored \in Container
  <2>1. c'.inputs = stored.inputs
    BY <1>2
  <2>. QED BY <1>1, <1>2, <2>1, WriteHolds DEF stored
<1>7. Triggered' /\ wrong' \subseteq Indices \X Frames /\ changed \in Nat \X Nat
  <2>1. CASE index >= from /\ contradicted # {}
    <3>. DEFINE all == wrong \cup {<< index, f >> : f \in contradicted}
    <3>1. changed = Earlier(c.changed, IndexedFrame(index, first)) /\ wrong' = all /\ c'.changed = changed
      BY <1>2, <1>3, <2>1
    <3>2. changed \in all /\ (\A q \in all : ~ Before(q, changed)) /\ changed \in Nat \X Nat
      <4>. HIDE DEF all, changed
      <4>. QED BY <1>4, <1>5, <2>1, <3>1, ScanTriggers DEF all
    <3>. QED BY <1>1, <1>4, <3>1, <3>2 DEF Triggered, TypeOK
  <2>2. CASE ~ (index >= from /\ contradicted # {})
    <3>1. wrong' = wrong /\ c'.changed = c.changed /\ changed = c.changed
      BY <1>2, <1>3, <2>2
    <3>2. c.changed \in Nat \X Nat
      BY <1>1 DEF Container
    <3>. QED BY <1>1, <3>1, <3>2 DEF UseInv, TypeOK, Triggered
  <2>. QED BY <2>1, <2>2
<1>. HIDE DEF changed
<1>8. c' \in Container
  BY <1>2, <1>6, <1>7 DEF Container
<1>. QED BY <1>1, <1>6, <1>7, <1>8 DEF UseInv, TypeOK

(* Room for an index, and no input: the rows that were are kept.                          *)
LEMMA SetRemoteIndexStep ==
  ASSUME UseInv, NEW index \in Indices, SetRemoteIndex(index)
  PROVE  UseInv'
<1>1. TypeOK /\ c \in Container /\ index \in Nat /\ UNCHANGED << remote, cur, written, wrong >>
  BY UseBounds DEF UseInv, TypeOK, Indices, SetRemoteIndex
<1>2. c' = Grow(c, index, 0)
  BY DEF SetRemoteIndex, Resize
<1>3. /\ c' \in Container /\ c'.changed = c.changed
      /\ \A i \in Nat : Row(c', i) = IF i = index THEN Grown(Row(c, index), 0, FillValue(c, index))
                                     ELSE Row(c, i)
  BY <1>1, <1>2, GrowsAt
<1>4. Grown(Row(c, index), 0, FillValue(c, index)) = Row(c, index)
  <2>1. Row(c, index) \in Seq(Input)
    BY <1>1, RowAt
  <2>2. Grown(Row(c, index), 0, FillValue(c, index)) = [f \in 1 .. Len(Row(c, index)) |-> Row(c, index)[f]]
    BY <2>1 DEF Grown
  <2>. QED BY <2>1, <2>2
<1>5. \A i \in Nat : Row(c', i) = Row(c, i) /\ EndFrame(c', i) = EndFrame(c, i)
  BY <1>3, <1>4 DEF EndFrame
<1>6. \A p \in DOMAIN written : p[1] \in Nat
  BY <1>1 DEF TypeOK, Indices
<1>7. Holding'
  BY <1>1, <1>5, <1>6 DEF UseInv, Holding
<1>. QED BY <1>1, <1>3, <1>7 DEF UseInv, TypeOK, Triggered

LEMMA ClearChangedStep ==
  ASSUME UseInv, ClearChanged PROVE UseInv'
<1>1. TypeOK /\ c \in Container /\ UNCHANGED << remote, cur, written >> /\ wrong' = {}
  BY DEF UseInv, TypeOK, ClearChanged
<1>2. c' = [inputs |-> c.inputs, changed |-> MaxIndexedFrame]
  BY DEF ClearChanged, ClearLastChangedFrame
<1>3. c' \in Container /\ c'.inputs = c.inputs /\ c'.changed = MaxIndexedFrame
  BY <1>1, <1>2, NoIndexIsOne DEF Container, MaxIndexedFrame
<1>4. \A i : Row(c', i) = Row(c, i) /\ EndFrame(c', i) = EndFrame(c, i)
  BY <1>3 DEF Row, EndFrame, EndIndex
<1>. QED BY <1>1, <1>3, <1>4 DEF UseInv, TypeOK, Holding, Triggered

LEMMA NextIndexStep ==
  ASSUME UseInv, NextIndex PROVE UseInv'
<1>1. cur' \in Indices
  BY UseBounds DEF UseInv, TypeOK, NextIndex, Indices
<1>. QED BY <1>1 DEF UseInv, TypeOK, Holding, Triggered, NextIndex

(* The rows move down by `offset', and so do the positions in them.                       *)
LEMMA EnterLoadingStep ==
  ASSUME UseInv, NEW offset \in Indices, EnterLoading(offset)
  PROVE  UseInv'
<1>. DEFINE kept == {q \in Indices \X Frames : << q[1] + offset, q[2] >> \in DOMAIN written
                                               /\ EndIndex(c) > offset + 1}
<1>1. /\ TypeOK /\ c \in Container /\ offset \in Nat /\ UNCHANGED << remote, wrong >>
      /\ c.inputs \in Seq(Seq(Input)) /\ Len(c.inputs) = EndIndex(c) /\ EndIndex(c) \in Nat
  BY UseBounds, RowsAre DEF UseInv, TypeOK, Indices, EnterLoading
<1>2. cur' \in Indices
  BY UseBounds DEF UseInv, TypeOK, EnterLoading, Indices
<1>3. c' = EraseIndexOlderThan(c, offset)
  BY DEF EnterLoading
<1>4. DOMAIN written' = kept /\ \A p \in kept : written'[p] = written[<< p[1] + offset, p[2] >>]
  BY DEF EnterLoading
<1>5. c' \in Container /\ c'.changed = c.changed
  <2>1. c'.inputs \in Seq(Seq(Input))
    BY <1>1, <1>3 DEF EraseIndexOlderThan
  <2>. QED BY <1>1, <1>3, <2>1 DEF EraseIndexOlderThan, Container
<1>6. ASSUME NEW i \in Nat, EndIndex(c) > offset + 1
      PROVE  Row(c', i) = Row(c, i + offset)
  <2>1. c'.inputs = SubSeq(c.inputs, offset + 1, Len(c.inputs))
    BY <1>1, <1>3, <1>6 DEF EraseIndexOlderThan
  <2>2. /\ Len(c'.inputs) = EndIndex(c) - offset
        /\ \A j \in 1 .. EndIndex(c) - offset : c'.inputs[j] = c.inputs[offset + j]
    BY <1>1, <1>6, <2>1
  <2>3. EndIndex(c') = EndIndex(c) - offset
    BY <2>2 DEF EndIndex
  <2>4. CASE i < EndIndex(c')
    <3>1. i + 1 \in 1 .. EndIndex(c) - offset /\ i + offset < EndIndex(c)
          /\ offset + (i + 1) = (i + offset) + 1
      BY <1>1, <2>3, <2>4
    <3>. QED BY <2>2, <2>4, <3>1 DEF Row
  <2>5. CASE ~ i < EndIndex(c')
    <3>1. ~ i + offset < EndIndex(c)
      BY <1>1, <2>3, <2>5
    <3>. QED BY <2>5, <3>1 DEF Row
  <2>. QED BY <2>4, <2>5
<1>7. Holding'
  <2>1. SUFFICES ASSUME NEW p \in kept
                 PROVE  p[2] < EndFrame(c', p[1]) /\ Row(c', p[1])[p[2] + 1] = written'[p]
    BY <1>4 DEF Holding
  <2>. DEFINE was == << p[1] + offset, p[2] >>
  <2>2. p[1] \in Nat /\ was \in DOMAIN written /\ EndIndex(c) > offset + 1
    BY DEF Indices
  <2>3. p[2] < EndFrame(c, p[1] + offset) /\ Row(c, p[1] + offset)[p[2] + 1] = written[was]
    <3>1. was[1] = p[1] + offset /\ was[2] = p[2]
      OBVIOUS
    <3>. QED BY <2>2, <3>1 DEF UseInv, Holding
  <2>4. Row(c', p[1]) = Row(c, p[1] + offset)
    BY <1>6, <2>2
  <2>. QED BY <1>4, <2>3, <2>4 DEF EndFrame
<1>8. Triggered'
  BY <1>1, <1>5 DEF UseInv, Triggered
<1>. QED BY <1>1, <1>2, <1>4, <1>5, <1>7, <1>8 DEF UseInv, TypeOK

-----------------------------------------------------------------------------
(* The invariant *)

LEMMA InitHolds ==
  ASSUME Init PROVE UseInv
<1>1. c = [inputs |-> << >>, changed |-> << NoIndex, NoIndex >>] /\ wrong = {} /\ DOMAIN written = {}
  BY DEF Init, EmptyContainer, MaxIndexedFrame
<1>2. c \in Container
  BY <1>1, NoIndexIsOne DEF Container
<1>3. cur \in Indices
  BY UseBounds DEF Init, Indices
<1>. QED BY <1>1, <1>2, <1>3 DEF Init, UseInv, TypeOK, Holding, Triggered, MaxIndexedFrame

LEMMA UseInvIsKept ==
  ASSUME UseInv, [Next]_vars PROVE UseInv'
<1>1. CASE \E frame \in Frames, t \in Input : SetInput(frame, t)
  BY <1>1, SetInputStep
<1>2. CASE \E index \in Indices, frame \in Frames, batch \in Batches, inRollback \in BOOLEAN :
             SetInputs(index, frame, batch, inRollback)
  BY <1>2, SetInputsStep
<1>3. CASE \E index \in Indices : SetRemoteIndex(index)
  BY <1>3, SetRemoteIndexStep
<1>4. CASE ClearChanged
  BY <1>4, ClearChangedStep
<1>5. CASE NextIndex
  BY <1>5, NextIndexStep
<1>6. CASE \E offset \in Indices : EnterLoading(offset)
  BY <1>6, EnterLoadingStep
<1>7. CASE UNCHANGED vars
  BY <1>7 DEF vars, UseInv, TypeOK, Holding, Triggered
<1>. QED BY <1>1, <1>2, <1>3, <1>4, <1>5, <1>6, <1>7 DEF Next

LEMMA UseInvAlways == Spec => []UseInv
<1>1. Init => UseInv
  BY InitHolds
<1>2. UseInv /\ [Next]_vars => UseInv'
  BY UseInvIsKept
<1>. QED BY <1>1, <1>2, PTL DEF Spec

(* Whatever sequence of growth, holes, batches and erasures happened, every input that was *)
(* written reads back as the last value written at its place (inputs_container.hpp, get).  *)
THEOREM WrittenInputsAreRead == Spec => []Inv
<1>1. UseInv => Inv
  <2>1. ASSUME UseInv, NEW p \in DOMAIN written PROVE Get(c, p[1], p[2]) = written[p]
    <3>1. c \in Container /\ p[1] \in Nat /\ p[2] \in Nat
      BY <2>1, UseBounds DEF UseInv, TypeOK, Indices, Frames
    <3>2. EndFrame(c, p[1]) \in Nat /\ p[2] < EndFrame(c, p[1]) /\ Row(c, p[1])[p[2] + 1] = written[p]
      BY <2>1, <3>1, RowAt DEF UseInv, Holding
    <3>. QED BY <3>1, <3>2 DEF Get
  <2>. QED BY <2>1 DEF UseInv, Inv, WrittenIsRead
<1>. QED BY <1>1, UseInvAlways, PTL

(* No batch hides the contradiction an earlier one found, and nothing else raises the      *)
(* trigger: it is the first position any checked batch contradicted since it was cleared   *)
(* (the scan of set(index, frame, t, n, checkStartingFromIndex)).  One that is pending     *)
(* while Loading erases indices stays under its old number.                                *)
THEOREM TriggerIsFirstContradiction == Spec => []TriggerIsEarliestContradiction
<1>1. UseInv => TriggerIsEarliestContradiction
  <2>1. SUFFICES ASSUME UseInv, wrong # {}
                 PROVE  c.changed = CHOOSE p \in wrong : \A q \in wrong : ~ Before(q, p)
    BY DEF UseInv, Triggered, TriggerIsEarliestContradiction
  <2>. DEFINE earliest == CHOOSE p \in wrong : \A q \in wrong : ~ Before(q, p)
  <2>2. c.changed \in wrong /\ \A q \in wrong : ~ Before(q, c.changed)
    BY <2>1 DEF UseInv, Triggered
  <2>3. earliest \in wrong /\ \A q \in wrong : ~ Before(q, earliest)
    BY <2>2
  <2>. HIDE DEF earliest
  <2>4. ~ Before(c.changed, earliest) /\ ~ Before(earliest, c.changed)
    BY <2>2, <2>3
  <2>5. c.changed \in Nat \X Nat /\ earliest \in Nat \X Nat
    BY <2>1, <2>2, <2>3 DEF UseInv, TypeOK, Indices, Frames
  <2>6. c.changed = earliest
    BY <2>4, <2>5 DEF Before
  <2>. QED BY <2>6 DEF earliest
<1>. QED BY <1>1, UseInvAlways, PTL
=============================================================================
