---------------------------- MODULE SpectateProofs ----------------------------
(***************************************************************************)
(* What the spectator's stream promises, for any route, window, lag,       *)
(* budget, delay and prediction window, whenever the spectator joins.      *)
(*                                                                         *)
(* HostInv follows the archive: every batch joins what is archived of its  *)
(* index before it, and the cursor stands exactly where the archive ends.  *)
(* HoldInv follows a batch from the archive into the containers of the     *)
(* spectator; SeedInv follows a generator state, which is sent before the  *)
(* inputs of its index but may be drained after them, once.                *)
(***************************************************************************)
EXTENDS Spectate, SequenceTheorems, WellFoundedInduction, TLAPS

(* The frames of index i in the first n messages of a list. *)
Upto(list, n, i) ==
  UNION {Covers(list[m]) : m \in {k \in DOMAIN list : k <= n /\ list[k].type = "inputs"
                                                       /\ list[k].index = i}}
AllOf(list, i) == Upto(list, Len(list), i)

(* The batch starts where the frames end, or sooner. *)
Joins(batch, frames) == batch.start = 0 \/ batch.start - 1 \in frames

Ordered(list) ==
  \A m, n \in DOMAIN list : m <= n => list[m].index <= list[n].index
Linked(list) == \A n \in DOMAIN list : Joins(list[n], Upto(list, n - 1, list[n].index))

(* An archive and the cursor that has come so far. *)
Sound(p, list) ==
  /\ \A n \in DOMAIN list : list[n].index <= p.index
  /\ Ordered(list) /\ Linked(list)
  /\ \A i \in Indices : IsPrefix(AllOf(list, i))
  /\ \A i \in Indices : \A f \in AllOf(list, i) : \A q \in Players : f < end[q][i]
  /\ AllOf(list, p.index) = 0 .. p.frame - Window

PreserveHolds == preserve # Unset => start <= preserve /\ preserve <= pos.index
NothingErasedBefore == preserve = Unset => start = 0

PosType == [index : Indices, frame : Nat]

HostInv ==
  /\ TypeOK /\ pos \in PosType /\ NothingUnreadErased /\ PreserveHolds /\ NothingErasedBefore
  /\ Sound(pos, archive)

-----------------------------------------------------------------------------
(* What the spectator has of index i, applied or still buffered. *)
Has(i) == held[i] \cup AllOf(future[i], i)

FutureIsOwn == \A i \in Indices : \A n \in DOMAIN future[i] : future[i][n].index = i
SentIsHere ==
  \A i \in sIndex .. Last : Upto(archive, cursor, i) \subseteq Has(i) \cup AllOf(stream, i)
HereIsPrefix == \A i \in sIndex .. Last : IsPrefix(held[i]) /\ IsPrefix(Has(i))
StreamJoins ==
  \A n \in DOMAIN stream :
    stream[n].type = "inputs" /\ stream[n].index >= sIndex =>
      Joins(stream[n], Has(stream[n].index) \cup Upto(stream, n - 1, stream[n].index))

HoldInv ==
  /\ sStart <= sIndex
  /\ FutureIsOwn /\ SentIsHere /\ HereIsPrefix /\ StreamJoins

-----------------------------------------------------------------------------
(* The inputs on their way come in the order of their indices, and before what is still *)
(* to be sent.                                                                          *)
InOrder ==
  /\ head <= pos.index
  /\ \A n \in DOMAIN stream : stream[n].type = "inputs" =>
       /\ head <= stream[n].index /\ stream[n].index <= pos.index
       /\ \A m \in DOMAIN stream : m <= n /\ stream[m].type = "inputs" =>
            stream[m].index <= stream[n].index
       /\ \A m \in DOMAIN archive : m > cursor => stream[n].index <= archive[m].index
  /\ \A m \in DOMAIN archive : m > cursor => head <= archive[m].index
  /\ cursor = NotJoined => head = 0 /\ stream = << >>

(* A generator state comes before the inputs of its index, or is one of the messages    *)
(* that they have overtaken.                                                            *)
ControlFirst ==
  \A n \in DOMAIN stream : stream[n].type = "control" =>
    /\ stream[n].index \in 1 .. index
    /\ \A m \in 1 .. n - 1 : stream[m].type = "inputs" => stream[m].index < stream[n].index
    /\ stream[n].index <= head => n <= missed

(* The last batch applied is the furthest, and none before it waits. *)
PositionIsLast ==
  /\ position.index <= head
  /\ \A i \in Indices : held[i] # {} => i <= position.index
  /\ \A i \in Indices : future[i] # << >> => position.index <= i /\ i <= head

Arrived(i) == i - sStart + 1 \in DOMAIN rngStates /\ rngStates[i - sStart + 1] # None
IsOnItsWay(i) == \E n \in DOMAIN stream : stream[n] = Control(i)

(* Before a jump the two indices are one, and so are the two frames; and every generator *)
(* state that was sent is on its way, waits, or is in the slot of its index.             *)
InStep ==
  /\ sIndex = scene /\ sFrame = played
  /\ \A i \in control : position.index < i
  /\ \A n \in DOMAIN rngStates : rngStates[n] \in {None, sStart + n - 1}
  /\ cursor # NotJoined =>
       \A i \in rngArchive : sStart <= i => IsOnItsWay(i) \/ i \in control \/ Arrived(i)

SeedIsDue ==
  HasControl(scene) /\ seed.rng # scene =>
    /\ sync
    /\ played > 1 => played = 2 /\ held[scene] # {} /\ (sameFrame => Arrived(scene))

SeedInv ==
  /\ rngArchive = {i \in 1 .. index : HasControl(i)}
  /\ InOrder /\ ControlFirst /\ PositionIsLast
  /\ ~ jumped => InStep /\ SeedIsDue

IInv == HostInv /\ HoldInv /\ SeedInv

-----------------------------------------------------------------------------
(* Induction over positions, and functions defined by recursion over them.   *)

LEMMA SmallestIsThere ==
  ASSUME NEW T \in SUBSET Nat, T # {}
  PROVE  \E m \in T : \A k \in T : m <= k
<1>. DEFINE less == OpToRel(<, Nat)
<1>1. IsWellFoundedOn(less, Nat)
  BY NatLessThanWellFounded
<1>2. \A x, y \in Nat : x < y => << x, y >> \in less
  BY DEF OpToRel
<1>. HIDE DEF less
<1>3. PICK m \in T : \A k \in T : << k, m >> \notin less
  BY <1>1, WFMin
<1>4. ASSUME NEW k \in T PROVE m <= k
  <2>1. m \in Nat /\ k \in Nat /\ ~ k < m
    BY <1>2, <1>3
  <2>. QED BY <2>1
<1>. QED BY <1>4

(* What holds of the first position, and of each one after a position of which it holds. *)
LEMMA Climb ==
  ASSUME NEW a \in Int, NEW n \in Int, NEW S,
         a \in S, \A i \in a + 1 .. n : i - 1 \in S => i \in S
  PROVE  a .. n \subseteq S
<1>. DEFINE Bad == {m \in Nat : a + m <= n /\ a + m \notin S}
<1>1. Bad = {}
  <2>. SUFFICES ASSUME Bad # {} PROVE FALSE
    OBVIOUS
  <2>1. PICK m \in Bad : \A k \in Bad : m <= k
    <3>1. Bad \subseteq Nat
      OBVIOUS
    <3>. HIDE DEF Bad
    <3>. QED BY <3>1, SmallestIsThere
  <2>2. m # 0 /\ m \in Nat /\ m - 1 \in Nat /\ a + m <= n /\ a + m \notin S
    BY <2>1
  <2>3. m - 1 \notin Bad
    <3>. HIDE DEF Bad
    <3>. QED BY <2>1, <2>2
  <2>4. a + (m - 1) \in S
    BY <2>2, <2>3
  <2>5. a + m \in a + 1 .. n /\ (a + m) - 1 = a + (m - 1)
    BY <2>2
  <2>. QED BY <2>2, <2>4, <2>5
<1>2. ASSUME NEW i \in a .. n PROVE i \in S
  <2>1. i - a \in Nat /\ a + (i - a) = i
    OBVIOUS
  <2>2. i - a \notin Bad
    BY <1>1
  <2>. QED BY <2>1, <2>2
<1>. QED BY <1>2

IsRecursive(f, a, n, base, step) ==
  f = [i \in a .. n |-> IF i = a THEN base ELSE step[<< i, f[i - 1] >>]]

(* A function that takes one step of D for every position after the first exists.        *)
LEMMA RecursionExists ==
  ASSUME NEW a \in Int, NEW n \in Int, a <= n, NEW D, NEW base \in D,
         NEW step \in [(a + 1 .. n) \X D -> D]
  PROVE  \E f \in [a .. n -> D] : IsRecursive(f, a, n, base, step)
<1>. DEFINE Fits(f, m) ==
              /\ f \in [a .. m -> D]
              /\ f = [i \in a .. m |-> IF i = a THEN base ELSE step[<< i, f[i - 1] >>]]
            S == {m \in a .. n : \E f : Fits(f, m)}
<1>1. a \in S
  <2>. DEFINE f == [i \in a .. a |-> base]
  <2>1. Fits(f, a)
    OBVIOUS
  <2>. HIDE DEF Fits, f
  <2>. QED BY <2>1
<1>2. ASSUME NEW m \in a + 1 .. n, m - 1 \in S PROVE m \in S
  <2>1. PICK g : Fits(g, m - 1)
    BY <1>2
  <2>. DEFINE f == [i \in a .. m |-> IF i < m THEN g[i] ELSE step[<< m, g[m - 1] >>]]
  <2>2. g[m - 1] \in D /\ step[<< m, g[m - 1] >>] \in D
    BY <2>1
  <2>3. f \in [a .. m -> D]
    BY <2>1, <2>2
  <2>4. ASSUME NEW i \in a .. m PROVE f[i] = IF i = a THEN base ELSE step[<< i, f[i - 1] >>]
    <3>1. CASE i < m
      <4>1. i \in a .. m - 1 /\ f[i] = g[i] /\ (i # a => i - 1 \in a .. m /\ i - 1 < m)
        BY <3>1
      <4>2. g[i] = IF i = a THEN base ELSE step[<< i, g[i - 1] >>]
        BY <2>1, <4>1
      <4>3. i # a => f[i - 1] = g[i - 1]
        BY <4>1
      <4>. QED BY <4>1, <4>2, <4>3
    <3>2. CASE i = m
      <4>1. m - 1 \in a .. m /\ m - 1 < m /\ m # a
        OBVIOUS
      <4>2. f[m - 1] = g[m - 1] /\ f[i] = step[<< m, g[m - 1] >>]
        BY <3>2, <4>1
      <4>. QED BY <3>2, <4>1, <4>2
    <3>. QED BY <3>1, <3>2
  <2>5. f = [i \in a .. m |-> IF i = a THEN base ELSE step[<< i, f[i - 1] >>]]
    BY <2>4
  <2>6. Fits(f, m)
    BY <2>3, <2>5
  <2>. HIDE DEF Fits, f
  <2>. QED BY <2>6
<1>3. n \in S
  <2>. HIDE DEF S
  <2>1. a .. n \subseteq S
    BY <1>1, <1>2, Climb
  <2>. QED BY <2>1
<1>. QED BY <1>3 DEF IsRecursive

-----------------------------------------------------------------------------
(* The frames in a list *)

LEMMA UptoIs ==
  ASSUME NEW list, NEW n, NEW i, NEW f
  PROVE  f \in Upto(list, n, i) <=>
           \E m \in DOMAIN list : /\ m <= n /\ list[m].type = "inputs" /\ list[m].index = i
                                  /\ f \in Covers(list[m])
BY DEF Upto

(* Lists that agree so far have the same frames so far. *)
LEMMA UptoSame ==
  ASSUME NEW list, NEW other, NEW n \in Int, NEW i,
         \A m \in 1 .. n : (m \in DOMAIN list <=> m \in DOMAIN other) /\ list[m] = other[m],
         DOMAIN list \subseteq Nat \ {0}, DOMAIN other \subseteq Nat \ {0}
  PROVE  Upto(list, n, i) = Upto(other, n, i)
<1>1. ASSUME NEW f PROVE f \in Upto(list, n, i) <=> f \in Upto(other, n, i)
  <2>1. \A m \in DOMAIN list \cup DOMAIN other : m <= n => m \in 1 .. n
    OBVIOUS
  <2>. QED BY <2>1, UptoIs
<1>. QED BY <1>1

LEMMA UptoGrows ==
  ASSUME NEW list, DOMAIN list \subseteq Nat, NEW m \in Int, NEW n \in Int, m <= n, NEW i
  PROVE  Upto(list, m, i) \subseteq Upto(list, n, i)
<1>1. ASSUME NEW f \in Upto(list, m, i) PROVE f \in Upto(list, n, i)
  <2>1. PICK k \in DOMAIN list : /\ k <= m /\ list[k].type = "inputs" /\ list[k].index = i
                                 /\ f \in Covers(list[k])
    BY UptoIs
  <2>2. k <= n
    BY <2>1
  <2>. QED BY <2>1, <2>2, UptoIs
<1>. QED BY <1>1

(* One message more. *)
LEMMA AppendedFrames ==
  ASSUME NEW S, NEW list \in Seq(S), NEW msg \in S, NEW i
  PROVE  AllOf(Append(list, msg), i) =
           AllOf(list, i) \cup IF msg.type = "inputs" /\ msg.index = i THEN Covers(msg) ELSE {}
<1>. DEFINE new == Append(list, msg)
<1>1. /\ Len(new) = Len(list) + 1 /\ Len(list) \in Nat
      /\ DOMAIN new = 1 .. Len(list) + 1 /\ DOMAIN list = 1 .. Len(list)
      /\ \A m \in 1 .. Len(list) : new[m] = list[m]
      /\ new[Len(list) + 1] = msg
  OBVIOUS
<1>. HIDE DEF new
<1>2. ASSUME NEW f
      PROVE  f \in Upto(new, Len(new), i) <=>
               \/ f \in Upto(list, Len(list), i)
               \/ msg.type = "inputs" /\ msg.index = i /\ f \in Covers(msg)
  <2>1. f \in Upto(new, Len(new), i) <=>
          \E m \in 1 .. Len(list) + 1 :
            new[m].type = "inputs" /\ new[m].index = i /\ f \in Covers(new[m])
    BY <1>1, UptoIs
  <2>2. f \in Upto(list, Len(list), i) <=>
          \E m \in 1 .. Len(list) :
            list[m].type = "inputs" /\ list[m].index = i /\ f \in Covers(list[m])
    BY <1>1, UptoIs
  <2>. QED BY <1>1, <2>1, <2>2
<1>. QED BY <1>2 DEF AllOf, new

LEMMA BatchFields ==
  ASSUME NEW b \in Batches
  PROVE  /\ b.type = "inputs" /\ b.index \in Indices /\ b.start \in Nat /\ b.end \in Nat
         /\ Covers(b) = b.start .. b.end - 1
BY DEF Batches, Covers

-----------------------------------------------------------------------------
(* The archive *)

LEMMA Bounds ==
  /\ Last \in Nat /\ Window \in Nat /\ Window > 0
  /\ Lag \in Nat /\ MaxPulls \in Nat /\ MaxPulls > 0
  /\ Buffer \in Nat /\ Delay \in Nat /\ Rollback \in Nat
  /\ Burst \in Nat /\ PerTick \in Nat /\ LiveTail \in Nat
  /\ \A i \in Indices : i \in Nat /\ i <= Last
  /\ \A i \in Nat : i <= Last => i \in Indices
BY SpectateAssumption DEF Last, Indices

(* One batch more that joins what is there. *)
LEMMA BatchJoins ==
  ASSUME NEW list \in Seq(Batches), NEW p \in PosType, Sound(p, list),
         NEW b \in Batches, b.index = p.index, Joins(b, AllOf(list, p.index)),
         \A q \in Players : b.end <= end[q][p.index], end \in [Players -> [Indices -> Nat]]
  PROVE  LET new == Append(list, b)
         IN  /\ new \in Seq(Batches)
             /\ \A n \in DOMAIN new : new[n].index <= p.index
             /\ Ordered(new) /\ Linked(new)
             /\ \A i \in Indices : IsPrefix(AllOf(new, i))
             /\ \A i \in Indices : \A f \in AllOf(new, i) : \A q \in Players : f < end[q][i]
             /\ AllOf(new, p.index) = AllOf(list, p.index) \cup Covers(b)
<1>. DEFINE new == Append(list, b)
<1>1. /\ new \in Seq(Batches) /\ Len(new) = Len(list) + 1 /\ Len(list) \in Nat
      /\ DOMAIN new = 1 .. Len(list) + 1 /\ DOMAIN list = 1 .. Len(list)
      /\ \A n \in 1 .. Len(list) : new[n] = list[n] /\ list[n] \in Batches
      /\ new[Len(list) + 1] = b
  OBVIOUS
<1>2. p.index \in Nat /\ p.index \in Indices /\ p.frame \in Nat
  BY Bounds DEF PosType
<1>3. \A i : AllOf(new, i) = AllOf(list, i) \cup IF i = p.index THEN Covers(b) ELSE {}
  BY AppendedFrames, BatchFields
<1>. HIDE DEF new
<1>4. \A n \in DOMAIN new : new[n].index <= p.index /\ new[n].index \in Nat
  BY <1>1, <1>2, BatchFields, Bounds DEF Sound
<1>5. Ordered(new)
  <2>1. ASSUME NEW m \in DOMAIN new, NEW n \in DOMAIN new, m <= n
        PROVE  new[m].index <= new[n].index
    <3>1. CASE n = Len(list) + 1
      BY <1>1, <1>4, <3>1
    <3>2. CASE n # Len(list) + 1
      BY <1>1, <2>1, <3>2 DEF Sound, Ordered
    <3>. QED BY <3>1, <3>2
  <2>. QED BY <2>1 DEF Ordered
<1>6. Linked(new)
  <2>1. ASSUME NEW n \in DOMAIN new PROVE Joins(new[n], Upto(new, n - 1, new[n].index))
    <3>1. n - 1 \in Int /\ Upto(new, n - 1, new[n].index) = Upto(list, n - 1, new[n].index)
      <4>1. \A m \in 1 .. n - 1 : m \in DOMAIN list /\ m \in DOMAIN new /\ list[m] = new[m]
        BY <1>1
      <4>. QED
        <5>1. DOMAIN list \subseteq Nat \ {0} /\ DOMAIN new \subseteq Nat \ {0} /\ n - 1 \in Int
          BY <1>1
        <5>. QED BY <4>1, <5>1, UptoSame
    <3>2. CASE n = Len(list) + 1
      <4>1. n - 1 = Len(list) /\ new[n] = b
        BY <1>1, <3>2
      <4>. QED BY <3>1, <4>1 DEF AllOf
    <3>3. CASE n # Len(list) + 1
      BY <1>1, <3>1, <3>3 DEF Sound, Linked
    <3>. QED BY <3>2, <3>3
  <2>. QED BY <2>1 DEF Linked
<1>7. ASSUME NEW i \in Indices PROVE IsPrefix(AllOf(new, i))
  <2>1. IsPrefix(AllOf(list, i))
    BY DEF Sound
  <2>2. CASE i # p.index
    BY <1>3, <2>1, <2>2
  <2>3. CASE i = p.index
    <3>1. AllOf(list, i) = 0 .. p.frame - Window /\ p.frame - Window \in Int
      BY <1>2, <2>3, Bounds DEF Sound
    <3>2. b.start = 0 \/ b.start - 1 <= p.frame - Window
      BY <2>3, <3>1, BatchFields DEF Joins
    <3>3. AllOf(new, i) = (0 .. p.frame - Window) \cup (b.start .. b.end - 1)
      BY <1>3, <2>3, <3>1, BatchFields
    <3>. QED BY <3>1, <3>2, <3>3, BatchFields DEF IsPrefix
  <2>. QED BY <2>2, <2>3
<1>8. ASSUME NEW i \in Indices, NEW f \in AllOf(new, i), NEW q \in Players
      PROVE  f < end[q][i]
  <2>1. CASE f \in AllOf(list, i)
    BY <2>1 DEF Sound
  <2>2. CASE i = p.index /\ f \in Covers(b)
    <3>1. f \in b.start .. b.end - 1 /\ b.start \in Nat /\ b.end \in Nat
      BY <2>2, BatchFields
    <3>2. b.end <= end[q][i] /\ end[q][i] \in Nat
      BY <2>2
    <3>. QED BY <3>1, <3>2
  <2>. QED BY <1>3, <2>1, <2>2
<1>. QED BY <1>1, <1>3, <1>4, <1>5, <1>6, <1>7, <1>8 DEF new

LEMMA SafeEndIs ==
  ASSUME TypeOK, NEW i \in Indices, start <= i
  PROVE  /\ SafeEnd(i) \in Nat
         /\ \A q \in Players : SafeEnd(i) <= end[q][i]
         /\ i < index => SafeEnd(i) = Smaller(end["host"][i], end["client"][i])
<1>. DEFINE behind == IF i < index THEN 0
                      ELSE Lag + IF StateOf(i) = "InGame" /\ Rollback > 0 THEN 2 * Window ELSE 0
            common == CommonEnd(i)
<1>1. behind \in Nat /\ (i < index => behind = 0)
  BY Bounds
<1>2. end["host"][i] \in Nat /\ end["client"][i] \in Nat
  BY DEF TypeOK, Players
<1>3. start \in Nat /\ i \in Nat
  BY Bounds DEF TypeOK
<1>4. common = Smaller(end["host"][i], end["client"][i])
  BY <1>3 DEF CommonEnd
<1>5. common \in Nat /\ common <= end["host"][i] /\ common <= end["client"][i]
  BY <1>2, <1>4 DEF Smaller
<1>6. SafeEnd(i) = IF common > behind THEN common - behind ELSE 0
  BY DEF SafeEnd
<1>. HIDE DEF behind, common
<1>7. SafeEnd(i) \in Nat /\ SafeEnd(i) <= common
  BY <1>1, <1>5, <1>6
<1>8. \A q \in Players : SafeEnd(i) <= end[q][i]
  BY <1>2, <1>5, <1>7 DEF Players
<1>9. i < index => SafeEnd(i) = common
  BY <1>1, <1>5, <1>6
<1>. QED BY <1>4, <1>7, <1>8, <1>9

LEMMA BatchIs ==
  ASSUME NEW i \in Indices, NEW f \in Nat
  PROVE  /\ Batch(i, f) \in Batches
         /\ Batch(i, f).type = "inputs" /\ Batch(i, f).index = i /\ Batch(i, f).end = f + 1
         /\ Batch(i, f).start = 0 \/ Batch(i, f).start = f + 1 - Window
         /\ f + 1 < Window => Batch(i, f).start = 0
BY Bounds DEF Batch, Batches

(* What a pull leaves: a longer archive, still sound, and nothing left in an index that *)
(* the cursor leaves.                                                                   *)
Pulled(p, list, next, got) ==
  /\ next \in PosType /\ p.index <= next.index /\ next.index <= index
  /\ got \in Seq(Batches)
  /\ \A n \in DOMAIN got : p.index <= got[n].index
  /\ Sound(next, list \o got)
  /\ \A i \in Indices : AllOf(list, i) \subseteq AllOf(list \o got, i)
  /\ \A i \in Indices : p.index <= i /\ i < next.index =>
       0 .. Smaller(end["host"][i], end["client"][i]) - 1 \subseteq AllOf(list \o got, i)

LEMMA PullSound ==
  ASSUME TypeOK, NEW list \in Seq(Batches), NEW p \in PosType, p.index <= index,
         start <= p.index, Sound(p, list)
  PROVE  Pulled(p, list, Pull(p).pos, Pull(p).got)
<1>. DEFINE safe == SafeEnd(p.index)
<1>1. /\ p.index \in Indices /\ p.index \in Nat /\ p.frame \in Nat
      /\ index \in Indices /\ index \in Nat
      /\ end \in [Players -> [Indices -> Nat]]
  BY Bounds DEF PosType, TypeOK
<1>2. /\ safe \in Nat /\ \A q \in Players : safe <= end[q][p.index]
      /\ p.index < index => safe = Smaller(end["host"][p.index], end["client"][p.index])
  BY <1>1, SafeEndIs
<1>3. list \o << >> = list /\ \A b \in Batches : list \o << b >> = Append(list, b)
  OBVIOUS
<1>4. \A i : \A b \in Batches : AllOf(list, i) \subseteq AllOf(Append(list, b), i)
  BY AppendedFrames
<1>5. AllOf(list, p.index) = 0 .. p.frame - Window
  BY DEF Sound
<1>6. ~ p.index > index
  BY <1>1
<1>7. CASE p.frame + 1 <= safe
  <2>. DEFINE b == Batch(p.index, p.frame)
              next == [p EXCEPT !.frame = @ + Window]
  <2>1. Pull(p).pos = next /\ Pull(p).got = << b >>
    BY <1>6, <1>7 DEF Pull
  <2>2. next \in PosType /\ next.index = p.index /\ next.frame = p.frame + Window
    <3>1. next = [index |-> p.index, frame |-> p.frame + Window]
      BY DEF PosType
    <3>. HIDE DEF next
    <3>. QED BY <1>1, <3>1, Bounds DEF PosType
  <2>3. /\ b \in Batches /\ b.index = p.index /\ b.end = p.frame + 1
        /\ b.start = 0 \/ b.start = p.frame + 1 - Window
    BY <1>1, BatchIs
  <2>. HIDE DEF b, next
  <2>4. Joins(b, AllOf(list, p.index))
    BY <1>1, <1>5, <2>3, Bounds, BatchFields DEF Joins
  <2>5. \A q \in Players : b.end <= end[q][p.index]
    BY <1>1, <1>2, <1>7, <2>3
  <2>. DEFINE new == Append(list, b)
  <2>6. /\ new \in Seq(Batches)
        /\ \A n \in DOMAIN new : new[n].index <= p.index
        /\ Ordered(new) /\ Linked(new)
        /\ \A i \in Indices : IsPrefix(AllOf(new, i))
        /\ \A i \in Indices : \A f \in AllOf(new, i) : \A q \in Players : f < end[q][i]
        /\ AllOf(new, p.index) = AllOf(list, p.index) \cup Covers(b)
    BY <1>1, <2>3, <2>4, <2>5, BatchJoins
  <2>. HIDE DEF new
  <2>7. AllOf(new, p.index) = 0 .. next.frame - Window
    <3>1. b.start \in Nat /\ Covers(b) = b.start .. p.frame
      BY <1>1, <2>3, BatchFields
    <3>2. next.frame - Window = p.frame
      BY <1>1, <2>2, Bounds
    <3>. QED BY <1>1, <1>5, <2>3, <2>6, <3>1, <3>2, Bounds
  <2>8. Sound(next, new)
    BY <2>2, <2>6, <2>7 DEF Sound
  <2>9. << b >> \in Seq(Batches) /\ \A n \in DOMAIN << b >> : << b >>[n].index = p.index
    BY <2>3
  <2>10. list \o << b >> = new
    BY <1>3, <2>3 DEF new
  <2>11. \A i \in Indices : AllOf(list, i) \subseteq AllOf(new, i)
    BY <1>4, <2>3 DEF new
  <2>12. \A i \in Indices : ~ (p.index <= i /\ i < next.index)
    BY <1>1, <2>2, Bounds
  <2>13. \A n \in DOMAIN << b >> : p.index <= << b >>[n].index
    BY <1>1, <2>9
  <2>14. p.index <= next.index /\ next.index <= index
    BY <1>1, <2>2
  <2>15. Pulled(p, list, next, << b >>)
    BY <2>2, <2>8, <2>9, <2>10, <2>11, <2>12, <2>13, <2>14 DEF Pulled
  <2>. QED BY <2>1, <2>15
<1>8. CASE ~ p.frame + 1 <= safe /\ p.index = index
  <2>1. Pull(p) = [pos |-> p, got |-> << >>]
    BY <1>6, <1>8 DEF Pull
  <2>2. << >> \in Seq(Batches) /\ DOMAIN << >> = {}
    OBVIOUS
  <2>3. \A i \in Indices : ~ (p.index <= i /\ i < p.index)
    BY <1>1, Bounds
  <2>4. Pull(p).pos = p /\ Pull(p).got = << >>
    BY <2>1
  <2>5. list \o << >> = list
    BY <1>3
  <2>6. Pulled(p, list, p, << >>)
    BY <1>1, <2>2, <2>3, <2>5 DEF Pulled
  <2>. QED BY <2>4, <2>6
<1>9. CASE ~ p.frame + 1 <= safe /\ p.index < index
  <2>. DEFINE next == [index |-> p.index + 1, frame |-> Window - 1]
  <2>1. next \in PosType /\ next.index = p.index + 1 /\ next.frame = Window - 1
        /\ next.index <= index
    BY <1>1, <1>9, Bounds DEF PosType
  <2>2. \A n \in DOMAIN list : list[n].index <= p.index /\ list[n].index \in Nat
    BY Bounds, BatchFields DEF Sound
  <2>3. Pull(p) = [pos |-> next, got |-> IF safe = 0 THEN << >>
                                         ELSE << Batch(p.index, safe - 1) >>]
    BY <1>1, <1>6, <1>9 DEF Pull
  <2>4. Pull(p).pos = next /\ Pull(p).got = IF safe = 0 THEN << >>
                                            ELSE << Batch(p.index, safe - 1) >>
    BY <2>3
  <2>5. \A i \in Indices : p.index <= i /\ i < next.index => i = p.index
    BY <1>1, <2>1, Bounds
  <2>. HIDE DEF next
  <2>6. CASE safe = 0
    <3>1. AllOf(list, next.index) = 0 .. next.frame - Window
      <4>1. ASSUME NEW f PROVE f \notin AllOf(list, next.index)
        BY <1>1, <2>1, <2>2, UptoIs DEF AllOf
      <4>2. 0 .. next.frame - Window = {}
        BY <2>1, Bounds
      <4>. QED BY <4>1, <4>2
    <3>2. Sound(next, list)
      <4>1. \A n \in DOMAIN list : list[n].index <= next.index
        BY <1>1, <2>1, <2>2
      <4>. QED BY <3>1, <4>1 DEF Sound
    <3>3. << >> \in Seq(Batches) /\ DOMAIN << >> = {}
      OBVIOUS
    <3>4. 0 .. Smaller(end["host"][p.index], end["client"][p.index]) - 1 = {}
      BY <1>2, <1>9, <2>6
    <3>. QED BY <1>1, <1>3, <2>1, <2>4, <2>5, <2>6, <3>2, <3>3, <3>4 DEF Pulled
  <2>7. CASE safe # 0
    <3>. DEFINE b == Batch(p.index, safe - 1)
                new == Append(list, b)
    <3>. HIDE DEF safe
    <3>0. safe - 1 \in Nat /\ (safe - 1) + 1 = safe
      BY <1>2, <2>7
    <3>1. /\ b \in Batches /\ b.index = p.index /\ b.end = safe
          /\ b.start = 0 \/ b.start = safe - Window
          /\ safe < Window => b.start = 0
      <4>1. /\ b \in Batches /\ b.index = p.index /\ b.end = (safe - 1) + 1
            /\ b.start = 0 \/ b.start = (safe - 1) + 1 - Window
            /\ (safe - 1) + 1 < Window => b.start = 0
        BY <1>1, <3>0, BatchIs
      <4>. QED BY <1>2, <3>0, <4>1, Bounds
    <3>. HIDE DEF b
    <3>2. b.start = 0 \/ b.start - 1 \in 0 .. p.frame - Window
      <4>1. b.start \in Nat
        BY <3>1, BatchFields
      <4>2. safe <= p.frame
        BY <1>1, <1>2, <1>9
      <4>. HIDE DEF b
      <4>. QED BY <1>1, <1>2, <3>1, <4>1, <4>2, Bounds
    <3>3. Joins(b, AllOf(list, p.index))
      BY <1>5, <3>2 DEF Joins
    <3>4. /\ new \in Seq(Batches)
          /\ \A n \in DOMAIN new : new[n].index <= p.index
          /\ Ordered(new) /\ Linked(new)
          /\ \A i \in Indices : IsPrefix(AllOf(new, i))
          /\ \A i \in Indices : \A f \in AllOf(new, i) : \A q \in Players : f < end[q][i]
          /\ AllOf(new, p.index) = AllOf(list, p.index) \cup Covers(b)
      BY <1>1, <1>2, <3>1, <3>3, BatchJoins
    <3>5. list \o << b >> = new /\ \A i \in Indices : AllOf(list, i) \subseteq AllOf(new, i)
      BY <1>3, <1>4, <3>1
    <3>. HIDE DEF new
    <3>6. AllOf(new, next.index) = 0 .. next.frame - Window
      <4>1. \A n \in DOMAIN new : new[n].index \in Nat
        BY <3>4, Bounds, BatchFields
      <4>2. ASSUME NEW f PROVE f \notin AllOf(new, next.index)
        BY <1>1, <2>1, <3>4, <4>1, UptoIs DEF AllOf
      <4>3. 0 .. next.frame - Window = {}
        BY <2>1, Bounds
      <4>. QED BY <4>2, <4>3
    <3>7. Sound(next, new)
      <4>1. \A n \in DOMAIN new : new[n].index <= next.index
        <5>1. \A n \in DOMAIN new : new[n].index \in Nat
          BY <3>4, Bounds, BatchFields
        <5>. QED BY <1>1, <2>1, <3>4, <5>1
      <4>. QED BY <3>4, <3>6, <4>1 DEF Sound
    <3>8. 0 .. safe - 1 \subseteq AllOf(new, p.index)
      <4>1. Covers(b) = b.start .. safe - 1 /\ b.start \in Nat
        BY <3>1, BatchFields
      <4>2. AllOf(new, p.index) = (0 .. p.frame - Window) \cup (b.start .. safe - 1)
        BY <1>5, <3>4, <4>1
      <4>. QED BY <1>1, <1>2, <3>2, <4>1, <4>2, Bounds
    <3>9. << b >> \in Seq(Batches) /\ \A n \in DOMAIN << b >> : << b >>[n].index = p.index
      BY <3>1
    <3>10. Pull(p).got = << b >>
      BY <2>4, <2>7 DEF b
    <3>11. \A i \in Indices : p.index <= i /\ i < next.index =>
             0 .. Smaller(end["host"][i], end["client"][i]) - 1 \subseteq AllOf(new, i)
      BY <1>2, <1>9, <2>5, <3>8
    <3>12. \A n \in DOMAIN << b >> : p.index <= << b >>[n].index
      BY <1>1, <3>9
    <3>13. p.index <= next.index /\ next.index <= index
      BY <1>1, <2>1
    <3>14. Pulled(p, list, next, << b >>)
      <4>. HIDE DEF b
      <4>. QED BY <2>1, <3>5, <3>7, <3>9, <3>11, <3>12, <3>13 DEF Pulled
    <3>. QED BY <2>4, <3>10, <3>14
  <2>. QED BY <2>6, <2>7
<1>. QED BY <1>1, <1>7, <1>8, <1>9

LEMMA PulledTwice ==
  ASSUME NEW p, NEW list \in Seq(Batches), NEW q, NEW got \in Seq(Batches),
         NEW r, NEW more \in Seq(Batches),
         p \in PosType, Pulled(p, list, q, got), Pulled(q, list \o got, r, more), index \in Nat
  PROVE  Pulled(p, list, r, got \o more)
<1>. DEFINE both == got \o more
<1>1. both \in Seq(Batches) /\ list \o both = (list \o got) \o more
  BY ConcatAssociative
<1>2. /\ DOMAIN both = 1 .. Len(got) + Len(more) /\ Len(got) \in Nat /\ Len(more) \in Nat
      /\ \A n \in DOMAIN both : both[n] = IF n <= Len(got) THEN got[n] ELSE more[n - Len(got)]
  OBVIOUS
<1>. HIDE DEF both
<1>3. p.index \in Nat /\ q.index \in Nat /\ r.index \in Nat
  BY Bounds DEF Pulled, PosType
<1>4. ASSUME NEW n \in DOMAIN both PROVE p.index <= both[n].index
  <2>1. CASE n <= Len(got)
    <3>1. n \in DOMAIN got
      BY <1>2, <2>1
    <3>. QED BY <1>2, <2>1, <3>1 DEF Pulled
  <2>2. CASE ~ n <= Len(got)
    <3>1. n - Len(got) \in DOMAIN more /\ both[n] = more[n - Len(got)]
      BY <1>2, <2>2
    <3>2. q.index <= more[n - Len(got)].index /\ p.index <= q.index
      BY <3>1 DEF Pulled
    <3>3. more[n - Len(got)].index \in Nat
      BY <3>1, BatchFields, Bounds
    <3>. QED BY <1>3, <3>1, <3>2, <3>3
  <2>. QED BY <2>1, <2>2
<1>5. \A i \in Indices : /\ AllOf(list, i) \subseteq AllOf(list \o got, i)
                         /\ AllOf(list \o got, i) \subseteq AllOf(list \o both, i)
  BY <1>1 DEF Pulled
<1>6. ASSUME NEW i \in Indices, p.index <= i, i < r.index
      PROVE  0 .. Smaller(end["host"][i], end["client"][i]) - 1 \subseteq AllOf(list \o both, i)
  <2>1. CASE i < q.index
    BY <1>5, <1>6, <2>1 DEF Pulled
  <2>2. CASE ~ i < q.index
    <3>1. q.index <= i
      BY <1>3, <2>2, Bounds
    <3>. QED BY <1>1, <1>6, <3>1 DEF Pulled
  <2>. QED BY <2>1, <2>2
<1>7. r \in PosType /\ p.index <= r.index /\ r.index <= index /\ Sound(r, list \o both)
  BY <1>1, <1>3 DEF Pulled
<1>. QED BY <1>1, <1>4, <1>5, <1>6, <1>7 DEF Pulled, both

(* archiveStep leaves a sound archive, and nothing of the indices it has done with. *)
LEMMA WalkSound ==
  ASSUME HostInv
  PROVE  Pulled(pos, archive, Walk.pos, Walk.got)
<1>. DEFINE D == {x \in [pos : PosType, got : Seq(Batches), more : BOOLEAN] :
                    Pulled(pos, archive, x.pos, x.got)}
            Step(x) == IF ~ x.more THEN x
                       ELSE [pos |-> Pull(x.pos).pos, got |-> x.got \o Pull(x.pos).got,
                             more |-> Pull(x.pos).got # << >>]
            first == [pos |-> pos, got |-> << >>, more |-> TRUE]
            step == [y \in (1 .. MaxPulls) \X D |-> Step(y[2])]
            Fits(f) == f = [n \in 0 .. MaxPulls |-> IF n = 0 THEN first ELSE Step(f[n - 1])]
            walk == CHOOSE f : Fits(f)
<1>1. /\ TypeOK /\ pos \in PosType /\ start <= pos.index /\ Sound(pos, archive)
      /\ archive \in Seq(Batches) /\ index \in Nat /\ start \in Nat /\ pos.index \in Nat
      /\ pos.index <= index /\ MaxPulls \in Nat
  <2>1. TypeOK /\ pos \in PosType /\ start <= pos.index /\ Sound(pos, archive)
    BY DEF HostInv, NothingUnreadErased
  <2>2. /\ archive \in Seq(Batches) /\ index \in Indices /\ start \in Indices
        /\ pos.index \in 0 .. index
    BY <2>1 DEF TypeOK
  <2>. QED BY <2>1, <2>2, Bounds
<1>2. first \in D
  <2>1. << >> \in Seq(Batches) /\ archive \o << >> = archive /\ DOMAIN << >> = {}
    BY <1>1
  <2>2. Pulled(pos, archive, pos, << >>)
    BY <1>1, <2>1, Bounds DEF Pulled
  <2>. QED BY <1>1, <2>1, <2>2
<1>3. ASSUME NEW x \in D PROVE Step(x) \in D
  <2>1. CASE ~ x.more
    BY <2>1
  <2>2. CASE x.more
    <3>1. x.pos \in PosType /\ x.got \in Seq(Batches) /\ Pulled(pos, archive, x.pos, x.got)
      OBVIOUS
    <3>2. x.pos.index \in Nat /\ start <= x.pos.index /\ x.pos.index <= index
          /\ Sound(x.pos, archive \o x.got) /\ archive \o x.got \in Seq(Batches)
      BY <1>1, <3>1, Bounds DEF Pulled, PosType
    <3>. DEFINE next == Pull(x.pos).pos
                more == Pull(x.pos).got
    <3>3. Pulled(x.pos, archive \o x.got, next, more)
      BY <1>1, <3>1, <3>2, PullSound
    <3>4. more \in Seq(Batches) /\ next \in PosType
      BY <3>3 DEF Pulled
    <3>. HIDE DEF next, more
    <3>5. Pulled(pos, archive, next, x.got \o more)
      BY <1>1, <3>1, <3>3, <3>4, PulledTwice
    <3>6. x.got \o more \in Seq(Batches)
      BY <3>1, <3>4
    <3>7. [pos |-> next, got |-> x.got \o more, more |-> more # << >>] \in D
      BY <3>4, <3>5, <3>6
    <3>. QED BY <2>2, <3>7 DEF next, more
  <2>. QED BY <2>1, <2>2
<1>4. Walk = walk[MaxPulls]
  BY DEF Walk
<1>. HIDE DEF D, Step, first
<1>5. step \in [(0 + 1 .. MaxPulls) \X D -> D]
  BY <1>3
<1>6. \E f : Fits(f)
  <2>1. 0 \in Int /\ MaxPulls \in Int /\ 0 <= MaxPulls
    BY <1>1
  <2>. HIDE DEF step
  <2>2. PICK f \in [0 .. MaxPulls -> D] :
          f = [n \in 0 .. MaxPulls |-> IF n = 0 THEN first ELSE step[<< n, f[n - 1] >>]]
    <3>. DEFINE a == 0
    <3>1. a \in Int /\ a <= MaxPulls /\ step \in [(a + 1 .. MaxPulls) \X D -> D]
      BY <1>5, <2>1
    <3>. HIDE DEF a
    <3>2. \E f \in [a .. MaxPulls -> D] : IsRecursive(f, a, MaxPulls, first, step)
      BY <1>2, <2>1, <3>1, RecursionExists
    <3>. QED BY <3>2 DEF a, IsRecursive
  <2>3. ASSUME NEW n \in 0 .. MaxPulls
        PROVE  f[n] = IF n = 0 THEN first ELSE Step(f[n - 1])
    <3>1. CASE n = 0
      BY <2>2, <3>1
    <3>2. CASE n # 0
      <4>1. n \in 1 .. MaxPulls /\ n - 1 \in 0 .. MaxPulls
        BY <1>1, <3>2
      <4>2. f[n] = step[<< n, f[n - 1] >>] /\ << n, f[n - 1] >> \in (1 .. MaxPulls) \X D
        BY <2>2, <3>2, <4>1
      <4>3. step[<< n, f[n - 1] >>] = Step(f[n - 1])
        BY <4>2 DEF step
      <4>. QED BY <3>2, <4>2, <4>3
    <3>. QED BY <3>1, <3>2
  <2>4. Fits(f)
    BY <2>2, <2>3
  <2>. HIDE DEF Fits
  <2>. QED BY <2>4
<1>7. walk = [n \in 0 .. MaxPulls |-> IF n = 0 THEN first ELSE Step(walk[n - 1])]
  <2>. HIDE DEF Fits
  <2>1. Fits(walk)
    BY <1>6
  <2>. QED BY <2>1 DEF Fits
<1>. HIDE DEF walk
<1>. DEFINE S == {n \in 0 .. MaxPulls : walk[n] \in D}
<1>8. 0 \in S
  BY <1>1, <1>2, <1>7
<1>9. \A n \in 0 + 1 .. MaxPulls : n - 1 \in S => n \in S
  BY <1>1, <1>3, <1>7
<1>10. MaxPulls \in S
  <2>. HIDE DEF S
  <2>1. 0 .. MaxPulls \subseteq S
    <3>1. 0 \in Int /\ MaxPulls \in Int
      BY <1>1
    <3>. QED BY <1>8, <1>9, <3>1, Climb
  <2>. QED BY <1>1, <2>1
<1>. QED BY <1>4, <1>10 DEF D

-----------------------------------------------------------------------------
(* What is sent *)

LEMMA ServingIs ==
  ASSUME archive' \in Seq(Batches), NEW from \in 0 .. Len(archive')
  PROVE  \E to \in from .. Len(archive') :
           /\ Serving(from) = SubSeq(archive', from + 1, to)
           /\ Serving(from) \in Seq(Batches) /\ Len(Serving(from)) = to - from
           /\ \A k \in 1 .. to - from : Serving(from)[k] = archive'[from + k]
<1>. DEFINE backlog == Len(archive') - from
            budget == IF backlog > LiveTail THEN Burst ELSE PerTick
            to == from + Smaller(budget, backlog)
<1>1. budget \in Nat /\ backlog \in Nat /\ Len(archive') \in Nat /\ from \in Nat
      /\ from + backlog = Len(archive')
  BY Bounds
<1>2. Serving(from) = SubSeq(archive', from + 1, to)
  BY DEF Serving
<1>. HIDE DEF backlog, budget
<1>3. to \in from .. Len(archive')
  BY <1>1 DEF Smaller
<1>. HIDE DEF to
<1>4. /\ SubSeq(archive', from + 1, to) \in Seq(Batches)
      /\ Len(SubSeq(archive', from + 1, to)) = to - from
      /\ \A k \in 1 .. to - from : SubSeq(archive', from + 1, to)[k] = archive'[from + k]
  BY <1>1, <1>3
<1>. QED BY <1>2, <1>3, <1>4

Controls(indices) == {Control(i) : i \in indices}

LEMMA ControlFields ==
  ASSUME NEW i
  PROVE  Control(i).type = "control" /\ Control(i).index = i
BY DEF Control

LEMMA ControlHistoryIs ==
  ASSUME NEW indices \in SUBSET Indices
  PROVE  /\ ControlHistory(indices) \in Seq(Controls(indices))
         /\ \A i \in indices : \E n \in DOMAIN ControlHistory(indices) :
              ControlHistory(indices)[n] = Control(i)
<1>. DEFINE D == Seq(Controls(indices))
            Step(i, s) == s \o IF i \in indices THEN << Control(i) >> ELSE << >>
            Fits(f) == f = [i \in -1 .. Last |-> IF i = -1 THEN << >> ELSE Step(i, f[i - 1])]
            list == CHOOSE f : Fits(f)
            step == [y \in (0 .. Last) \X D |-> Step(y[1], y[2])]
<1>1. Last \in Nat /\ -1 \in Int /\ Last \in Int /\ -1 <= Last
  BY Bounds
<1>2. ControlHistory(indices) = list[Last]
  BY DEF ControlHistory
<1>3. << >> \in D
  OBVIOUS
<1>4. ASSUME NEW s \in D, NEW i \in 0 .. Last PROVE Step(i, s) \in D
  <2>1. CASE i \in indices
    <3>1. << Control(i) >> \in D
      BY <2>1 DEF Controls
    <3>. QED BY <2>1, <3>1
  <2>2. CASE i \notin indices
    BY <2>2
  <2>. QED BY <2>1, <2>2
<1>5. \E f : Fits(f)
  <2>. DEFINE a == -1
  <2>1. a \in Int /\ a <= Last /\ step \in [(a + 1 .. Last) \X D -> D]
    <3>1. a + 1 .. Last = 0 .. Last
      BY <1>1
    <3>2. \A y \in (0 .. Last) \X D : step[y] \in D
      <4>. HIDE DEF D, Step
      <4>. QED BY <1>4
    <3>. HIDE DEF D, Step
    <3>. QED BY <1>1, <3>1, <3>2
  <2>. HIDE DEF step, D, a, Step
  <2>2. PICK f \in [a .. Last -> D] : IsRecursive(f, a, Last, << >>, step)
    BY <1>1, <1>3, <2>1, RecursionExists
  <2>3. ASSUME NEW i \in -1 .. Last
        PROVE  f[i] = IF i = -1 THEN << >> ELSE Step(i, f[i - 1])
    <3>1. CASE i = -1
      BY <2>2, <3>1 DEF IsRecursive, a
    <3>2. CASE i # -1
      <4>1. i \in 0 .. Last /\ i - 1 \in -1 .. Last
        BY <1>1, <3>2
      <4>2. f[i] = step[<< i, f[i - 1] >>] /\ << i, f[i - 1] >> \in (0 .. Last) \X D
        BY <2>2, <3>2, <4>1 DEF IsRecursive, a
      <4>. QED BY <3>2, <4>2 DEF step
    <3>. QED BY <3>1, <3>2
  <2>4. f = [i \in -1 .. Last |-> IF i = -1 THEN << >> ELSE Step(i, f[i - 1])]
    BY <2>2, <2>3 DEF IsRecursive, a
  <2>. QED BY <2>4
<1>6. /\ list[-1] = << >>
      /\ \A i \in 0 .. Last : list[i] = Step(i, list[i - 1])
  <2>. HIDE DEF Fits
  <2>1. Fits(list)
    BY <1>5
  <2>. HIDE DEF list, Step
  <2>2. list = [i \in -1 .. Last |-> IF i = -1 THEN << >> ELSE Step(i, list[i - 1])]
    BY <2>1 DEF Fits
  <2>. QED BY <1>1, <2>2
<1>. HIDE DEF list
<1>. DEFINE Has_(s, i) == \A j \in indices : j <= i => \E n \in DOMAIN s : s[n] = Control(j)
            S == {i \in -1 .. Last : list[i] \in D /\ Has_(list[i], i)}
<1>7. -1 \in S
  <2>1. \A j \in indices : ~ j <= -1
    BY Bounds
  <2>2. list[-1] \in D /\ -1 \in -1 .. Last
    BY <1>1, <1>3, <1>6
  <2>3. Has_(list[-1], -1)
    BY <2>1
  <2>. HIDE DEF D, Has_
  <2>. QED BY <2>2, <2>3
<1>8. ASSUME NEW i \in -1 + 1 .. Last, i - 1 \in S PROVE i \in S
  <2>1. i \in 0 .. Last /\ i \in -1 .. Last /\ list[i - 1] \in D /\ Has_(list[i - 1], i - 1)
    BY <1>1, <1>8
  <2>2. list[i] = Step(i, list[i - 1])
    BY <1>6, <2>1
  <2>3. list[i] \in D
    BY <1>4, <2>1, <2>2
  <2>4. ASSUME NEW j \in indices, j <= i PROVE \E n \in DOMAIN list[i] : list[i][n] = Control(j)
    <3>. DEFINE s == list[i - 1]
    <3>1. s \in D
      BY <2>1
    <3>. HIDE DEF s
    <3>2. CASE j = i
      <4>1. list[i] = s \o << Control(i) >>
        BY <2>2, <3>2 DEF s
      <4>2. Len(s) + 1 \in DOMAIN (s \o << Control(i) >>)
            /\ (s \o << Control(i) >>)[Len(s) + 1] = Control(i)
        BY <3>1
      <4>. QED BY <3>2, <4>1, <4>2
    <3>3. CASE j # i
      <4>1. j <= i - 1
        BY <2>1, <2>4, <3>3, Bounds
      <4>2. PICK n \in DOMAIN s : s[n] = Control(j)
        BY <2>1, <4>1 DEF s
      <4>3. CASE i \in indices
        <5>1. list[i] = s \o << Control(i) >>
          BY <2>2, <4>3 DEF s
        <5>2. n \in DOMAIN (s \o << Control(i) >>) /\ (s \o << Control(i) >>)[n] = s[n]
          BY <3>1
        <5>. QED BY <4>2, <5>1, <5>2
      <4>4. CASE i \notin indices
        <5>1. list[i] = s
          BY <2>2, <3>1, <4>4 DEF s
        <5>. QED BY <4>2, <5>1
      <4>. QED BY <4>3, <4>4
    <3>. QED BY <3>2, <3>3
  <2>. HIDE DEF D
  <2>. QED BY <2>1, <2>3, <2>4
<1>9. Last \in S
  <2>. HIDE DEF S
  <2>1. -1 .. Last \subseteq S
    BY <1>1, <1>7, <1>8, Climb
  <2>. QED BY <1>1, <2>1
<1>10. \A i \in indices : i <= Last
  BY Bounds
<1>. QED BY <1>2, <1>9, <1>10

Greetings == {Config} \cup Controls(rngArchive)

(* What one call of the host's callback adds to the archive and to the stream. *)
LEMMA Archives ==
  ASSUME HostInv, NEW joins \in BOOLEAN, NEW news, Spectators(joins, news)
  PROVE  /\ archive' \in Seq(Batches) /\ Pulled(pos, archive, pos', Walk.got)
         /\ archive' = archive \o Walk.got
         /\ Len(archive) <= Len(archive') /\ \A m \in DOMAIN archive : archive'[m] = archive[m]
         /\ \A m \in DOMAIN archive' : m > Len(archive) => pos.index <= archive'[m].index
         /\ preserve' \in Indices /\ start <= preserve' /\ preserve' <= pos'.index
<1>1. /\ Pulled(pos, archive, pos', Walk.got) /\ archive' = archive \o Walk.got
      /\ preserve' = IF preserve = Unset THEN pos'.index ELSE Smaller(preserve, pos'.index)
  BY WalkSound DEF Spectators, ArchiveStep
<1>. DEFINE got == Walk.got
<1>2. /\ got \in Seq(Batches) /\ archive \in Seq(Batches) /\ pos' \in PosType
      /\ \A n \in DOMAIN got : pos.index <= got[n].index
      /\ pos.index <= pos'.index
  BY <1>1 DEF Pulled, HostInv, TypeOK
<1>. HIDE DEF got
<1>3. /\ Len(archive \o got) = Len(archive) + Len(got) /\ Len(archive) \in Nat /\ Len(got) \in Nat
      /\ archive \o got \in Seq(Batches)
      /\ DOMAIN (archive \o got) = 1 .. Len(archive) + Len(got)
      /\ \A m \in 1 .. Len(archive) : (archive \o got)[m] = archive[m]
      /\ \A m \in 1 .. Len(archive) + Len(got) : m > Len(archive) =>
           m - Len(archive) \in DOMAIN got /\ (archive \o got)[m] = got[m - Len(archive)]
  BY <1>2
<1>4. archive' = archive \o got
  BY <1>1 DEF got
<1>5. \A m \in DOMAIN archive' : m > Len(archive) => pos.index <= archive'[m].index
  BY <1>2, <1>3, <1>4
<1>6. preserve' \in Indices /\ start <= preserve' /\ preserve' <= pos'.index
  <2>1. pos.index \in Nat /\ pos'.index \in Indices /\ pos'.index \in Nat /\ start \in Nat
    BY <1>2, Bounds DEF PosType, HostInv, TypeOK
  <2>2. CASE preserve = Unset
    BY <1>1, <2>1, <2>2 DEF HostInv, NothingErasedBefore
  <2>3. CASE preserve # Unset
    <3>1. preserve \in Indices /\ preserve \in Nat /\ start <= preserve /\ preserve <= pos.index
      BY <2>3, Bounds DEF HostInv, TypeOK, PreserveHolds
    <3>2. preserve' = preserve
      BY <1>1, <1>2, <2>1, <2>3, <3>1 DEF Smaller
    <3>. QED BY <1>2, <2>1, <3>1, <3>2
  <2>. QED BY <2>2, <2>3
<1>. QED BY <1>1, <1>2, <1>3, <1>4, <1>5, <1>6

Sends(joins, news, greeting, from, to) ==
  /\ greeting \in Seq(Greetings)
  /\ from = IF joins THEN 0 ELSE cursor
  /\ from \in 0 .. Len(archive) /\ to \in from .. Len(archive')
  /\ cursor' = to
  /\ stream' = ((stream \o greeting) \o SubSeq(archive', from + 1, to)) \o news
  /\ joins => /\ cursor = NotJoined
              /\ \A i \in rngArchive : \E n \in DOMAIN greeting : greeting[n] = Control(i)
  /\ ~ joins => cursor # NotJoined /\ greeting = << >>

LEMMA PromotionIs ==
  ASSUME TypeOK
  PROVE  /\ Promotion \in Seq(Greetings)
         /\ \A i \in rngArchive : \E n \in DOMAIN Promotion : Promotion[n] = Control(i)
<1>. DEFINE history == ControlHistory(rngArchive)
<1>1. /\ history \in Seq(Controls(rngArchive))
      /\ \A i \in rngArchive : \E n \in DOMAIN history : history[n] = Control(i)
  BY ControlHistoryIs DEF TypeOK
<1>2. Promotion = << Config >> \o history
  BY DEF Promotion
<1>. HIDE DEF history
<1>3. history \in Seq(Greetings) /\ << Config >> \in Seq(Greetings)
  BY <1>1 DEF Greetings
<1>4. << Config >> \o history \in Seq(Greetings)
  BY <1>3
<1>5. \A n \in DOMAIN history : /\ n + 1 \in DOMAIN (<< Config >> \o history)
                                /\ (<< Config >> \o history)[n + 1] = history[n]
  BY <1>3
<1>6. ASSUME NEW i \in rngArchive PROVE \E n \in DOMAIN Promotion : Promotion[n] = Control(i)
  <2>1. PICK n \in DOMAIN history : history[n] = Control(i)
    BY <1>1
  <2>2. n + 1 \in DOMAIN Promotion /\ Promotion[n + 1] = Control(i)
    BY <1>2, <1>5, <2>1
  <2>. QED BY <2>2
<1>. QED BY <1>2, <1>4, <1>6

LEMMA SpectatorsSend ==
  ASSUME HostInv, NEW joins \in BOOLEAN, NEW news, Spectators(joins, news)
  PROVE  \/ cursor = NotJoined /\ UNCHANGED << cursor, stream >>
         \/ \E greeting, from, to : Sends(joins, news, greeting, from, to)
<1>. DEFINE from == IF joins THEN 0 ELSE cursor
            greeting == IF joins THEN Promotion ELSE << >>
<1>1. /\ archive' \in Seq(Batches) /\ Len(archive) <= Len(archive')
      /\ Len(archive) \in Nat /\ Len(archive') \in Nat
      /\ cursor \in {NotJoined} \cup 0 .. Len(archive)
      /\ TypeOK /\ stream \in Seq(Messages)
  <2>1. /\ archive \in Seq(Batches) /\ TypeOK /\ cursor \in {NotJoined} \cup 0 .. Len(archive)
        /\ stream \in Seq(Messages)
    BY DEF HostInv, TypeOK
  <2>. QED BY <2>1, Archives
<1>2. joins => cursor = NotJoined
  BY DEF Spectators
<1>3. CASE from = NotJoined
  BY <1>2, <1>3 DEF Spectators, NotJoined
<1>4. CASE from # NotJoined
  <2>1. from \in 0 .. Len(archive) /\ from \in 0 .. Len(archive')
    BY <1>1, <1>4
  <2>2. PICK to \in from .. Len(archive') :
          /\ Serving(from) = SubSeq(archive', from + 1, to)
          /\ Len(Serving(from)) = to - from
    BY <1>1, <2>1, ServingIs
  <2>3. /\ cursor' = from + Len(Serving(from))
        /\ stream' = stream \o greeting \o Serving(from) \o news
    BY <1>4 DEF Spectators
  <2>4. cursor' = to
    BY <1>1, <2>1, <2>2, <2>3
  <2>5. greeting \in Seq(Greetings)
    BY <1>1, PromotionIs
  <2>6. joins => \A i \in rngArchive : \E n \in DOMAIN greeting : greeting[n] = Control(i)
    BY <1>1, PromotionIs
  <2>7. ~ joins => cursor # NotJoined /\ greeting = << >>
    BY <1>4
  <2>8. from = IF joins THEN 0 ELSE cursor
    OBVIOUS
  <2>. HIDE DEF from, greeting
  <2>9. Sends(joins, news, greeting, from, to)
    BY <1>2, <2>1, <2>2, <2>3, <2>4, <2>5, <2>6, <2>7, <2>8 DEF Sends
  <2>. QED BY <2>9
<1>. QED BY <1>3, <1>4

LEMMA SendsTyped ==
  ASSUME HostInv, archive' \in Seq(Batches), Len(archive) <= Len(archive'),
         NEW joins, NEW news \in Seq(Messages), NEW greeting, NEW from, NEW to,
         Sends(joins, news, greeting, from, to)
  PROVE  /\ stream' \in Seq(Messages) /\ Len(stream) <= Len(stream')
         /\ cursor' \in 0 .. Len(archive')
<1>1. stream \in Seq(Messages) /\ archive \in Seq(Batches) /\ rngArchive \in SUBSET Indices
  BY DEF HostInv, TypeOK
<1>2. greeting \in Seq(Messages)
  <2>1. Greetings \subseteq Messages
    BY <1>1 DEF Greetings, Controls, Messages
  <2>. QED BY <2>1 DEF Sends
<1>3. SubSeq(archive', from + 1, to) \in Seq(Messages)
  <2>1. Batches \subseteq Messages
    BY DEF Messages
  <2>2. archive' \in Seq(Messages)
    BY <2>1
  <2>3. from + 1 \in Nat /\ to \in Nat /\ from + 1 >= 1 /\ to <= Len(archive')
    BY DEF Sends
  <2>. QED BY <2>2, <2>3
<1>. DEFINE served == SubSeq(archive', from + 1, to)
<1>. HIDE DEF served
<1>4. stream' = ((stream \o greeting) \o served) \o news
  BY DEF Sends, served
<1>5. /\ ((stream \o greeting) \o served) \o news \in Seq(Messages)
      /\ Len(((stream \o greeting) \o served) \o news)
           = Len(stream) + Len(greeting) + Len(served) + Len(news)
      /\ Len(stream) \in Nat /\ Len(greeting) \in Nat /\ Len(served) \in Nat /\ Len(news) \in Nat
  BY <1>1, <1>2, <1>3 DEF served
<1>6. to \in 0 .. Len(archive') /\ cursor' = to
  BY <1>1 DEF Sends
<1>. QED BY <1>4, <1>5, <1>6

(* The archive stays sound as the containers grow. *)
LEMMA SoundStays ==
  ASSUME NEW p, NEW list, Sound(p, list), list \in Seq(Batches),
         end \in [Players -> [Indices -> Nat]], end' \in [Players -> [Indices -> Nat]],
         \A q \in Players : \A i \in Indices : end[q][i] <= end'[q][i]
  PROVE  \A i \in Indices : \A f \in AllOf(list, i) : \A q \in Players : f < end'[q][i]
<1>. SUFFICES ASSUME NEW i \in Indices, NEW f \in AllOf(list, i), NEW q \in Players
              PROVE  f < end'[q][i]
  OBVIOUS
<1>1. f < end[q][i] /\ end[q][i] <= end'[q][i] /\ end[q][i] \in Nat /\ end'[q][i] \in Nat
  BY DEF Sound
<1>2. f \in Nat
  <2>1. PICK m \in DOMAIN list : f \in Covers(list[m])
    BY UptoIs DEF AllOf
  <2>2. list[m] \in Batches
    BY <2>1
  <2>3. f \in list[m].start .. list[m].end - 1 /\ list[m].start \in Nat /\ list[m].end \in Nat
    BY <2>1, <2>2, BatchFields
  <2>. QED BY <2>3
<1>. QED BY <1>1, <1>2

LEMMA SetInputGrows ==
  ASSUME TypeOK, NEW i \in Indices, NEW f \in Nat, SetInput(i, f)
  PROVE  /\ end' \in [Players -> [Indices -> Nat]]
         /\ \A q \in Players : \A j \in Indices : end[q][j] <= end'[q][j]
<1>1. end \in [Players -> [Indices -> Nat]] /\ "host" \in Players
  BY DEF TypeOK, Players
<1>. DEFINE new == IF f + Delay + 1 > end["host"][i] THEN f + Delay + 1 ELSE end["host"][i]
<1>2. new \in Nat /\ end["host"][i] <= new
  BY <1>1, Bounds
<1>3. end' = [end EXCEPT !["host"][i] = new]
  BY DEF SetInput
<1>. HIDE DEF new
<1>4. ASSUME NEW q \in Players, NEW j \in Indices
      PROVE  end'[q][j] \in Nat /\ end[q][j] <= end'[q][j]
  <2>1. end[q][j] \in Nat /\ end'[q][j] = IF q = "host" /\ j = i THEN new ELSE end[q][j]
    BY <1>1, <1>3
  <2>. QED BY <1>2, <2>1
<1>. QED BY <1>1, <1>3, <1>4

LEMMA KeptIs ==
  ASSUME NEW p \in Nat, NEW b \in Nat
  PROVE  (IF p > b THEN p - b ELSE 0) \in Nat /\ (IF p > b THEN p - b ELSE 0) <= p
OBVIOUS

LEMMA ErasedIs ==
  ASSUME start \in Nat, preserve' \in Nat, start <= preserve', NEW i \in Nat
  PROVE  Erased(i) \in Nat /\ start <= Erased(i) /\ Erased(i) <= preserve'
<1>. DEFINE kept == IF preserve' > Buffer THEN preserve' - Buffer ELSE 0
<1>1. kept \in Nat /\ kept <= preserve'
  <2>1. Buffer \in Nat /\ preserve' \in Nat
    BY Bounds
  <2>. QED BY <2>1, KeptIs
<1>2. Erased(i) = IF StateOf(i) # "Loading" THEN start
                  ELSE IF Smaller(kept, i) > start THEN Smaller(kept, i) ELSE start
  BY DEF Erased
<1>. HIDE DEF kept
<1>3. Smaller(kept, i) \in Nat /\ Smaller(kept, i) <= preserve'
  BY <1>1 DEF Smaller
<1>. QED BY <1>2, <1>3

LEMMA HostActs ==
  ASSUME HostInv, NEW joins \in BOOLEAN, NEW news \in Seq(Messages), Spectators(joins, news),
         index' \in Indices, index <= index', frame' \in Nat,
         end' \in [Players -> [Indices -> Nat]],
         \A q \in Players : \A i \in Indices : end[q][i] <= end'[q][i],
         left' \in [Indices -> Nat],
         start' \in Nat, start <= start', start' <= preserve', rngArchive' \in SUBSET Indices,
         UNCHANGED << clientVars, drainVars >>
  PROVE  HostInv'
<1>1. /\ archive' \in Seq(Batches) /\ Pulled(pos, archive, pos', Walk.got)
      /\ archive' = archive \o Walk.got
      /\ Len(archive) <= Len(archive') /\ Len(archive) \in Nat /\ Len(archive') \in Nat
      /\ preserve' \in Indices /\ preserve' \in Nat /\ preserve' <= pos'.index
  BY Archives, Bounds
<1>2. pos' \in PosType /\ pos'.index <= index /\ Sound(pos', archive')
      /\ pos'.index \in Nat /\ pos'.frame \in Nat /\ index \in Nat /\ index' \in Nat
      /\ pos'.index \in Indices
  BY <1>1, Bounds DEF Pulled, HostInv, TypeOK, PosType
<1>3. /\ cursor' \in {NotJoined} \cup 0 .. Len(archive')
      /\ stream' \in Seq(Messages) /\ Len(stream) <= Len(stream')
  <2>1. CASE cursor = NotJoined /\ UNCHANGED << cursor, stream >>
    BY <2>1 DEF HostInv, TypeOK
  <2>2. ASSUME NEW greeting, NEW from, NEW to, Sends(joins, news, greeting, from, to)
        PROVE  /\ cursor' \in {NotJoined} \cup 0 .. Len(archive')
               /\ stream' \in Seq(Messages) /\ Len(stream) <= Len(stream')
    BY <1>1, <2>2, SendsTyped
  <2>. QED BY <2>1, <2>2, SpectatorsSend
<1>4. start' \in Indices /\ start' <= pos'.index
  BY <1>1, <1>2, Bounds
<1>5. missed' \in 0 .. Len(stream')
  <2>1. missed \in 0 .. Len(stream) /\ stream \in Seq(Messages) /\ missed' = missed
    BY DEF HostInv, TypeOK, drainVars
  <2>. QED BY <1>3, <2>1
<1>6. TypeOK'
  <2>1. TypeOK
    BY DEF HostInv
  <2>2. /\ future' \in [Indices -> Seq(Batches)] /\ control' \in SUBSET Indices
        /\ rngStates' \in Seq(Indices \cup {None})
        /\ position'.index \in Indices /\ head' \in Indices
        /\ held' \in [Indices -> SUBSET Nat]
        /\ sIndex' \in Indices /\ sFrame' \in Nat /\ sStart' \in Indices
        /\ scene' \in Indices /\ played' \in Nat
        /\ sync' \in BOOLEAN /\ sameFrame' \in BOOLEAN
        /\ announced' \in Indices /\ jumped' \in BOOLEAN
        /\ seed'.rng \in Indices \cup {None}
    BY <2>1 DEF TypeOK, clientVars, drainVars
  <2>3. pos'.index \in 0 .. index'
    BY <1>2
  <2>. QED BY <1>1, <1>2, <1>3, <1>4, <1>5, <2>2, <2>3 DEF TypeOK
<1>7. Sound(pos, archive)'
  <2>1. \A i \in Indices : \A f \in AllOf(archive', i) : \A q \in Players : f < end'[q][i]
    BY <1>1, <1>2, SoundStays DEF HostInv, TypeOK
  <2>. QED BY <1>2, <2>1 DEF Sound
<1>8. preserve' # Unset
  BY <1>1 DEF Unset
<1>. QED BY <1>1, <1>2, <1>4, <1>6, <1>7, <1>8
     DEF HostInv, NothingUnreadErased, PreserveHolds, NothingErasedBefore

(* A frame of the host's game, in the same state or in the next. *)
Acts(joins, news) ==
  /\ Spectators(joins, news)
  /\ \/ index' = index /\ rngArchive' = rngArchive /\ news = << >>
     \/ /\ index' = index + 1
        /\ rngArchive' = rngArchive \cup (IF HasControl(index + 1) THEN {index + 1} ELSE {})
        /\ news = IF HasControl(index + 1) THEN << Control(index + 1) >> ELSE << >>
  /\ UNCHANGED << clientVars, drainVars >>

LEMMA HostPlays ==
  ASSUME HostInv, NEW joins \in BOOLEAN, HostFrame(joins) \/ HostMoves(joins)
  PROVE  HostInv' /\ \E news \in Seq(Messages) : Acts(joins, news)
<1>1. /\ TypeOK /\ index \in Indices /\ index \in Nat /\ frame \in Nat /\ start \in Nat
      /\ left \in [Indices -> Nat] /\ rngArchive \in SUBSET Indices
  <2>1. TypeOK
    BY DEF HostInv
  <2>. QED BY <2>1, Bounds DEF TypeOK
<1>2. CASE HostFrame(joins)
  <2>1. Spectators(joins, << >>) /\ SetInput(index, frame) /\ frame' = frame + 1
        /\ UNCHANGED << index, left, start, rngArchive, clientVars, drainVars >>
    BY <1>2 DEF HostFrame
  <2>2. /\ end' \in [Players -> [Indices -> Nat]]
        /\ \A q \in Players : \A j \in Indices : end[q][j] <= end'[q][j]
    BY <1>1, <2>1, SetInputGrows
  <2>3. << >> \in Seq(Messages)
    OBVIOUS
  <2>4. start <= preserve'
    BY <2>1, Archives
  <2>5. HostInv'
    <3>1. /\ index' \in Indices /\ index <= index' /\ frame' \in Nat
          /\ left' \in [Indices -> Nat] /\ rngArchive' \in SUBSET Indices
          /\ start' \in Nat /\ start <= start' /\ start' <= preserve'
          /\ UNCHANGED << clientVars, drainVars >>
      BY <1>1, <2>1, <2>4
    <3>. QED BY <2>1, <2>2, <2>3, <3>1, HostActs
  <2>6. Acts(joins, << >>)
    BY <2>1 DEF Acts
  <2>. QED BY <2>3, <2>5, <2>6
<1>3. CASE HostMoves(joins)
  <2>. DEFINE news == IF HasControl(index + 1) THEN << Control(index + 1) >> ELSE << >>
              given == IF HasControl(index + 1) THEN {index + 1} ELSE {}
  <2>1. /\ Spectators(joins, news) /\ SetInput(index + 1, 0) /\ frame' = 1 /\ index' = index + 1
        /\ left' = [left EXCEPT ![index] = frame] /\ start' = Erased(index + 1)
        /\ rngArchive' = rngArchive \cup given
        /\ UNCHANGED << clientVars, drainVars >> /\ index < Last
    BY <1>3 DEF HostMoves
  <2>2. index + 1 \in Indices /\ index + 1 \in Nat
    BY <1>1, <2>1, Bounds
  <2>3. news \in Seq(Messages) /\ given \in SUBSET Indices
    <3>1. Control(index + 1) \in Messages
      BY <2>2 DEF Messages
    <3>. QED BY <2>2, <3>1
  <2>4. Acts(joins, news)
    BY <2>1 DEF Acts
  <2>. HIDE DEF news, given
  <2>5. /\ end' \in [Players -> [Indices -> Nat]]
        /\ \A q \in Players : \A j \in Indices : end[q][j] <= end'[q][j]
    BY <1>1, <2>1, <2>2, SetInputGrows
  <2>6. preserve' \in Nat /\ start <= preserve'
    BY <2>1, Archives, Bounds
  <2>7. start' \in Nat /\ start <= start' /\ start' <= preserve'
    BY <1>1, <2>1, <2>2, <2>6, ErasedIs
  <2>8. /\ left' \in [Indices -> Nat] /\ rngArchive' \in SUBSET Indices
        /\ index' \in Indices /\ index <= index' /\ frame' \in Nat
    BY <1>1, <2>1, <2>2, <2>3
  <2>9. HostInv'
    BY <2>1, <2>3, <2>5, <2>7, <2>8, HostActs
  <2>. QED BY <2>3, <2>4, <2>9
<1>. QED BY <1>2, <1>3

(* A step that leaves the archive and its cursor alone. *)
LEMMA HostRests ==
  ASSUME HostInv, TypeOK', UNCHANGED << index, start, preserve, pos, archive >>,
         \A q \in Players : \A i \in Indices : end[q][i] <= end'[q][i]
  PROVE  HostInv'
<1>1. TypeOK /\ Sound(pos, archive) /\ archive \in Seq(Batches)
  BY DEF HostInv, TypeOK
<1>2. end \in [Players -> [Indices -> Nat]] /\ end' \in [Players -> [Indices -> Nat]]
  BY <1>1 DEF TypeOK
<1>3. \A i \in Indices : \A f \in AllOf(archive, i) : \A q \in Players : f < end'[q][i]
  BY <1>1, <1>2, SoundStays
<1>4. Sound(pos, archive)'
  <2>1. pos' = pos /\ archive' = archive
    OBVIOUS
  <2>2. \A i \in Indices : \A f \in AllOf(archive', i) : \A q \in Players : f < end'[q][i]
    BY <1>3, <2>1
  <2>. QED BY <1>1, <2>1, <2>2 DEF Sound
<1>. QED BY <1>4 DEF HostInv, NothingUnreadErased, PreserveHolds, NothingErasedBefore

LEMMA EndsStay ==
  ASSUME TypeOK, end' = end
  PROVE  \A q \in Players : \A i \in Indices : end[q][i] <= end'[q][i]
<1>1. end \in [Players -> [Indices -> Nat]]
  BY DEF TypeOK
<1>2. \A q \in Players : \A i \in Indices : end[q][i] \in Nat
  BY <1>1
<1>. QED BY <1>2

LEMMA RemoteInputsHost ==
  ASSUME HostInv, NEW i \in Indices, RemoteInputs(i)
  PROVE  HostInv'
<1>1. TypeOK
  BY DEF HostInv
<1>2. end \in [Players -> [Indices -> Nat]] /\ "client" \in Players
  BY <1>1 DEF TypeOK, Players
<1>3. /\ end' = [end EXCEPT !["client"][i] = @ + 1]
      /\ UNCHANGED << index, frame, left, start, preserve, pos, archive, rngArchive, cursor,
                      stream, clientVars, drainVars >>
  BY DEF RemoteInputs
<1>4. ASSUME NEW q \in Players, NEW j \in Indices
      PROVE  end'[q][j] \in Nat /\ end[q][j] <= end'[q][j]
  <2>1. /\ end[q][j] \in Nat
        /\ end'[q][j] = IF q = "client" /\ j = i THEN end[q][j] + 1 ELSE end[q][j]
    BY <1>2, <1>3
  <2>. QED BY <2>1
<1>5. end' \in [Players -> [Indices -> Nat]]
  BY <1>2, <1>3, <1>4
<1>6. TypeOK'
  BY <1>1, <1>3, <1>5 DEF TypeOK, clientVars, drainVars
<1>. QED BY <1>3, <1>4, <1>6, HostRests

-----------------------------------------------------------------------------
(* Buffered batches *)

HeldType == [Indices -> SUBSET Nat]
Dropped(i) == i + 1 < sIndex \/ i < sStart

(* The batches of a list, stored one after the other. *)
StoredAll(h, list) ==
  LET apply[n \in 0 .. Len(list)] == IF n = 0 THEN h ELSE Stored(apply[n - 1], list[n])
  IN  apply[Len(list)]

LEMMA StoresAll ==
  ASSUME NEW h \in HeldType, NEW i \in Indices, NEW list \in Seq(Batches),
         \A n \in DOMAIN list : list[n].index = i
  PROVE  /\ StoredAll(h, list) \in HeldType
         /\ \A j \in Indices : StoredAll(h, list)[j] =
              IF j = i /\ ~ Dropped(i) THEN h[i] \cup AllOf(list, i) ELSE h[j]
<1>. DEFINE n == Len(list)
            After(m) == [j \in Indices |->
                           IF j = i /\ ~ Dropped(i) THEN h[i] \cup Upto(list, m, i) ELSE h[j]]
            Fits(f) == f = [m \in 0 .. n |-> IF m = 0 THEN h ELSE Stored(f[m - 1], list[m])]
            apply == CHOOSE f : Fits(f)
<1>1. n \in Nat /\ DOMAIN list = 1 .. n
  OBVIOUS
<1>2. After(0) = h
  <2>1. Upto(list, 0, i) = {}
    <3>1. ASSUME NEW f PROVE f \notin Upto(list, 0, i)
      BY <1>1, UptoIs
    <3>. QED BY <3>1
  <2>2. \A j \in Indices : (IF j = i /\ ~ Dropped(i) THEN h[i] \cup {} ELSE h[j]) = h[j]
    OBVIOUS
  <2>3. After(0) = [j \in Indices |-> h[j]]
    BY <2>1, <2>2
  <2>. QED BY <2>3 DEF HeldType
<1>3. ASSUME NEW m \in 1 .. n PROVE Stored(After(m - 1), list[m]) = After(m)
  <2>1. list[m].index = i /\ list[m].type = "inputs" /\ m \in DOMAIN list
    BY BatchFields
  <2>2. Upto(list, m, i) = Upto(list, m - 1, i) \cup Covers(list[m])
    <3>1. ASSUME NEW f
          PROVE  f \in Upto(list, m, i) <=> f \in Upto(list, m - 1, i) \/ f \in Covers(list[m])
      <4>1. \A k \in DOMAIN list : k <= m <=> k <= m - 1 \/ k = m
        BY <1>1
      <4>. QED BY <2>1, <4>1, UptoIs
    <3>. QED BY <3>1
  <2>3. CASE Dropped(i)
    <3>1. Stored(After(m - 1), list[m]) = After(m - 1)
      BY <2>1, <2>3 DEF Stored, Dropped
    <3>2. After(m - 1) = After(m)
      BY <2>3
    <3>. QED BY <3>1, <3>2
  <2>4. CASE ~ Dropped(i)
    <3>. DEFINE old == After(m - 1)
    <3>1. Stored(old, list[m]) = [old EXCEPT ![i] = @ \cup Covers(list[m])]
      BY <2>1, <2>4 DEF Stored, Dropped
    <3>2. old = [j \in Indices |-> IF j = i THEN h[i] \cup Upto(list, m - 1, i) ELSE h[j]]
      BY <2>4
    <3>3. After(m) = [j \in Indices |-> IF j = i THEN h[i] \cup Upto(list, m, i) ELSE h[j]]
      BY <2>4
    <3>. HIDE DEF old
    <3>4. [old EXCEPT ![i] = @ \cup Covers(list[m])]
            = [j \in Indices |-> IF j = i THEN old[i] \cup Covers(list[m]) ELSE old[j]]
      BY <3>2
    <3>5. old[i] \cup Covers(list[m]) = h[i] \cup Upto(list, m, i)
      BY <2>2, <3>2
    <3>6. \A j \in Indices : j # i => old[j] = h[j]
      BY <3>2
    <3>7. [j \in Indices |-> IF j = i THEN old[i] \cup Covers(list[m]) ELSE old[j]]
            = [j \in Indices |-> IF j = i THEN h[i] \cup Upto(list, m, i) ELSE h[j]]
      BY <3>5, <3>6
    <3>. HIDE DEF After
    <3>. QED BY <3>1, <3>3, <3>4, <3>7 DEF old
  <2>. QED BY <2>3, <2>4
<1>4. StoredAll(h, list) = apply[n]
  BY DEF StoredAll
<1>. HIDE DEF After
<1>5. \E f : Fits(f)
  <2>. DEFINE f == [m \in 0 .. n |-> After(m)]
  <2>1. ASSUME NEW m \in 0 .. n PROVE f[m] = IF m = 0 THEN h ELSE Stored(f[m - 1], list[m])
    <3>1. CASE m = 0
      BY <1>1, <1>2, <3>1
    <3>2. CASE m # 0
      <4>1. m \in 1 .. n /\ m - 1 \in 0 .. n
        BY <1>1, <3>2
      <4>. QED BY <1>3, <3>2, <4>1
    <3>. QED BY <3>1, <3>2
  <2>2. Fits(f)
    BY <2>1
  <2>. HIDE DEF f, Fits
  <2>. QED BY <2>2
<1>6. \A m \in 0 .. n : apply[m] = IF m = 0 THEN h ELSE Stored(apply[m - 1], list[m])
  <2>. HIDE DEF Fits
  <2>1. Fits(apply)
    BY <1>5
  <2>. HIDE DEF apply
  <2>2. apply = [m \in 0 .. n |-> IF m = 0 THEN h ELSE Stored(apply[m - 1], list[m])]
    BY <2>1 DEF Fits
  <2>. QED BY <2>2
<1>. HIDE DEF apply
<1>. DEFINE S == {m \in 0 .. n : apply[m] = After(m)}
<1>7. 0 \in S
  BY <1>1, <1>2, <1>6
<1>8. \A m \in 0 + 1 .. n : m - 1 \in S => m \in S
  <2>1. ASSUME NEW m \in 0 + 1 .. n, m - 1 \in S PROVE m \in S
    <3>1. m \in 1 .. n /\ m \in 0 .. n /\ m # 0 /\ apply[m - 1] = After(m - 1)
      BY <1>1, <2>1
    <3>2. apply[m] = Stored(apply[m - 1], list[m])
      BY <1>6, <3>1
    <3>3. apply[m] = After(m)
      BY <1>3, <3>1, <3>2
    <3>. QED BY <3>1, <3>3
  <2>. QED BY <2>1
<1>9. apply[n] = After(n)
  <2>. HIDE DEF S, n
  <2>0. 0 \in Int /\ n \in Int
    BY <1>1
  <2>1. 0 .. n \subseteq S
    BY <2>0, <1>7, <1>8, Climb, Zenon
  <2>2. n \in S
    BY <1>1, <2>1
  <2>. QED BY <2>2 DEF S
<1>10. AllOf(list, i) \subseteq Nat
  <2>1. ASSUME NEW f \in AllOf(list, i) PROVE f \in Nat
    <3>1. PICK m \in DOMAIN list : f \in Covers(list[m])
      BY UptoIs DEF AllOf
    <3>2. list[m] \in Batches
      BY <3>1
    <3>3. f \in list[m].start .. list[m].end - 1 /\ list[m].start \in Nat /\ list[m].end \in Nat
      BY <3>1, <3>2, BatchFields
    <3>. QED BY <3>3
  <2>. QED BY <2>1
<1>11. After(n) = [j \in Indices |->
                    IF j = i /\ ~ Dropped(i) THEN h[i] \cup AllOf(list, i) ELSE h[j]]
  BY DEF After, AllOf
<1>12. After(n) \in HeldType
  BY <1>10, <1>11 DEF HeldType
<1>. QED BY <1>4, <1>9, <1>11, <1>12

(* What flushReadyBatches leaves: of each index all that was buffered or nothing, and    *)
(* nothing before the last one applied.                                                  *)
Flushed(f, at, h, r) ==
  /\ r.future \in [Indices -> Seq(Batches)] /\ r.held \in HeldType
  /\ r.at.index \in Indices /\ at.index <= r.at.index
  /\ r.at.index = at.index \/ f[r.at.index] # << >>
  /\ \A i \in Indices :
       \/ /\ r.future[i] = f[i] /\ r.held[i] = h[i]
          /\ f[i] # << >> => r.at.index <= i
       \/ /\ r.future[i] = << >> /\ i <= r.at.index
          /\ r.held[i] = IF Dropped(i) THEN h[i] ELSE h[i] \cup AllOf(f[i], i)

LEMMA FlushIs ==
  ASSUME NEW f \in [Indices -> Seq(Batches)], NEW at, at.index \in Indices, NEW h \in HeldType,
         \A i \in Indices : \A n \in DOMAIN f[i] : f[i][n].index = i,
         \A i \in Indices : f[i] # << >> => at.index <= i
  PROVE  Flushed(f, at, h, Flush(f, at, h))
<1>. DEFINE D == [future : [Indices -> Seq(Batches)], at : {at} \cup [index : Indices, frame : Int],
                  held : HeldType, open : BOOLEAN]
            Step(i, x) ==
              IF f[i] = << >> \/ ~ x.open THEN x
              ELSE IF ~ IsReady(i, x.at) THEN [x EXCEPT !.open = FALSE]
              ELSE [x EXCEPT !.future[i] = << >>,
                             !.at = [index |-> i, frame |-> f[i][Len(f[i])].end - 1],
                             !.held = StoredAll(x.held, f[i])]
            first == [future |-> f, at |-> at, held |-> h, open |-> TRUE]
            Fits(g) == g = [i \in -1 .. Last |-> IF i = -1 THEN first ELSE Step(i, g[i - 1])]
            flush == CHOOSE g : Fits(g)
            step == [y \in (0 .. Last) \X D |-> Step(y[1], y[2])]
            Applied(x, i, new) ==
              /\ new \in D /\ new.at.index = i /\ new.open
              /\ new.future[i] = << >> /\ \A j \in Indices : j # i => new.future[j] = x.future[j]
              /\ \A j \in Indices : new.held[j] =
                   IF j = i /\ ~ Dropped(i) THEN x.held[i] \cup AllOf(f[i], i) ELSE x.held[j]
            Closed(x, new) ==
              new \in D /\ new.at = x.at /\ ~ new.open /\ new.future = x.future /\ new.held = x.held
<1>1. /\ Last \in Nat /\ -1 \in Int /\ Last \in Int /\ -1 <= Last /\ 0 .. Last = Indices
      /\ at.index \in Nat /\ \A i \in Indices : i \in Nat /\ i <= Last
  BY Bounds DEF Indices
<1>2. Flush(f, at, h) = flush[Last]
  BY DEF Flush, StoredAll
<1>3. first \in D
  OBVIOUS
<1>4. ASSUME NEW x \in D, NEW i \in Indices, f[i] # << >>, x.open, IsReady(i, x.at)
      PROVE  Applied(x, i, Step(i, x))
  <2>. DEFINE last == [index |-> i, frame |-> f[i][Len(f[i])].end - 1]
              stored == StoredAll(x.held, f[i])
              rest == [x.future EXCEPT ![i] = << >>]
              new == [future |-> rest, at |-> last, held |-> stored, open |-> TRUE]
  <2>1. Step(i, x) = new
    BY <1>4
  <2>2. last \in [index : Indices, frame : Int]
    <3>1. Len(f[i]) \in DOMAIN f[i]
      BY <1>4
    <3>2. f[i][Len(f[i])] \in Batches
      BY <3>1
    <3>3. f[i][Len(f[i])].end - 1 \in Int
      BY <3>2, BatchFields
    <3>. QED BY <3>3
  <2>3. x.held \in HeldType /\ f[i] \in Seq(Batches) /\ \A n \in DOMAIN f[i] : f[i][n].index = i
    OBVIOUS
  <2>4. /\ stored \in HeldType
        /\ \A j \in Indices : stored[j] =
             IF j = i /\ ~ Dropped(i) THEN x.held[i] \cup AllOf(f[i], i) ELSE x.held[j]
    <3>. DEFINE old == x.held
                list == f[i]
    <3>1. old \in HeldType
      BY <2>3
    <3>3. list \in Seq(Batches)
      BY <2>3
    <3>4. \A n \in DOMAIN list : list[n].index = i
      BY <2>3
    <3>5. i \in Indices
      BY <1>4
    <3>. HIDE DEF old, list, D, Fits, first, flush, step, Step, Applied, Closed
    <3>2. /\ StoredAll(old, list) \in HeldType
          /\ \A j \in Indices : StoredAll(old, list)[j] =
               IF j = i /\ ~ Dropped(i) THEN old[i] \cup AllOf(list, i) ELSE old[j]
      BY <3>1, <3>3, <3>4, <3>5, StoresAll, Zenon
    <3>. QED BY <3>2 DEF old, list
  <2>5. rest \in [Indices -> Seq(Batches)] /\ rest[i] = << >>
        /\ \A j \in Indices : j # i => rest[j] = x.future[j]
    OBVIOUS
  <2>. HIDE DEF last, stored, rest, Step
  <2>6. new \in D /\ new.at = last /\ new.open /\ new.future = rest /\ new.held = stored
    BY <2>2, <2>4, <2>5
  <2>7. last.index = i
    BY DEF last
  <2>. HIDE DEF new, D
  <2>8. Applied(x, i, new)
    BY <2>4, <2>5, <2>6, <2>7
  <2>. HIDE DEF Applied
  <2>. QED BY <2>1, <2>8
<1>5. ASSUME NEW x \in D, NEW i \in Indices, ~ f[i] = << >>, x.open, ~ IsReady(i, x.at)
      PROVE  Closed(x, Step(i, x))
  <2>. DEFINE new == [x EXCEPT !.open = FALSE]
  <2>1. Step(i, x) = new
    BY <1>5
  <2>2. new \in D /\ new.at = x.at /\ ~ new.open /\ new.future = x.future /\ new.held = x.held
    OBVIOUS
  <2>. HIDE DEF new, Step, D
  <2>. QED BY <2>1, <2>2
<1>6. ASSUME NEW x \in D, NEW i \in Indices, f[i] = << >> \/ ~ x.open PROVE Step(i, x) = x
  BY <1>6
<1>. HIDE DEF Step, D, first
<1>7. ASSUME NEW x \in D, NEW i \in Indices PROVE Step(i, x) \in D
  <2>1. CASE f[i] = << >> \/ ~ x.open
    BY <1>6, <2>1
  <2>2. CASE ~ f[i] = << >> /\ x.open /\ ~ IsReady(i, x.at)
    BY <1>5, <2>2
  <2>3. CASE f[i] # << >> /\ x.open /\ IsReady(i, x.at)
    BY <1>4, <2>3
  <2>. QED BY <2>1, <2>2, <2>3
<1>8. \E g : Fits(g)
  <2>. DEFINE a == -1
  <2>1. a \in Int /\ a <= Last /\ step \in [(a + 1 .. Last) \X D -> D]
    <3>1. a + 1 .. Last = 0 .. Last
      BY <1>1
    <3>2. \A y \in (0 .. Last) \X D : step[y] \in D
      BY <1>1, <1>7
    <3>. QED BY <1>1, <3>1, <3>2
  <2>. HIDE DEF step, a
  <2>2. PICK g \in [a .. Last -> D] : IsRecursive(g, a, Last, first, step)
    BY <1>1, <1>3, <2>1, RecursionExists
  <2>3. ASSUME NEW i \in -1 .. Last
        PROVE  g[i] = IF i = -1 THEN first ELSE Step(i, g[i - 1])
    <3>1. CASE i = -1
      BY <2>2, <3>1 DEF IsRecursive, a
    <3>2. CASE i # -1
      <4>1. i \in 0 .. Last /\ i - 1 \in -1 .. Last
        BY <1>1, <3>2
      <4>2. g[i] = step[<< i, g[i - 1] >>] /\ << i, g[i - 1] >> \in (0 .. Last) \X D
        BY <2>2, <3>2, <4>1 DEF IsRecursive, a
      <4>. QED BY <3>2, <4>2 DEF step
    <3>. QED BY <3>1, <3>2
  <2>4. g = [i \in -1 .. Last |-> IF i = -1 THEN first ELSE Step(i, g[i - 1])]
    BY <2>2, <2>3 DEF IsRecursive, a
  <2>. QED BY <2>4
<1>9. /\ flush[-1] = first
      /\ \A i \in 0 .. Last : flush[i] = Step(i, flush[i - 1])
  <2>. HIDE DEF Fits
  <2>1. Fits(flush)
    BY <1>8
  <2>. HIDE DEF flush
  <2>2. flush = [i \in -1 .. Last |-> IF i = -1 THEN first ELSE Step(i, flush[i - 1])]
    BY <2>1 DEF Fits
  <2>. QED BY <1>1, <2>2
<1>. HIDE DEF flush
<1>. DEFINE Done(x, i) ==
              /\ at.index <= x.at.index
              /\ x.at.index = at.index \/ (f[x.at.index] # << >> /\ x.at.index <= i)
              /\ ~ x.open => x.at.index <= i
              /\ \A j \in Indices : j > i => x.future[j] = f[j] /\ x.held[j] = h[j]
              /\ \A j \in Indices : j <= i =>
                   \/ /\ x.future[j] = f[j] /\ x.held[j] = h[j]
                      /\ f[j] # << >> => ~ x.open /\ x.at.index <= j
                   \/ /\ x.future[j] = << >> /\ j <= x.at.index
                      /\ x.held[j] = IF Dropped(j) THEN h[j] ELSE h[j] \cup AllOf(f[j], j)
            S == {i \in -1 .. Last : flush[i] \in D /\ Done(flush[i], i)}
<1>10. -1 \in S
  <2>1. first \in D /\ first.at = at /\ first.open /\ first.future = f /\ first.held = h
    BY <1>3 DEF first
  <2>2. \A j \in Indices : j > -1 /\ ~ j <= -1
    BY <1>1
  <2>3. Done(first, -1)
    BY <1>1, <2>1, <2>2
  <2>. HIDE DEF Done
  <2>. QED BY <1>1, <1>9, <2>1, <2>3
<1>11. ASSUME NEW i \in -1 + 1 .. Last, i - 1 \in S PROVE i \in S
  <2>. DEFINE x == flush[i - 1]
              new == Step(i, x)
  <2>1. i \in 0 .. Last /\ i \in -1 .. Last /\ i \in Indices /\ i \in Nat
    BY <1>1, <1>11
  <2>2. x \in D /\ Done(x, i - 1) /\ flush[i] = new
    BY <1>9, <1>11, <2>1
  <2>. HIDE DEF x, new
  <2>3. x.at.index \in Indices /\ x.at.index \in Nat
    BY <1>1, <2>2 DEF D
  <2>4. \A j \in Indices : (j > i => j > i - 1) /\ (j <= i <=> j <= i - 1 \/ j = i) /\ i > i - 1
    BY <1>1, <2>1
  <2>5. x.future[i] = f[i] /\ x.held[i] = h[i]
    BY <2>1, <2>2, <2>4
  <2>6. CASE f[i] = << >> \/ ~ x.open
    <3>1. new = x
      BY <1>6, <2>1, <2>2, <2>6 DEF new
    <3>2. ~ x.open => x.at.index <= i /\ x.at.index <= i - 1
      BY <2>1, <2>2, <2>3
    <3>3. x.at.index = at.index \/ (f[x.at.index] # << >> /\ x.at.index <= i)
      BY <2>1, <2>2, <2>3
    <3>4. \A j \in Indices : j <= i =>
                   \/ /\ x.future[j] = f[j] /\ x.held[j] = h[j]
                      /\ f[j] # << >> => ~ x.open /\ x.at.index <= j
                   \/ /\ x.future[j] = << >> /\ j <= x.at.index
                      /\ x.held[j] = IF Dropped(j) THEN h[j] ELSE h[j] \cup AllOf(f[j], j)
      BY <2>2, <2>4, <2>5, <2>6, <3>2
    <3>5. Done(x, i)
      BY <2>2, <2>4, <3>2, <3>3, <3>4
    <3>. HIDE DEF Done
    <3>. QED BY <2>1, <2>2, <3>1, <3>5
  <2>7. CASE ~ f[i] = << >> /\ x.open /\ ~ IsReady(i, x.at)
    <3>1. new \in D /\ new.at = x.at /\ ~ new.open /\ new.future = x.future /\ new.held = x.held
      BY <1>5, <2>1, <2>2, <2>7 DEF new
    <3>2. x.at.index <= i
      BY <2>1, <2>3, <2>7 DEF IsReady
    <3>3. \A j \in Indices : j <= i =>
                   \/ /\ x.future[j] = f[j] /\ x.held[j] = h[j]
                      /\ f[j] # << >> => x.at.index <= j
                   \/ /\ x.future[j] = << >> /\ j <= x.at.index
                      /\ x.held[j] = IF Dropped(j) THEN h[j] ELSE h[j] \cup AllOf(f[j], j)
      BY <2>2, <2>4, <2>5, <3>2
    <3>4. x.at.index = at.index \/ (f[x.at.index] # << >> /\ x.at.index <= i)
      BY <2>2, <3>2
    <3>5. Done(new, i)
      BY <2>2, <2>4, <3>1, <3>2, <3>3, <3>4
    <3>. HIDE DEF Done
    <3>. QED BY <2>1, <2>2, <3>1, <3>5
  <2>8. CASE f[i] # << >> /\ x.open /\ IsReady(i, x.at)
    <3>1. /\ new \in D /\ new.at.index = i /\ new.open
          /\ new.future[i] = << >> /\ \A j \in Indices : j # i => new.future[j] = x.future[j]
          /\ \A j \in Indices : new.held[j] =
               IF j = i /\ ~ Dropped(i) THEN x.held[i] \cup AllOf(f[i], i) ELSE x.held[j]
      <4>1. Applied(x, i, Step(i, x))
        <5>. HIDE DEF Applied
        <5>. QED BY <1>4, <2>1, <2>2, <2>8
      <4>. QED BY <4>1 DEF new
    <3>2. at.index <= i
      BY <2>1, <2>8
    <3>3. \A j \in Indices : j > i => new.future[j] = f[j] /\ new.held[j] = h[j]
      <4>1. ASSUME NEW j \in Indices, j > i PROVE new.future[j] = f[j] /\ new.held[j] = h[j]
        <5>1. j > i - 1 /\ j # i
          BY <1>1, <2>1, <2>4, <4>1
        <5>2. x.future[j] = f[j] /\ x.held[j] = h[j]
          BY <2>2, <5>1
        <5>. QED BY <3>1, <5>1, <5>2
      <4>. QED BY <4>1
    <3>4. ASSUME NEW j \in Indices, j <= i
          PROVE  \/ /\ new.future[j] = f[j] /\ new.held[j] = h[j]
                    /\ f[j] # << >> => ~ new.open /\ new.at.index <= j
                 \/ /\ new.future[j] = << >> /\ j <= new.at.index
                    /\ new.held[j] = IF Dropped(j) THEN h[j] ELSE h[j] \cup AllOf(f[j], j)
      <4>1. CASE j = i
        <5>1. new.future[j] = << >> /\ j <= new.at.index
          BY <2>1, <3>1, <4>1
        <5>2. new.held[j] = IF Dropped(j) THEN h[j] ELSE h[j] \cup AllOf(f[j], j)
          BY <2>5, <3>1, <4>1
        <5>. QED BY <5>1, <5>2
      <4>2. CASE j # i
        <5>1. j <= i - 1
          BY <2>4, <3>4, <4>2
        <5>2. new.future[j] = x.future[j] /\ new.held[j] = x.held[j]
          BY <3>1, <4>2
        <5>3. \/ /\ x.future[j] = f[j] /\ x.held[j] = h[j]
                 /\ f[j] # << >> => ~ x.open /\ x.at.index <= j
              \/ /\ x.future[j] = << >> /\ j <= x.at.index
                 /\ x.held[j] = IF Dropped(j) THEN h[j] ELSE h[j] \cup AllOf(f[j], j)
          BY <2>2, <5>1
        <5>4. j <= new.at.index
          BY <3>1, <3>4
        <5>5. \/ /\ new.future[j] = f[j] /\ new.held[j] = h[j] /\ f[j] = << >>
              \/ /\ new.future[j] = << >> /\ new.held[j] = IF Dropped(j) THEN h[j] ELSE h[j] \cup AllOf(f[j], j)
          <6>1. CASE x.future[j] = f[j] /\ x.held[j] = h[j] /\ (f[j] # << >> => ~ x.open)
            BY <2>8, <5>2, <6>1
          <6>2. CASE /\ x.future[j] = << >>
                     /\ x.held[j] = IF Dropped(j) THEN h[j] ELSE h[j] \cup AllOf(f[j], j)
            BY <5>2, <6>2
          <6>. QED BY <5>3, <6>1, <6>2
        <5>. QED BY <5>4, <5>5
      <4>. QED BY <4>1, <4>2
    <3>5. Done(new, i)
      <4>1. new.at.index = i /\ new.open /\ f[new.at.index] # << >> /\ new.at.index <= i
        BY <2>1, <2>8, <3>1
      <4>2. at.index <= new.at.index
        BY <3>1, <3>2
      <4>. QED BY <3>3, <3>4, <4>1, <4>2
    <3>. HIDE DEF Done
    <3>. QED BY <2>1, <2>2, <3>1, <3>5
  <2>. QED BY <2>6, <2>7, <2>8
<1>12. Last \in S
  <2>. HIDE DEF S
  <2>1. -1 .. Last \subseteq S
    BY <1>1, <1>10, <1>11, Climb
  <2>. QED BY <1>1, <2>1
<1>. DEFINE r == flush[Last]
<1>13. r \in D /\ Done(r, Last)
  BY <1>12
<1>. HIDE DEF r
<1>14. /\ r.future \in [Indices -> Seq(Batches)] /\ r.held \in HeldType
       /\ r.at.index \in Indices
  BY <1>13 DEF D
<1>15. Flushed(f, at, h, r)
  BY <1>1, <1>13, <1>14 DEF Flushed
<1>. QED BY <1>2, <1>15 DEF r

(* The generator states *)
States == Seq(Indices \cup {None})
Placed(states, i) == i - sStart + 1 \in DOMAIN states /\ states[i - sStart + 1] # None
OwnSlots(states) == \A n \in DOMAIN states : states[n] \in {None, sStart + n - 1}

LEMMA SeededIs ==
  ASSUME sStart \in Indices, NEW states \in States, NEW i \in Indices
  PROVE  /\ Seeded(states, i) \in States
         /\ \A j \in Indices : Placed(states, j) => Placed(Seeded(states, i), j)
         /\ i > 0 /\ i >= sStart => Placed(Seeded(states, i), i)
         /\ OwnSlots(states) => OwnSlots(Seeded(states, i))
<1>1. i \in Nat /\ sStart \in Nat /\ None = -1
  BY Bounds DEF None
<1>2. CASE i = 0 \/ i < sStart
  <2>1. Seeded(states, i) = states
    BY <1>2 DEF Seeded
  <2>. QED BY <1>1, <1>2, <2>1
<1>3. CASE ~ (i = 0 \/ i < sStart)
  <2>. DEFINE slot == i - sStart + 1
              size == IF slot > Len(states) THEN slot ELSE Len(states)
              new == [n \in 1 .. size |-> IF n = slot THEN i
                                          ELSE IF n \in DOMAIN states THEN states[n] ELSE None]
  <2>1. Seeded(states, i) = new
    BY <1>3 DEF Seeded
  <2>2. Len(states) \in Nat /\ DOMAIN states = 1 .. Len(states)
        /\ \A n \in DOMAIN states : states[n] \in Indices \cup {None}
    BY DEF States
  <2>3. slot \in Nat /\ slot >= 1 /\ sStart + slot - 1 = i
    BY <1>1, <1>3
  <2>. HIDE DEF slot
  <2>4. size \in Nat /\ slot \in 1 .. size /\ DOMAIN states \subseteq 1 .. size
    BY <2>2, <2>3
  <2>5. new \in States
    <3>1. \A n \in 1 .. size : new[n] \in Indices \cup {None}
      BY <2>2
    <3>2. new \in [1 .. size -> Indices \cup {None}]
      BY <3>1
    <3>. QED BY <2>4, <3>2 DEF States
  <2>6. DOMAIN new = 1 .. size
    OBVIOUS
  <2>7. \A n \in 1 .. size : new[n] = IF n = slot THEN i
                                      ELSE IF n \in DOMAIN states THEN states[n] ELSE None
    OBVIOUS
  <2>. HIDE DEF new, size
  <2>8. \A j \in Indices : Placed(states, j) => Placed(new, j)
    BY <1>1, <2>4, <2>6, <2>7 DEF Placed
  <2>9. Placed(new, i)
    BY <1>1, <2>4, <2>6, <2>7 DEF Placed, slot
  <2>10. OwnSlots(states) => OwnSlots(new)
    <3>1. ASSUME OwnSlots(states), NEW n \in DOMAIN new
          PROVE  new[n] \in {None, sStart + n - 1}
      BY <2>3, <2>6, <2>7, <3>1 DEF OwnSlots
    <3>. QED BY <3>1 DEF OwnSlots
  <2>. QED BY <2>1, <2>5, <2>8, <2>9, <2>10
<1>. QED BY <1>2, <1>3

(* applyPendingRng puts what is due in its slot and loses nothing. *)
LEMMA ApplyIs ==
  ASSUME sStart \in Indices, rngStates \in States, NEW pending \in SUBSET Indices, NEW at,
         Apply(pending, at)
  PROVE  /\ rngStates' \in States
         /\ control' = {i \in pending : ~ i <= at.index}
         /\ \A j \in Indices : Placed(rngStates, j) => Placed(rngStates', j)
         /\ \A i \in pending : i <= at.index /\ i > 0 /\ i >= sStart => Placed(rngStates', i)
         /\ OwnSlots(rngStates) => OwnSlots(rngStates')
<1>. DEFINE due == {i \in pending : i <= at.index}
            Step(i, x) == IF i \in due THEN Seeded(x, i) ELSE x
            Fits(g) == g = [i \in -1 .. Last |-> IF i = -1 THEN rngStates ELSE Step(i, g[i - 1])]
            apply == CHOOSE g : Fits(g)
            step == [y \in (0 .. Last) \X States |-> Step(y[1], y[2])]
<1>1. /\ Last \in Nat /\ -1 \in Int /\ Last \in Int /\ -1 <= Last /\ 0 .. Last = Indices
      /\ \A i \in Indices : i \in Nat /\ i <= Last
  BY Bounds DEF Indices
<1>2. rngStates' = apply[Last] /\ control' = pending \ due
  BY DEF Apply
<1>3. ASSUME NEW x \in States, NEW i \in Indices
      PROVE  /\ Step(i, x) \in States
             /\ \A j \in Indices : Placed(x, j) => Placed(Step(i, x), j)
             /\ i \in due /\ i > 0 /\ i >= sStart => Placed(Step(i, x), i)
             /\ OwnSlots(x) => OwnSlots(Step(i, x))
  <2>1. CASE i \in due
    <3>1. Step(i, x) = Seeded(x, i)
      BY <2>1
    <3>. QED BY <3>1, SeededIs
  <2>2. CASE i \notin due
    <3>1. Step(i, x) = x
      BY <2>2
    <3>. QED BY <2>2, <3>1
  <2>. QED BY <2>1, <2>2
<1>. HIDE DEF Step, due
<1>4. \E g : Fits(g)
  <2>. DEFINE a == -1
  <2>1. a \in Int /\ a <= Last /\ step \in [(a + 1 .. Last) \X States -> States]
    <3>1. a + 1 .. Last = 0 .. Last
      BY <1>1
    <3>2. \A y \in (0 .. Last) \X States : step[y] \in States
      BY <1>1, <1>3
    <3>. QED BY <1>1, <3>1, <3>2
  <2>. HIDE DEF step, a
  <2>2. PICK g \in [a .. Last -> States] : IsRecursive(g, a, Last, rngStates, step)
    BY <1>1, <2>1, RecursionExists
  <2>3. ASSUME NEW i \in -1 .. Last
        PROVE  g[i] = IF i = -1 THEN rngStates ELSE Step(i, g[i - 1])
    <3>1. CASE i = -1
      BY <2>2, <3>1 DEF IsRecursive, a
    <3>2. CASE i # -1
      <4>1. i \in 0 .. Last /\ i - 1 \in -1 .. Last
        BY <1>1, <3>2
      <4>2. g[i] = step[<< i, g[i - 1] >>] /\ << i, g[i - 1] >> \in (0 .. Last) \X States
        BY <2>2, <3>2, <4>1 DEF IsRecursive, a
      <4>. QED BY <3>2, <4>2 DEF step
    <3>. QED BY <3>1, <3>2
  <2>4. g = [i \in -1 .. Last |-> IF i = -1 THEN rngStates ELSE Step(i, g[i - 1])]
    BY <2>2, <2>3 DEF IsRecursive, a
  <2>. QED BY <2>4
<1>5. /\ apply[-1] = rngStates
      /\ \A i \in 0 .. Last : apply[i] = Step(i, apply[i - 1])
  <2>. HIDE DEF Fits
  <2>1. Fits(apply)
    BY <1>4
  <2>. HIDE DEF apply
  <2>2. apply = [i \in -1 .. Last |-> IF i = -1 THEN rngStates ELSE Step(i, apply[i - 1])]
    BY <2>1 DEF Fits
  <2>. QED BY <1>1, <2>2
<1>. HIDE DEF apply
<1>. DEFINE Done(x, i) ==
              /\ x \in States
              /\ \A j \in Indices : Placed(rngStates, j) => Placed(x, j)
              /\ \A j \in due : j <= i /\ j > 0 /\ j >= sStart => Placed(x, j)
              /\ OwnSlots(rngStates) => OwnSlots(x)
            S == {i \in -1 .. Last : Done(apply[i], i)}
<1>6. due \subseteq Indices
  BY DEF due
<1>7. -1 \in S
  <2>1. \A j \in due : ~ j <= -1
    BY <1>1, <1>6
  <2>. QED BY <1>1, <1>5, <2>1
<1>8. ASSUME NEW i \in -1 + 1 .. Last, i - 1 \in S PROVE i \in S
  <2>. DEFINE x == apply[i - 1]
  <2>1. i \in 0 .. Last /\ i \in -1 .. Last /\ i \in Indices
    BY <1>1, <1>8
  <2>2. Done(x, i - 1) /\ apply[i] = Step(i, x)
    BY <1>5, <1>8, <2>1
  <2>. HIDE DEF x
  <2>3. /\ Step(i, x) \in States
        /\ \A j \in Indices : Placed(x, j) => Placed(Step(i, x), j)
        /\ i \in due /\ i > 0 /\ i >= sStart => Placed(Step(i, x), i)
        /\ OwnSlots(x) => OwnSlots(Step(i, x))
    BY <1>3, <2>1, <2>2
  <2>4. \A j \in due : j \in Indices /\ (j <= i <=> j <= i - 1 \/ j = i)
    BY <1>1, <1>6, <2>1
  <2>5. Done(Step(i, x), i)
    BY <2>2, <2>3, <2>4
  <2>. HIDE DEF Done
  <2>. QED BY <2>1, <2>2, <2>5
<1>9. Last \in S
  <2>. HIDE DEF S
  <2>1. -1 .. Last \subseteq S
    BY <1>1, <1>7, <1>8, Climb
  <2>. QED BY <1>1, <2>1
<1>. DEFINE r == apply[Last]
<1>10. Done(r, Last)
  BY <1>9
<1>. HIDE DEF r
<1>11. \A i \in pending : i \in Indices /\ (i <= at.index <=> i \in due) /\ i <= Last
  BY <1>1 DEF due
<1>12. control' = {i \in pending : ~ i <= at.index}
  BY <1>2, <1>11
<1>13. rngStates' = r
  BY <1>2 DEF r
<1>. QED BY <1>10, <1>11, <1>12, <1>13

-----------------------------------------------------------------------------
(* The stream without one of its messages *)

LEMMA RemovedIs ==
  ASSUME NEW S, NEW list \in Seq(S), NEW k \in 1 .. Len(list)
  PROVE  LET new == Lists!RemoveAt(list, k)
         IN  /\ new \in Seq(S) /\ Len(new) = Len(list) - 1
             /\ \A m \in 1 .. Len(list) - 1 : new[m] = IF m < k THEN list[m] ELSE list[m + 1]
<1>. DEFINE new == SubSeq(list, 1, k - 1) \o SubSeq(list, k + 1, Len(list))
<1>1. Lists!RemoveAt(list, k) = new
  BY DEF Lists!RemoveAt
<1>2. Len(list) \in Nat /\ k \in Nat /\ k >= 1 /\ k <= Len(list)
  OBVIOUS
<1>3. /\ SubSeq(list, 1, k - 1) \in Seq(S) /\ Len(SubSeq(list, 1, k - 1)) = k - 1
      /\ \A m \in 1 .. k - 1 : SubSeq(list, 1, k - 1)[m] = list[m]
  BY <1>2
<1>4. /\ SubSeq(list, k + 1, Len(list)) \in Seq(S) /\ Len(SubSeq(list, k + 1, Len(list))) = Len(list) - k
      /\ \A m \in 1 .. Len(list) - k : SubSeq(list, k + 1, Len(list))[m] = list[k + m]
  BY <1>2
<1>. DEFINE a == SubSeq(list, 1, k - 1)
            b == SubSeq(list, k + 1, Len(list))
<1>5. a \in Seq(S) /\ Len(a) = k - 1 /\ b \in Seq(S) /\ Len(b) = Len(list) - k /\ new = a \o b
  BY <1>3, <1>4
<1>. HIDE DEF a, b
<1>6. a \o b \in Seq(S) /\ Len(a \o b) = Len(list) - 1
  BY <1>5
<1>7. ASSUME NEW m \in 1 .. Len(list) - 1
      PROVE  (a \o b)[m] = IF m < k THEN list[m] ELSE list[m + 1]
  <2>1. CASE m < k
    <3>1. m \in 1 .. k - 1 /\ m \in 1 .. Len(a)
      BY <1>2, <1>5, <2>1
    <3>2. (a \o b)[m] = a[m]
      BY <1>5, <3>1
    <3>. QED BY <1>3, <2>1, <3>1, <3>2 DEF a
  <2>2. CASE ~ m < k
    <3>1. m - (k - 1) \in 1 .. Len(list) - k /\ k + (m - (k - 1)) = m + 1 /\ ~ m <= Len(a)
          /\ m \in 1 .. Len(a) + Len(b)
      BY <1>2, <1>5, <2>2
    <3>2. (a \o b)[m] = b[m - (k - 1)]
      <4>1. a \in Seq(S) /\ b \in Seq(S) /\ m \in 1 .. Len(a) + Len(b) /\ ~ m <= Len(a)
        BY <1>5, <3>1
      <4>2. (a \o b)[m] = b[m - Len(a)]
        BY <4>1
      <4>. QED BY <1>5, <4>2
    <3>. QED BY <1>4, <2>2, <3>1, <3>2 DEF b
  <2>. QED BY <2>1, <2>2
<1>. QED BY <1>1, <1>5, <1>6, <1>7

LEMMA KindIs ==
  ASSUME NEW msg \in Messages
  PROVE  \/ msg = Config /\ msg.type = "config"
         \/ \E i \in Indices : msg = Control(i) /\ msg.type = "control" /\ msg.index = i
         \/ msg \in Batches /\ msg.type = "inputs"
BY ControlFields, BatchFields DEF Messages, Config

(* What handling one message does to the client. *)
Rest == << sIndex, sFrame, sStart, sync, scene, played, announced, seed, jumped >>
WithBatch(b) == [future EXCEPT ![b.index] = Append(@, b)]

Applies(pending, at) ==
  /\ rngStates' \in States
  /\ control' = {i \in pending : ~ i <= at.index}
  /\ \A j \in Indices : Placed(rngStates, j) => Placed(rngStates', j)
  /\ \A i \in pending : i <= at.index /\ i > 0 /\ i >= sStart => Placed(rngStates', i)
  /\ OwnSlots(rngStates) => OwnSlots(rngStates')

TakesControl(i) ==
  /\ Applies(control \cup {i}, position)
  /\ UNCHANGED << future, position, head, held >> /\ UNCHANGED Rest

TakesInputs(b) ==
  /\ head' = b.index
  /\ Flushed(WithBatch(b), position, held, [future |-> future', at |-> position', held |-> held'])
  /\ Applies(control, position')
  /\ UNCHANGED Rest

Takes(msg) ==
  \/ msg = Config /\ msg.type = "config" /\ UNCHANGED clientVars
  \/ \E i \in Indices : msg = Control(i) /\ TakesControl(i)
  \/ msg \in Batches /\ TakesInputs(msg)

Removed(n) ==
  /\ stream' \in Seq(Messages) /\ Len(stream') = Len(stream) - 1
  /\ n \in 0 .. Len(stream) - 1
  /\ \A m \in 1 .. Len(stream) - 1 : stream'[m] = IF m <= n THEN stream[m] ELSE stream[m + 1]

LEMMA WithBatchIs ==
  ASSUME IInv, NEW b \in Batches, head <= b.index
  PROVE  /\ WithBatch(b) \in [Indices -> Seq(Batches)]
         /\ WithBatch(b)[b.index] = Append(future[b.index], b)
         /\ \A i \in Indices : i # b.index => WithBatch(b)[i] = future[i]
         /\ \A i \in Indices : \A n \in DOMAIN WithBatch(b)[i] : WithBatch(b)[i][n].index = i
         /\ \A i \in Indices : WithBatch(b)[i] # << >> => position.index <= i /\ i <= b.index
         /\ WithBatch(b)[b.index] # << >>
<1>. DEFINE f == WithBatch(b)
            old == future[b.index]
<1>1. future \in [Indices -> Seq(Batches)] /\ head \in Indices /\ position.index \in Indices
      /\ FutureIsOwn /\ PositionIsLast
  BY DEF IInv, HostInv, HoldInv, SeedInv, TypeOK
<1>2. b.index \in Indices
  BY BatchFields
<1>3. f = [future EXCEPT ![b.index] = Append(future[b.index], b)]
  BY DEF WithBatch
<1>. HIDE DEF f
<1>4. old \in Seq(Batches) /\ \A n \in DOMAIN old : old[n].index = b.index
  BY <1>1, <1>2 DEF FutureIsOwn
<1>5. f \in [Indices -> Seq(Batches)] /\ f[b.index] = Append(old, b)
      /\ \A i \in Indices : i # b.index => f[i] = future[i]
  BY <1>1, <1>2, <1>3
<1>. HIDE DEF old
<1>6. Append(old, b) # << >>
  <2>1. Len(Append(old, b)) = Len(old) + 1 /\ Len(old) \in Nat
    BY <1>4
  <2>2. Len(<< >>) = 0
    OBVIOUS
  <2>. HIDE DEF old
  <2>. QED BY <2>1, <2>2
<1>7. \A n \in DOMAIN Append(old, b) : Append(old, b)[n].index = b.index
  <2>1. ASSUME NEW n \in DOMAIN Append(old, b) PROVE Append(old, b)[n].index = b.index
    <3>1. n \in DOMAIN old \/ n = Len(old) + 1
      BY <1>4
    <3>2. Append(old, b)[n] = IF n = Len(old) + 1 THEN b ELSE old[n]
      BY <1>4
    <3>. QED BY <1>4, <3>1, <3>2
  <2>. QED BY <2>1
<1>8. ASSUME NEW i \in Indices
      PROVE  \A n \in DOMAIN f[i] : f[i][n].index = i
  BY <1>1, <1>5, <1>7 DEF FutureIsOwn
<1>9. ASSUME NEW i \in Indices, f[i] # << >>
      PROVE  position.index <= i /\ i <= b.index
  <2>1. i \in Nat /\ b.index \in Nat /\ head \in Nat /\ position.index \in Nat
    BY <1>1, <1>2, Bounds
  <2>2. CASE i = b.index
    BY <1>1, <2>1, <2>2 DEF PositionIsLast
  <2>3. CASE i # b.index
    BY <1>1, <1>5, <1>9, <2>1, <2>3 DEF PositionIsLast
  <2>. QED BY <2>2, <2>3
<1>. QED BY <1>2, <1>5, <1>6, <1>8, <1>9 DEF f, old

LEMMA DeliverIs ==
  ASSUME IInv, NEW n \in 0 .. Len(stream), Deliver(n)
  PROVE  /\ Overtaken(n) /\ Removed(n) /\ UNCHANGED hostVars
         /\ stream[n + 1] \in Messages /\ Takes(stream[n + 1])
<1>. DEFINE msg == stream[n + 1]
            done == Flush([future EXCEPT ![msg.index] = Append(@, msg)], position, held)
<1>1. /\ stream \in Seq(Messages) /\ sStart \in Indices /\ rngStates \in States
      /\ control \in SUBSET Indices /\ position.index \in Indices /\ held \in HeldType
  BY DEF IInv, HostInv, TypeOK, States, HeldType
<1>2. Overtaken(n) /\ UNCHANGED hostVars /\ stream' = Lists!RemoveAt(stream, n + 1)
  BY DEF Deliver
<1>3. n + 1 \in 1 .. Len(stream) /\ Len(stream) \in Nat /\ msg \in Messages
  <2>1. n < Len(stream)
    BY <1>2 DEF Overtaken
  <2>. QED BY <1>1, <2>1
<1>4. Removed(n)
  <2>1. /\ stream' \in Seq(Messages) /\ Len(stream') = Len(stream) - 1
        /\ \A m \in 1 .. Len(stream) - 1 : stream'[m] = IF m < n + 1 THEN stream[m] ELSE stream[m + 1]
    BY <1>1, <1>2, <1>3, RemovedIs
  <2>2. \A m \in 1 .. Len(stream) - 1 : m < n + 1 <=> m <= n
    BY <1>3
  <2>. QED BY <1>3, <2>1, <2>2 DEF Removed
<1>5. \/ msg.type = "config" /\ UNCHANGED clientVars
      \/ /\ msg.type = "control"
         /\ Apply(control \cup {msg.index}, position)
         /\ UNCHANGED << future, position, head, held >> /\ UNCHANGED Rest
      \/ /\ msg.type = "inputs"
         /\ head' = msg.index
         /\ future' = done.future /\ position' = done.at /\ held' = done.held
         /\ Apply(control, done.at)
         /\ UNCHANGED Rest
  BY DEF Deliver, Rest
<1>6. /\ msg.type = "inputs" => head <= msg.index
  <2>1. \A k \in DOMAIN stream : stream[k].type = "inputs" => head <= stream[k].index
    BY DEF IInv, SeedInv, InOrder
  <2>. QED BY <1>1, <1>3, <2>1
<1>. HIDE DEF msg
<1>7. ASSUME msg = Config /\ msg.type = "config"
      PROVE  Takes(msg)
  BY <1>5, <1>7 DEF Takes
<1>8. ASSUME NEW i \in Indices, msg = Control(i) /\ msg.type = "control" /\ msg.index = i
      PROVE  Takes(msg)
  <2>1. Apply(control \cup {i}, position)
        /\ UNCHANGED << future, position, head, held >> /\ UNCHANGED Rest
    BY <1>5, <1>8
  <2>2. control \cup {i} \in SUBSET Indices
    BY <1>1
  <2>3. Applies(control \cup {i}, position)
    BY <1>1, <2>1, <2>2, ApplyIs DEF Applies
  <2>. QED BY <1>8, <2>1, <2>3 DEF Takes, TakesControl
<1>9. ASSUME msg \in Batches /\ msg.type = "inputs"
      PROVE  Takes(msg)
  <2>. DEFINE f == WithBatch(msg)
  <2>1. /\ head' = msg.index
        /\ future' = done.future /\ position' = done.at /\ held' = done.held
        /\ Apply(control, done.at) /\ UNCHANGED Rest
    BY <1>5, <1>9
  <2>2. done = Flush(f, position, held)
    BY DEF WithBatch
  <2>3. /\ f \in [Indices -> Seq(Batches)]
        /\ \A i \in Indices : \A k \in DOMAIN f[i] : f[i][k].index = i
        /\ \A i \in Indices : f[i] # << >> => position.index <= i
    BY <1>6, <1>9, WithBatchIs
  <2>. HIDE DEF f, done
  <2>4. Flushed(f, position, held, Flush(f, position, held))
    <3>. HIDE DEF msg
    <3>. QED BY <1>1, <2>3, FlushIs
  <2>5. Flushed(f, position, held, [future |-> future', at |-> position', held |-> held'])
    BY <2>1, <2>2, <2>4 DEF Flushed
  <2>6. Applies(control, position')
    <3>1. Applies(control, done.at)
      BY <1>1, <2>1, ApplyIs DEF Applies
    <3>. QED BY <2>1, <3>1 DEF Applies
  <2>. QED BY <1>9, <2>1, <2>5, <2>6 DEF Takes, TakesInputs, f
<1>10. Takes(msg)
  <2>1. \/ msg = Config /\ msg.type = "config"
        \/ \E i \in Indices : msg = Control(i) /\ msg.type = "control" /\ msg.index = i
        \/ msg \in Batches /\ msg.type = "inputs"
    BY <1>3, KindIs
  <2>. QED BY <1>7, <1>8, <1>9, <2>1
<1>. QED BY <1>2, <1>3, <1>4, <1>10 DEF msg

-----------------------------------------------------------------------------
(* The client's steps keep the types, and leave the archive alone *)

LEMMA DeliverHost ==
  ASSUME IInv, NEW n \in 0 .. Len(stream), Deliver(n)
  PROVE  HostInv'
<1>1. Overtaken(n) /\ Removed(n) /\ UNCHANGED hostVars /\ Takes(stream[n + 1])
  BY DeliverIs
<1>2. HostInv /\ TypeOK
  BY DEF IInv, HostInv
<1>3. /\ future' \in [Indices -> Seq(Batches)] /\ control' \in SUBSET Indices
      /\ rngStates' \in Seq(Indices \cup {None})
      /\ position'.index \in Indices /\ head' \in Indices /\ held' \in [Indices -> SUBSET Nat]
      /\ UNCHANGED Rest
  <2>1. /\ future \in [Indices -> Seq(Batches)] /\ control \in SUBSET Indices
        /\ rngStates \in Seq(Indices \cup {None})
        /\ position.index \in Indices /\ head \in Indices /\ held \in [Indices -> SUBSET Nat]
    BY <1>2 DEF TypeOK
  <2>2. CASE UNCHANGED clientVars
    BY <2>1, <2>2 DEF clientVars, Rest
  <2>3. ASSUME NEW i \in Indices, TakesControl(i)
        PROVE  /\ future' \in [Indices -> Seq(Batches)] /\ control' \in SUBSET Indices
               /\ rngStates' \in Seq(Indices \cup {None})
               /\ position'.index \in Indices /\ head' \in Indices
               /\ held' \in [Indices -> SUBSET Nat] /\ UNCHANGED Rest
    BY <2>1, <2>3 DEF TakesControl, Applies, States
  <2>4. ASSUME stream[n + 1] \in Batches, TakesInputs(stream[n + 1])
        PROVE  /\ future' \in [Indices -> Seq(Batches)] /\ control' \in SUBSET Indices
               /\ rngStates' \in Seq(Indices \cup {None})
               /\ position'.index \in Indices /\ head' \in Indices
               /\ held' \in [Indices -> SUBSET Nat] /\ UNCHANGED Rest
    <3>1. head' \in Indices
      BY <2>4, BatchFields DEF TakesInputs
    <3>2. /\ future' \in [Indices -> Seq(Batches)] /\ held' \in [Indices -> SUBSET Nat]
          /\ position'.index \in Indices
      BY <2>4 DEF TakesInputs, Flushed, HeldType
    <3>3. rngStates' \in Seq(Indices \cup {None}) /\ control' \in SUBSET Indices
      BY <2>1, <2>4 DEF TakesInputs, Applies, States
    <3>. QED BY <2>4, <3>1, <3>2, <3>3 DEF TakesInputs
  <2>. QED BY <1>1, <2>2, <2>3, <2>4 DEF Takes
<1>4. missed' \in 0 .. Len(stream') /\ sameFrame' \in BOOLEAN
  <2>1. /\ missed \in 0 .. Len(stream) /\ sameFrame \in BOOLEAN
        /\ n \in 0 .. Len(stream) - 1 /\ Len(stream') = Len(stream) - 1 /\ stream \in Seq(Messages)
    BY <1>1, <1>2 DEF TypeOK, Removed
  <2>2. /\ missed' = IF n > 0 THEN n ELSE IF missed > 0 THEN missed - 1 ELSE 0
        /\ sameFrame' = (n > 0 \/ (sameFrame /\ missed > 1))
    BY <1>1 DEF Overtaken
  <2>. QED BY <2>1, <2>2
<1>5. stream' \in Seq(Messages)
  BY <1>1 DEF Removed
<1>6. TypeOK'
  <2>1. /\ index' \in Indices /\ frame' \in Nat
        /\ end' \in [Players -> [Indices -> Nat]]
        /\ left' \in [Indices -> Nat]
        /\ start' \in Indices /\ preserve' \in Indices \cup {Unset}
        /\ pos'.index \in 0 .. index' /\ pos'.frame \in Nat
        /\ archive' \in Seq(Batches) /\ rngArchive' \in SUBSET Indices
        /\ cursor' \in {NotJoined} \cup 0 .. Len(archive')
    BY <1>1, <1>2 DEF TypeOK, hostVars
  <2>2. /\ sIndex' \in Indices /\ sFrame' \in Nat /\ sStart' \in Indices
        /\ scene' \in Indices /\ played' \in Nat /\ sync' \in BOOLEAN
        /\ announced' \in Indices /\ jumped' \in BOOLEAN /\ seed'.rng \in Indices \cup {None}
    BY <1>2, <1>3 DEF TypeOK, Rest
  <2>. QED BY <1>3, <1>4, <1>5, <2>1, <2>2 DEF TypeOK
<1>7. UNCHANGED << index, start, preserve, pos, archive >> /\ end' = end
  BY <1>1 DEF hostVars
<1>. QED BY <1>2, <1>6, <1>7, HostRests, EndsStay

LEMMA JumpHost ==
  ASSUME HostInv, Jump
  PROVE  HostInv'
<1>1. TypeOK
  BY DEF HostInv
<1>2. /\ future' = [i \in Indices |-> IF i < head THEN << >> ELSE future[i]]
      /\ control' = {i \in control : i >= head}
      /\ held' = [i \in Indices |-> IF i < head THEN {} ELSE held[i]]
      /\ sIndex' = head /\ sFrame' = 0 /\ sStart' = head
      /\ position' = [index |-> head, frame |-> 0] /\ jumped' = TRUE
      /\ UNCHANGED << hostVars, stream, drainVars, rngStates, head, sync, scene, played,
                      announced, seed >>
  BY DEF Jump
<1>3. /\ future \in [Indices -> Seq(Batches)] /\ held \in [Indices -> SUBSET Nat]
      /\ control \in SUBSET Indices /\ head \in Indices
  BY <1>1 DEF TypeOK
<1>4. /\ future' \in [Indices -> Seq(Batches)] /\ held' \in [Indices -> SUBSET Nat]
      /\ control' \in SUBSET Indices /\ position'.index \in Indices
  <2>1. \A i \in Indices : /\ (IF i < head THEN << >> ELSE future[i]) \in Seq(Batches)
                           /\ (IF i < head THEN {} ELSE held[i]) \in SUBSET Nat
    BY <1>3
  <2>. QED BY <1>2, <1>3, <2>1
<1>5. TypeOK'
  BY <1>1, <1>2, <1>3, <1>4 DEF TypeOK, hostVars, drainVars
<1>6. UNCHANGED << index, start, preserve, pos, archive >> /\ end' = end
  BY <1>2 DEF hostVars
<1>. QED BY <1>1, <1>5, <1>6, HostRests, EndsStay

LEMMA PlayFrameHost ==
  ASSUME HostInv, PlayFrame
  PROVE  HostInv'
<1>1. TypeOK
  BY DEF HostInv
<1>2. /\ sStart' = sStart /\ sFrame' = sFrame + 1 /\ played' = played + 1
      /\ sameFrame' = FALSE /\ missed' = missed
      /\ GiveSeed(sync, rngStates, sIndex, played, seed)
      /\ UNCHANGED << hostVars, stream, future, control, rngStates, position, head, held,
                      sIndex, scene, announced, jumped >>
  BY DEF PlayFrame, FramePlayed
<1>3. sync' \in BOOLEAN /\ seed'.rng \in Indices \cup {None}
  <2>1. /\ sync \in BOOLEAN /\ sIndex \in Indices /\ seed.rng \in Indices \cup {None}
        /\ rngStates \in Seq(Indices \cup {None})
    BY <1>1 DEF TypeOK
  <2>2. \A k \in DOMAIN rngStates : rngStates[k] \in Indices \cup {None}
    BY <2>1
  <2>. QED BY <1>2, <2>1, <2>2 DEF GiveSeed
<1>4. TypeOK'
  <2>1. sFrame' \in Nat /\ played' \in Nat /\ sameFrame' \in BOOLEAN
    <3>1. sFrame \in Nat /\ played \in Nat
      BY <1>1 DEF TypeOK
    <3>2. sFrame' = sFrame + 1 /\ played' = played + 1
      BY <1>2
    <3>3. sFrame' \in Nat /\ played' \in Nat
      BY <3>1, <3>2
    <3>4. sameFrame' = FALSE
      BY <1>2
    <3>. QED BY <3>3, <3>4
  <2>. QED BY <1>1, <1>2, <1>3, <2>1 DEF TypeOK, hostVars
<1>5. UNCHANGED << index, start, preserve, pos, archive >> /\ end' = end
  BY <1>2 DEF hostVars
<1>. QED BY <1>1, <1>4, <1>5, HostRests, EndsStay

LEMMA PlayMovesHost ==
  ASSUME HostInv, PlayMoves, sStart <= sIndex
  PROVE  /\ HostInv'
         /\ sStart' \in {sStart, sIndex + 1}
         /\ held' = [i \in Indices |-> IF i < sStart' THEN {} ELSE held[i]]
         /\ rngStates' = SubSeq(rngStates, sStart' - sStart + 1, Len(rngStates))
         /\ GiveSeed(sync \/ HasControl(scene + 1), rngStates', sIndex + 1, 0, Unseeded)
         /\ scene' = scene + 1 /\ played' = 1 /\ sIndex' = sIndex + 1 /\ sFrame' = 1
         /\ UNCHANGED << hostVars, stream, future, control, position, head, jumped >>
<1>1. TypeOK
  BY DEF HostInv
<1>2. /\ sStart' \in {sStart, sIndex + 1}
      /\ held' = [i \in Indices |-> IF i < sStart' THEN {} ELSE held[i]]
      /\ rngStates' = SubSeq(rngStates, sStart' - sStart + 1, Len(rngStates))
      /\ scene' = scene + 1 /\ played' = 1 /\ sIndex' = sIndex + 1 /\ sFrame' = 1
      /\ announced' = sIndex + 1
      /\ sameFrame' = FALSE /\ missed' = missed
      /\ GiveSeed(sync \/ HasControl(scene + 1), rngStates', sIndex + 1, 0, Unseeded)
      /\ UNCHANGED << hostVars, stream, future, control, position, head, jumped >>
      /\ scene < Last /\ sIndex < Last
  BY DEF PlayMoves, FramePlayed
<1>3. /\ scene \in Nat /\ sIndex \in Nat /\ sStart \in Nat /\ sStart \in Indices
      /\ held \in [Indices -> SUBSET Nat] /\ rngStates \in Seq(Indices \cup {None})
      /\ scene + 1 \in Indices /\ sIndex + 1 \in Indices
  <2>0. /\ scene \in Indices /\ sIndex \in Indices /\ sStart \in Indices
        /\ held \in [Indices -> SUBSET Nat] /\ rngStates \in Seq(Indices \cup {None})
    BY <1>1 DEF TypeOK
  <2>1. scene \in Nat /\ sIndex \in Nat /\ sStart \in Nat /\ Last \in Nat
    BY <2>0, Bounds
  <2>2. scene + 1 \in Nat /\ scene + 1 <= Last /\ sIndex + 1 \in Nat /\ sIndex + 1 <= Last
    BY <1>2, <2>1
  <2>3. scene + 1 \in Indices /\ sIndex + 1 \in Indices
    BY <2>2, Bounds
  <2>. QED BY <2>0, <2>1, <2>3
<1>4. held' \in [Indices -> SUBSET Nat]
  <2>1. \A i \in Indices : (IF i < sStart' THEN {} ELSE held[i]) \in SUBSET Nat
    BY <1>3
  <2>. QED BY <1>2, <2>1
<1>5. rngStates' \in Seq(Indices \cup {None})
  <2>1. sStart' - sStart + 1 \in Nat /\ sStart' - sStart + 1 >= 1 /\ sStart' \in Indices
    <3>1. sStart' = sStart \/ sStart' = sIndex + 1
      BY <1>2
    <3>. QED BY <1>3, <3>1
  <2>. DEFINE a == sStart' - sStart + 1
  <2>2. rngStates' = SubSeq(rngStates, a, Len(rngStates)) /\ a \in Nat /\ a >= 1
        /\ rngStates \in Seq(Indices \cup {None})
    BY <1>2, <1>3, <2>1
  <2>. HIDE DEF a
  <2>3. SubSeq(rngStates, a, Len(rngStates)) \in Seq(Indices \cup {None})
    BY <2>2
  <2>. QED BY <2>2, <2>3
<1>6. sync' \in BOOLEAN /\ seed'.rng \in Indices \cup {None}
  <2>1. \A k \in DOMAIN rngStates' : rngStates'[k] \in Indices \cup {None}
    BY <1>5
  <2>2. Unseeded.rng = None
    BY DEF Unseeded
  <2>3. sync \in BOOLEAN
    BY <1>1 DEF TypeOK
  <2>. QED BY <1>2, <2>1, <2>2, <2>3 DEF GiveSeed
<1>7. sStart' \in Indices
  BY <1>2, <1>3
<1>8. TypeOK'
  <2>1. /\ sFrame' \in Nat /\ played' \in Nat /\ scene' \in Indices /\ sIndex' \in Indices
        /\ announced' \in Indices /\ sameFrame' \in BOOLEAN
    BY <1>2, <1>3
  <2>. QED BY <1>1, <1>2, <1>4, <1>5, <1>6, <1>7, <2>1 DEF TypeOK, hostVars
<1>9. UNCHANGED << index, start, preserve, pos, archive >> /\ end' = end
  BY <1>2 DEF hostVars
<1>10. HostInv'
  BY <1>1, <1>8, <1>9, HostRests, EndsStay
<1>. QED BY <1>2, <1>10

LEMMA InitHost ==
  ASSUME Init
  PROVE  HostInv
<1>1. /\ 0 \in Indices /\ Window \in Nat /\ Window > 0
  BY Bounds
<1>2. TypeOK
  <2>1. << >> \in Seq(Batches) /\ << >> \in Seq(Messages) /\ << >> \in Seq(Indices \cup {None})
        /\ Len(<< >>) = 0
    OBVIOUS
  <2>. QED BY <1>1, <2>1 DEF Init, TypeOK, Unseeded, NotJoined
<1>3. pos \in PosType /\ pos.index = 0 /\ pos.frame = 0 /\ archive = << >> /\ start = 0
      /\ preserve = Unset
  BY <1>1 DEF Init, PosType
<1>4. DOMAIN archive = {} /\ Len(archive) = 0
  BY <1>3
<1>5. \A i : AllOf(archive, i) = {}
  <2>1. ASSUME NEW i, NEW f PROVE f \notin AllOf(archive, i)
    BY <1>4, UptoIs DEF AllOf
  <2>. QED BY <2>1
<1>6. Sound(pos, archive)
  <2>1. 0 .. pos.frame - Window = {}
    BY <1>1, <1>3
  <2>. QED BY <1>4, <1>5, <2>1 DEF Sound, Ordered, Linked, IsPrefix
<1>. QED BY <1>2, <1>3, <1>6 DEF HostInv, NothingUnreadErased, PreserveHolds, NothingErasedBefore

-----------------------------------------------------------------------------
(* From the archive into the containers *)

Part(msg, i) == IF msg.type = "inputs" /\ msg.index = i THEN Covers(msg) ELSE {}

LEMMA JoinsMore ==
  ASSUME NEW b, NEW F, NEW G, Joins(b, F), F \subseteq G
  PROVE  Joins(b, G)
BY DEF Joins

LEMMA PrefixGrows ==
  ASSUME NEW b \in Batches, NEW F, IsPrefix(F), Joins(b, F)
  PROVE  IsPrefix(F \cup Covers(b))
<1>1. Covers(b) = b.start .. b.end - 1 /\ b.start \in Nat /\ b.end \in Nat
  BY BatchFields
<1>2. ASSUME NEW f \in F \cup Covers(b), NEW g \in 0 .. f PROVE g \in F \cup Covers(b)
  <2>1. CASE f \in F
    BY <2>1 DEF IsPrefix
  <2>2. CASE f \in Covers(b)
    <3>1. f \in b.start .. b.end - 1 /\ g \in Nat /\ g <= f
      BY <1>1, <2>2
    <3>2. CASE g >= b.start
      BY <1>1, <3>1, <3>2
    <3>3. CASE ~ g >= b.start
      <4>1. b.start # 0 /\ b.start - 1 \in F /\ g \in 0 .. b.start - 1
        BY <1>1, <3>1, <3>3 DEF Joins
      <4>. QED BY <4>1 DEF IsPrefix
    <3>. QED BY <3>2, <3>3
  <2>. QED BY <2>1, <2>2
<1>. QED BY <1>2 DEF IsPrefix

(* A message taken out of the stream takes its own frames along, and no others. *)
LEMMA RemovedFrames ==
  ASSUME stream \in Seq(Messages), NEW n, Removed(n), NEW i
  PROVE  /\ AllOf(stream, i) \subseteq AllOf(stream', i) \cup Part(stream[n + 1], i)
         /\ \A m \in DOMAIN stream' : \E k \in DOMAIN stream :
              /\ stream'[m] = stream[k] /\ k = IF m <= n THEN m ELSE m + 1
              /\ Upto(stream, k - 1, i) \subseteq Upto(stream', m - 1, i) \cup Part(stream[n + 1], i)
<1>1. /\ Len(stream) \in Nat /\ DOMAIN stream = 1 .. Len(stream)
      /\ DOMAIN stream' = 1 .. Len(stream) - 1 /\ n \in 0 .. Len(stream) - 1
      /\ Len(stream') = Len(stream) - 1
      /\ \A m \in 1 .. Len(stream) - 1 : stream'[m] = IF m <= n THEN stream[m] ELSE stream[m + 1]
  <2>1. stream' \in Seq(Messages) /\ Len(stream') = Len(stream) - 1
    BY DEF Removed
  <2>. QED BY <2>1 DEF Removed
<1>2. ASSUME NEW p \in 1 .. Len(stream), NEW q \in Int, p <= n => p <= q, p > n + 1 => p - 1 <= q,
             stream[p].type = "inputs", stream[p].index = i, NEW f \in Covers(stream[p])
      PROVE  f \in Upto(stream', q, i) \cup Part(stream[n + 1], i)
  <2>1. CASE p <= n
    <3>1. p \in DOMAIN stream' /\ stream'[p] = stream[p] /\ p <= q
      BY <1>1, <1>2, <2>1
    <3>. QED BY <1>2, <3>1, UptoIs
  <2>2. CASE p = n + 1
    BY <1>2, <2>2 DEF Part
  <2>3. CASE p > n + 1
    <3>1. p - 1 \in DOMAIN stream' /\ stream'[p - 1] = stream[p] /\ p - 1 <= q
      BY <1>1, <1>2, <2>3
    <3>. QED BY <1>2, <3>1, UptoIs
  <2>. QED BY <1>1, <2>1, <2>2, <2>3
<1>3. ASSUME NEW f \in AllOf(stream, i)
      PROVE  f \in AllOf(stream', i) \cup Part(stream[n + 1], i)
  <2>1. PICK p \in DOMAIN stream : /\ p <= Len(stream) /\ stream[p].type = "inputs"
                                   /\ stream[p].index = i /\ f \in Covers(stream[p])
    BY UptoIs DEF AllOf
  <2>2. p \in 1 .. Len(stream) /\ Len(stream') \in Int
        /\ (p <= n => p <= Len(stream')) /\ (p > n + 1 => p - 1 <= Len(stream'))
    BY <1>1, <2>1
  <2>. QED BY <1>2, <2>1, <2>2 DEF AllOf
<1>4. ASSUME NEW m \in DOMAIN stream'
      PROVE  \E k \in DOMAIN stream :
              /\ stream'[m] = stream[k] /\ k = IF m <= n THEN m ELSE m + 1
              /\ Upto(stream, k - 1, i) \subseteq Upto(stream', m - 1, i) \cup Part(stream[n + 1], i)
  <2>. DEFINE k == IF m <= n THEN m ELSE m + 1
  <2>1. k \in DOMAIN stream /\ k \in Nat /\ m \in Nat /\ stream'[m] = stream[k]
        /\ k = IF m <= n THEN m ELSE m + 1
    BY <1>1
  <2>. HIDE DEF k
  <2>2. ASSUME NEW f \in Upto(stream, k - 1, i)
        PROVE  f \in Upto(stream', m - 1, i) \cup Part(stream[n + 1], i)
    <3>1. PICK p \in DOMAIN stream : /\ p <= k - 1 /\ stream[p].type = "inputs"
                                     /\ stream[p].index = i /\ f \in Covers(stream[p])
      BY UptoIs
    <3>2. p \in 1 .. Len(stream) /\ m - 1 \in Int
          /\ (p <= n => p <= m - 1) /\ (p > n + 1 => p - 1 <= m - 1)
      BY <1>1, <2>1, <3>1
    <3>. QED BY <1>2, <3>1, <3>2
  <2>. QED BY <2>1, <2>2
<1>. QED BY <1>3, <1>4

LEMMA HoldStays ==
  ASSUME HoldInv, UNCHANGED << future, held, archive, cursor, stream, sIndex, sStart >>
  PROVE  HoldInv'
<1>1. \A i : Has(i)' = Has(i)
  BY DEF Has
<1>2. FutureIsOwn'
  BY DEF HoldInv, FutureIsOwn
<1>3. SentIsHere'
  BY <1>1 DEF HoldInv, SentIsHere
<1>4. HereIsPrefix'
  BY <1>1 DEF HoldInv, HereIsPrefix
<1>5. StreamJoins'
  BY <1>1 DEF HoldInv, StreamJoins
<1>. QED BY <1>2, <1>3, <1>4, <1>5 DEF HoldInv

(* What the spectator has of index i after the step. *)
HasNext(i) == held'[i] \cup AllOf(future'[i], i)

(* A message is taken out of the stream, and its frames, if it has any, are now here. *)
LEMMA HoldTakes ==
  ASSUME HoldInv, TypeOK, NEW n, Removed(n), UNCHANGED << archive, cursor, sIndex, sStart >>,
         FutureIsOwn', HereIsPrefix',
         \A i \in sIndex .. Last : Has(i) \cup Part(stream[n + 1], i) \subseteq HasNext(i)
  PROVE  HoldInv'
<1>1. stream \in Seq(Messages) /\ sIndex \in Nat
  BY Bounds DEF TypeOK
<1>2. SentIsHere'
  <2>1. ASSUME NEW i \in sIndex .. Last
        PROVE  Upto(archive, cursor, i) \subseteq HasNext(i) \cup AllOf(stream', i)
    <3>1. AllOf(stream, i) \subseteq AllOf(stream', i) \cup Part(stream[n + 1], i)
      BY <1>1, RemovedFrames
    <3>2. Upto(archive, cursor, i) \subseteq Has(i) \cup AllOf(stream, i)
      BY <2>1 DEF HoldInv, SentIsHere
    <3>3. Has(i) \cup Part(stream[n + 1], i) \subseteq HasNext(i)
      BY <2>1
    <3>. QED BY <3>1, <3>2, <3>3
  <2>. QED BY <2>1 DEF SentIsHere, Has, HasNext
<1>3. StreamJoins'
  <2>1. ASSUME NEW m \in DOMAIN stream', stream'[m].type = "inputs", stream'[m].index >= sIndex
        PROVE  Joins(stream'[m], HasNext(stream'[m].index) \cup Upto(stream', m - 1, stream'[m].index))
    <3>. DEFINE i == stream'[m].index
    <3>1. PICK k \in DOMAIN stream :
            /\ stream'[m] = stream[k]
            /\ Upto(stream, k - 1, i) \subseteq Upto(stream', m - 1, i) \cup Part(stream[n + 1], i)
      BY <1>1, RemovedFrames
    <3>2. Joins(stream[k], Has(i) \cup Upto(stream, k - 1, i))
      BY <2>1, <3>1 DEF HoldInv, StreamJoins
    <3>3. i \in sIndex .. Last
      <4>1. stream[k] \in Messages
        BY <1>1
      <4>2. stream[k] \in Batches
        BY <2>1, <3>1, <4>1, KindIs
      <4>3. i \in Nat /\ i <= Last /\ i >= sIndex
        BY <2>1, <3>1, <4>2, BatchFields, Bounds
      <4>. QED BY <1>1, <4>3, Bounds
    <3>4. Has(i) \cup Part(stream[n + 1], i) \subseteq HasNext(i)
      BY <3>3
    <3>5. Has(i) \cup Upto(stream, k - 1, i) \subseteq HasNext(i) \cup Upto(stream', m - 1, i)
      BY <3>1, <3>4
    <3>6. Joins(stream[k], HasNext(i) \cup Upto(stream', m - 1, i))
      BY <3>2, <3>5, JoinsMore
    <3>. QED BY <3>1, <3>6
  <2>. QED BY <2>1 DEF StreamJoins, Has, HasNext
<1>. QED BY <1>2, <1>3 DEF HoldInv

LEMMA DeliverHold ==
  ASSUME IInv, NEW n \in 0 .. Len(stream), Deliver(n)
  PROVE  HoldInv'
<1>. DEFINE msg == stream[n + 1]
<1>1. Removed(n) /\ Takes(msg) /\ msg \in Messages /\ UNCHANGED hostVars
      /\ n \in 0 .. Len(stream) - 1 /\ n + 1 \in DOMAIN stream
      /\ \A k \in 1 .. n : stream[k].type # "inputs"
  <2>1. Overtaken(n) /\ Removed(n) /\ Takes(msg) /\ msg \in Messages /\ UNCHANGED hostVars
    BY DeliverIs
  <2>2. stream \in Seq(Messages)
    BY DEF IInv, HostInv, TypeOK
  <2>3. n \in 0 .. Len(stream) - 1
    BY <2>1 DEF Removed
  <2>4. n + 1 \in DOMAIN stream
    BY <2>2, <2>3
  <2>5. \A k \in 1 .. n : stream[k].type # "inputs"
    BY <2>1, <2>3 DEF Overtaken
  <2>. QED BY <2>1, <2>3, <2>4, <2>5
<1>2. HoldInv /\ TypeOK /\ stream \in Seq(Messages)
  BY DEF IInv, HostInv, TypeOK
<1>3. UNCHANGED << archive, cursor >>
  BY <1>1 DEF hostVars
<1>. HIDE DEF msg
<1>4. ASSUME msg.type # "inputs", UNCHANGED << future, held, sIndex, sStart >>
      PROVE  HoldInv'
  <2>1. \A i : Part(msg, i) = {} /\ HasNext(i) = Has(i)
    BY <1>4 DEF Part, Has, HasNext
  <2>2. FutureIsOwn'
    BY <1>2, <1>4 DEF HoldInv, FutureIsOwn
  <2>3. HereIsPrefix'
    BY <1>2, <1>4 DEF HoldInv, HereIsPrefix, Has
  <2>. QED BY <1>1, <1>2, <1>3, <1>4, <2>1, <2>2, <2>3, HoldTakes DEF msg
<1>5. ASSUME msg \in Batches, TakesInputs(msg)
      PROVE  HoldInv'
  <2>. DEFINE f == WithBatch(msg)
              r == [future |-> future', at |-> position', held |-> held']
  <2>1. msg.type = "inputs" /\ msg.index \in Indices /\ head <= msg.index
    <3>1. msg.type = "inputs" /\ msg.index \in Indices
      BY <1>5, BatchFields
    <3>2. \A k \in DOMAIN stream : stream[k].type = "inputs" => head <= stream[k].index
      BY DEF IInv, SeedInv, InOrder
    <3>. QED BY <1>1, <3>1, <3>2 DEF msg
  <2>2. /\ f \in [Indices -> Seq(Batches)]
        /\ f[msg.index] = Append(future[msg.index], msg)
        /\ \A i \in Indices : i # msg.index => f[i] = future[i]
        /\ \A i \in Indices : \A k \in DOMAIN f[i] : f[i][k].index = i
    BY <1>5, <2>1, WithBatchIs
  <2>. HIDE DEF f
  <2>3. /\ \A i \in Indices :
             \/ /\ future'[i] = f[i] /\ held'[i] = held[i]
             \/ /\ future'[i] = << >>
                /\ held'[i] = IF Dropped(i) THEN held[i] ELSE held[i] \cup AllOf(f[i], i)
    BY <1>5 DEF TakesInputs, Flushed, f
  <2>4. UNCHANGED << sIndex, sStart >>
    BY <1>5 DEF TakesInputs, Rest
  <2>5. \A i \in sIndex .. Last : i \in Indices /\ ~ Dropped(i)
    <3>1. sIndex \in Nat /\ sStart \in Nat /\ sStart <= sIndex /\ Last \in Nat
      BY <1>2, Bounds DEF TypeOK, HoldInv
    <3>. QED BY <3>1, Bounds DEF Dropped
  <2>6. \A i \in Indices : AllOf(f[i], i) = AllOf(future[i], i) \cup Part(msg, i)
    <3>1. ASSUME NEW i \in Indices
          PROVE  AllOf(f[i], i) = AllOf(future[i], i) \cup Part(msg, i)
      <4>1. future[i] \in Seq(Batches)
        BY <1>2 DEF TypeOK
      <4>2. CASE i = msg.index
        <5>1. AllOf(Append(future[i], msg), i) = AllOf(future[i], i) \cup Part(msg, i)
          BY <1>5, <4>1, AppendedFrames DEF Part
        <5>. QED BY <2>2, <4>2, <5>1
      <4>3. CASE i # msg.index
        BY <2>2, <4>3 DEF Part
      <4>. QED BY <4>2, <4>3
    <3>. QED BY <3>1
  <2>7. AllOf(<< >>, 0) = {} /\ \A i : AllOf(<< >>, i) = {}
    <3>1. ASSUME NEW i, NEW y PROVE y \notin AllOf(<< >>, i)
      BY UptoIs DEF AllOf
    <3>. QED BY <3>1
  <2>8. ASSUME NEW i \in sIndex .. Last
        PROVE  /\ HasNext(i) = Has(i) \cup Part(msg, i)
               /\ held'[i] = held[i] \/ held'[i] = HasNext(i)
    <3>1. i \in Indices /\ ~ Dropped(i)
      BY <2>5, <2>8
    <3>2. CASE future'[i] = f[i] /\ held'[i] = held[i]
      BY <2>6, <3>1, <3>2 DEF Has, HasNext
    <3>3. CASE future'[i] = << >> /\ held'[i] = held[i] \cup AllOf(f[i], i)
      BY <2>6, <2>7, <3>1, <3>3 DEF Has, HasNext
    <3>. QED BY <2>3, <3>1, <3>2, <3>3
  <2>9. FutureIsOwn'
    <3>1. ASSUME NEW i \in Indices, NEW k \in DOMAIN future'[i]
          PROVE  future'[i][k].index = i
      <4>1. CASE future'[i] = f[i]
        BY <2>2, <3>1, <4>1
      <4>2. CASE future'[i] = << >>
        BY <3>1, <4>2
      <4>. QED BY <2>3, <3>1, <4>1, <4>2
    <3>. QED BY <3>1 DEF FutureIsOwn
  <2>10. HereIsPrefix'
    <3>1. ASSUME NEW i \in sIndex .. Last
          PROVE  IsPrefix(held'[i]) /\ IsPrefix(HasNext(i))
      <4>1. IsPrefix(held[i]) /\ IsPrefix(Has(i))
        BY <1>2, <3>1 DEF HoldInv, HereIsPrefix
      <4>2. IsPrefix(Has(i) \cup Part(msg, i))
        <5>1. CASE i # msg.index
          <6>1. Part(msg, i) = {}
            BY <5>1 DEF Part
          <6>2. Has(i) \cup Part(msg, i) = Has(i)
            BY <6>1
          <6>. QED BY <4>1, <6>2
        <5>2. CASE i = msg.index
          <6>1. Part(msg, i) = Covers(msg)
            BY <2>1, <5>2 DEF Part
          <6>2. Upto(stream, (n + 1) - 1, i) = {}
            <7>1. ASSUME NEW y PROVE y \notin Upto(stream, (n + 1) - 1, i)
              <8>1. \A k \in DOMAIN stream : k <= (n + 1) - 1 => k \in 1 .. n
                BY <1>1, <1>2
              <8>. QED BY <1>1, <8>1, UptoIs
            <7>. QED BY <7>1
          <6>3. msg.index >= sIndex
            BY <3>1, <5>2
          <6>4. Joins(msg, Has(i) \cup Upto(stream, (n + 1) - 1, i))
            BY <1>1, <1>2, <2>1, <5>2, <6>3 DEF HoldInv, StreamJoins, msg
          <6>5. Joins(msg, Has(i))
            BY <6>2, <6>4
          <6>. QED BY <1>5, <4>1, <6>1, <6>5, PrefixGrows
        <5>. QED BY <5>1, <5>2
      <4>3. HasNext(i) = Has(i) \cup Part(msg, i) /\ (held'[i] = held[i] \/ held'[i] = HasNext(i))
        BY <2>8, <3>1
      <4>. QED BY <4>1, <4>2, <4>3
    <3>. QED BY <2>4, <3>1 DEF HereIsPrefix, Has, HasNext
  <2>11. \A i \in sIndex .. Last : Has(i) \cup Part(msg, i) \subseteq HasNext(i)
    BY <2>8
  <2>. QED BY <1>1, <1>2, <1>3, <2>4, <2>9, <2>10, <2>11, HoldTakes DEF msg
<1>6. ASSUME NEW i \in Indices, msg = Control(i), TakesControl(i) PROVE HoldInv'
  <2>1. msg.type # "inputs" /\ UNCHANGED << future, held, sIndex, sStart >>
    BY <1>6, ControlFields DEF TakesControl, Rest
  <2>. QED BY <1>4, <2>1
<1>7. ASSUME msg = Config, msg.type = "config", UNCHANGED clientVars PROVE HoldInv'
  <2>1. msg.type # "inputs" /\ UNCHANGED << future, held, sIndex, sStart >>
    BY <1>7 DEF clientVars
  <2>. QED BY <1>4, <2>1
<1>. QED BY <1>1, <1>5, <1>6, <1>7 DEF Takes

(* A step that only lets go of what is before the current index. *)
LEMMA HoldDrops ==
  ASSUME HoldInv, UNCHANGED << archive, cursor, stream >>, sIndex <= sIndex', sStart' <= sIndex',
         sIndex \in Nat, sIndex' \in Nat,
         \A i \in sIndex' .. Last : held'[i] = held[i] /\ future'[i] = future[i],
         \A i \in Indices : future'[i] = future[i] \/ future'[i] = << >>,
         stream \in Seq(Messages)
  PROVE  HoldInv'
<1>1. \A i \in sIndex' .. Last : HasNext(i) = Has(i) /\ i \in sIndex .. Last
  BY DEF Has, HasNext
<1>2. FutureIsOwn'
  <2>1. ASSUME NEW i \in Indices, NEW k \in DOMAIN future'[i] PROVE future'[i][k].index = i
    <3>1. CASE future'[i] = future[i]
      BY <2>1, <3>1 DEF HoldInv, FutureIsOwn
    <3>2. CASE future'[i] = << >>
      BY <2>1, <3>2
    <3>. QED BY <2>1, <3>1, <3>2
  <2>. QED BY <2>1 DEF FutureIsOwn
<1>3. SentIsHere'
  <2>1. ASSUME NEW i \in sIndex' .. Last
        PROVE  Upto(archive, cursor, i) \subseteq HasNext(i) \cup AllOf(stream, i)
    BY <1>1, <2>1 DEF HoldInv, SentIsHere
  <2>. QED BY <2>1 DEF SentIsHere, Has, HasNext
<1>4. HereIsPrefix'
  <2>1. ASSUME NEW i \in sIndex' .. Last PROVE IsPrefix(held'[i]) /\ IsPrefix(HasNext(i))
    <3>1. held'[i] = held[i] /\ HasNext(i) = Has(i) /\ i \in sIndex .. Last
      BY <1>1, <2>1
    <3>2. IsPrefix(held[i]) /\ IsPrefix(Has(i))
      BY <3>1 DEF HoldInv, HereIsPrefix
    <3>. QED BY <3>1, <3>2
  <2>. QED BY <2>1 DEF HereIsPrefix, Has, HasNext
<1>5. StreamJoins'
  <2>1. ASSUME NEW m \in DOMAIN stream, stream[m].type = "inputs", stream[m].index >= sIndex'
        PROVE  Joins(stream[m], HasNext(stream[m].index) \cup Upto(stream, m - 1, stream[m].index))
    <3>1. stream[m] \in Batches
      <4>1. stream[m] \in Messages
        OBVIOUS
      <4>. QED BY <2>1, <4>1, KindIs
    <3>2. stream[m].index \in sIndex' .. Last /\ stream[m].index >= sIndex
      <4>1. stream[m].index \in Nat /\ stream[m].index <= Last
        BY <3>1, BatchFields, Bounds
      <4>. QED BY <2>1, <4>1, Bounds
    <3>3. HasNext(stream[m].index) = Has(stream[m].index)
      BY <1>1, <3>2
    <3>. QED BY <2>1, <3>2, <3>3 DEF HoldInv, StreamJoins
  <2>. QED BY <2>1 DEF StreamJoins, Has, HasNext
<1>. QED BY <1>2, <1>3, <1>4, <1>5 DEF HoldInv

LEMMA JumpHold ==
  ASSUME HostInv, HoldInv, Jump
  PROVE  HoldInv'
<1>1. /\ sIndex \in Nat /\ head \in Nat /\ stream \in Seq(Messages)
      /\ future \in [Indices -> Seq(Batches)] /\ held \in [Indices -> SUBSET Nat]
  BY Bounds DEF HostInv, TypeOK
<1>2. /\ future' = [i \in Indices |-> IF i < head THEN << >> ELSE future[i]]
      /\ held' = [i \in Indices |-> IF i < head THEN {} ELSE held[i]]
      /\ sIndex' = head /\ sStart' = head /\ head > sIndex
      /\ UNCHANGED << archive, cursor, stream >>
  BY DEF Jump, hostVars
<1>3. \A i \in head .. Last : i \in Indices /\ ~ i < head
  BY <1>1, Bounds
<1>4. \A i \in sIndex' .. Last : held'[i] = held[i] /\ future'[i] = future[i]
  BY <1>2, <1>3
<1>5. \A i \in Indices : future'[i] = future[i] \/ future'[i] = << >>
  BY <1>2
<1>6. sIndex <= sIndex' /\ sStart' <= sIndex' /\ sIndex' \in Nat
  BY <1>1, <1>2
<1>. QED BY <1>1, <1>2, <1>4, <1>5, <1>6, HoldDrops

LEMMA PlayMovesHold ==
  ASSUME HostInv, HoldInv, PlayMoves
  PROVE  HoldInv'
<1>1. /\ sIndex \in Nat /\ sStart \in Nat /\ sStart <= sIndex /\ stream \in Seq(Messages)
      /\ future \in [Indices -> Seq(Batches)]
  BY Bounds DEF HostInv, TypeOK, HoldInv
<1>2. /\ sStart' \in {sStart, sIndex + 1}
      /\ held' = [i \in Indices |-> IF i < sStart' THEN {} ELSE held[i]]
      /\ sIndex' = sIndex + 1
      /\ UNCHANGED << archive, cursor, stream, future >>
  BY <1>1, PlayMovesHost DEF hostVars
<1>3. sIndex <= sIndex' /\ sStart' <= sIndex' /\ sIndex' \in Nat /\ sStart' \in Nat
  <2>1. sStart' = sStart \/ sStart' = sIndex + 1
    BY <1>2
  <2>. QED BY <1>1, <1>2, <2>1
<1>4. \A i \in sIndex' .. Last : i \in Indices /\ ~ i < sStart'
  BY <1>1, <1>2, <1>3, Bounds
<1>5. \A i \in sIndex' .. Last : held'[i] = held[i] /\ future'[i] = future[i]
  BY <1>2, <1>4
<1>. QED BY <1>1, <1>2, <1>3, <1>5, HoldDrops

(* Where the parts of the longer stream are: the greeting up to a, the batches up to b. *)
Laid(joins, news, greeting, from, to, a, b) ==
  /\ a \in Nat /\ b \in Nat /\ Len(stream) <= a /\ b = a + (to - from) /\ a <= b
  /\ b <= Len(stream') /\ Len(stream) \in Nat /\ Len(stream') \in Nat
  /\ ~ joins => a = Len(stream)
  /\ \A m \in 1 .. Len(stream) : stream'[m] = stream[m]
  /\ \A m \in Len(stream) + 1 .. a : stream'[m] \in Greetings
  /\ \A m \in a + 1 .. b : stream'[m] = archive'[from + (m - a)]
  /\ \A m \in b + 1 .. Len(stream') : \E k \in DOMAIN news : stream'[m] = news[k]
  /\ \A k \in DOMAIN greeting : \E m \in DOMAIN stream' : stream'[m] = greeting[k]
  /\ \A k \in DOMAIN news : \E m \in DOMAIN stream' : stream'[m] = news[k]

LEMMA TwoParts ==
  ASSUME NEW S, NEW s \in Seq(S), NEW t \in Seq(S), NEW r, r = s \o t
  PROVE  /\ r \in Seq(S) /\ Len(r) = Len(s) + Len(t) /\ Len(s) \in Nat /\ Len(t) \in Nat
         /\ \A m \in 1 .. Len(s) : r[m] = s[m]
         /\ \A m \in Len(s) + 1 .. Len(s) + Len(t) :
              m - Len(s) \in DOMAIN t /\ r[m] = t[m - Len(s)]
         /\ \A k \in DOMAIN t : k + Len(s) \in 1 .. Len(s) + Len(t) /\ r[k + Len(s)] = t[k]
OBVIOUS

LEMMA SentIs ==
  ASSUME HostInv, archive' \in Seq(Batches), Len(archive) <= Len(archive'),
         NEW joins, NEW news \in Seq(Messages), NEW greeting, NEW from, NEW to,
         Sends(joins, news, greeting, from, to)
  PROVE  \E a, b : Laid(joins, news, greeting, from, to, a, b)
<1>. DEFINE served == SubSeq(archive', from + 1, to)
            p == stream \o greeting
            q == p \o served
            a == Len(stream) + Len(greeting)
            b == a + (to - from)
<1>1. stream \in Seq(Messages) /\ archive \in Seq(Batches) /\ rngArchive \in SUBSET Indices
  BY DEF HostInv, TypeOK
<1>2. greeting \in Seq(Messages) /\ greeting \in Seq(Greetings)
  <2>1. Greetings \subseteq Messages
    BY <1>1 DEF Greetings, Controls, Messages
  <2>. QED BY <2>1 DEF Sends
<1>3. /\ from \in Nat /\ to \in Nat /\ from <= to /\ to <= Len(archive') /\ Len(archive') \in Nat
      /\ stream' = q \o news
  BY <1>1 DEF Sends
<1>4. /\ served \in Seq(Messages) /\ Len(served) = to - from
      /\ \A k \in 1 .. to - from : served[k] = archive'[from + k]
  <2>1. archive' \in Seq(Messages)
    <3>1. Batches \subseteq Messages
      BY DEF Messages
    <3>. QED BY <3>1
  <2>. QED BY <1>3, <2>1
<1>5. /\ p \in Seq(Messages) /\ Len(p) = a /\ a \in Nat /\ Len(stream) \in Nat /\ Len(greeting) \in Nat
      /\ \A m \in 1 .. Len(stream) : p[m] = stream[m]
      /\ \A m \in Len(stream) + 1 .. a : m - Len(stream) \in DOMAIN greeting
                                          /\ p[m] = greeting[m - Len(stream)]
      /\ \A k \in DOMAIN greeting : k + Len(stream) \in 1 .. a /\ p[k + Len(stream)] = greeting[k]
  BY <1>1, <1>2, TwoParts
<1>. HIDE DEF served, p, a
<1>6. /\ q \in Seq(Messages) /\ Len(q) = b /\ b \in Nat
      /\ \A m \in 1 .. a : q[m] = p[m]
      /\ \A m \in a + 1 .. b : m - a \in DOMAIN served /\ q[m] = served[m - a]
  <2>1. /\ q \in Seq(Messages) /\ Len(q) = Len(p) + Len(served)
        /\ \A m \in 1 .. Len(p) : q[m] = p[m]
        /\ \A m \in Len(p) + 1 .. Len(p) + Len(served) :
             m - Len(p) \in DOMAIN served /\ q[m] = served[m - Len(p)]
    <3>1. p \in Seq(Messages)
      BY <1>5
    <3>2. served \in Seq(Messages)
      BY <1>4
    <3>3. q = p \o served
      OBVIOUS
    <3>. HIDE DEF q
    <3>. QED BY <3>1, <3>2, <3>3, TwoParts
  <2>. QED BY <1>4, <1>5, <2>1
<1>. DEFINE s == q \o news
<1>. HIDE DEF q, b
<1>7. /\ Len(s) = b + Len(news) /\ Len(news) \in Nat /\ s \in Seq(Messages)
      /\ \A m \in 1 .. b : s[m] = q[m]
      /\ \A m \in b + 1 .. b + Len(news) : m - b \in DOMAIN news /\ s[m] = news[m - b]
      /\ \A k \in DOMAIN news : k + b \in 1 .. b + Len(news) /\ s[k + b] = news[k]
  <2>1. q \in Seq(Messages)
    BY <1>6
  <2>2. news \in Seq(Messages)
    OBVIOUS
  <2>5. s = q \o news
    OBVIOUS
  <2>. HIDE DEF s
  <2>3. /\ s \in Seq(Messages) /\ Len(s) = Len(q) + Len(news) /\ Len(news) \in Nat
        /\ \A m \in 1 .. Len(q) : s[m] = q[m]
        /\ \A m \in Len(q) + 1 .. Len(q) + Len(news) :
             m - Len(q) \in DOMAIN news /\ s[m] = news[m - Len(q)]
        /\ \A k \in DOMAIN news :
             k + Len(q) \in 1 .. Len(q) + Len(news) /\ s[k + Len(q)] = news[k]
    BY <2>1, <2>2, <2>5, TwoParts
  <2>4. Len(q) = b
    BY <1>6
  <2>. QED BY <2>3, <2>4
<1>8. stream' = s /\ DOMAIN s = 1 .. b + Len(news)
  BY <1>3, <1>7
<1>. HIDE DEF s
<1>9. a <= b /\ Len(stream) <= a /\ b = a + (to - from) /\ b <= Len(s)
  <2>1. b = a + (to - from)
    BY DEF b
  <2>2. Len(stream) <= a
    BY <1>5 DEF a
  <2>. QED BY <1>3, <1>5, <1>6, <1>7, <2>1, <2>2
<1>10. ~ joins => a = Len(stream)
  <2>1. ~ joins => greeting = << >>
    BY DEF Sends
  <2>. QED BY <1>5, <2>1 DEF a
<1>11. \A m \in 1 .. Len(stream) : s[m] = stream[m]
  BY <1>5, <1>6, <1>7, <1>9
<1>12. \A m \in Len(stream) + 1 .. a : s[m] \in Greetings
  <2>1. ASSUME NEW m \in Len(stream) + 1 .. a PROVE s[m] \in Greetings
    <3>1. m \in 1 .. a /\ m \in 1 .. b
      BY <1>5, <1>6, <1>9, <2>1
    <3>2. s[m] = greeting[m - Len(stream)] /\ m - Len(stream) \in DOMAIN greeting
      BY <1>5, <1>6, <1>7, <2>1, <3>1
    <3>. QED BY <1>2, <3>2
  <2>. QED BY <2>1
<1>13. \A m \in a + 1 .. b : s[m] = archive'[from + (m - a)]
  <2>1. ASSUME NEW m \in a + 1 .. b PROVE s[m] = archive'[from + (m - a)]
    <3>1. m \in 1 .. b /\ m - a \in 1 .. to - from
      BY <1>3, <1>5, <1>6, <1>9, <2>1
    <3>. QED BY <1>4, <1>6, <1>7, <2>1, <3>1
  <2>. QED BY <2>1
<1>14. \A m \in b + 1 .. Len(s) : \E k \in DOMAIN news : s[m] = news[k]
  BY <1>7
<1>15. \A k \in DOMAIN greeting : \E m \in DOMAIN s : s[m] = greeting[k]
  <2>1. ASSUME NEW k \in DOMAIN greeting PROVE \E m \in DOMAIN s : s[m] = greeting[k]
    <3>1. k + Len(stream) \in 1 .. a /\ p[k + Len(stream)] = greeting[k]
      BY <1>5, <2>1
    <3>2. k + Len(stream) \in 1 .. b /\ k + Len(stream) \in DOMAIN s
      BY <1>5, <1>6, <1>7, <1>8, <1>9, <3>1
    <3>. QED BY <1>6, <1>7, <3>1, <3>2
  <2>. QED BY <2>1
<1>16. \A k \in DOMAIN news : \E m \in DOMAIN s : s[m] = news[k]
  BY <1>7, <1>8
<1>17. Len(s) \in Nat
  BY <1>6, <1>7
<1>18. Laid(joins, news, greeting, from, to, a, b)
  BY <1>5, <1>6, <1>8, <1>9, <1>10, <1>11, <1>12, <1>13, <1>14, <1>15, <1>16, <1>17 DEF Laid
<1>. QED BY <1>18

(* The frames served are in the stream, or were archived and served before. *)
LEMMA ServedFrames ==
  ASSUME stream \in Seq(Messages), stream' \in Seq(Messages), archive' \in Seq(Batches),
         NEW joins, NEW news, NEW greeting, NEW from \in Nat, NEW to \in Nat, from <= to,
         to <= Len(archive'), NEW a, NEW b, Laid(joins, news, greeting, from, to, a, b),
         NEW k \in from .. to, NEW i
  PROVE  /\ Upto(archive', k, i) \subseteq Upto(archive', from, i) \cup Upto(stream', a + (k - from), i)
         /\ \A n \in Nat : n >= a => AllOf(stream, i) \subseteq Upto(stream', n, i)
<1>1. /\ a \in Nat /\ b \in Nat /\ Len(stream) <= a /\ b = a + (to - from) /\ b <= Len(stream')
      /\ Len(stream) \in Nat /\ Len(stream') \in Nat
      /\ \A m \in 1 .. Len(stream) : stream'[m] = stream[m]
      /\ \A m \in a + 1 .. b : stream'[m] = archive'[from + (m - a)]
  BY DEF Laid
<1>2. /\ DOMAIN stream = 1 .. Len(stream) /\ DOMAIN stream' = 1 .. Len(stream')
      /\ DOMAIN archive' = 1 .. Len(archive')
  OBVIOUS
<1>3. ASSUME NEW f \in Upto(archive', k, i)
      PROVE  f \in Upto(archive', from, i) \cup Upto(stream', a + (k - from), i)
  <2>1. PICK p \in DOMAIN archive' : /\ p <= k /\ archive'[p].type = "inputs"
                                     /\ archive'[p].index = i /\ f \in Covers(archive'[p])
    BY UptoIs
  <2>2. CASE p <= from
    BY <2>1, <2>2, UptoIs
  <2>3. CASE ~ p <= from
    <3>1. p \in Nat /\ a + (p - from) \in a + 1 .. b /\ from + ((a + (p - from)) - a) = p
          /\ a + (p - from) <= a + (k - from) /\ a + (p - from) \in DOMAIN stream'
      BY <1>1, <1>2, <2>1, <2>3
    <3>2. stream'[a + (p - from)] = archive'[p]
      BY <1>1, <3>1
    <3>. QED BY <2>1, <3>1, <3>2, UptoIs
  <2>. QED BY <2>2, <2>3
<1>4. ASSUME NEW n \in Nat, n >= a, NEW f \in AllOf(stream, i)
      PROVE  f \in Upto(stream', n, i)
  <2>1. PICK p \in DOMAIN stream : /\ p <= Len(stream) /\ stream[p].type = "inputs"
                                   /\ stream[p].index = i /\ f \in Covers(stream[p])
    BY UptoIs DEF AllOf
  <2>2. p \in 1 .. Len(stream) /\ p \in DOMAIN stream' /\ p <= n /\ stream'[p] = stream[p]
    BY <1>1, <1>2, <1>4, <2>1
  <2>. QED BY <2>1, <2>2, UptoIs
<1>. QED BY <1>3, <1>4

LEMMA ServedHold ==
  ASSUME HostInv, HostInv', HoldInv, NEW joins \in BOOLEAN, NEW news \in Seq(Messages),
         Spectators(joins, news), \A k \in DOMAIN news : news[k].type # "inputs",
         UNCHANGED clientVars, NEW greeting, NEW from, NEW to,
         Sends(joins, news, greeting, from, to)
  PROVE  HoldInv'
<1>1. /\ archive' \in Seq(Batches) /\ Len(archive) <= Len(archive')
      /\ \A m \in DOMAIN archive : archive'[m] = archive[m]
  BY Archives
<1>2. /\ stream \in Seq(Messages) /\ stream' \in Seq(Messages) /\ archive \in Seq(Batches)
      /\ sIndex \in Nat /\ Linked(archive')
  BY Bounds DEF HostInv, TypeOK, Sound
<1>3. PICK a, b : Laid(joins, news, greeting, from, to, a, b)
  BY <1>1, SentIs
<1>4. /\ from = IF joins THEN 0 ELSE cursor
      /\ from \in 0 .. Len(archive) /\ to \in from .. Len(archive') /\ cursor' = to
      /\ ~ joins => cursor # NotJoined
      /\ greeting \in Seq(Greetings)
  BY DEF Sends
<1>5. /\ from \in Nat /\ to \in Nat /\ from <= to /\ to <= Len(archive') /\ Len(archive) \in Nat
      /\ Len(archive') \in Nat /\ from <= Len(archive)
  BY <1>1, <1>2, <1>4
<1>6. /\ a \in Nat /\ b \in Nat /\ Len(stream) <= a /\ b = a + (to - from) /\ b <= Len(stream')
      /\ Len(stream) \in Nat /\ Len(stream') \in Nat
      /\ \A m \in 1 .. Len(stream) : stream'[m] = stream[m]
      /\ \A m \in Len(stream) + 1 .. a : stream'[m] \in Greetings
      /\ \A m \in a + 1 .. b : stream'[m] = archive'[from + (m - a)]
      /\ \A m \in b + 1 .. Len(stream') : \E k \in DOMAIN news : stream'[m] = news[k]
  BY <1>3 DEF Laid
<1>7. \A i : HasNext(i) = Has(i) /\ held' = held /\ future' = future /\ sIndex' = sIndex /\ sStart' = sStart
  BY DEF HasNext, Has, clientVars
(* What was served before is here or on its way. *)
<1>8. ASSUME NEW i \in sIndex .. Last
      PROVE  Upto(archive', from, i) \subseteq Has(i) \cup AllOf(stream, i)
  <2>1. CASE joins
    <3>1. ASSUME NEW f PROVE f \notin Upto(archive', from, i)
      <4>1. \A m \in DOMAIN archive' : ~ m <= from
        BY <1>1, <1>4, <2>1
      <4>. QED BY <4>1, UptoIs
    <3>. QED BY <3>1
  <2>2. CASE ~ joins
    <3>1. from = cursor
      BY <1>4, <2>2
    <3>2. \A m \in 1 .. from : (m \in DOMAIN archive' <=> m \in DOMAIN archive) /\ archive'[m] = archive[m]
      BY <1>1, <1>2, <1>5
    <3>3. DOMAIN archive' \subseteq Nat \ {0} /\ DOMAIN archive \subseteq Nat \ {0}
      BY <1>1, <1>2
    <3>4. Upto(archive', from, i) = Upto(archive, from, i)
      BY <1>5, <3>2, <3>3, UptoSame
    <3>. QED BY <1>8, <3>1, <3>4 DEF HoldInv, SentIsHere
  <2>. QED BY <2>1, <2>2
<1>9. ASSUME NEW i \in sIndex .. Last, NEW k \in from .. to
      PROVE  Upto(archive', k, i) \subseteq Has(i) \cup Upto(stream', a + (k - from), i)
  <2>1. /\ Upto(archive', k, i) \subseteq Upto(archive', from, i) \cup Upto(stream', a + (k - from), i)
        /\ \A n \in Nat : n >= a => AllOf(stream, i) \subseteq Upto(stream', n, i)
    BY <1>1, <1>2, <1>3, <1>5, ServedFrames
  <2>2. a + (k - from) \in Nat /\ a + (k - from) >= a
    BY <1>5, <1>6
  <2>3. AllOf(stream, i) \subseteq Upto(stream', a + (k - from), i)
    BY <2>1, <2>2
  <2>. QED BY <1>8, <2>1, <2>3
<1>10. SentIsHere'
  <2>1. ASSUME NEW i \in sIndex .. Last
        PROVE  Upto(archive', to, i) \subseteq HasNext(i) \cup AllOf(stream', i)
    <3>1. to \in from .. to /\ a + (to - from) <= Len(stream') /\ a + (to - from) \in Int
          /\ Len(stream') \in Int
      BY <1>5, <1>6
    <3>2. Upto(archive', to, i) \subseteq Has(i) \cup Upto(stream', a + (to - from), i)
      BY <1>9, <3>1
    <3>3. DOMAIN stream' \subseteq Nat
      BY <1>2
    <3>4. Upto(stream', a + (to - from), i) \subseteq AllOf(stream', i)
      BY <3>1, <3>3, UptoGrows DEF AllOf
    <3>. QED BY <1>7, <3>2, <3>4
  <2>. QED BY <1>4, <1>7, <2>1 DEF SentIsHere, Has, HasNext
<1>11. StreamJoins'
  <2>1. ASSUME NEW m \in DOMAIN stream', stream'[m].type = "inputs", stream'[m].index >= sIndex
        PROVE  Joins(stream'[m], HasNext(stream'[m].index) \cup Upto(stream', m - 1, stream'[m].index))
    <3>. DEFINE i == stream'[m].index
    <3>1. i \in sIndex .. Last
      <4>1. stream'[m] \in Messages
        BY <1>2
      <4>2. stream'[m] \in Batches
        BY <2>1, <4>1, KindIs
      <4>3. i \in Nat /\ i <= Last
        BY <4>2, BatchFields, Bounds
      <4>. QED BY <1>2, <2>1, <4>3, Bounds
    <3>2. m \in 1 .. Len(stream')
      BY <1>2
    <3>3. CASE m <= Len(stream)
      <4>1. m \in DOMAIN stream /\ stream'[m] = stream[m] /\ m - 1 \in Int
        BY <1>2, <1>6, <3>2, <3>3
      <4>2. Joins(stream[m], Has(i) \cup Upto(stream, m - 1, i))
        BY <2>1, <4>1 DEF HoldInv, StreamJoins
      <4>3. \A n \in 1 .. m - 1 : (n \in DOMAIN stream <=> n \in DOMAIN stream') /\ stream[n] = stream'[n]
        BY <1>2, <1>6, <3>2, <3>3
      <4>4. DOMAIN stream' \subseteq Nat \ {0} /\ DOMAIN stream \subseteq Nat \ {0}
        BY <1>2
      <4>5. Upto(stream, m - 1, i) = Upto(stream', m - 1, i)
        BY <4>1, <4>3, <4>4, UptoSame
      <4>. QED BY <1>7, <4>1, <4>2, <4>5
    <3>4. CASE m > Len(stream) /\ m <= a
      <4>1. stream'[m] \in Greetings
        BY <1>6, <3>2, <3>4
      <4>2. stream'[m].type # "inputs"
        BY <4>1, ControlFields DEF Greetings, Controls, Config
      <4>. QED BY <2>1, <4>2
    <3>5. CASE m > a /\ m <= b
      <4>. DEFINE k == from + (m - a)
      <4>1. k \in DOMAIN archive' /\ stream'[m] = archive'[k] /\ k - 1 \in from .. to
            /\ a + ((k - 1) - from) = m - 1
        <5>1. m \in a + 1 .. b /\ m \in Nat
          BY <1>6, <3>2, <3>5
        <5>2. stream'[m] = archive'[k]
          BY <1>6, <5>1
        <5>3. k \in 1 .. Len(archive') /\ k - 1 \in from .. to /\ a + ((k - 1) - from) = m - 1
          <6>. DEFINE size == Len(archive')
          <6>1. size \in Nat /\ to <= size /\ from \in Nat /\ to \in Nat /\ a \in Nat
                /\ b = a + (to - from)
            BY <1>5, <1>6
          <6>. HIDE DEF size
          <6>2. k = from + (m - a)
            OBVIOUS
          <6>. HIDE DEF k
          <6>3. k \in 1 .. size /\ k - 1 \in from .. to /\ a + ((k - 1) - from) = m - 1
            BY <5>1, <6>1, <6>2
          <6>. QED BY <6>3 DEF size
        <5>4. DOMAIN archive' = 1 .. Len(archive')
          BY <1>1
        <5>. HIDE DEF k
        <5>. QED BY <5>2, <5>3, <5>4
      <4>. HIDE DEF k
      <4>2. Joins(archive'[k], Upto(archive', k - 1, i))
        BY <1>2, <4>1 DEF Linked
      <4>3. Upto(archive', k - 1, i) \subseteq Has(i) \cup Upto(stream', a + ((k - 1) - from), i)
        BY <1>9, <3>1, <4>1
      <4>4. Upto(archive', k - 1, i) \subseteq HasNext(i) \cup Upto(stream', m - 1, i)
        BY <1>7, <4>1, <4>3
      <4>5. Joins(archive'[k], HasNext(i) \cup Upto(stream', m - 1, i))
        BY <4>2, <4>4, JoinsMore
      <4>. QED BY <4>1, <4>5
    <3>6. CASE m > b
      <4>1. PICK k \in DOMAIN news : stream'[m] = news[k]
        BY <1>6, <3>2, <3>6
      <4>. QED BY <2>1, <4>1
    <3>. QED BY <1>6, <3>2, <3>3, <3>4, <3>5, <3>6
  <2>. QED BY <1>7, <2>1 DEF StreamJoins, Has, HasNext
<1>12. FutureIsOwn'
  BY <1>7 DEF HoldInv, FutureIsOwn
<1>13. HereIsPrefix'
  <2>1. \A i \in sIndex .. Last : IsPrefix(held[i]) /\ IsPrefix(Has(i))
    BY DEF HoldInv, HereIsPrefix
  <2>2. \A i \in sIndex .. Last : IsPrefix(held'[i]) /\ IsPrefix(HasNext(i))
    BY <1>7, <2>1
  <2>. QED BY <1>7, <2>2 DEF HereIsPrefix, Has, HasNext
<1>. QED BY <1>7, <1>10, <1>11, <1>12, <1>13 DEF HoldInv

LEMMA NewsIsNoInput ==
  ASSUME NEW joins, NEW news, Acts(joins, news)
  PROVE  \A k \in DOMAIN news : /\ news[k].type # "inputs"
                                /\ news[k] = Control(index + 1)
                                /\ index' = index + 1 /\ HasControl(index + 1)
<1>1. CASE news = << >>
  BY <1>1
<1>2. CASE news = << Control(index + 1) >> /\ index' = index + 1 /\ HasControl(index + 1)
  <2>1. \A k \in DOMAIN news : news[k] = Control(index + 1)
    BY <1>2
  <2>2. Control(index + 1).type # "inputs"
    BY ControlFields
  <2>. QED BY <1>2, <2>1, <2>2
<1>. QED BY <1>1, <1>2 DEF Acts

LEMMA ActsHold ==
  ASSUME HostInv, HostInv', HoldInv, NEW joins \in BOOLEAN, NEW news \in Seq(Messages),
         Acts(joins, news)
  PROVE  HoldInv'
<1>1. Spectators(joins, news) /\ UNCHANGED clientVars
  BY DEF Acts
<1>2. \A k \in DOMAIN news : news[k].type # "inputs"
  BY NewsIsNoInput
<1>3. CASE cursor = NotJoined /\ UNCHANGED << cursor, stream >>
  <2>1. \A i : HasNext(i) = Has(i) /\ held' = held /\ future' = future /\ sIndex' = sIndex /\ sStart' = sStart
    BY <1>1 DEF HasNext, Has, clientVars
  <2>2. archive' \in Seq(Batches)
    BY DEF HostInv, TypeOK
  <2>3. \A i : Upto(archive', cursor', i) = {}
    <3>1. ASSUME NEW i, NEW f PROVE f \notin Upto(archive', cursor', i)
      <4>1. \A m \in DOMAIN archive' : ~ m <= cursor'
        BY <1>3, <2>2 DEF NotJoined
      <4>. QED BY <4>1, UptoIs
    <3>. QED BY <3>1
  <2>4. SentIsHere'
    BY <2>3 DEF SentIsHere
  <2>5. FutureIsOwn'
    BY <2>1 DEF HoldInv, FutureIsOwn
  <2>6. HereIsPrefix'
    BY <2>1 DEF HoldInv, HereIsPrefix, Has
  <2>7. StreamJoins'
    BY <1>3, <2>1 DEF HoldInv, StreamJoins, Has
  <2>. QED BY <2>1, <2>4, <2>5, <2>6, <2>7 DEF HoldInv
<1>4. ASSUME NEW greeting, NEW from, NEW to, Sends(joins, news, greeting, from, to)
      PROVE  HoldInv'
  BY <1>1, <1>2, <1>4, ServedHold
<1>. QED BY <1>1, <1>3, <1>4, SpectatorsSend

-----------------------------------------------------------------------------
(* From the control messages into the slots *)

(* Where the messages that are left were. *)
LEMMA RemovedOrder ==
  ASSUME stream \in Seq(Messages), NEW n, Removed(n)
  PROVE  /\ DOMAIN stream = 1 .. Len(stream) /\ DOMAIN stream' = 1 .. Len(stream) - 1
         /\ Len(stream) \in Nat /\ n \in 0 .. Len(stream) - 1 /\ n \in Nat
         /\ \A m \in DOMAIN stream' :
              /\ m <= n => m \in DOMAIN stream /\ stream'[m] = stream[m]
              /\ m > n => m + 1 \in DOMAIN stream /\ stream'[m] = stream[m + 1]
         /\ \A k \in DOMAIN stream : k # n + 1 => \E m \in DOMAIN stream' : stream'[m] = stream[k]
<1>1. /\ Len(stream) \in Nat /\ DOMAIN stream = 1 .. Len(stream)
      /\ DOMAIN stream' = 1 .. Len(stream) - 1 /\ n \in 0 .. Len(stream) - 1
      /\ \A m \in 1 .. Len(stream) - 1 : stream'[m] = IF m <= n THEN stream[m] ELSE stream[m + 1]
  <2>1. stream' \in Seq(Messages) /\ Len(stream') = Len(stream) - 1
    BY DEF Removed
  <2>. QED BY <2>1 DEF Removed
<1>2. ASSUME NEW k \in DOMAIN stream, k # n + 1
      PROVE  \E m \in DOMAIN stream' : stream'[m] = stream[k]
  <2>1. CASE k <= n
    <3>1. k \in DOMAIN stream' /\ stream'[k] = stream[k]
      BY <1>1, <2>1
    <3>. QED BY <3>1
  <2>2. CASE k > n
    <3>1. k - 1 \in DOMAIN stream' /\ stream'[k - 1] = stream[k]
      BY <1>1, <1>2, <2>2
    <3>. QED BY <3>1
  <2>. QED BY <1>1, <2>1, <2>2
<1>. QED BY <1>1, <1>2

(* The indices of what is in the stream, the archive and the client are numbers. *)
LEMMA Numbers ==
  ASSUME TypeOK
  PROVE  /\ head \in Nat /\ index \in Nat /\ pos.index \in Nat /\ pos.index <= index
         /\ position.index \in Nat /\ sIndex \in Nat /\ sStart \in Nat /\ scene \in Nat
         /\ missed \in Nat /\ played \in Nat /\ sFrame \in Nat
         /\ \A n \in DOMAIN stream : stream[n].type # "config" => stream[n].index \in Nat
         /\ \A n \in DOMAIN archive : archive[n].index \in Nat
         /\ stream \in Seq(Messages) /\ archive \in Seq(Batches)
         /\ rngArchive \in SUBSET Indices /\ control \in SUBSET Indices
<1>1. /\ head \in Nat /\ index \in Nat /\ position.index \in Nat /\ sIndex \in Nat /\ sStart \in Nat
      /\ scene \in Nat
  BY Bounds DEF TypeOK
<1>2. pos.index \in Nat /\ pos.index <= index
  BY <1>1 DEF TypeOK
<1>3. stream \in Seq(Messages) /\ archive \in Seq(Batches) /\ played \in Nat /\ sFrame \in Nat
      /\ rngArchive \in SUBSET Indices /\ control \in SUBSET Indices /\ missed \in 0 .. Len(stream)
  BY DEF TypeOK
<1>4. missed \in Nat
  BY <1>3
<1>5. ASSUME NEW n \in DOMAIN stream, stream[n].type # "config" PROVE stream[n].index \in Nat
  <2>1. stream[n] \in Messages
    BY <1>3
  <2>2. stream[n].index \in Indices
    BY <1>5, <2>1, KindIs, BatchFields
  <2>. QED BY <2>2, Bounds
<1>6. ASSUME NEW n \in DOMAIN archive PROVE archive[n].index \in Nat
  <2>1. archive[n] \in Batches
    BY <1>3
  <2>. QED BY <2>1, BatchFields, Bounds
<1>. QED BY <1>1, <1>2, <1>3, <1>4, <1>5, <1>6

LEMMA DeliverInOrder ==
  ASSUME IInv, NEW n \in 0 .. Len(stream), Deliver(n)
  PROVE  /\ InOrder' /\ ControlFirst'
         /\ head' = IF stream[n + 1].type = "inputs" THEN stream[n + 1].index ELSE head
<1>. DEFINE msg == stream[n + 1]
<1>1. Overtaken(n) /\ Removed(n) /\ Takes(msg) /\ UNCHANGED hostVars
  BY DeliverIs
<1>2. InOrder /\ ControlFirst /\ TypeOK
  BY DEF IInv, HostInv, SeedInv
<1>3. /\ DOMAIN stream = 1 .. Len(stream) /\ DOMAIN stream' = 1 .. Len(stream) - 1
      /\ Len(stream) \in Nat /\ n \in 0 .. Len(stream) - 1 /\ n \in Nat
      /\ \A m \in DOMAIN stream' :
           /\ m <= n => m \in DOMAIN stream /\ stream'[m] = stream[m]
           /\ m > n => m + 1 \in DOMAIN stream /\ stream'[m] = stream[m + 1]
  <2>1. stream \in Seq(Messages)
    BY <1>2, Numbers
  <2>. QED BY <1>1, <2>1, RemovedOrder
<1>4. /\ n > 0 => (\A k \in 1 .. n : stream[k].type # "inputs") /\ msg.type = "inputs"
      /\ missed' = IF n > 0 THEN n ELSE IF missed > 0 THEN missed - 1 ELSE 0
  BY <1>1 DEF Overtaken
<1>5. n + 1 \in DOMAIN stream /\ \A k \in 1 .. n : stream[k].type # "inputs"
  BY <1>3, <1>4
<1>6. UNCHANGED << pos, archive, cursor, index >> /\ cursor # NotJoined
  <2>1. stream # << >>
    BY <1>5
  <2>. QED BY <1>1, <1>2, <2>1 DEF hostVars, InOrder
<1>7. head' = IF msg.type = "inputs" THEN msg.index ELSE head
  <2>1. CASE msg \in Batches /\ TakesInputs(msg)
    BY <2>1, BatchFields DEF TakesInputs
  <2>2. CASE \E i \in Indices : msg = Control(i) /\ TakesControl(i)
    BY <2>2, ControlFields DEF TakesControl
  <2>3. CASE msg.type = "config" /\ UNCHANGED clientVars
    BY <2>3 DEF clientVars
  <2>. QED BY <1>1, <2>1, <2>2, <2>3 DEF Takes
<1>8. /\ head \in Nat /\ pos.index \in Nat /\ missed \in Nat
      /\ \A k \in DOMAIN stream : stream[k].type # "config" => stream[k].index \in Nat
      /\ \A k \in DOMAIN archive : archive[k].index \in Nat
  BY <1>2, Numbers
<1>. HIDE DEF msg
<1>9. /\ head' <= pos.index
      /\ \A m \in DOMAIN archive : m > cursor => head' <= archive[m].index
  BY <1>2, <1>5, <1>7 DEF InOrder, msg
<1>10. ASSUME NEW m \in DOMAIN stream', stream'[m].type = "inputs"
       PROVE  /\ head' <= stream'[m].index /\ stream'[m].index <= pos.index
              /\ \A k \in DOMAIN stream' : k <= m /\ stream'[k].type = "inputs" =>
                   stream'[k].index <= stream'[m].index
              /\ \A k \in DOMAIN archive : k > cursor => stream'[m].index <= archive[k].index
  <2>1. m > n
    BY <1>3, <1>5, <1>10
  <2>2. m + 1 \in DOMAIN stream /\ stream'[m] = stream[m + 1] /\ stream[m + 1].type = "inputs"
        /\ n + 1 <= m + 1
    BY <1>3, <1>10, <2>1
  <2>3. head' <= stream[m + 1].index
    BY <1>2, <1>5, <1>7, <2>2 DEF InOrder, msg
  <2>4. ASSUME NEW k \in DOMAIN stream', k <= m, stream'[k].type = "inputs"
        PROVE  stream'[k].index <= stream'[m].index
    <3>1. k > n
      BY <1>3, <1>5, <2>4
    <3>2. k + 1 \in DOMAIN stream /\ stream'[k] = stream[k + 1] /\ k + 1 <= m + 1
      BY <1>3, <2>4, <3>1
    <3>. QED BY <1>2, <2>2, <2>4, <3>2 DEF InOrder
  <2>. QED BY <1>2, <2>2, <2>3, <2>4 DEF InOrder
<1>11. InOrder'
  <2>. HIDE DEF msg
  <2>1. \A m \in DOMAIN stream' : stream'[m].type = "inputs" =>
              /\ head' <= stream'[m].index /\ stream'[m].index <= pos.index
              /\ \A k \in DOMAIN stream' : k <= m /\ stream'[k].type = "inputs" =>
                   stream'[k].index <= stream'[m].index
              /\ \A k \in DOMAIN archive : k > cursor => stream'[m].index <= archive[k].index
    BY <1>10
  <2>. QED BY <1>6, <1>9, <2>1 DEF InOrder
<1>12. ControlFirst'
  <2>1. ASSUME NEW m \in DOMAIN stream', stream'[m].type = "control"
        PROVE  /\ stream'[m].index \in 1 .. index
               /\ \A k \in 1 .. m - 1 : stream'[k].type = "inputs" => stream'[k].index < stream'[m].index
               /\ stream'[m].index <= head' => m <= missed'
    <3>1. CASE m <= n
      <4>1. m \in DOMAIN stream /\ stream'[m] = stream[m] /\ m \in Nat /\ m > 0
        BY <1>3, <2>1, <3>1
      <4>2. \A k \in 1 .. m - 1 : stream'[k].type # "inputs"
        BY <1>3, <1>5, <2>1, <3>1
      <4>3. m <= missed'
        BY <1>3, <1>4, <3>1, <4>1
      <4>. QED BY <1>2, <2>1, <4>1, <4>2, <4>3 DEF ControlFirst
    <3>2. CASE m > n
      <4>1. m + 1 \in DOMAIN stream /\ stream'[m] = stream[m + 1] /\ m \in Nat /\ m > 0
            /\ n + 1 \in 1 .. (m + 1) - 1
        BY <1>3, <2>1, <3>2
      <4>2. /\ stream[m + 1].index \in 1 .. index
            /\ \A k \in 1 .. (m + 1) - 1 : stream[k].type = "inputs" => stream[k].index < stream[m + 1].index
            /\ stream[m + 1].index <= head => m + 1 <= missed
        BY <1>2, <2>1, <4>1 DEF ControlFirst
      <4>3. ASSUME NEW k \in 1 .. m - 1, stream'[k].type = "inputs"
            PROVE  stream'[k].index < stream'[m].index
        <5>1. k \in DOMAIN stream' /\ k \in 1 .. (m + 1) - 1 /\ k + 1 \in 1 .. (m + 1) - 1
          BY <1>3, <2>1, <4>3
          <5>2. stream'[k] = stream[k] \/ stream'[k] = stream[k + 1]
            BY <1>3, <5>1
          <5>. QED BY <4>1, <4>2, <4>3, <5>1, <5>2
      <4>4. ASSUME stream'[m].index <= head' PROVE m <= missed'
        <5>1. msg.type # "inputs"
          <6>1. ASSUME msg.type = "inputs" PROVE FALSE
            <7>1. msg.index < stream[m + 1].index
              BY <4>1, <4>2, <6>1 DEF msg
            <7>2. msg.index \in Nat /\ stream[m + 1].index \in Nat
              BY <1>5, <1>8, <2>1, <4>1, <6>1 DEF msg
            <7>. QED BY <1>7, <4>1, <4>4, <6>1, <7>1, <7>2
          <6>. QED BY <6>1
        <5>2. m + 1 <= missed
          BY <1>7, <4>1, <4>2, <4>4, <5>1
        <5>3. n = 0
          BY <1>3, <1>4, <5>1
        <5>. QED BY <1>4, <1>8, <4>1, <5>2, <5>3
      <4>. QED BY <4>1, <4>2, <4>3, <4>4
    <3>. QED BY <1>3, <2>1, <3>1, <3>2
  <2>. QED BY <1>6, <2>1 DEF ControlFirst
<1>. QED BY <1>7, <1>11, <1>12 DEF msg

LEMMA DeliverPosition ==
  ASSUME IInv, NEW n \in 0 .. Len(stream), Deliver(n)
  PROVE  PositionIsLast' /\ \A i \in Indices : held[i] \subseteq held'[i]
<1>. DEFINE msg == stream[n + 1]
<1>1. Takes(msg) /\ Removed(n)
  BY DeliverIs
<1>2. PositionIsLast /\ TypeOK /\ InOrder
  BY DEF IInv, HostInv, SeedInv
<1>. HIDE DEF msg
<1>3. ASSUME UNCHANGED << position, head, held, future >>
      PROVE  PositionIsLast' /\ \A i \in Indices : held[i] \subseteq held'[i]
  BY <1>2, <1>3 DEF PositionIsLast
<1>4. ASSUME msg \in Batches, TakesInputs(msg)
      PROVE  PositionIsLast' /\ \A i \in Indices : held[i] \subseteq held'[i]
  <2>1. msg.type = "inputs" /\ head <= msg.index /\ msg.index \in Nat /\ head \in Nat
        /\ position.index \in Nat
    <3>1. msg.type = "inputs" /\ msg.index \in Nat
      BY <1>4, BatchFields, Bounds
    <3>2. n + 1 \in DOMAIN stream
      BY <1>1, <1>2, RemovedOrder, Numbers
    <3>. QED BY <1>2, <3>1, <3>2, Numbers DEF InOrder, msg
  <2>. DEFINE f == WithBatch(msg)
  <2>2. \A i \in Indices : f[i] # << >> => position.index <= i /\ i <= msg.index
    BY <1>4, <2>1, WithBatchIs
  <2>. HIDE DEF f
  <2>3. /\ position'.index \in Indices /\ position.index <= position'.index
        /\ position'.index = position.index \/ f[position'.index] # << >>
        /\ \A i \in Indices :
             \/ /\ future'[i] = f[i] /\ held'[i] = held[i]
                /\ f[i] # << >> => position'.index <= i
             \/ /\ future'[i] = << >> /\ i <= position'.index
                /\ held'[i] = IF Dropped(i) THEN held[i] ELSE held[i] \cup AllOf(f[i], i)
        /\ head' = msg.index
    BY <1>4 DEF TakesInputs, Flushed, f
  <2>4. position'.index \in Nat
    BY <2>3, Bounds
  <2>5. position'.index <= head'
    <3>1. position.index <= head
      BY <1>2 DEF PositionIsLast
    <3>2. CASE position'.index = position.index
      BY <2>1, <2>3, <3>1, <3>2
    <3>3. CASE f[position'.index] # << >>
      BY <2>2, <2>3, <3>3
    <3>. QED BY <2>3, <3>2, <3>3
  <2>6. ASSUME NEW i \in Indices
        PROVE  /\ held'[i] # {} => i <= position'.index
               /\ future'[i] # << >> => position'.index <= i /\ i <= head'
               /\ held[i] \subseteq held'[i]
    <3>1. CASE future'[i] = f[i] /\ held'[i] = held[i] /\ (f[i] # << >> => position'.index <= i)
      <4>1. held[i] # {} => i <= position.index
        BY <1>2 DEF PositionIsLast
      <4>2. held[i] # {} => i <= position'.index
        BY <2>1, <2>3, <2>4, <4>1, Bounds
      <4>. QED BY <2>2, <2>3, <3>1, <4>2
    <3>2. CASE /\ future'[i] = << >> /\ i <= position'.index
               /\ held'[i] = IF Dropped(i) THEN held[i] ELSE held[i] \cup AllOf(f[i], i)
      BY <3>2
    <3>. QED BY <2>3, <3>1, <3>2
  <2>. QED BY <2>5, <2>6 DEF PositionIsLast
<1>5. ASSUME NEW i \in Indices, TakesControl(i)
      PROVE  PositionIsLast' /\ \A j \in Indices : held[j] \subseteq held'[j]
  BY <1>3, <1>5 DEF TakesControl
<1>6. ASSUME UNCHANGED clientVars
      PROVE  PositionIsLast' /\ \A j \in Indices : held[j] \subseteq held'[j]
  BY <1>3, <1>6 DEF clientVars
<1>. QED BY <1>1, <1>4, <1>5, <1>6 DEF Takes

(* With nothing overtaken, the generator state of an index whose inputs are here is here. *)
LEMMA SeedIsHere ==
  ASSUME IInv, ~ jumped, HasControl(scene), held[scene] # {}, missed = 0
  PROVE  Arrived(scene)
<1>1. /\ TypeOK /\ InOrder /\ ControlFirst /\ PositionIsLast /\ InStep /\ sStart <= sIndex
      /\ rngArchive = {i \in 1 .. index : HasControl(i)}
  BY DEF IInv, HostInv, HoldInv, SeedInv
<1>2. /\ head \in Nat /\ index \in Nat /\ pos.index \in Nat /\ pos.index <= index
      /\ position.index \in Nat /\ scene \in Nat /\ stream \in Seq(Messages)
      /\ control \in SUBSET Indices
  BY <1>1, Numbers
<1>3. scene \in Indices
  BY <1>1 DEF TypeOK
<1>4. scene # 0
  BY DEF HasControl, StateOf
<1>5. scene <= position.index /\ position.index <= head /\ head <= pos.index
  BY <1>1, <1>3 DEF PositionIsLast, InOrder
<1>6. scene \in rngArchive
  BY <1>1, <1>2, <1>4, <1>5
<1>7. cursor # NotJoined
  BY <1>1, <1>2, <1>4, <1>5 DEF InOrder
<1>8. sStart <= scene
  BY <1>1 DEF InStep
<1>9. IsOnItsWay(scene) \/ scene \in control \/ Arrived(scene)
  BY <1>1, <1>6, <1>7, <1>8 DEF InStep
<1>10. ~ IsOnItsWay(scene)
  <2>1. ASSUME NEW n \in DOMAIN stream, stream[n] = Control(scene) PROVE FALSE
    <3>1. n \in Nat /\ n > 0
      BY <1>2
    <3>2. stream[n].type = "control" /\ stream[n].index = scene
      BY <2>1, ControlFields
    <3>3. scene <= head
      BY <1>2, <1>5
    <3>4. n <= missed
      BY <1>1, <3>2, <3>3 DEF ControlFirst
    <3>. QED BY <3>1, <3>4
  <2>. QED BY <2>1 DEF IsOnItsWay
<1>11. scene \notin control
  <2>1. scene \in control => position.index < scene
    BY <1>1 DEF InStep
  <2>. QED BY <1>2, <1>5, <2>1
<1>. QED BY <1>9, <1>10, <1>11

(* What a message does to the generator states that wait and to those in their slots. *)
LEMMA TakesStates ==
  ASSUME IInv, ~ jumped, NEW n \in 0 .. Len(stream), Deliver(n)
  PROVE  /\ \A i \in control' : position'.index < i
         /\ OwnSlots(rngStates')
         /\ \A i \in Indices : Placed(rngStates, i) => Placed(rngStates', i)
         /\ \A i \in Indices : (i \in control \/ stream[n + 1] = Control(i)) /\ i > 0 /\ i >= sStart =>
              i \in control' \/ Placed(rngStates', i)
<1>. DEFINE msg == stream[n + 1]
<1>1. Takes(msg)
  BY DeliverIs
<1>2. InStep /\ TypeOK /\ control \in SUBSET Indices /\ OwnSlots(rngStates) /\ position.index \in Nat
      /\ \A i \in control : position.index < i
  <2>1. InStep /\ TypeOK
    BY DEF IInv, HostInv, SeedInv
  <2>. QED BY <2>1, Numbers DEF InStep, OwnSlots
<1>. HIDE DEF msg
<1>3. ASSUME NEW pending \in SUBSET Indices, control \subseteq pending, Applies(pending, position'),
             \A i \in Indices : msg = Control(i) => i \in pending, position'.index \in Nat
      PROVE  /\ \A i \in control' : position'.index < i
             /\ OwnSlots(rngStates')
             /\ \A i \in Indices : Placed(rngStates, i) => Placed(rngStates', i)
             /\ \A i \in Indices : (i \in control \/ msg = Control(i)) /\ i > 0 /\ i >= sStart =>
                  i \in control' \/ Placed(rngStates', i)
  <2>1. \A i \in pending : i \in Nat
    BY Bounds
  <2>2. control' = {i \in pending : ~ i <= position'.index}
    BY <1>3 DEF Applies
  <2>3. \A i \in control' : position'.index < i
    BY <1>3, <2>1, <2>2
  <2>4. /\ OwnSlots(rngStates')
        /\ \A i \in Indices : Placed(rngStates, i) => Placed(rngStates', i)
        /\ \A i \in pending : i <= position'.index /\ i > 0 /\ i >= sStart => Placed(rngStates', i)
    BY <1>2, <1>3 DEF Applies
  <2>. QED BY <1>3, <2>2, <2>3, <2>4
<1>4. msg \in Batches => \A i \in Indices : msg # Control(i)
  BY BatchFields, ControlFields
<1>5. ASSUME msg \in Batches, TakesInputs(msg)
      PROVE  /\ \A i \in control' : position'.index < i
             /\ OwnSlots(rngStates')
             /\ \A i \in Indices : Placed(rngStates, i) => Placed(rngStates', i)
             /\ \A i \in Indices : (i \in control \/ msg = Control(i)) /\ i > 0 /\ i >= sStart =>
                  i \in control' \/ Placed(rngStates', i)
  <2>1. Applies(control, position') /\ position'.index \in Nat
    BY <1>5, Bounds DEF TakesInputs, Flushed
  <2>. QED BY <1>2, <1>3, <1>4, <1>5, <2>1
<1>6. ASSUME NEW c \in Indices, msg = Control(c), TakesControl(c)
      PROVE  /\ \A i \in control' : position'.index < i
             /\ OwnSlots(rngStates')
             /\ \A i \in Indices : Placed(rngStates, i) => Placed(rngStates', i)
             /\ \A i \in Indices : (i \in control \/ msg = Control(i)) /\ i > 0 /\ i >= sStart =>
                  i \in control' \/ Placed(rngStates', i)
  <2>1. position' = position /\ Applies(control \cup {c}, position)
    BY <1>6 DEF TakesControl
  <2>2. Applies(control \cup {c}, position')
    BY <2>1 DEF Applies
  <2>3. \A i \in Indices : msg = Control(i) => i \in control \cup {c}
    <3>1. ASSUME NEW i \in Indices, msg = Control(i) PROVE i = c
      <4>1. msg.index = c
        BY <1>6, ControlFields
      <4>2. msg.index = i
        BY <3>1, ControlFields
      <4>. QED BY <4>1, <4>2
    <3>. QED BY <3>1
  <2>4. control \cup {c} \in SUBSET Indices
    BY <1>2
  <2>. QED BY <1>2, <1>3, <2>1, <2>2, <2>3, <2>4
<1>7. ASSUME msg = Config, UNCHANGED clientVars
      PROVE  /\ \A i \in control' : position'.index < i
             /\ OwnSlots(rngStates')
             /\ \A i \in Indices : Placed(rngStates, i) => Placed(rngStates', i)
             /\ \A i \in Indices : (i \in control \/ msg = Control(i)) /\ i > 0 /\ i >= sStart =>
                  i \in control' \/ Placed(rngStates', i)
  <2>1. UNCHANGED << control, position, rngStates >>
    BY <1>7 DEF clientVars
  <2>2. \A i \in Indices : msg # Control(i)
    BY <1>7, ControlFields DEF Config
  <2>. QED BY <1>2, <2>1, <2>2
<1>8. /\ \A i \in control' : position'.index < i
      /\ OwnSlots(rngStates')
      /\ \A i \in Indices : Placed(rngStates, i) => Placed(rngStates', i)
      /\ \A i \in Indices : (i \in control \/ msg = Control(i)) /\ i > 0 /\ i >= sStart =>
           i \in control' \/ Placed(rngStates', i)
  BY <1>1, <1>5, <1>6, <1>7 DEF Takes
<1>. QED BY <1>8 DEF msg

LEMMA DeliverSeed ==
  ASSUME IInv, NEW n \in 0 .. Len(stream), Deliver(n)
  PROVE  SeedInv'
<1>1. Overtaken(n) /\ Removed(n) /\ UNCHANGED hostVars /\ Takes(stream[n + 1])
  BY DeliverIs
<1>2. TypeOK /\ SeedInv /\ sStart <= sIndex
  BY DEF IInv, HostInv, HoldInv
<1>3. UNCHANGED Rest
  BY <1>1 DEF Takes, TakesControl, TakesInputs, clientVars, Rest
<1>4. rngArchive' = {i \in 1 .. index' : HasControl(i)}
  BY <1>1, <1>2 DEF SeedInv, hostVars
<1>5. InOrder' /\ ControlFirst' /\ PositionIsLast'
  BY DeliverInOrder, DeliverPosition
<1>6. ASSUME ~ jumped' PROVE InStep' /\ SeedIsDue'
  <2>1. ~ jumped /\ InStep /\ SeedIsDue
    BY <1>2, <1>3, <1>6 DEF SeedInv, Rest
  <2>2. /\ \A i \in control' : position'.index < i
        /\ OwnSlots(rngStates')
        /\ \A i \in Indices : Placed(rngStates, i) => Placed(rngStates', i)
        /\ \A i \in Indices : (i \in control \/ stream[n + 1] = Control(i)) /\ i > 0 /\ i >= sStart =>
             i \in control' \/ Placed(rngStates', i)
    BY <2>1, TakesStates
  <2>3. \A i : /\ Arrived(i) <=> Placed(rngStates, i)
               /\ Arrived(i)' <=> Placed(rngStates', i)
    BY <1>3 DEF Arrived, Placed, Rest
  <2>4. ASSUME cursor' # NotJoined, NEW i \in rngArchive', sStart' <= i
        PROVE  IsOnItsWay(i)' \/ i \in control' \/ Arrived(i)'
    <3>1. cursor # NotJoined /\ i \in rngArchive /\ sStart <= i /\ i \in Indices /\ i > 0
      <4>1. cursor # NotJoined /\ i \in rngArchive /\ sStart <= i
        BY <1>1, <1>3, <2>4 DEF hostVars, Rest
      <4>2. i \in 1 .. index
        BY <1>2, <4>1 DEF SeedInv
      <4>. QED BY <1>2, <4>1, <4>2, Numbers
    <3>2. i >= sStart /\ i \in Nat
      BY <1>2, <3>1, Numbers, Bounds
    <3>3. CASE IsOnItsWay(i)
      <4>1. PICK k \in DOMAIN stream : stream[k] = Control(i)
        BY <3>3 DEF IsOnItsWay
      <4>2. CASE k = n + 1
        BY <2>2, <2>3, <3>1, <3>2, <4>1, <4>2
      <4>3. CASE k # n + 1
        <5>1. \E m \in DOMAIN stream' : stream'[m] = stream[k]
          BY <1>1, <1>2, <4>3, RemovedOrder, Numbers
        <5>. QED BY <4>1, <5>1 DEF IsOnItsWay
      <4>. QED BY <4>2, <4>3
    <3>4. CASE i \in control
      BY <2>2, <2>3, <3>1, <3>2, <3>4
    <3>5. CASE Arrived(i)
      BY <2>2, <2>3, <3>1, <3>5
    <3>6. IsOnItsWay(i) \/ i \in control \/ Arrived(i)
      BY <2>1, <3>1 DEF InStep
    <3>. QED BY <3>3, <3>4, <3>5, <3>6
  <2>5. \A k \in DOMAIN rngStates' : rngStates'[k] \in {None, sStart' + k - 1}
    BY <1>3, <2>2 DEF OwnSlots, Rest
  <2>6. sIndex' = scene' /\ sFrame' = played'
    BY <1>3, <2>1 DEF InStep, Rest
  <2>7. InStep'
    BY <2>2, <2>4, <2>5, <2>6 DEF InStep
  <2>8. ASSUME HasControl(scene'), seed'.rng # scene'
        PROVE  /\ sync'
               /\ played' > 1 => played' = 2 /\ held'[scene'] # {} /\ (sameFrame' => Arrived(scene)')
    <3>1. HasControl(scene) /\ seed.rng # scene /\ sync' = sync /\ played' = played /\ scene' = scene
          /\ scene \in Indices
      BY <1>2, <1>3, <2>8 DEF Rest, TypeOK
    <3>2. sync /\ (played > 1 => played = 2 /\ held[scene] # {} /\ (sameFrame => Arrived(scene)))
      BY <2>1, <3>1 DEF SeedIsDue
    <3>3. ASSUME played > 1
          PROVE  played = 2 /\ held'[scene] # {} /\ (sameFrame' => Arrived(scene)')
      <4>1. held'[scene] # {}
        BY <3>1, <3>2, <3>3, DeliverPosition
      <4>2. ASSUME sameFrame' PROVE Arrived(scene)
        <5>1. CASE sameFrame
          BY <3>2, <3>3, <5>1
        <5>2. CASE ~ sameFrame
          <6>1. missed = 0
            BY <1>1, <4>2, <5>2 DEF Overtaken
          <6>. QED BY <2>1, <3>1, <3>2, <3>3, <6>1, SeedIsHere
        <5>. QED BY <5>1, <5>2
      <4>3. Arrived(scene) => Arrived(scene)'
        <5>1. Arrived(scene) <=> Placed(rngStates, scene)
          BY <2>3
        <5>2. Arrived(scene)' <=> Placed(rngStates', scene)
          BY <1>3, <3>1 DEF Arrived, Placed, Rest
        <5>. QED BY <2>2, <3>1, <5>1, <5>2
      <4>. QED BY <3>2, <3>3, <4>1, <4>2, <4>3
    <3>. QED BY <3>1, <3>2, <3>3
  <2>9. SeedIsDue'
    BY <2>8 DEF SeedIsDue
  <2>. QED BY <2>7, <2>9
<1>. QED BY <1>4, <1>5, <1>6 DEF SeedInv

LEMMA JumpSeed ==
  ASSUME IInv, Jump
  PROVE  SeedInv'
<1>1. /\ future' = [i \in Indices |-> IF i < head THEN << >> ELSE future[i]]
      /\ held' = [i \in Indices |-> IF i < head THEN {} ELSE held[i]]
      /\ position' = [index |-> head, frame |-> 0] /\ jumped' = TRUE
      /\ UNCHANGED << index, pos, archive, rngArchive, cursor, stream, head, missed >>
  BY DEF Jump, hostVars, drainVars
<1>2. SeedInv /\ TypeOK
  BY DEF IInv, HostInv
<1>3. head \in Nat /\ position.index \in Nat
  BY <1>2, Numbers
<1>4. InOrder' /\ ControlFirst'
  BY <1>1, <1>2 DEF SeedInv, InOrder, ControlFirst
<1>5. PositionIsLast'
  <2>1. PositionIsLast
    BY <1>2 DEF SeedInv
  <2>2. position'.index = head
    BY <1>1
  <2>3. ASSUME NEW i \in Indices
        PROVE  /\ held'[i] # {} => i <= head
               /\ future'[i] # << >> => head <= i /\ i <= head
    <3>1. i \in Nat
      BY Bounds
    <3>2. held'[i] # {} => held[i] # {}
      BY <1>1
    <3>3. future'[i] # << >> => ~ i < head /\ future[i] # << >>
      BY <1>1
    <3>. QED BY <1>3, <2>1, <3>1, <3>2, <3>3 DEF PositionIsLast
  <2>. QED BY <1>1, <1>3, <2>2, <2>3 DEF PositionIsLast
<1>6. rngArchive' = {i \in 1 .. index' : HasControl(i)}
  BY <1>1, <1>2 DEF SeedInv
<1>. QED BY <1>1, <1>4, <1>5, <1>6 DEF SeedInv

LEMMA PlayFrameSeed ==
  ASSUME IInv, PlayFrame
  PROVE  SeedInv'
<1>1. /\ sStart' = sStart /\ sFrame' = sFrame + 1 /\ played' = played + 1
      /\ (missed = 0 \/ sameFrame) /\ sameFrame' = FALSE /\ missed' = missed
      /\ GiveSeed(sync, rngStates, sIndex, played, seed)
      /\ sIndex > 0 /\ HasInputs
      /\ UNCHANGED << index, pos, archive, rngArchive, cursor, stream, future, control, rngStates,
                      position, head, held, sIndex, scene, jumped >>
  BY DEF PlayFrame, FramePlayed, hostVars
<1>2. SeedInv /\ TypeOK
  BY DEF IInv, HostInv
<1>3. played \in Nat /\ sFrame \in Nat /\ sIndex \in Nat /\ sStart \in Nat
  BY <1>2, Numbers
<1>4. InOrder' /\ ControlFirst' /\ PositionIsLast'
  BY <1>1, <1>2 DEF SeedInv, InOrder, ControlFirst, PositionIsLast
<1>5. rngArchive' = {i \in 1 .. index' : HasControl(i)}
  BY <1>1, <1>2 DEF SeedInv
<1>6. ASSUME ~ jumped' PROVE InStep' /\ SeedIsDue'
  <2>1. ~ jumped /\ InStep /\ SeedIsDue
    BY <1>1, <1>2, <1>6 DEF SeedInv
  <2>2. InStep'
    <3>1. \A i : (IsOnItsWay(i)' <=> IsOnItsWay(i)) /\ (Arrived(i)' <=> Arrived(i))
      BY <1>1 DEF IsOnItsWay, Arrived
    <3>2. sFrame' = played' /\ sIndex' = scene'
      BY <1>1, <2>1 DEF InStep
    <3>. QED BY <1>1, <2>1, <3>1, <3>2 DEF InStep
  <2>. DEFINE slot == sIndex - sStart + 1
              there == sync /\ slot \in DOMAIN rngStates /\ rngStates[slot] # None
  <2>3. sync' = (sync /\ ~ there) /\ seed' = IF there THEN [rng |-> rngStates[slot], at |-> played] ELSE seed
    BY <1>1 DEF GiveSeed
  <2>4. there <=> sync /\ Arrived(scene)
    BY <2>1 DEF InStep, Arrived
  <2>5. there => rngStates[slot] = scene
    <3>1. slot \in DOMAIN rngStates => rngStates[slot] \in {None, sStart + slot - 1}
      BY <2>1 DEF InStep
    <3>2. sStart + slot - 1 = sIndex /\ sIndex = scene
      BY <1>3, <2>1 DEF InStep
    <3>. QED BY <3>1, <3>2
  <2>. HIDE DEF there, slot
  <2>6. ASSUME HasControl(scene'), seed'.rng # scene'
        PROVE  /\ sync'
               /\ played' > 1 => played' = 2 /\ held'[scene'] # {} /\ (sameFrame' => Arrived(scene)')
    <3>1. scene' = scene /\ held' = held
      BY <1>1
    <3>2. ~ there
      <4>1. there => seed'.rng = scene
        BY <2>3, <2>5
      <4>. QED BY <2>6, <3>1, <4>1
    <3>3. HasControl(scene) /\ seed.rng # scene
      BY <2>3, <2>6, <3>1, <3>2
    <3>4. sync /\ (played > 1 => played = 2 /\ held[scene] # {} /\ (sameFrame => Arrived(scene)))
      BY <2>1, <3>3 DEF SeedIsDue
    <3>5. ~ Arrived(scene) /\ sync'
      BY <2>3, <2>4, <3>2, <3>4
    <3>6. ~ played > 1
      <4>1. ASSUME played > 1 PROVE FALSE
        <5>1. held[scene] # {} /\ ~ sameFrame
          BY <3>4, <3>5, <4>1
        <5>2. missed = 0
          BY <1>1, <5>1
        <5>3. Arrived(scene)
          BY <2>1, <3>3, <5>1, <5>2, SeedIsHere
        <5>. QED BY <3>5, <5>3
      <4>. QED BY <4>1
    <3>7. held[scene] # {}
      BY <1>1, <2>1 DEF HasInputs, InStep
    <3>8. played' > 1 => played' = 2
      BY <1>1, <1>3, <3>6
    <3>. QED BY <1>1, <3>1, <3>5, <3>7, <3>8
  <2>7. SeedIsDue'
    BY <2>6 DEF SeedIsDue
  <2>. QED BY <2>2, <2>7
<1>. QED BY <1>4, <1>5, <1>6 DEF SeedInv

LEMMA Difference ==
  ASSUME NEW a \in Nat, NEW b \in Nat
  PROVE  /\ b <= a => \E d \in Nat : a = b + d
         /\ \A i \in Nat : a + ((i + 1) - a + 1) - 1 = i + 1
<1>1. b <= a => a - b \in Nat /\ a = b + (a - b)
  OBVIOUS
<1>. QED BY <1>1

LEMMA PlayMovesSeed ==
  ASSUME IInv, PlayMoves
  PROVE  SeedInv'
<1>0. HostInv /\ SeedInv /\ TypeOK /\ sStart <= sIndex
  BY DEF IInv, HostInv, HoldInv
<1>1. /\ sStart' \in {sStart, sIndex + 1}
      /\ held' = [i \in Indices |-> IF i < sStart' THEN {} ELSE held[i]]
      /\ rngStates' = SubSeq(rngStates, sStart' - sStart + 1, Len(rngStates))
      /\ GiveSeed(sync \/ HasControl(scene + 1), rngStates', sIndex + 1, 0, Unseeded)
      /\ scene' = scene + 1 /\ played' = 1 /\ sIndex' = sIndex + 1 /\ sFrame' = 1
      /\ UNCHANGED << index, pos, archive, rngArchive, cursor, stream, future, control, position,
                      head, jumped >>
  BY <1>0, PlayMovesHost DEF hostVars
<1>2. missed' = missed
  BY DEF PlayMoves, FramePlayed
<1>3. /\ sIndex \in Nat /\ sStart \in Nat /\ scene \in Nat /\ sStart' \in Nat /\ sStart <= sStart'
  <2>1. sIndex \in Nat /\ sStart \in Nat /\ scene \in Nat
    BY <1>0, Numbers
  <2>2. sStart' = sStart \/ sStart' = sIndex + 1
    BY <1>1
  <2>. QED BY <1>0, <2>1, <2>2
<1>4. InOrder' /\ ControlFirst'
  BY <1>0, <1>1, <1>2 DEF SeedInv, InOrder, ControlFirst
<1>5. PositionIsLast'
  <2>1. \A i \in Indices : held'[i] # {} => held[i] # {}
    BY <1>1
  <2>. QED BY <1>0, <1>1, <2>1 DEF SeedInv, PositionIsLast
<1>6. rngArchive' = {i \in 1 .. index' : HasControl(i)}
  BY <1>0, <1>1 DEF SeedInv
<1>7. ASSUME ~ jumped' PROVE InStep' /\ SeedIsDue'
  <2>1. ~ jumped /\ InStep
    BY <1>0, <1>1, <1>7 DEF SeedInv
  <2>2. PICK d \in Nat : sStart' = sStart + d
    BY <1>3, Difference
  <2>3. /\ rngStates \in Seq(Indices \cup {None}) /\ Len(rngStates) \in Nat
        /\ DOMAIN rngStates = 1 .. Len(rngStates)
        /\ rngStates' = SubSeq(rngStates, d + 1, Len(rngStates))
    <3>1. rngStates \in Seq(Indices \cup {None})
      BY <1>0 DEF TypeOK
    <3>2. sStart' - sStart + 1 = d + 1
      BY <1>3, <2>2
    <3>. QED BY <1>1, <3>1, <3>2
  <2>4. /\ \A k \in DOMAIN rngStates' : k + d \in DOMAIN rngStates /\ rngStates'[k] = rngStates[k + d]
        /\ \A k \in DOMAIN rngStates : k - d >= 1 => k - d \in DOMAIN rngStates'
        /\ DOMAIN rngStates' \subseteq Nat
    <3>. DEFINE s == SubSeq(rngStates, d + 1, Len(rngStates))
    <3>1. /\ DOMAIN s = 1 .. (IF d + 1 <= Len(rngStates) THEN Len(rngStates) - d ELSE 0)
          /\ \A k \in DOMAIN s : s[k] = rngStates[k + d]
      <4>1. d + 1 >= 1 /\ d + 1 \in Nat /\ Len(rngStates) + 0 = Len(rngStates)
        BY <2>3
      <4>2. Len(s) = IF d + 1 <= Len(rngStates) THEN Len(rngStates) - d ELSE 0
        BY <2>3, <4>1
      <4>3. s \in Seq(Indices \cup {None})
        BY <2>3, <4>1
      <4>4. DOMAIN s = 1 .. Len(s)
        BY <4>3
      <4>5. \A k \in 1 .. Len(s) : s[k] = rngStates[k + d]
        <5>1. ASSUME NEW k \in 1 .. Len(s) PROVE s[k] = rngStates[k + d]
          <6>1. k \in 1 .. Len(rngStates) - d /\ (d + 1) + k - 1 = k + d
            BY <2>3, <4>2
          <6>2. s[k] = rngStates[(d + 1) + k - 1]
            BY <2>3, <4>1, <6>1
          <6>. QED BY <6>1, <6>2
        <5>. QED BY <5>1
      <4>. HIDE DEF s
      <4>. QED BY <4>2, <4>4, <4>5
    <3>. HIDE DEF s
    <3>2. \A k \in DOMAIN s : k + d \in DOMAIN rngStates /\ k \in Nat
      BY <2>2, <2>3, <3>1
    <3>3. \A k \in DOMAIN rngStates : k - d >= 1 => k - d \in DOMAIN s
      BY <2>2, <2>3, <3>1
    <3>. QED BY <2>3, <3>1, <3>2, <3>3 DEF s
  <2>5. ASSUME NEW k \in DOMAIN rngStates' PROVE rngStates'[k] \in {None, sStart' + k - 1}
    <3>1. k + d \in DOMAIN rngStates /\ rngStates'[k] = rngStates[k + d] /\ k \in Nat
      BY <2>4
    <3>2. rngStates[k + d] \in {None, sStart + (k + d) - 1}
      BY <2>1, <3>1 DEF InStep
    <3>3. sStart + (k + d) - 1 = sStart' + k - 1
      BY <1>3, <2>2, <3>1
    <3>. QED BY <3>1, <3>2, <3>3
  <2>6. ASSUME cursor' # NotJoined, NEW i \in rngArchive', sStart' <= i
        PROVE  IsOnItsWay(i)' \/ i \in control' \/ Arrived(i)'
    <3>1. i \in Nat /\ sStart <= i /\ i \in rngArchive /\ cursor # NotJoined
      <4>1. i \in rngArchive /\ cursor # NotJoined
        BY <1>1, <2>6
      <4>2. i \in Nat
        BY <1>0, <4>1, Numbers, Bounds
      <4>. QED BY <1>3, <2>6, <4>1, <4>2
    <3>2. IsOnItsWay(i) \/ i \in control \/ Arrived(i)
      BY <2>1, <3>1 DEF InStep
    <3>3. ASSUME Arrived(i) PROVE Arrived(i)'
      <4>1. i - sStart + 1 \in DOMAIN rngStates /\ rngStates[i - sStart + 1] # None
        BY <3>3 DEF Arrived
      <4>2. (i - sStart + 1) - d = i - sStart' + 1 /\ (i - sStart + 1) - d >= 1
            /\ (i - sStart' + 1) + d = i - sStart + 1
        BY <1>3, <2>2, <2>6, <3>1
      <4>3. i - sStart' + 1 \in DOMAIN rngStates'
        BY <2>4, <4>1, <4>2
      <4>4. rngStates'[i - sStart' + 1] = rngStates[i - sStart + 1]
        BY <2>4, <4>2, <4>3
      <4>. QED BY <4>1, <4>3, <4>4 DEF Arrived
    <3>. QED BY <1>1, <3>2, <3>3 DEF IsOnItsWay
  <2>7. sIndex' = scene' /\ sFrame' = played'
    BY <1>1, <2>1 DEF InStep
  <2>8. InStep'
    BY <1>1, <2>1, <2>5, <2>6, <2>7 DEF InStep
  <2>9. ASSUME HasControl(scene'), seed'.rng # scene'
        PROVE  /\ sync'
               /\ played' > 1 => played' = 2 /\ held'[scene'] # {} /\ (sameFrame' => Arrived(scene)')
    <3>. DEFINE slot == (sIndex + 1) - sStart' + 1
                due == sync \/ HasControl(scene + 1)
                there == due /\ slot \in DOMAIN rngStates' /\ rngStates'[slot] # None
    <3>1. sync' = (due /\ ~ there)
          /\ seed' = IF there THEN [rng |-> rngStates'[slot], at |-> 0] ELSE Unseeded
      BY <1>1 DEF GiveSeed
    <3>2. due
      BY <1>1, <2>9
    <3>3. there => rngStates'[slot] = scene'
      <4>1. slot \in DOMAIN rngStates' => rngStates'[slot] \in {None, sStart' + slot - 1}
        BY <2>5
      <4>2. sStart' + slot - 1 = sIndex + 1
        <5>1. sStart' + ((sIndex + 1) - sStart' + 1) - 1 = sIndex + 1
          BY <1>3, Difference
        <5>. QED BY <5>1
      <4>. QED BY <1>1, <2>7, <4>1, <4>2
    <3>. HIDE DEF there, slot, due
    <3>4. ~ there
      <4>1. there => seed'.rng = scene'
        BY <3>1, <3>3
      <4>. QED BY <2>9, <4>1
    <3>5. sync'
      BY <3>1, <3>2, <3>4
    <3>6. ~ played' > 1
      BY <1>1
    <3>. QED BY <3>5, <3>6
  <2>10. SeedIsDue'
    BY <2>9 DEF SeedIsDue
  <2>. QED BY <2>8, <2>10
<1>. QED BY <1>4, <1>5, <1>6, <1>7 DEF SeedInv

LEMMA RemoteInputsRest ==
  ASSUME IInv, NEW i \in Indices, RemoteInputs(i)
  PROVE  HoldInv' /\ SeedInv'
<1>1. UNCHANGED << index, frame, left, start, preserve, pos, archive, rngArchive, cursor,
                   stream, clientVars, drainVars >>
  BY DEF RemoteInputs
<1>2. UNCHANGED << future, held, archive, cursor, stream, sIndex, sStart >>
  BY <1>1 DEF clientVars
<1>3. HoldInv'
  BY <1>2, HoldStays DEF IInv
<1>4. /\ UNCHANGED << index, pos, archive, rngArchive, cursor, stream, future, control, rngStates,
                      position, head, held, sIndex, sFrame, sStart, sync, scene, played, seed, jumped >>
      /\ UNCHANGED << missed, sameFrame >>
  BY <1>1 DEF clientVars, drainVars
<1>5. SeedInv
  BY DEF IInv
<1>6. InOrder' /\ ControlFirst' /\ PositionIsLast'
  BY <1>4, <1>5 DEF SeedInv, InOrder, ControlFirst, PositionIsLast
<1>7. ASSUME ~ jumped' PROVE InStep' /\ SeedIsDue'
  <2>1. InStep /\ SeedIsDue
    BY <1>4, <1>5, <1>7 DEF SeedInv
  <2>2. \A j : (IsOnItsWay(j)' <=> IsOnItsWay(j)) /\ (Arrived(j)' <=> Arrived(j))
    BY <1>4 DEF IsOnItsWay, Arrived
  <2>3. Arrived(scene)' <=> Arrived(scene)
    BY <1>4 DEF Arrived
  <2>4. InStep'
    BY <1>4, <2>1, <2>2 DEF InStep
  <2>5. SeedIsDue'
    BY <1>4, <2>1, <2>3 DEF SeedIsDue
  <2>. QED BY <2>4, <2>5
<1>8. rngArchive' = {j \in 1 .. index' : HasControl(j)}
  BY <1>4, <1>5 DEF SeedInv
<1>. QED BY <1>3, <1>6, <1>7, <1>8 DEF SeedInv

LEMMA InitRest ==
  ASSUME Init
  PROVE  HoldInv /\ SeedInv
<1>1. /\ index = 0 /\ archive = << >> /\ rngArchive = {} /\ cursor = NotJoined /\ stream = << >>
      /\ future = [i \in Indices |-> << >>] /\ control = {} /\ rngStates = << >>
      /\ position.index = 0 /\ head = 0 /\ held = [i \in Indices |-> {}]
      /\ sIndex = 0 /\ sFrame = 0 /\ sStart = 0 /\ scene = 0 /\ played = 0 /\ pos.index = 0
  BY DEF Init
<1>2. DOMAIN stream = {} /\ DOMAIN archive = {} /\ DOMAIN rngStates = {}
      /\ \A i \in Indices : DOMAIN future[i] = {}
  BY <1>1
<1>3. \A i, n : Upto(archive, n, i) = {}
  <2>1. ASSUME NEW i, NEW n, NEW f PROVE f \notin Upto(archive, n, i)
    BY <1>2, UptoIs
  <2>. QED BY <2>1
<1>4. \A i \in Indices : Has(i) = {} /\ held[i] = {}
  <2>1. ASSUME NEW i \in Indices, NEW f PROVE f \notin AllOf(future[i], i)
    BY <1>2, UptoIs DEF AllOf
  <2>. QED BY <1>1, <2>1 DEF Has
<1>5. HoldInv
  <2>1. \A i \in sIndex .. Last : i \in Indices
    BY <1>1 DEF Indices
  <2>2. HereIsPrefix
    BY <1>4, <2>1 DEF HereIsPrefix, IsPrefix
  <2>. QED BY <1>1, <1>2, <1>3, <2>2 DEF HoldInv, FutureIsOwn, SentIsHere, StreamJoins
<1>6. InOrder /\ ControlFirst /\ PositionIsLast
  BY <1>1, <1>2 DEF InOrder, ControlFirst, PositionIsLast
<1>7. InStep
  BY <1>1, <1>2 DEF InStep
<1>8. SeedIsDue
  BY <1>1 DEF SeedIsDue, HasControl, StateOf
<1>9. rngArchive = {i \in 1 .. index : HasControl(i)}
  <2>1. 1 .. 0 = {}
    OBVIOUS
  <2>. QED BY <1>1, <2>1
<1>. QED BY <1>5, <1>6, <1>7, <1>8, <1>9 DEF SeedInv

LEMMA ActsOrder ==
  ASSUME IInv, HostInv', NEW joins \in BOOLEAN, NEW news \in Seq(Messages), Acts(joins, news),
         NEW greeting, NEW from, NEW to, Sends(joins, news, greeting, from, to)
  PROVE  /\ InOrder' /\ ControlFirst'
         /\ \A n \in DOMAIN stream : \E m \in DOMAIN stream' : stream'[m] = stream[n]
         /\ \A k \in DOMAIN greeting : \E m \in DOMAIN stream' : stream'[m] = greeting[k]
         /\ \A k \in DOMAIN news : \E m \in DOMAIN stream' : stream'[m] = news[k]
<1>0. HostInv /\ TypeOK /\ SeedInv /\ InOrder /\ ControlFirst /\ Spectators(joins, news)
      /\ UNCHANGED << clientVars, drainVars >>
  BY DEF IInv, HostInv, SeedInv, Acts
<1>1. /\ archive' \in Seq(Batches) /\ Len(archive) <= Len(archive')
      /\ \A m \in DOMAIN archive : archive'[m] = archive[m]
      /\ \A m \in DOMAIN archive' : m > Len(archive) => pos.index <= archive'[m].index
      /\ pos.index <= pos'.index /\ pos'.index <= index
  BY <1>0, Archives DEF Pulled
<1>2. /\ stream \in Seq(Messages) /\ stream' \in Seq(Messages) /\ archive \in Seq(Batches)
      /\ rngArchive = {i \in 1 .. index : HasControl(i)}
      /\ Ordered(archive') /\ \A m \in DOMAIN archive' : archive'[m].index <= pos'.index
  BY <1>0 DEF HostInv, TypeOK, Sound, SeedInv
<1>3. PICK a, b : Laid(joins, news, greeting, from, to, a, b)
  BY <1>0, <1>1, SentIs
<1>4. /\ from = IF joins THEN 0 ELSE cursor
      /\ from \in 0 .. Len(archive) /\ to \in from .. Len(archive') /\ cursor' = to
      /\ joins => cursor = NotJoined
  BY DEF Sends
<1>17. PICK L \in Nat, M \in Nat, A \in Nat : L = Len(stream) /\ M = Len(stream') /\ A = Len(archive')
  <2>1. Len(stream) \in Nat /\ Len(stream') \in Nat /\ Len(archive') \in Nat
    BY <1>1, <1>2
  <2>. QED BY <2>1
<1>5. /\ from \in Nat /\ to \in Nat /\ from <= to /\ to <= A /\ a \in Nat /\ b \in Nat
      /\ L <= a /\ b = a + (to - from) /\ b <= M /\ a <= b /\ (~ joins => a = L)
  <2>1. /\ a \in Nat /\ b \in Nat /\ Len(stream) <= a /\ b = a + (to - from) /\ b <= Len(stream')
        /\ a <= b /\ (~ joins => a = Len(stream))
    BY <1>3 DEF Laid
  <2>2. from \in Nat /\ to \in Nat /\ from <= to /\ to <= Len(archive')
    BY <1>2, <1>4
  <2>. QED BY <1>17, <2>1, <2>2
<1>18. /\ DOMAIN stream = 1 .. L /\ DOMAIN stream' = 1 .. M
       /\ DOMAIN archive = 1 .. Len(archive) /\ DOMAIN archive' = 1 .. A
       /\ Len(archive) \in Nat
  BY <1>1, <1>2, <1>17
<1>6. /\ \A m \in 1 .. L : stream'[m] = stream[m]
      /\ \A m \in L + 1 .. a : stream'[m] \in Greetings
      /\ \A m \in a + 1 .. b : stream'[m] = archive'[from + (m - a)]
      /\ \A m \in b + 1 .. M : \E k \in DOMAIN news : stream'[m] = news[k]
      /\ \A k \in DOMAIN greeting : \E m \in DOMAIN stream' : stream'[m] = greeting[k]
      /\ \A k \in DOMAIN news : \E m \in DOMAIN stream' : stream'[m] = news[k]
  BY <1>3, <1>17 DEF Laid
<1>7. /\ head \in Nat /\ index \in Nat /\ pos.index \in Nat /\ missed \in Nat
      /\ head' = head /\ missed' = missed /\ pos'.index \in Nat
      /\ \A k \in DOMAIN stream : stream[k].type # "config" => stream[k].index \in Nat
      /\ \A k \in DOMAIN archive' : archive'[k].index \in Nat
  <2>1. head' = head /\ missed' = missed
    BY <1>0 DEF clientVars, drainVars
  <2>2. pos'.index \in Nat
    BY Bounds DEF HostInv, PosType
  <2>3. \A k \in DOMAIN archive' : archive'[k] \in Batches
    BY <1>1
  <2>4. \A k \in DOMAIN archive' : archive'[k].index \in Nat
    BY <2>3, BatchFields, Bounds
  <2>. QED BY <1>0, <2>1, <2>2, <2>4, Numbers
<1>8. joins => stream = << >> /\ head = 0 /\ L = 0
  BY <1>0, <1>4, <1>17 DEF InOrder
<1>9. head <= pos.index
  BY <1>0 DEF InOrder
(* What was not served before comes after what was. *)
<1>10. \A m \in DOMAIN archive' : m > from => head <= archive'[m].index
  <2>1. ASSUME NEW m \in DOMAIN archive', m > from PROVE head <= archive'[m].index
    <3>1. CASE m > Len(archive)
      BY <1>1, <1>7, <1>9, <2>1, <3>1
    <3>2. CASE ~ m > Len(archive)
      <4>1. m \in DOMAIN archive /\ archive'[m] = archive[m]
        BY <1>1, <1>5, <1>18, <2>1, <3>2
      <4>2. CASE joins
        BY <1>7, <1>8, <2>1, <4>2
      <4>3. CASE ~ joins
        <5>1. m > cursor
          BY <1>4, <2>1, <4>3
        <5>. QED BY <1>0, <4>1, <5>1 DEF InOrder
      <4>. QED BY <4>2, <4>3
    <3>. QED BY <3>1, <3>2
  <2>. QED BY <2>1
<1>11. \A n \in DOMAIN stream : stream[n].type = "inputs" =>
         \A m \in DOMAIN archive' : m > from => stream[n].index <= archive'[m].index
  <2>1. ASSUME NEW n \in DOMAIN stream, stream[n].type = "inputs", NEW m \in DOMAIN archive', m > from
        PROVE  stream[n].index <= archive'[m].index
    <3>1. ~ joins
      BY <1>8, <2>1, <1>5, <1>18
    <3>2. CASE m > Len(archive)
      <4>1. stream[n].index <= pos.index
        BY <1>0, <2>1 DEF InOrder
      <4>. QED BY <1>1, <1>7, <2>1, <3>2, <4>1
    <3>3. CASE ~ m > Len(archive)
      <4>1. m \in DOMAIN archive /\ archive'[m] = archive[m] /\ m > cursor
        BY <1>1, <1>4, <1>5, <1>18, <2>1, <3>1, <3>3
      <4>. QED BY <1>0, <2>1, <4>1 DEF InOrder
    <3>. QED BY <3>2, <3>3
  <2>. QED BY <2>1
(* The inputs in the longer stream: those of before, and those served. *)
<1>12. ASSUME NEW m \in DOMAIN stream', stream'[m].type = "inputs"
       PROVE  \/ m \in DOMAIN stream /\ stream'[m] = stream[m] /\ m <= a
              \/ /\ m \in a + 1 .. b /\ from + (m - a) \in DOMAIN archive'
                 /\ stream'[m] = archive'[from + (m - a)] /\ from + (m - a) > from
                 /\ from + (m - a) <= to
  <2>1. CASE m <= L
    BY <1>5, <1>18, <1>6, <1>12, <2>1
  <2>2. CASE m > L /\ m <= a
    <3>1. stream'[m] \in Greetings
      BY <1>5, <1>18, <1>6, <1>12, <2>2
    <3>2. stream'[m].type # "inputs"
      BY <3>1, ControlFields DEF Greetings, Controls, Config
    <3>. QED BY <1>12, <3>2
  <2>3. CASE m > a /\ m <= b
    <3>1. m \in a + 1 .. b
      BY <1>5, <1>18, <1>6, <1>12, <2>3
    <3>2. from + (m - a) \in Nat /\ from + (m - a) > from /\ from + (m - a) <= to
      BY <1>5, <3>1
    <3>3. from + (m - a) \in DOMAIN archive'
      BY <1>5, <1>18, <3>2
    <3>. QED BY <1>6, <3>1, <3>2, <3>3
  <2>4. CASE m > b
    <3>1. m \in b + 1 .. M
      BY <1>5, <1>18, <1>6, <1>12, <2>4
    <3>2. PICK k \in DOMAIN news : stream'[m] = news[k]
      BY <1>6, <3>1
    <3>. QED BY <1>12, <3>2, NewsIsNoInput
  <2>. QED BY <1>5, <1>18, <1>6, <1>12, <2>1, <2>2, <2>3, <2>4
<1>13. ASSUME NEW n \in DOMAIN stream', stream'[n].type = "inputs"
       PROVE  /\ head <= stream'[n].index /\ stream'[n].index <= pos'.index
              /\ \A m \in DOMAIN stream' : m <= n /\ stream'[m].type = "inputs" =>
                   stream'[m].index <= stream'[n].index
              /\ \A m \in DOMAIN archive' : m > to => stream'[n].index <= archive'[m].index
  <2>1. CASE n \in DOMAIN stream /\ stream'[n] = stream[n] /\ n <= a
    <3>1. head <= stream[n].index /\ stream[n].index <= pos.index
      BY <1>0, <1>13, <2>1 DEF InOrder
    <3>2. stream[n].index \in Nat
      BY <1>7, <1>13, <2>1
    <3>3. ASSUME NEW m \in DOMAIN stream', m <= n, stream'[m].type = "inputs"
          PROVE  stream'[m].index <= stream[n].index
      <4>1. m \in DOMAIN stream /\ stream'[m] = stream[m]
        BY <1>5, <1>18, <1>6, <2>1, <3>3
      <4>. QED BY <1>0, <1>13, <2>1, <3>3, <4>1 DEF InOrder
    <3>4. \A m \in DOMAIN archive' : m > to => m > from
      BY <1>5, <1>18
    <3>. QED BY <1>1, <1>7, <1>11, <1>13, <2>1, <3>1, <3>2, <3>3, <3>4
  <2>2. CASE /\ n \in a + 1 .. b /\ from + (n - a) \in DOMAIN archive'
             /\ stream'[n] = archive'[from + (n - a)] /\ from + (n - a) > from
             /\ from + (n - a) <= to
    <3>. DEFINE k == from + (n - a)
    <3>1. k \in DOMAIN archive' /\ stream'[n] = archive'[k] /\ k > from /\ k <= to
      BY <2>2
    <3>2. head <= archive'[k].index /\ archive'[k].index <= pos'.index
      BY <1>2, <1>10, <3>1
    <3>3. ASSUME NEW m \in DOMAIN stream', m <= n, stream'[m].type = "inputs"
          PROVE  stream'[m].index <= archive'[k].index
      <4>1. CASE m \in DOMAIN stream /\ stream'[m] = stream[m]
        BY <1>11, <3>1, <3>3, <4>1
      <4>2. CASE m \in a + 1 .. b /\ from + (m - a) \in DOMAIN archive'
                 /\ stream'[m] = archive'[from + (m - a)]
        <5>1. from + (m - a) <= k
          BY <1>5, <1>6, <2>2, <3>3, <4>2
        <5>2. archive'[from + (m - a)].index <= archive'[k].index
          BY <1>2, <3>1, <4>2, <5>1 DEF Ordered
        <5>. QED BY <4>2, <5>2
      <4>. QED BY <1>12, <3>3, <4>1, <4>2
    <3>4. \A m \in DOMAIN archive' : m > to => archive'[k].index <= archive'[m].index
      <4>1. \A m \in DOMAIN archive' : m > to => k <= m
        BY <1>5, <1>18, <3>1
      <4>. QED BY <1>2, <3>1, <4>1 DEF Ordered
    <3>. HIDE DEF k
    <3>. QED BY <3>1, <3>2, <3>3, <3>4
  <2>. QED BY <1>12, <1>13, <2>1, <2>2
<1>14. InOrder'
  <2>1. head' <= pos'.index
    BY <1>1, <1>7, <1>9
  <2>2. \A m \in DOMAIN archive' : m > to => head <= archive'[m].index
    <3>1. \A m \in DOMAIN archive' : m > to => m > from
      BY <1>5, <1>18
    <3>. QED BY <1>10, <3>1
  <2>3. cursor' # NotJoined
    BY <1>4, <1>5, <1>18 DEF NotJoined
  <2>. QED BY <1>4, <1>7, <1>13, <2>1, <2>2, <2>3 DEF InOrder
<1>15. ControlFirst'
  <2>1. ASSUME NEW n \in DOMAIN stream', stream'[n].type = "control"
        PROVE  /\ stream'[n].index \in 1 .. index'
               /\ \A m \in 1 .. n - 1 : stream'[m].type = "inputs" => stream'[m].index < stream'[n].index
               /\ stream'[n].index <= head => n <= missed
    <3>0. index' \in Nat /\ index <= index' /\ n \in Nat
      BY <1>18, <1>7 DEF Acts
    <3>1. CASE n <= L
      <4>1. n \in DOMAIN stream /\ stream'[n] = stream[n]
        BY <1>5, <1>18, <1>6, <2>1, <3>1
      <4>2. /\ stream[n].index \in 1 .. index
            /\ \A m \in 1 .. n - 1 : stream[m].type = "inputs" => stream[m].index < stream[n].index
            /\ stream[n].index <= head => n <= missed
        BY <1>0, <2>1, <4>1 DEF ControlFirst
      <4>3. \A m \in 1 .. n - 1 : stream'[m] = stream[m]
        BY <1>5, <1>18, <1>6, <2>1, <3>1
      <4>4. stream[n].index \in 1 .. index'
        BY <1>7, <3>0, <4>2
      <4>. QED BY <4>1, <4>2, <4>3, <4>4
    <3>2. CASE n > L /\ n <= a
      <4>1. stream'[n] \in Greetings
        BY <1>5, <1>18, <1>6, <2>1, <3>2
      <4>2. PICK i \in rngArchive : stream'[n] = Control(i)
        BY <2>1, <4>1 DEF Greetings, Controls, Config
      <4>3. stream'[n].index = i /\ i \in 1 .. index
        BY <1>2, <4>2, ControlFields
      <4>4. joins /\ head = 0 /\ L = 0
        BY <1>5, <1>8, <1>17, <3>0, <3>2
      <4>5. \A m \in 1 .. n - 1 : stream'[m].type # "inputs"
        <5>1. ASSUME NEW m \in 1 .. n - 1 PROVE stream'[m].type # "inputs"
          <6>1. m \in L + 1 .. a
            BY <1>5, <3>0, <3>2, <4>4
          <6>2. stream'[m] \in Greetings
            BY <1>6, <6>1
          <6>. QED BY <6>2, ControlFields DEF Greetings, Controls, Config
        <5>. QED BY <5>1
      <4>6. i \in 1 .. index' /\ ~ i <= head
        BY <1>7, <3>0, <4>3, <4>4
      <4>. QED BY <4>3, <4>5, <4>6
    <3>3. CASE n > a /\ n <= b
      <4>1. n \in a + 1 .. b /\ from + (n - a) \in 1 .. A
        BY <1>5, <1>18, <1>6, <3>0, <3>3
      <4>2. stream'[n] = archive'[from + (n - a)] /\ archive'[from + (n - a)] \in Batches
        BY <1>1, <1>5, <1>18, <1>6, <4>1
      <4>3. stream'[n].type = "inputs"
        BY <4>2, BatchFields
      <4>. QED BY <2>1, <4>3
    <3>4. CASE n > b
      <4>1. n \in b + 1 .. M
        BY <1>5, <1>18, <1>6, <2>1, <3>4
      <4>2. PICK k \in DOMAIN news : stream'[n] = news[k]
        BY <1>6, <4>1
      <4>3. stream'[n] = Control(index + 1) /\ index' = index + 1
        BY <4>2, NewsIsNoInput
      <4>4. stream'[n].index = index + 1
        BY <4>3, ControlFields
      <4>5. index + 1 \in 1 .. index' /\ ~ index + 1 <= head
        BY <1>1, <1>7, <1>9, <4>3
      <4>6. ASSUME NEW m \in 1 .. n - 1, stream'[m].type = "inputs" PROVE stream'[m].index < index + 1
        <5>1. m \in DOMAIN stream'
          BY <1>5, <1>18, <1>6, <2>1, <4>6
        <5>2. stream'[m].index <= pos'.index
          BY <1>13, <4>6, <5>1
        <5>3. stream'[m].index \in Nat
          <6>1. stream'[m] \in Messages
            BY <1>2, <5>1
          <6>2. stream'[m] \in Batches
            BY <4>6, <6>1, KindIs
          <6>. QED BY <6>2, BatchFields, Bounds
        <5>. QED BY <1>1, <1>7, <5>2, <5>3
      <4>. QED BY <4>4, <4>5, <4>6
    <3>5. n <= L \/ (n > L /\ n <= a) \/ (n > a /\ n <= b) \/ n > b
      BY <1>5, <3>0
    <3>. QED BY <3>1, <3>2, <3>3, <3>4, <3>5
  <2>. QED BY <1>7, <2>1 DEF ControlFirst
<1>16. \A n \in DOMAIN stream : \E m \in DOMAIN stream' : stream'[m] = stream[n]
  <2>1. ASSUME NEW n \in DOMAIN stream PROVE n \in DOMAIN stream' /\ stream'[n] = stream[n]
    BY <1>5, <1>18, <1>6
  <2>. QED BY <2>1
<1>. QED BY <1>6, <1>14, <1>15, <1>16

LEMMA ActsSeed ==
  ASSUME IInv, HostInv', NEW joins \in BOOLEAN, NEW news \in Seq(Messages), Acts(joins, news)
  PROVE  SeedInv'
<1>1. /\ HostInv /\ TypeOK /\ SeedInv /\ Spectators(joins, news)
      /\ UNCHANGED << future, control, rngStates, position, head, held, sIndex, sFrame, sStart,
                      sync, scene, played, seed, jumped, missed, sameFrame >>
  BY DEF IInv, HostInv, Acts, clientVars, drainVars
<1>2. /\ index \in Nat /\ \/ index' = index /\ rngArchive' = rngArchive /\ news = << >>
                          \/ /\ index' = index + 1
                             /\ rngArchive' = rngArchive \cup (IF HasControl(index + 1) THEN {index + 1} ELSE {})
                             /\ news = IF HasControl(index + 1) THEN << Control(index + 1) >> ELSE << >>
  BY <1>1, Numbers DEF Acts
<1>3. rngArchive' = {i \in 1 .. index' : HasControl(i)}
  <2>1. rngArchive = {i \in 1 .. index : HasControl(i)}
    BY <1>1 DEF SeedInv
  <2>2. CASE index' = index /\ rngArchive' = rngArchive
    BY <2>1, <2>2
  <2>3. CASE /\ index' = index + 1
             /\ rngArchive' = rngArchive \cup (IF HasControl(index + 1) THEN {index + 1} ELSE {})
    <3>1. \A i : i \in 1 .. index + 1 <=> i \in 1 .. index \/ i = index + 1
      BY <1>2
    <3>. QED BY <2>1, <2>3, <3>1
  <2>. QED BY <1>2, <2>2, <2>3
<1>4. PositionIsLast'
  BY <1>1 DEF SeedInv, PositionIsLast
<1>5. ASSUME ~ jumped',
             cursor' # NotJoined =>
               \A i \in rngArchive' : sStart <= i => IsOnItsWay(i)' \/ i \in control \/ Arrived(i)
      PROVE  InStep' /\ SeedIsDue'
  <2>1. InStep /\ SeedIsDue
    BY <1>1, <1>5 DEF SeedInv
  <2>2. \A i : Arrived(i)' <=> Arrived(i)
    BY <1>1 DEF Arrived
  <2>3. Arrived(scene)' <=> Arrived(scene)
    BY <1>1 DEF Arrived
  <2>4. InStep'
    BY <1>1, <1>5, <2>1, <2>2 DEF InStep
  <2>5. SeedIsDue'
    BY <1>1, <2>1, <2>3 DEF SeedIsDue
  <2>. QED BY <2>4, <2>5
<1>6. CASE cursor = NotJoined /\ UNCHANGED << cursor, stream >>
  <2>1. stream = << >> /\ head = 0
    BY <1>1, <1>6 DEF SeedInv, InOrder
  <2>2. pos'.index \in Nat /\ \A m \in DOMAIN archive' : archive'[m].index \in Nat
    <3>1. pos' \in PosType /\ archive' \in Seq(Batches)
      BY DEF HostInv, TypeOK
    <3>2. pos'.index \in Nat
      BY <3>1, Bounds DEF PosType
    <3>3. \A m \in DOMAIN archive' : archive'[m] \in Batches
      BY <3>1
    <3>. QED BY <3>2, <3>3, BatchFields, Bounds
  <2>3. stream' = << >> /\ head' = 0 /\ DOMAIN stream' = {}
    BY <1>1, <1>6, <2>1
  <2>4. InOrder'
    BY <2>2, <2>3 DEF InOrder
  <2>5. ControlFirst'
    BY <2>3 DEF ControlFirst
  <2>. QED BY <1>3, <1>4, <1>5, <1>6, <2>4, <2>5 DEF SeedInv
<1>7. ASSUME NEW greeting, NEW from, NEW to, Sends(joins, news, greeting, from, to)
      PROVE  SeedInv'
  <2>1. /\ InOrder' /\ ControlFirst'
        /\ \A n \in DOMAIN stream : \E m \in DOMAIN stream' : stream'[m] = stream[n]
        /\ \A k \in DOMAIN greeting : \E m \in DOMAIN stream' : stream'[m] = greeting[k]
        /\ \A k \in DOMAIN news : \E m \in DOMAIN stream' : stream'[m] = news[k]
    BY <1>7, ActsOrder
  <2>2. ASSUME ~ jumped, NEW i \in rngArchive', sStart <= i
        PROVE  IsOnItsWay(i)' \/ i \in control \/ Arrived(i)
    <3>1. CASE i \in rngArchive
      <4>1. CASE joins
        <5>1. PICK k \in DOMAIN greeting : greeting[k] = Control(i)
          BY <1>7, <3>1, <4>1 DEF Sends
        <5>. QED BY <2>1, <5>1 DEF IsOnItsWay
      <4>2. CASE ~ joins
        <5>1. cursor # NotJoined
          BY <1>7, <4>2 DEF Sends
        <5>2. IsOnItsWay(i) \/ i \in control \/ Arrived(i)
          BY <1>1, <2>2, <3>1, <5>1 DEF SeedInv, InStep
        <5>3. IsOnItsWay(i) => IsOnItsWay(i)'
          <6>1. ASSUME NEW k \in DOMAIN stream, stream[k] = Control(i)
                PROVE  \E m \in DOMAIN stream' : stream'[m] = Control(i)
            BY <2>1, <6>1
          <6>. QED BY <6>1 DEF IsOnItsWay
        <5>. QED BY <5>2, <5>3
      <4>. QED BY <4>1, <4>2
    <3>2. CASE i \notin rngArchive
      <4>1. i = index + 1 /\ news = << Control(index + 1) >>
        BY <1>2, <2>2, <3>2
      <4>2. 1 \in DOMAIN news /\ news[1] = Control(i)
        BY <4>1
      <4>. QED BY <2>1, <4>2 DEF IsOnItsWay
    <3>. QED BY <3>1, <3>2
  <2>3. ~ jumped' => ~ jumped
    BY <1>1
  <2>4. ~ jumped' => InStep' /\ SeedIsDue'
    BY <1>5, <2>2, <2>3
  <2>. QED BY <1>3, <1>4, <2>1, <2>4 DEF SeedInv
<1>. QED BY <1>1, <1>6, <1>7, SpectatorsSend

-----------------------------------------------------------------------------
(* The invariant *)

LEMMA InitInductive ==
  ASSUME Init
  PROVE  IInv
BY InitHost, InitRest DEF IInv

LEMMA HostInductive ==
  ASSUME IInv, NEW joins \in BOOLEAN, HostFrame(joins) \/ HostMoves(joins)
  PROVE  IInv'
<1>1. HostInv /\ HoldInv
  BY DEF IInv
<1>2. HostInv' /\ \E news \in Seq(Messages) : Acts(joins, news)
  BY <1>1, HostPlays
<1>3. PICK news \in Seq(Messages) : Acts(joins, news)
  BY <1>2
<1>4. HoldInv'
  BY <1>1, <1>2, <1>3, ActsHold
<1>5. SeedInv'
  BY <1>2, <1>3, ActsSeed
<1>. QED BY <1>2, <1>4, <1>5 DEF IInv

LEMMA DeliverInductive ==
  ASSUME IInv, NEW n \in 0 .. Len(stream), Deliver(n)
  PROVE  IInv'
BY DeliverHost, DeliverHold, DeliverSeed DEF IInv

LEMMA JumpInductive ==
  ASSUME IInv, Jump
  PROVE  IInv'
<1>1. HostInv /\ HoldInv
  BY DEF IInv
<1>. QED BY <1>1, JumpHost, JumpHold, JumpSeed DEF IInv

LEMMA PlayFrameInductive ==
  ASSUME IInv, PlayFrame
  PROVE  IInv'
<1>1. HostInv /\ HoldInv
  BY DEF IInv
<1>2. HostInv'
  BY <1>1, PlayFrameHost
<1>3. UNCHANGED << future, held, archive, cursor, stream, sIndex, sStart >>
  BY DEF PlayFrame, hostVars
<1>4. HoldInv'
  BY <1>1, <1>3, HoldStays
<1>5. SeedInv'
  BY PlayFrameSeed
<1>. QED BY <1>2, <1>4, <1>5 DEF IInv

LEMMA PlayMovesInductive ==
  ASSUME IInv, PlayMoves
  PROVE  IInv'
<1>1. HostInv /\ HoldInv /\ sStart <= sIndex
  BY DEF IInv, HoldInv
<1>2. HostInv'
  BY <1>1, PlayMovesHost
<1>3. HoldInv'
  BY <1>1, PlayMovesHold
<1>4. SeedInv'
  BY PlayMovesSeed
<1>. QED BY <1>2, <1>3, <1>4 DEF IInv

LEMMA StutterInductive ==
  ASSUME IInv, UNCHANGED vars
  PROVE  IInv'
<1>1. UNCHANGED << hostVars, stream, clientVars, drainVars >>
  BY DEF vars
<1>2. HostInv /\ HoldInv /\ SeedInv /\ TypeOK
  BY DEF IInv, HostInv
<1>3. TypeOK'
  BY <1>1, <1>2 DEF TypeOK, hostVars, clientVars, drainVars
<1>4. UNCHANGED << index, start, preserve, pos, archive >> /\ end' = end
  BY <1>1 DEF hostVars
<1>5. HostInv'
  BY <1>2, <1>3, <1>4, HostRests, EndsStay
<1>6. HoldInv'
  BY <1>1, <1>2, HoldStays DEF hostVars, clientVars
<1>7. UNCHANGED << index, pos, archive, rngArchive, cursor, stream, future, control, rngStates,
                   position, head, held, sIndex, sFrame, sStart, sync, scene, played, seed, jumped,
                   missed, sameFrame >>
  BY <1>1 DEF hostVars, clientVars, drainVars
<1>8. SeedInv'
  <2>1. InOrder' /\ ControlFirst' /\ PositionIsLast'
    BY <1>2, <1>7 DEF SeedInv, InOrder, ControlFirst, PositionIsLast
  <2>2. \A i : (IsOnItsWay(i)' <=> IsOnItsWay(i)) /\ (Arrived(i)' <=> Arrived(i))
    BY <1>7 DEF IsOnItsWay, Arrived
  <2>3. InStep' <=> InStep
    BY <1>7, <2>2 DEF InStep
  <2>4. SeedIsDue' <=> SeedIsDue
    BY <1>7 DEF SeedIsDue, Arrived
  <2>. QED BY <1>2, <1>7, <2>1, <2>3, <2>4 DEF SeedInv
<1>. QED BY <1>5, <1>6, <1>8 DEF IInv

LEMMA RemoteInductive ==
  ASSUME IInv, NEW i \in Indices, RemoteInputs(i)
  PROVE  IInv'
<1>1. HostInv
  BY DEF IInv
<1>. QED BY <1>1, RemoteInputsHost, RemoteInputsRest DEF IInv

LEMMA Inductive ==
  ASSUME IInv, [Next]_vars
  PROVE  IInv'
<1>1. ASSUME NEW joins \in BOOLEAN, HostFrame(joins) \/ HostMoves(joins) PROVE IInv'
  BY <1>1, HostInductive
<1>2. ASSUME NEW i \in Indices, RemoteInputs(i) PROVE IInv'
  BY <1>2, RemoteInductive
<1>3. ASSUME NEW n \in 0 .. Len(stream), Deliver(n) PROVE IInv'
  BY <1>3, DeliverInductive
<1>. QED BY <1>1, <1>2, <1>3, JumpInductive, PlayFrameInductive, PlayMovesInductive, StutterInductive
     DEF Next

LEMMA Invariance == Spec => []IInv
<1>1. Init => IInv
  BY InitInductive
<1>2. IInv /\ [Next]_vars => IInv'
  BY Inductive
<1>. QED BY <1>1, <1>2, PTL DEF Spec

-----------------------------------------------------------------------------
(* Theorems *)

(* Cursors, archive and containers of both sides fit each other, and what the archiver  *)
(* has still to read is never erased from the host's containers.                        *)
THEOREM NothingIsErasedUnread == Spec => []Inv
<1>1. IInv => Inv
  BY DEF IInv, HostInv, Inv
<1>. QED BY <1>1, Invariance, PTL

LEMMA ArchivedIs ==
  ASSUME archive \in Seq(Batches), NEW i
  PROVE  Archived(i) = AllOf(archive, i)
<1>1. \A n \in DOMAIN archive : archive[n].type = "inputs" /\ n <= Len(archive)
  BY BatchFields
<1>2. ASSUME NEW f PROVE f \in Archived(i) <=> f \in AllOf(archive, i)
  BY <1>1, UptoIs DEF Archived, AllOf
<1>. QED BY <1>2

(* The archive of archiveStep is in order and without a gap, and every frame of it is    *)
(* one that both players' containers held.                                              *)
THEOREM ArchiveIsSound == Spec => []ArchiveIsProven
<1>1. IInv => ArchiveIsProven
  <2>. SUFFICES ASSUME IInv PROVE ArchiveIsProven
    OBVIOUS
  <2>1. Sound(pos, archive) /\ archive \in Seq(Batches)
    BY DEF IInv, HostInv, TypeOK
  <2>2. \A i : Archived(i) = AllOf(archive, i)
    BY <2>1, ArchivedIs
  <2>3. \A n \in 1 .. Len(archive) - 1 : archive[n].index <= archive[n + 1].index
    <3>1. ASSUME NEW n \in 1 .. Len(archive) - 1 PROVE archive[n].index <= archive[n + 1].index
      <4>1. n \in DOMAIN archive /\ n + 1 \in DOMAIN archive /\ n <= n + 1
        BY <2>1
      <4>. QED BY <2>1, <4>1 DEF Sound, Ordered
    <3>. QED BY <3>1
  <2>. QED BY <2>1, <2>2, <2>3 DEF ArchiveIsProven, Sound
<1>. QED BY <1>1, Invariance, PTL

(* When the archiver's cursor leaves an index, all that both players hold of it has been *)
(* archived: a spectator that joins later is not missing the end of it.                 *)
THEOREM NothingIsLeftBehind == Spec => LeavesNothing
<1>. DEFINE Step == \A i \in pos.index .. pos'.index - 1 :
              0 .. Smaller(end["host"][i], end["client"][i]) - 1 \subseteq Archived(i)'
<1>1. ASSUME IInv, IInv', [Next]_vars PROVE [Step]_vars
  <2>1. CASE pos' = pos
    <3>1. pos.index \in Nat
      BY <1>1, Numbers DEF IInv, HostInv
    <3>2. pos.index .. pos'.index - 1 = {}
      BY <2>1, <3>1
    <3>. QED BY <3>2
  <2>2. ASSUME NEW joins \in BOOLEAN, HostFrame(joins) \/ HostMoves(joins) PROVE Step
    <3>1. HostInv
      BY <1>1 DEF IInv
    <3>2. PICK news : Spectators(joins, news)
      BY <3>1, <2>2, HostPlays DEF Acts
    <3>3. Pulled(pos, archive, pos', Walk.got) /\ archive' = archive \o Walk.got
          /\ archive' \in Seq(Batches)
      BY <3>1, <3>2, Archives
    <3>4. ASSUME NEW i \in pos.index .. pos'.index - 1
          PROVE  0 .. Smaller(end["host"][i], end["client"][i]) - 1 \subseteq Archived(i)'
      <4>1. pos.index \in Nat /\ pos'.index \in Nat /\ pos'.index <= Last
        <5>1. pos \in PosType /\ pos' \in PosType
          BY <3>1, <3>3 DEF HostInv, Pulled
        <5>. QED BY <5>1, Bounds DEF PosType
      <4>2. i \in Indices /\ pos.index <= i /\ i < pos'.index
        BY <3>4, <4>1, Bounds
      <4>3. 0 .. Smaller(end["host"][i], end["client"][i]) - 1 \subseteq AllOf(archive', i)
        BY <3>3, <4>2 DEF Pulled
      <4>4. Archived(i)' = AllOf(archive', i)
        <5>1. \A n \in DOMAIN archive' : archive'[n].type = "inputs" /\ n <= Len(archive')
          BY <3>3, BatchFields
        <5>2. ASSUME NEW f PROVE f \in Archived(i)' <=> f \in AllOf(archive', i)
          BY <5>1, UptoIs DEF Archived, AllOf
        <5>. QED BY <5>2
      <4>. QED BY <4>3, <4>4
    <3>. QED BY <3>4
  <2>3. CASE UNCHANGED vars
    BY <2>3
  <2>4. ASSUME NEW i \in Indices, RemoteInputs(i) PROVE pos' = pos
    BY <2>4 DEF RemoteInputs
  <2>5. ASSUME NEW n \in 0 .. Len(stream), Deliver(n) PROVE pos' = pos
    BY <2>5 DEF Deliver, hostVars
  <2>6. ASSUME Jump \/ PlayFrame \/ PlayMoves PROVE pos' = pos
    BY <2>6 DEF Jump, PlayFrame, PlayMoves, hostVars
  <2>. QED BY <1>1, <2>1, <2>2, <2>3, <2>4, <2>5, <2>6 DEF Next
<1>. QED BY <1>1, Invariance, PTL DEF Spec, LeavesNothing

(* A frame that hasCurrentFrameInputs lets the spectator play is one that was received.  *)
THEOREM PlaysOnlyWhatCame == Spec => []FrameIsThere
<1>1. IInv => FrameIsThere
  <2>. SUFFICES ASSUME IInv, sIndex > 0, HasInputs PROVE sFrame \in held[sIndex]
    BY DEF FrameIsThere
  <2>1. TypeOK /\ HereIsPrefix
    BY DEF IInv, HostInv, HoldInv
  <2>2. PICK f \in held[sIndex] : f >= sFrame
    BY DEF HasInputs
  <2>3. sIndex \in Indices /\ sFrame \in Nat /\ f \in Nat
    BY <2>1, <2>2 DEF TypeOK
  <2>4. sIndex \in sIndex .. Last
    BY <2>3, Bounds
  <2>5. IsPrefix(held[sIndex])
    BY <2>1, <2>4 DEF HereIsPrefix
  <2>6. sFrame \in 0 .. f
    BY <2>2, <2>3
  <2>. QED BY <2>2, <2>5, <2>6 DEF IsPrefix
<1>. QED BY <1>1, Invariance, PTL

(* Until it jumps, a spectator has been given the generator state of the state it plays  *)
(* before its third frame, however the inboxes are drained.                             *)
THEOREM SeedsAreInPlace == Spec => []SeedInPlace
<1>1. IInv => SeedInPlace
  <2>. SUFFICES ASSUME IInv, ~ jumped, HasControl(scene), played > 2 PROVE seed.rng = scene
    BY DEF SeedInPlace
  <2>1. SeedIsDue /\ played \in Nat
    BY Numbers DEF IInv, HostInv, SeedInv
  <2>2. seed.rng # scene => played > 1 /\ played = 2
    BY <2>1 DEF SeedIsDue
  <2>3. played # 2
    BY <2>1
  <2>. QED BY <2>2, <2>3
<1>. QED BY <1>1, Invariance, PTL
=============================================================================
