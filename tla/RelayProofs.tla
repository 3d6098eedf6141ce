----------------------------- MODULE RelayProofs -----------------------------
(***************************************************************************)
(* What the relay promises, for any number of peers, codes and match ids.  *)
(*                                                                         *)
(* MatchInfoFirst is not inductive: a TunInfo is written because of what   *)
(* the room says, so the room must be tied to what its two peers were      *)
(* written.  And once a match id is known it must not change any more,     *)
(* which is to say that nobody is ever written two MatchInfos.             *)
(*                                                                         *)
(* PeersArePaired rests on the match ids: PairInv counts those that were   *)
(* given by the clients that joined, so that none is given while an older  *)
(* match, a deletion that was put off or an unread message still has it.   *)
(* The same invariant says why a room goes away (NeverAnothersRoom).       *)
(***************************************************************************)
EXTENDS RelayServer, FiniteSetTheorems, SequenceTheorems, TLAPS

Kinds == {"Hosted", "Error", "MatchInfo", "TunInfo"}
Packets == [kind : Kinds, id : 0 .. IdSpace, from : Conns \cup {Nobody}]

InboxType == inbox \in [Conns -> Seq(Packets)]

(* A peer that holds the unread messages q and the match id n: it was never written a   *)
(* MatchInfo; it was written that of match id; and what it was written is in order.     *)
NoInfo(q, n) == n = 0 /\ \A i \in DOMAIN q : q[i].kind # "MatchInfo"
Told(q, n, id) == n = id \/ \E i \in DOMAIN q : q[i] = MatchInfo(id)
Ordered(q, n) ==
  \A i \in DOMAIN q :
    /\ q[i].kind = "MatchInfo" =>
         n = 0 /\ \A j \in DOMAIN q : q[j].kind = "MatchInfo" => j = i
    /\ q[i].kind = "TunInfo" =>
         /\ q[i].id # 0
         /\ n = q[i].id \/ \E j \in 1 .. i - 1 : q[j] = MatchInfo(q[i].id)

QueuesOrdered == \A c \in Conns : Ordered(inbox[c], known[c])
AcceptedHasNone == \A c \in Conns : handler[c] = "accept" => NoInfo(inbox[c], known[c])

(* A room's peers have asked for its code and been served; while it waits, its host was *)
(* never told a match id, and from then on both its peers were told the room's.         *)
RoomFits(k) ==
  /\ \A c \in Members(rooms[k]) : asked[c] = k /\ handler[c] # "accept"
  /\ rooms[k].state = "waiting" => NoInfo(inbox[rooms[k].host], known[rooms[k].host])
  /\ rooms[k].state \in {"matched", "done"} =>
       /\ rooms[k].client \in Clients
       /\ \A c \in Members(rooms[k]) :
            peer[c] = "closed" \/ Told(inbox[c], known[c], rooms[k].id)

RoomsFit == \A k \in Codes : RoomFits(k)

IInv == TypeOK /\ InboxType /\ QueuesOrdered /\ AcceptedHasNone /\ RoomsFit

-----------------------------------------------------------------------------
(* One more message in a queue, and one less.                               *)

(* What is appended comes after everything, and leaves the rest where it is.            *)
LEMMA AppendIsLast ==
  ASSUME NEW q \in Seq(Packets), NEW msg \in Packets
  PROVE  /\ Append(q, msg) \in Seq(Packets)
         /\ DOMAIN q = 1 .. Len(q) /\ Len(q) \in Nat
         /\ DOMAIN Append(q, msg) = 1 .. Len(q) + 1
         /\ \A i \in 1 .. Len(q) : Append(q, msg)[i] = q[i]
         /\ Append(q, msg)[Len(q) + 1] = msg
  BY AppendProperties

(* Who was told stays told; who was not is not by another kind of message.              *)
LEMMA AppendKeeps ==
  ASSUME NEW q \in Seq(Packets), NEW msg \in Packets, NEW n
  PROVE  /\ \A id : Told(q, n, id) => Told(Append(q, msg), n, id)
         /\ NoInfo(q, n) /\ msg.kind # "MatchInfo" => NoInfo(Append(q, msg), n)
  BY AppendIsLast DEF Told, NoInfo

(* Hosted and Error say nothing of a match.                                             *)
LEMMA AppendOther ==
  ASSUME NEW q \in Seq(Packets), NEW msg \in Packets, NEW n, Ordered(q, n),
         msg.kind \notin {"MatchInfo", "TunInfo"}
  PROVE  Ordered(Append(q, msg), n)
  BY AppendIsLast DEF Ordered

(* MatchInfo may be appended for who never had one.                                     *)
LEMMA AppendInfo ==
  ASSUME NEW q \in Seq(Packets), NEW msg \in Packets, NEW n, Ordered(q, n), NoInfo(q, n),
         msg.kind = "MatchInfo"
  PROVE  Ordered(Append(q, msg), n)
  BY AppendIsLast DEF Ordered, NoInfo

(* TunInfo may be appended for who was told of that match.                              *)
LEMMA AppendTun ==
  ASSUME NEW q \in Seq(Packets), NEW msg \in Packets, NEW n, Ordered(q, n),
         msg.kind = "TunInfo", msg.id # 0, Told(q, n, msg.id)
  PROVE  Ordered(Append(q, msg), n)
  BY AppendIsLast DEF Ordered, Told

(* What is parsed may change the match id, in which case none was known.                *)
LEMMA ParseKeeps ==
  ASSUME NEW q \in Seq(Packets), q # << >>, NEW n, Ordered(q, n),
         NEW m, m = IF Head(q).kind = "MatchInfo" THEN Head(q).id ELSE n
  PROVE  /\ Tail(q) \in Seq(Packets) /\ Head(q) \in Packets
         /\ Ordered(Tail(q), m)
         /\ NoInfo(q, n) => NoInfo(Tail(q), m)
         /\ \A id : id # 0 /\ Told(q, n, id) => Told(Tail(q), m, id)
<1>1. /\ Tail(q) \in Seq(Packets) /\ Head(q) = q[1] /\ Head(q) \in Packets
      /\ Len(q) \in Nat \ {0} /\ DOMAIN q = 1 .. Len(q)
      /\ DOMAIN Tail(q) = 1 .. Len(q) - 1
      /\ \A i \in 1 .. Len(q) - 1 : Tail(q)[i] = q[i + 1]
  BY HeadTailProperties
<1>2. ASSUME NEW i \in 1 .. Len(q) - 1, Tail(q)[i].kind = "MatchInfo"
      PROVE  m = 0 /\ \A j \in 1 .. Len(q) - 1 : Tail(q)[j].kind = "MatchInfo" => j = i
  BY <1>1, <1>2 DEF Ordered
<1>3. ASSUME NEW i \in 1 .. Len(q) - 1, Tail(q)[i].kind = "TunInfo"
      PROVE  /\ Tail(q)[i].id # 0
             /\ m = Tail(q)[i].id \/ \E j \in 1 .. i - 1 : Tail(q)[j] = MatchInfo(Tail(q)[i].id)
  <2>1. q[i + 1].id # 0 /\ Tail(q)[i] = q[i + 1] /\ i + 1 \in DOMAIN q
    BY <1>1, <1>3 DEF Ordered
  <2>2. n = q[i + 1].id \/ \E j \in 1 .. i : q[j] = MatchInfo(q[i + 1].id)
    BY <1>1, <1>3, <2>1 DEF Ordered
  <2>3. CASE n = q[i + 1].id
    BY <1>1, <2>1, <2>3 DEF Ordered
  <2>4. ASSUME NEW j \in 1 .. i, q[j] = MatchInfo(q[i + 1].id)
        PROVE  m = q[i + 1].id \/ \E l \in 1 .. i - 1 : Tail(q)[l] = MatchInfo(q[i + 1].id)
    <3>1. CASE j = 1
      BY <1>1, <2>4, <3>1 DEF MatchInfo, Message
    <3>2. CASE j # 1
      BY <1>1, <2>4, <3>2, Z3
    <3>. QED BY <3>1, <3>2
  <2>. QED BY <2>1, <2>2, <2>3, <2>4
<1>4. Ordered(Tail(q), m)
  BY <1>1, <1>2, <1>3 DEF Ordered
<1>5. NoInfo(q, n) => NoInfo(Tail(q), m)
  BY <1>1 DEF NoInfo
<1>6. ASSUME NEW id, id # 0, Told(q, n, id)
      PROVE  Told(Tail(q), m, id)
  <2>1. CASE n = id
    BY <1>1, <1>6, <2>1 DEF Ordered, Told
  <2>2. ASSUME NEW i \in DOMAIN q, q[i] = MatchInfo(id)
        PROVE  Told(Tail(q), m, id)
    <3>1. CASE i = 1
      BY <1>1, <2>2, <3>1 DEF Told, MatchInfo, Message
    <3>2. CASE i # 1
      <4>1. i - 1 \in 1 .. Len(q) - 1 /\ Tail(q)[i - 1] = q[i]
        BY <1>1, <2>2, <3>2
      <4>. QED BY <1>1, <2>2, <4>1 DEF Told
    <3>. QED BY <3>1, <3>2
  <2>. QED BY <1>6, <2>1, <2>2 DEF Told
<1>. QED BY <1>1, <1>4, <1>5, <1>6

(* A write reaches the queue of its connection, unless that is closed.                  *)
LEMMA WrittenIsAppend ==
  ASSUME NEW box \in [Conns -> Seq(Packets)], NEW c \in Conns, NEW msg \in Packets
  PROVE  /\ Written(box, c, msg) \in [Conns -> Seq(Packets)]
         /\ \A d \in Conns : d # c => Written(box, c, msg)[d] = box[d]
         /\ \/ Written(box, c, msg)[c] = box[c] /\ peer[c] = "closed"
            \/ Written(box, c, msg)[c] = Append(box[c], msg)
<1>1. box[c] \in Seq(Packets) /\ Append(box[c], msg) \in Seq(Packets)
  BY AppendProperties
<1>. QED BY <1>1 DEF Written

(* Nobody is untold by a write.                                                         *)
LEMMA WriteKeeps ==
  ASSUME NEW box \in [Conns -> Seq(Packets)], NEW c \in Conns, NEW msg \in Packets,
         NEW d \in Conns, NEW n
  PROVE  /\ \A id : Told(box[d], n, id) => Told(Written(box, c, msg)[d], n, id)
         /\ NoInfo(box[d], n) /\ (d # c \/ msg.kind # "MatchInfo") =>
              NoInfo(Written(box, c, msg)[d], n)
         /\ Ordered(box[d], n) /\ msg.kind \notin {"MatchInfo", "TunInfo"} =>
              Ordered(Written(box, c, msg)[d], n)
<1>1. CASE d # c
  BY <1>1, WrittenIsAppend
<1>2. CASE d = c
  <2>1. CASE Written(box, c, msg)[c] = box[c]
    BY <1>2, <2>1
  <2>2. CASE Written(box, c, msg)[c] = Append(box[c], msg)
    <3>1. box[c] \in Seq(Packets)
      OBVIOUS
    <3>. QED BY <1>2, <2>2, <3>1, AppendKeeps, AppendOther
  <2>. QED BY <2>1, <2>2, WrittenIsAppend
<1>. QED BY <1>1, <1>2

(* The messages are packets, and who is told a match id was told one.                   *)
LEMMA MessagesArePackets ==
  /\ Hosted \in Packets /\ Hosted.kind = "Hosted"
  /\ Error \in Packets /\ Error.kind = "Error"
  /\ \A id \in Ids : MatchInfo(id) \in Packets /\ MatchInfo(id).kind = "MatchInfo"
  /\ \A id \in Ids, c \in Conns :
       /\ TunInfo(id, c) \in Packets
       /\ TunInfo(id, c).kind = "TunInfo" /\ TunInfo(id, c).id = id
  BY RelayAssumption
  DEF Hosted, Error, MatchInfo, TunInfo, Message, Packets, Kinds, Ids

(* The next id is one, whatever the counter, and not 0.                                 *)
LEMMA NextMatchIdIsId == TypeOK => NextMatchId \in Ids
<1>. SUFFICES ASSUME TypeOK PROVE NextMatchId \in Ids
  OBVIOUS
<1>1. IdSpace \in Nat \ {0} /\ matchIndex \in Nat
  BY RelayAssumption DEF TypeOK
<1>2. (matchIndex + 1) % (IdSpace + 1) \in 0 .. IdSpace
  <2>1. \A a \in Nat, b \in Nat \ {0} : a % b \in 0 .. b - 1
    OBVIOUS
  <2>. QED BY <1>1, <2>1
<1>. QED BY <1>1, <1>2 DEF NextMatchId, Ids

(* Who was never told a match id may be written one, and then is told, or gone.         *)
LEMMA InfoWritten ==
  ASSUME NEW box \in [Conns -> Seq(Packets)], NEW d \in Conns, NEW id \in Ids,
         NoInfo(box[d], known[d]), \A c \in Conns : Ordered(box[c], known[c]),
         NEW after, after = Written(box, d, MatchInfo(id))
  PROVE  /\ after \in [Conns -> Seq(Packets)]
         /\ \A c \in Conns : c # d => after[c] = box[c]
         /\ \A c \in Conns : Ordered(after[c], known[c])
         /\ \A c \in Conns : \A n \in Ids : Told(box[c], known[c], n) => Told(after[c], known[c], n)
         /\ peer[d] = "closed" \/ Told(after[d], known[d], id)
<1>1. MatchInfo(id) \in Packets /\ MatchInfo(id).kind = "MatchInfo" /\ box[d] \in Seq(Packets)
  BY MessagesArePackets
<1>2. /\ after \in [Conns -> Seq(Packets)]
      /\ \A c \in Conns : c # d => after[c] = box[c]
      /\ \/ after[d] = box[d] /\ peer[d] = "closed"
         \/ after[d] = Append(box[d], MatchInfo(id))
  BY <1>1, WrittenIsAppend
<1>3. Told(Append(box[d], MatchInfo(id)), known[d], id)
  <2>1. Len(box[d]) + 1 \in DOMAIN Append(box[d], MatchInfo(id))
        /\ Append(box[d], MatchInfo(id))[Len(box[d]) + 1] = MatchInfo(id)
    BY <1>1, AppendIsLast
  <2>. QED BY <2>1 DEF Told
<1>4. Ordered(after[d], known[d])
  BY <1>1, <1>2, AppendInfo
<1>5. \A n \in Ids : Told(box[d], known[d], n) => Told(after[d], known[d], n)
  BY <1>1, <1>2, AppendKeeps
<1>. QED BY <1>2, <1>3, <1>4, <1>5

(* A write that leaves all that was said of the queues as it was.                       *)
Keeps(box, after) ==
  /\ after \in [Conns -> Seq(Packets)]
  /\ \A c \in Conns : Ordered(box[c], known[c]) => Ordered(after[c], known[c])
  /\ \A c \in Conns : NoInfo(box[c], known[c]) => NoInfo(after[c], known[c])
  /\ \A c \in Conns : \A n \in Ids : Told(box[c], known[c], n) => Told(after[c], known[c], n)

(* Who was told a match id, or is gone, may be written a TunInfo of it.                 *)
LEMMA TunWritten ==
  ASSUME NEW box \in [Conns -> Seq(Packets)], NEW d \in Conns, NEW id \in Ids, NEW from \in Conns,
         peer[d] = "closed" \/ Told(box[d], known[d], id),
         NEW after, after = Written(box, d, TunInfo(id, from))
  PROVE  Keeps(box, after)
<1>. DEFINE msg == TunInfo(id, from)
<1>1. msg \in Packets /\ msg.kind = "TunInfo" /\ msg.id = id /\ id # 0
  BY MessagesArePackets DEF Ids
<1>2. box[d] \in Seq(Packets)
  OBVIOUS
<1>. HIDE DEF msg
<1>3. /\ after \in [Conns -> Seq(Packets)]
      /\ \A c \in Conns : c # d => after[c] = box[c]
  BY <1>1, WrittenIsAppend DEF msg
<1>4. after[d] = box[d] \/ (after[d] = Append(box[d], msg) /\ peer[d] # "closed")
  BY <1>3 DEF Written, msg
<1>5. Ordered(box[d], known[d]) => Ordered(after[d], known[d])
  BY <1>1, <1>2, <1>4, AppendTun
<1>6. NoInfo(box[d], known[d]) => NoInfo(after[d], known[d])
  BY <1>1, <1>2, <1>4, AppendKeeps
<1>7. \A n \in Ids : Told(box[d], known[d], n) => Told(after[d], known[d], n)
  BY <1>1, <1>2, <1>4, AppendKeeps
<1>. QED BY <1>3, <1>5, <1>6, <1>7 DEF Keeps

(* Another message than MatchInfo and TunInfo changes nothing of that.                  *)
LEMMA NothingTold ==
  ASSUME NEW box \in [Conns -> Seq(Packets)], NEW d \in Conns, NEW msg \in Packets,
         msg.kind \notin {"MatchInfo", "TunInfo"},
         NEW after, after = Written(box, d, msg)
  PROVE  Keeps(box, after)
  BY WrittenIsAppend, WriteKeeps DEF Keeps

-----------------------------------------------------------------------------
(* What a step must not spoil.                                              *)

Continues(k) ==
  /\ rooms'[k].host = rooms[k].host /\ rooms'[k].client = rooms[k].client
  /\ rooms'[k].id = rooms[k].id
  /\ \/ rooms'[k].state = rooms[k].state
     \/ rooms'[k].state \in {"matched", "done"} /\ rooms[k].state \in {"matched", "done"}

(* Whoever is still to be told keeps an empty history.                                  *)
Untold(c) == NoInfo(inbox[c], known[c]) => NoInfo(inbox'[c], known'[c])

(* A step keeps the invariant if queues stay in order, rooms go, continue or fit anew,  *)
(* who waits is told nothing, and who was told a match id stays told.                   *)
LEMMA RoomsContinue ==
  ASSUME IInv, TypeOK', InboxType', QueuesOrdered', asked' = asked,
         \A c \in Conns : handler'[c] = "accept" => handler[c] = "accept" /\ Untold(c),
         \A k \in Codes :
           \/ rooms'[k] = NoRoom
           \/ RoomFits(k)'
           \/ Continues(k) /\ (rooms[k].state = "waiting" => Untold(rooms[k].host)),
         \A c \in Conns : \A id \in Ids : peer[c] = "closed" \/ Told(inbox[c], known[c], id) =>
           peer'[c] = "closed" \/ Told(inbox'[c], known'[c], id)
  PROVE  IInv'
<1>1. AcceptedHasNone'
  BY DEF IInv, AcceptedHasNone, Untold
<1>2. ASSUME NEW k \in Codes, rooms'[k] = NoRoom
      PROVE  RoomFits(k)'
  BY <1>2 DEF RoomFits, NoRoom, Members
<1>3. ASSUME NEW k \in Codes, Continues(k), rooms[k].state = "waiting" => Untold(rooms[k].host)
      PROVE  RoomFits(k)'
  <2>1. RoomFits(k) /\ Members(rooms[k])' = Members(rooms[k])
    BY <1>3 DEF IInv, RoomsFit, Continues, Members
  <2>2. Members(rooms[k]) \subseteq Conns
    BY DEF IInv, TypeOK, Room, NoRoom, Members, Conns
  <2>3. (\A c \in Members(rooms[k]) : asked[c] = k /\ handler[c] # "accept")'
    BY <2>1, <2>2 DEF RoomFits
  <2>4. (rooms[k].state = "waiting" => NoInfo(inbox[rooms[k].host], known[rooms[k].host]))'
    BY <1>3, <2>1 DEF RoomFits, Continues, Untold
  <2>5. rooms'[k].state \in {"matched", "done"} => rooms[k].id \in Ids
    BY <1>3 DEF IInv, TypeOK, Continues
  <2>6. (rooms[k].state \in {"matched", "done"} =>
          /\ rooms[k].client \in Clients
          /\ \A c \in Members(rooms[k]) :
               peer[c] = "closed" \/ Told(inbox[c], known[c], rooms[k].id))'
    BY <1>3, <2>1, <2>2, <2>5 DEF RoomFits, Continues
  <2>. QED BY <2>3, <2>4, <2>6 DEF RoomFits
<1>4. RoomsFit'
  BY <1>2, <1>3 DEF RoomsFit
<1>. QED BY <1>1, <1>4 DEF IInv

(* A step that writes nothing and tells nobody: rooms only go or continue.              *)
LEMMA NothingWritten ==
  ASSUME IInv, TypeOK', asked' = asked, inbox' = inbox, known' = known, peer' = peer,
         \A c \in Conns : handler'[c] = "accept" => handler[c] = "accept",
         \A k \in Codes : rooms'[k] = NoRoom \/ Continues(k)
  PROVE  IInv'
<1>1. InboxType' /\ QueuesOrdered'
  BY DEF IInv, InboxType, QueuesOrdered
<1>. QED BY <1>1, RoomsContinue DEF Untold

(* A step that writes one message without a match id.                                   *)
LEMMA OtherWritten ==
  ASSUME IInv, TypeOK', asked' = asked, known' = known, peer' = peer,
         NEW c \in Conns, NEW msg \in Packets, msg.kind \notin {"MatchInfo", "TunInfo"},
         inbox' = Written(inbox, c, msg),
         \A d \in Conns : handler'[d] = "accept" => handler[d] = "accept",
         \A k \in Codes : rooms'[k] = NoRoom \/ Continues(k)
  PROVE  IInv'
<1>1. inbox \in [Conns -> Seq(Packets)]
  BY DEF IInv, InboxType
<1>2. InboxType'
  BY <1>1, WrittenIsAppend DEF InboxType
<1>3. QueuesOrdered'
  BY <1>1, WriteKeeps DEF IInv, QueuesOrdered
<1>4. ASSUME NEW d \in Conns PROVE Untold(d)
  BY <1>1, WriteKeeps DEF Untold
<1>5. \A d \in Conns, id \in Ids :
        Told(inbox[d], known[d], id) => Told(inbox'[d], known'[d], id)
  BY <1>1, WriteKeeps
<1>6. ASSUME NEW k \in Codes, rooms[k].state = "waiting"
      PROVE  rooms[k].host \in Conns
  BY <1>6 DEF IInv, TypeOK, Room, NoRoom, Conns
<1>. QED BY <1>2, <1>3, <1>4, <1>5, <1>6, RoomsContinue

(* Written messages keep the type of the queues, as TypeOK states it.                   *)
LEMMA InboxTyped ==
  ASSUME NEW box \in [Conns -> Seq(Packets)]
  PROVE  \A c \in Conns : \A i \in DOMAIN box[c] :
           box[c][i] \in [kind : {"Hosted", "Error", "MatchInfo", "TunInfo"},
                          id : 0 .. IdSpace, from : Conns \cup {Nobody}]
<1>1. \A c \in Conns : box[c] \in Seq(Packets)
  OBVIOUS
<1>2. \A c \in Conns : \A i \in DOMAIN box[c] : box[c][i] \in Packets
  BY <1>1
<1>. QED BY <1>2 DEF Packets, Kinds

-----------------------------------------------------------------------------
(* Each action keeps the invariant.                                         *)

(* At first there is no room, and nobody was told anything.                             *)
LEMMA InitEstablishes == Init => IInv
<1>. SUFFICES ASSUME Init PROVE IInv
  OBVIOUS
<1>1. InboxType
  <2>1. << >> \in Seq(Packets)
    OBVIOUS
  <2>. QED BY <2>1 DEF Init, InboxType
<1>2. TypeOK
  BY RelayAssumption DEF Init, TypeOK, NoRoom, Ids, Conns
<1>3. QueuesOrdered /\ AcceptedHasNone
  BY DEF Init, QueuesOrdered, AcceptedHasNone, Ordered, NoInfo
<1>4. RoomsFit
  BY DEF Init, RoomsFit, RoomFits, NoRoom, Members
<1>. QED BY <1>1, <1>2, <1>3, <1>4 DEF IInv

(* A free code's new room waits with a host that was never told a match id.             *)
LEMMA RegisterHostPreserves ==
  ASSUME IInv, NEW h \in Hosts, RegisterHost(h)
  PROVE  IInv'
<1>. USE RelayAssumption
<1>. DEFINE k == asked[h]
<1>1. h \in Conns /\ k \in Codes
  BY DEF IInv, TypeOK, Conns
<1>2. CASE ~ Free(k)
  <2>1. rooms' = rooms /\ inbox' = Written(inbox, h, Error)
        /\ handler' = [handler EXCEPT ![h] = "done"]
        /\ UNCHANGED << matchIndex, grace, asked, peer, known, endpoint >>
    BY <1>2 DEF RegisterHost, peerVars
  <2>2. inbox' \in [Conns -> Seq(Packets)]
    BY <1>1, <2>1, WrittenIsAppend, MessagesArePackets DEF IInv, InboxType
  <2>3. TypeOK'
    BY <1>1, <2>1, <2>2, InboxTyped DEF IInv, TypeOK
  <2>4. \A j \in Codes : Continues(j)
    BY <2>1 DEF Continues
  <2>5. \A d \in Conns : handler'[d] = "accept" => handler[d] = "accept"
    BY <2>1 DEF IInv, TypeOK
  <2>. QED BY <1>1, <2>1, <2>3, <2>4, <2>5, OtherWritten, MessagesArePackets
<1>3. CASE Free(k)
  <2>1. rooms' = [rooms EXCEPT ![k] = NewRoom(h)] /\ inbox' = inbox
        /\ handler' = [handler EXCEPT ![h] = "reply"] /\ handler[h] = "accept"
        /\ UNCHANGED << matchIndex, grace, asked, peer, known, endpoint >>
    BY <1>3 DEF RegisterHost, peerVars
  <2>2. NewRoom(h) \in Room
    BY DEF NewRoom, Room
  <2>3. TypeOK'
    BY <1>1, <2>1, <2>2 DEF IInv, TypeOK, NewRoom, Ids
  <2>4. InboxType' /\ QueuesOrdered'
    BY <2>1 DEF IInv, InboxType, QueuesOrdered
  <2>5. rooms'[k] = NewRoom(h) /\ \A j \in Codes \ {k} : rooms'[j] = rooms[j]
    BY <1>1, <2>1 DEF IInv, TypeOK
  <2>6. ASSUME NEW j \in Codes, j = k PROVE RoomFits(j)'
    <3>1. NoInfo(inbox[h], known[h])
      BY <1>1, <2>1 DEF IInv, AcceptedHasNone
    <3>2. handler'[h] = "reply"
      BY <1>1, <2>1 DEF IInv, TypeOK
    <3>3. rooms'[j].host = h /\ rooms'[j].client = Nobody /\ rooms'[j].state = "waiting"
      BY <2>5, <2>6 DEF NewRoom
    <3>4. Members(rooms[j])' = {h}
      BY <1>1, <3>3 DEF Members
    <3>5. asked'[h] = j /\ inbox' = inbox /\ known' = known
      BY <2>1, <2>6
    <3>. QED BY <3>1, <3>2, <3>3, <3>4, <3>5 DEF RoomFits
  <2>7. \A j \in Codes : RoomFits(j)' \/ (j # k /\ Continues(j))
    BY <2>5, <2>6 DEF Continues
  <2>8. \A c \in Conns : handler'[c] = "accept" => handler[c] = "accept"
    BY <2>1 DEF IInv, TypeOK
  <2>. QED BY <2>1, <2>3, <2>4, <2>7, <2>8, RoomsContinue DEF Untold
<1>. QED BY <1>2, <1>3

(* The answer says nothing of a match; a failure may take a room away.                  *)
LEMMA ReplyHostedPreserves ==
  ASSUME IInv, NEW h \in Hosts, ReplyHosted(h)
  PROVE  IInv'
<1>. USE RelayAssumption
<1>1. h \in Conns /\ asked[h] \in Codes
  BY DEF IInv, TypeOK, Conns
<1>2. /\ UNCHANGED << matchIndex, grace, asked, peer, known, endpoint >>
      /\ \A d \in Conns : handler'[d] = "accept" => handler[d] = "accept"
      /\ handler' \in [Conns -> {"accept", "reply", "wait", "done"}]
  BY <1>1 DEF ReplyHosted, peerVars, IInv, TypeOK
<1>3. CASE inbox' = Written(inbox, h, Hosted) /\ rooms' = rooms
  <2>1. inbox' \in [Conns -> Seq(Packets)]
    BY <1>1, <1>3, WrittenIsAppend, MessagesArePackets DEF IInv, InboxType
  <2>2. TypeOK'
    BY <1>2, <1>3, <2>1, InboxTyped DEF IInv, TypeOK
  <2>3. \A j \in Codes : Continues(j)
    BY <1>3 DEF Continues
  <2>. QED BY <1>1, <1>2, <1>3, <2>2, <2>3, OtherWritten, MessagesArePackets
<1>4. CASE inbox' = inbox /\ rooms' = [rooms EXCEPT ![asked[h]] = NoRoom]
  <2>1. \A k \in Codes : rooms'[k] = NoRoom \/ rooms'[k] = rooms[k]
    BY <1>1, <1>4 DEF IInv, TypeOK
  <2>2. TypeOK'
    BY <1>1, <1>2, <1>4, <2>1 DEF IInv, TypeOK, NoRoom, Ids
  <2>. QED BY <1>2, <1>4, <2>1, <2>2, NothingWritten DEF Continues
<1>. QED BY <1>3, <1>4 DEF ReplyHosted

(* Who is refused learns of no match; an expired room goes.  Who is joined was waited   *)
(* for: both were never told a match id, and both are told the room's new one, or the   *)
(* room goes.                                                                           *)
LEMMA JoinClientPreserves ==
  ASSUME IInv, NEW c \in Clients, JoinClient(c)
  PROVE  IInv'
<1>. DEFINE k == asked[c]
            r == rooms[k]
            id == NextMatchId
<1>1. c \in Conns /\ k \in Codes /\ id \in Ids
  BY NextMatchIdIsId DEF IInv, TypeOK, Conns
<1>2. /\ UNCHANGED << grace, asked, peer, known, endpoint >>
      /\ handler[c] = "accept"
  BY DEF JoinClient, peerVars
<1>3. /\ inbox \in [Conns -> Seq(Packets)]
      /\ \A box \in [Conns -> Seq(Packets)] : \A d \in Conns : \A msg \in Packets :
           Written(box, d, msg) \in [Conns -> Seq(Packets)]
  BY WrittenIsAppend DEF IInv, InboxType
<1>4. CASE /\ rooms' = [rooms EXCEPT ![k] = IF r.expired THEN NoRoom ELSE r]
           /\ Refuse(c)
  <2>1. /\ inbox' = Written(inbox, c, Error) /\ matchIndex' = matchIndex
        /\ handler' = [handler EXCEPT ![c] = "done"]
    BY <1>4 DEF Refuse
  <2>2. \A j \in Codes : rooms'[j] = NoRoom \/ rooms'[j] = rooms[j]
    BY <1>1, <1>4 DEF IInv, TypeOK
  <2>3. rooms' \in [Codes -> Room \cup {NoRoom}]
        /\ \A j \in Codes : rooms'[j].state \in {"matched", "done"} <=> rooms'[j].id \in Ids
    BY <1>1, <1>4, <2>2 DEF IInv, TypeOK, NoRoom, Ids
  <2>4. TypeOK'
    BY <1>1, <1>2, <1>3, <2>1, <2>3, InboxTyped, MessagesArePackets DEF IInv, TypeOK
  <2>5. \A d \in Conns : handler'[d] = "accept" => handler[d] = "accept"
    BY <2>1 DEF IInv, TypeOK
  <2>. QED BY <1>1, <1>2, <2>1, <2>2, <2>4, <2>5, OtherWritten, MessagesArePackets DEF Continues
<1>. DEFINE Waiting == r.state = "waiting" /\ matchIndex' = id
<1>5. ASSUME Waiting
      PROVE  /\ r \in Room /\ r.host \in Hosts /\ r.host \in Conns /\ r.host # c
             /\ NoInfo(inbox[r.host], known[r.host]) /\ NoInfo(inbox[c], known[c])
             /\ asked[r.host] = k /\ handler[r.host] # "accept"
             /\ matchIndex' \in 0 .. IdSpace
  <2>1. r \in Room
    BY <1>1, <1>5 DEF IInv, TypeOK, NoRoom
  <2>2. r.host \in Hosts /\ r.host \in Conns /\ r.host # c
    BY <2>1, RelayAssumption DEF Room, Conns
  <2>3. r.host \in Members(r)
    BY <2>2, RelayAssumption DEF Members
  <2>4. RoomFits(k)
    BY <1>1 DEF IInv, RoomsFit
  <2>5. NoInfo(inbox[c], known[c])
    BY <1>1, <1>2 DEF IInv, AcceptedHasNone
  <2>6. matchIndex' \in 0 .. IdSpace
    BY <1>1, <1>5, RelayAssumption DEF Ids
  <2>. QED BY <1>5, <2>1, <2>2, <2>3, <2>4, <2>5, <2>6 DEF RoomFits
<1>. DEFINE Gone == /\ rooms' = [rooms EXCEPT ![k] = NoRoom]
                    /\ handler' = [handler EXCEPT ![c] = "done"]
<1>6. ASSUME Waiting, Gone, inbox' \in [Conns -> Seq(Packets)]
      PROVE  /\ TypeOK' /\ InboxType'
             /\ \A j \in Codes : rooms'[j] = NoRoom \/ (j # k /\ rooms'[j] = rooms[j])
             /\ \A d \in Conns : handler'[d] = "accept" => d # c /\ handler[d] = "accept"
  <2>1. \A j \in Codes : rooms'[j] = NoRoom \/ (j # k /\ rooms'[j] = rooms[j])
    BY <1>1, <1>6 DEF IInv, TypeOK
  <2>2. rooms' \in [Codes -> Room \cup {NoRoom}]
        /\ \A j \in Codes : rooms'[j].state \in {"matched", "done"} <=> rooms'[j].id \in Ids
    BY <1>1, <1>6, <2>1 DEF IInv, TypeOK, NoRoom, Ids
  <2>3. handler' \in [Conns -> {"accept", "reply", "wait", "done"}]
        /\ \A d \in Conns : handler'[d] = "accept" => d # c /\ handler[d] = "accept"
    BY <1>6 DEF IInv, TypeOK
  <2>4. TypeOK'
    BY <1>2, <1>5, <1>6, <2>2, <2>3, InboxTyped DEF IInv, TypeOK
  <2>. QED BY <1>6, <2>1, <2>3, <2>4 DEF InboxType
<1>7. CASE Waiting /\ Gone /\ inbox' = Written(inbox, c, Error)
  <2>1. inbox' \in [Conns -> Seq(Packets)]
    BY <1>1, <1>3, <1>7, MessagesArePackets
  <2>2. /\ TypeOK'
        /\ \A j \in Codes : rooms'[j] = NoRoom \/ Continues(j)
        /\ \A d \in Conns : handler'[d] = "accept" => handler[d] = "accept"
    BY <1>6, <1>7, <2>1 DEF Continues
  <2>. QED BY <1>1, <1>2, <1>7, <2>2, OtherWritten, MessagesArePackets
<1>. DEFINE box == ToHost(r, id)
<1>8. ASSUME Waiting
      PROVE  /\ box \in [Conns -> Seq(Packets)]
             /\ \A d \in Conns : d # r.host => box[d] = inbox[d]
             /\ \A d \in Conns : Ordered(box[d], known[d])
             /\ \A d \in Conns : \A n \in Ids : Told(inbox[d], known[d], n) => Told(box[d], known[d], n)
             /\ peer[r.host] = "closed" \/ Told(box[r.host], known[r.host], id)
  <2>1. box = Written(inbox, r.host, MatchInfo(id))
    BY DEF ToHost
  <2>2. \A d \in Conns : Ordered(inbox[d], known[d])
    BY DEF IInv, QueuesOrdered
  <2>3. inbox \in [Conns -> Seq(Packets)] /\ r.host \in Conns /\ id \in Ids
        /\ NoInfo(inbox[r.host], known[r.host])
    BY <1>1, <1>3, <1>5, <1>8
  <2>4. ASSUME NEW d, d = r.host, NEW n, n = id PROVE box = Written(inbox, d, MatchInfo(n))
    BY <2>1, <2>4
  <2>. HIDE DEF r, id, box
  <2>. QED BY <2>2, <2>3, <2>4, InfoWritten
<1>9. CASE Waiting /\ Gone /\ inbox' = Written(box, c, Error)
  <2>. HIDE DEF box
  <2>1. inbox' \in [Conns -> Seq(Packets)]
    BY <1>1, <1>8, <1>9, MessagesArePackets, WrittenIsAppend
  <2>2. /\ TypeOK' /\ InboxType'
        /\ \A j \in Codes : rooms'[j] = NoRoom \/ (j # k /\ rooms'[j] = rooms[j])
        /\ \A d \in Conns : handler'[d] = "accept" => d # c /\ handler[d] = "accept"
    BY <1>6, <1>9, <2>1
  <2>3. ASSUME NEW d \in Conns
        PROVE  /\ Ordered(inbox'[d], known'[d])
               /\ d # r.host => Untold(d)
               /\ \A n \in Ids : Told(inbox[d], known[d], n) => Told(inbox'[d], known'[d], n)
    <3>1. /\ Ordered(inbox'[d], known[d])
          /\ NoInfo(box[d], known[d]) => NoInfo(inbox'[d], known[d])
          /\ \A n \in Ids : Told(box[d], known[d], n) => Told(inbox'[d], known[d], n)
      BY <1>1, <1>8, <1>9, NothingTold, MessagesArePackets DEF Keeps
    <3>. QED BY <1>2, <1>8, <1>9, <3>1 DEF Untold
  <2>4. QueuesOrdered'
    BY <2>3 DEF QueuesOrdered
  <2>5. ASSUME NEW d \in Conns, handler'[d] = "accept"
        PROVE  Untold(d) /\ handler[d] = "accept"
    BY <1>5, <1>9, <2>2, <2>3, <2>5
  <2>6. ASSUME NEW j \in Codes, j # k, rooms[j].state = "waiting"
        PROVE  Untold(rooms[j].host)
    <3>1. rooms[j].host \in Members(rooms[j]) /\ rooms[j].host \in Conns
      BY <2>6, RelayAssumption DEF IInv, TypeOK, Room, NoRoom, Members, Conns
    <3>2. asked[rooms[j].host] = j
      BY <2>6, <3>1 DEF IInv, RoomsFit, RoomFits
    <3>. QED BY <1>5, <1>9, <2>3, <2>6, <3>1, <3>2
  <2>7. \A j \in Codes :
          \/ rooms'[j] = NoRoom
          \/ Continues(j) /\ (rooms[j].state = "waiting" => Untold(rooms[j].host))
    BY <2>2, <2>6 DEF Continues
  <2>. QED BY <1>2, <2>2, <2>3, <2>4, <2>5, <2>7, RoomsContinue
<1>10. CASE /\ Waiting
            /\ rooms' = [rooms EXCEPT ![k] = [r EXCEPT !.id = id, !.state = "matched", !.client = c]]
            /\ inbox' = Written(box, c, MatchInfo(id))
            /\ handler' = [handler EXCEPT ![c] = "wait"]
  <2>. HIDE DEF box
  <2>. DEFINE new == [r EXCEPT !.id = id, !.state = "matched", !.client = c]
  <2>1. new \in Room /\ new.id = id /\ new.state = "matched" /\ new.client = c /\ new.host = r.host
    BY <1>1, <1>5, <1>10, RelayAssumption DEF Room, Ids
  <2>2. rooms'[k] = new /\ \A j \in Codes : j # k => rooms'[j] = rooms[j]
    BY <1>1, <1>10 DEF IInv, TypeOK
  <2>3. rooms' \in [Codes -> Room \cup {NoRoom}]
        /\ \A j \in Codes : rooms'[j].state \in {"matched", "done"} <=> rooms'[j].id \in Ids
    BY <1>1, <1>10, <2>1, <2>2 DEF IInv, TypeOK
  <2>4. inbox' \in [Conns -> Seq(Packets)]
    BY <1>1, <1>8, <1>10, MessagesArePackets, WrittenIsAppend
  <2>5. handler' \in [Conns -> {"accept", "reply", "wait", "done"}] /\ handler'[c] = "wait"
        /\ \A d \in Conns : d # c => handler'[d] = handler[d]
    BY <1>1, <1>10 DEF IInv, TypeOK
  <2>6. TypeOK' /\ InboxType'
    BY <1>2, <1>5, <1>10, <2>3, <2>4, <2>5, InboxTyped DEF IInv, TypeOK, InboxType
  <2>7. NoInfo(box[c], known[c])
    BY <1>1, <1>5, <1>8, <1>10
  <2>8. /\ \A d \in Conns : d # c => inbox'[d] = box[d]
        /\ \A d \in Conns : Ordered(inbox'[d], known[d])
        /\ \A d \in Conns : \A n \in Ids : Told(box[d], known[d], n) => Told(inbox'[d], known[d], n)
        /\ peer[c] = "closed" \/ Told(inbox'[c], known[c], id)
    <3>1. box \in [Conns -> Seq(Packets)] /\ c \in Conns /\ id \in Ids
          /\ (\A d \in Conns : Ordered(box[d], known[d]))
          /\ inbox' = Written(box, c, MatchInfo(id))
      BY <1>1, <1>8, <1>10
    <3>2. ASSUME NEW after, after = inbox', NEW n, n = id
          PROVE  /\ \A d \in Conns : d # c => after[d] = box[d]
                 /\ \A d \in Conns : Ordered(after[d], known[d])
                 /\ \A d \in Conns : \A m \in Ids : Told(box[d], known[d], m) => Told(after[d], known[d], m)
                 /\ peer[c] = "closed" \/ Told(after[c], known[c], n)
      <4>1. n \in Ids /\ after = Written(box, c, MatchInfo(n))
        BY <3>1, <3>2
      <4>. QED BY <2>7, <3>1, <4>1, InfoWritten
    <3>. QED BY <3>2
  <2>10. QueuesOrdered'
    BY <1>2, <2>8 DEF QueuesOrdered
  <2>11. \A d \in Conns : \A n \in Ids : Told(inbox[d], known[d], n) => Told(inbox'[d], known'[d], n)
    BY <1>2, <1>8, <1>10, <2>8
  <2>12. ASSUME NEW d \in Conns, d # c, d # r.host
         PROVE  Untold(d)
    BY <1>2, <1>8, <1>10, <2>8, <2>12 DEF Untold
  <2>13. ASSUME NEW d \in Conns, handler'[d] = "accept"
         PROVE  Untold(d) /\ handler[d] = "accept"
    BY <1>5, <1>10, <2>5, <2>12, <2>13
  <2>14. ASSUME NEW j \in Codes, j # k, rooms[j].state = "waiting"
         PROVE  Untold(rooms[j].host)
    <3>1. rooms[j].host \in Members(rooms[j]) /\ rooms[j].host \in Conns
      BY <2>14, RelayAssumption DEF IInv, TypeOK, Room, NoRoom, Members, Conns
    <3>2. asked[rooms[j].host] = j /\ handler[rooms[j].host] # "accept"
      BY <2>14, <3>1 DEF IInv, RoomsFit, RoomFits
    <3>. QED BY <1>2, <1>5, <1>10, <2>12, <2>14, <3>1, <3>2
  <2>15. ASSUME NEW j \in Codes, j = k PROVE RoomFits(j)'
    <3>1. rooms'[j].host = r.host /\ rooms'[j].client = c /\ rooms'[j].state = "matched"
          /\ rooms'[j].id = id
      BY <2>1, <2>2, <2>15
    <3>2. Members(rooms[j])' \subseteq {r.host, c}
      BY <3>1 DEF Members
    <3>3. asked'[r.host] = j /\ asked'[c] = j /\ handler'[r.host] # "accept" /\ handler'[c] # "accept"
      BY <1>2, <1>5, <1>10, <2>5, <2>15
    <3>4. /\ peer'[c] = "closed" \/ Told(inbox'[c], known'[c], id)
          /\ peer'[r.host] = "closed" \/ Told(inbox'[r.host], known'[r.host], id)
      BY <1>2, <1>5, <1>8, <1>10, <2>8
    <3>. QED BY <3>1, <3>2, <3>3, <3>4 DEF RoomFits
  <2>16. \A j \in Codes :
           \/ RoomFits(j)'
           \/ Continues(j) /\ (rooms[j].state = "waiting" => Untold(rooms[j].host))
    BY <2>2, <2>14, <2>15 DEF Continues
  <2>. QED BY <1>2, <2>6, <2>10, <2>11, <2>13, <2>16, RoomsContinue
<1>. QED BY <1>4, <1>7, <1>9, <1>10 DEF JoinClient

(* The room that has the peer's match id is a matched one: its two peers were told the  *)
(* id, so the other one may be told the endpoint.                                       *)
LEMMA RecordPeerUdpAddrPreserves ==
  ASSUME IInv, NEW c \in Conns, RecordPeerUdpAddr(c)
  PROVE  IInv'
<1>1. PICK k \in FindByMatchId(known[c]) :
        LET r == rooms[k]
            opposite == IF c \in Clients THEN r.host ELSE r.client
            told == r.told \cup {Side(c)}
        IN  /\ inbox' = Written(inbox, opposite, TunInfo(r.id, c))
            /\ rooms' = [rooms EXCEPT ![k] = [r EXCEPT !.told = told,
                            !.state = IF Done(told) THEN "done" ELSE @]]
            /\ grace' = IF Done(told) THEN grace \cup {<< k, r.id >>} ELSE grace
  BY DEF RecordPeerUdpAddr
<1>. DEFINE r == rooms[k]
            opposite == IF c \in Clients THEN r.host ELSE r.client
            told == r.told \cup {Side(c)}
<1>2. /\ k \in Codes /\ r.state \in {"matched", "done"} /\ r.id \in Ids
      /\ UNCHANGED << matchIndex, handler, asked, peer, known, endpoint >>
  BY <1>1 DEF RecordPeerUdpAddr, FindByMatchId, IInv, TypeOK, peerVars
<1>3. r \in Room
  BY <1>2 DEF IInv, TypeOK, NoRoom
<1>4. /\ opposite \in Conns
      /\ peer[opposite] = "closed" \/ Told(inbox[opposite], known[opposite], r.id)
  <2>1. RoomFits(k)
    BY <1>2 DEF IInv, RoomsFit
  <2>2. r.host \in Hosts /\ r.client \in Clients
    BY <1>2, <1>3, <2>1 DEF Room, RoomFits
  <2>3. opposite \in Conns /\ opposite \in Members(r)
    BY <2>2, RelayAssumption DEF Members, Conns
  <2>. QED BY <1>2, <2>1, <2>3 DEF RoomFits
<1>5. /\ inbox' \in [Conns -> Seq(Packets)]
      /\ \A d \in Conns : Ordered(inbox'[d], known[d])
      /\ \A d \in Conns : NoInfo(inbox[d], known[d]) => NoInfo(inbox'[d], known[d])
      /\ \A d \in Conns : \A n \in Ids : Told(inbox[d], known[d], n) => Told(inbox'[d], known[d], n)
  <2>1. ASSUME NEW d, d = opposite, NEW id, id = r.id, NEW after, after = inbox'
        PROVE  /\ after \in [Conns -> Seq(Packets)]
               /\ \A e \in Conns : Ordered(after[e], known[e])
               /\ \A e \in Conns : NoInfo(inbox[e], known[e]) => NoInfo(after[e], known[e])
               /\ \A e \in Conns : \A n \in Ids : Told(inbox[e], known[e], n) => Told(after[e], known[e], n)
    <3>1. inbox \in [Conns -> Seq(Packets)] /\ \A e \in Conns : Ordered(inbox[e], known[e])
      BY DEF IInv, InboxType, QueuesOrdered
    <3>2. d \in Conns /\ id \in Ids /\ after = Written(inbox, d, TunInfo(id, c))
          /\ (peer[d] = "closed" \/ Told(inbox[d], known[d], id))
      BY <1>1, <1>2, <1>4, <2>1
    <3>3. Keeps(inbox, after)
      BY <3>1, <3>2, TunWritten
    <3>. QED BY <3>1, <3>3 DEF Keeps
  <2>. QED BY <2>1
<1>6. told \in SUBSET {"host", "client"}
  BY <1>3 DEF Room, Side
<1>7. /\ rooms'[k] = [r EXCEPT !.told = told, !.state = IF Done(told) THEN "done" ELSE @]
      /\ \A j \in Codes : j # k => rooms'[j] = rooms[j]
  BY <1>1, <1>2 DEF IInv, TypeOK
<1>8. /\ rooms'[k] \in Room /\ rooms'[k].id = r.id /\ rooms'[k].state \in {"matched", "done"}
      /\ rooms'[k].host = r.host /\ rooms'[k].client = r.client
  <2>1. ASSUME NEW t, t = told, NEW s, s = IF Done(told) THEN "done" ELSE r.state,
               NEW old, old = r, NEW new, new = rooms'[k]
        PROVE  /\ new \in Room /\ new.id = old.id /\ new.state \in {"matched", "done"}
               /\ new.host = old.host /\ new.client = old.client
    <3>1. /\ t \in SUBSET {"host", "client"} /\ s \in {"matched", "done"} /\ old \in Room
          /\ new = [old EXCEPT !.told = t, !.state = s]
      BY <1>2, <1>3, <1>6, <1>7, <2>1
    <3>. QED BY <3>1 DEF Room
  <2>. QED BY <2>1
<1>9. rooms' \in [Codes -> Room \cup {NoRoom}]
      /\ \A j \in Codes : rooms'[j].state \in {"matched", "done"} <=> rooms'[j].id \in Ids
  <2>1. \A j \in Codes : rooms'[j] \in Room \cup {NoRoom}
    BY <1>7, <1>8 DEF IInv, TypeOK
  <2>2. rooms' \in [Codes -> Room \cup {NoRoom}]
    BY <1>1, <2>1 DEF IInv, TypeOK
  <2>. QED BY <1>2, <1>7, <1>8, <2>2 DEF IInv, TypeOK
<1>10. grace' \subseteq Codes \X Ids
  BY <1>1, <1>2 DEF IInv, TypeOK
<1>11. TypeOK' /\ InboxType' /\ QueuesOrdered'
  BY <1>2, <1>5, <1>9, <1>10, InboxTyped DEF IInv, TypeOK, InboxType, QueuesOrdered
<1>12. \A d \in Conns : Untold(d)
  BY <1>2, <1>5 DEF Untold
<1>13. \A j \in Codes : Continues(j)
  BY <1>2, <1>7, <1>8 DEF Continues
<1>14. \A j \in Codes : rooms[j].state = "waiting" => rooms[j].host \in Conns
  BY DEF IInv, TypeOK, Room, NoRoom, Conns
<1>. QED BY <1>2, <1>5, <1>11, <1>12, <1>13, <1>14, RoomsContinue

(* Rooms only go: the put-off deletion, the closed connection, the cleanup.             *)
LEMMA DeletionsPreserve ==
  ASSUME IInv,
         \/ \E g \in grace : DeleteIfMatch(g[1], g[2])
         \/ \E c \in Conns : Disconnect(c)
         \/ Cleanup
  PROVE  IInv'
<1>1. /\ UNCHANGED << matchIndex, asked, inbox, peer, known, endpoint >>
      /\ grace' \subseteq grace
  BY DEF DeleteIfMatch, Disconnect, Cleanup, peerVars
<1>2. /\ handler' \in [Conns -> {"accept", "reply", "wait", "done"}]
      /\ \A c \in Conns : handler'[c] = "accept" => handler[c] = "accept"
  BY DEF DeleteIfMatch, Disconnect, Cleanup, IInv, TypeOK
<1>3. \A k \in Codes : rooms'[k] = NoRoom \/ rooms'[k] = rooms[k]
  BY DEF DeleteIfMatch, Disconnect, Cleanup, IInv, TypeOK
<1>4. rooms' \in [Codes -> Room \cup {NoRoom}]
  BY <1>3 DEF DeleteIfMatch, Disconnect, Cleanup, IInv, TypeOK
<1>5. \A k \in Codes : rooms'[k].state \in {"matched", "done"} <=> rooms'[k].id \in Ids
  BY <1>3 DEF IInv, TypeOK, NoRoom, Ids
<1>6. TypeOK'
  BY <1>1, <1>2, <1>4, <1>5 DEF IInv, TypeOK
<1>. QED BY <1>1, <1>2, <1>3, <1>6, NothingWritten DEF Continues

(* Time passes for a room.                                                              *)
LEMMA ElapsePreserves ==
  ASSUME IInv, NEW k \in Codes, Elapse(k)
  PROVE  IInv'
<1>1. /\ UNCHANGED << matchIndex, grace, handler, asked, inbox, peer, known, endpoint >>
      /\ rooms' = [rooms EXCEPT ![k].expired = TRUE] /\ rooms[k] \in Room
  BY DEF Elapse, peerVars, Free, IInv, TypeOK
<1>2. /\ rooms'[k] \in Room /\ rooms'[k].id = rooms[k].id /\ rooms'[k].state = rooms[k].state
      /\ rooms'[k].host = rooms[k].host /\ rooms'[k].client = rooms[k].client
      /\ \A j \in Codes : j # k => rooms'[j] = rooms[j]
  BY <1>1 DEF Room, IInv, TypeOK
<1>3. rooms' \in [Codes -> Room \cup {NoRoom}]
  BY <1>1, <1>2 DEF IInv, TypeOK
<1>4. TypeOK'
  BY <1>1, <1>2, <1>3 DEF IInv, TypeOK
<1>. QED BY <1>1, <1>2, <1>4, NothingWritten DEF Continues

(* What is parsed is in order, and may be the match id that the room has.               *)
LEMMA ParseServerMsgPreserves ==
  ASSUME IInv, NEW c \in Conns, ParseServerMsg(c)
  PROVE  IInv'
<1>. DEFINE msg == Head(inbox[c])
<1>1. /\ inbox[c] # << >> /\ inbox' = [inbox EXCEPT ![c] = Tail(inbox[c])]
      /\ known' = [known EXCEPT ![c] = IF msg.kind = "MatchInfo" THEN msg.id ELSE known[c]]
      /\ endpoint' = [endpoint EXCEPT ![c] = IF msg.kind = "TunInfo" THEN msg.from ELSE endpoint[c]]
      /\ UNCHANGED << rooms, matchIndex, grace, handler, asked >>
  BY DEF ParseServerMsg, serverVars, IInv, TypeOK
<1>2. inbox[c] \in Seq(Packets) /\ inbox \in [Conns -> Seq(Packets)]
  BY DEF IInv, InboxType
<1>3. known'[c] = (IF msg.kind = "MatchInfo" THEN msg.id ELSE known[c])
      /\ \A d \in Conns : d # c => known'[d] = known[d] /\ inbox'[d] = inbox[d]
  BY <1>1, <1>2 DEF IInv, TypeOK
<1>4. /\ inbox'[c] = Tail(inbox[c]) /\ Tail(inbox[c]) \in Seq(Packets) /\ msg \in Packets
      /\ Ordered(inbox'[c], known'[c])
      /\ Untold(c)
      /\ \A id : id # 0 /\ Told(inbox[c], known[c], id) => Told(inbox'[c], known'[c], id)
  <2>1. ASSUME NEW q, q = inbox[c], NEW n, n = known[c], NEW m, m = known'[c]
        PROVE  /\ Tail(q) \in Seq(Packets) /\ Head(q) \in Packets
               /\ Ordered(Tail(q), m)
               /\ NoInfo(q, n) => NoInfo(Tail(q), m)
               /\ \A id : id # 0 /\ Told(q, n, id) => Told(Tail(q), m, id)
    <3>1. q \in Seq(Packets) /\ q # << >> /\ Ordered(q, n)
          /\ m = (IF Head(q).kind = "MatchInfo" THEN Head(q).id ELSE n)
      BY <1>1, <1>2, <1>3, <2>1 DEF IInv, QueuesOrdered
    <3>. QED BY <3>1, ParseKeeps
  <2>2. inbox'[c] = Tail(inbox[c])
    BY <1>1, <1>2
  <2>. QED BY <2>1, <2>2 DEF Untold
<1>5. msg.kind \in Kinds /\ msg.id \in 0 .. IdSpace /\ msg.from \in Conns \cup {Nobody}
  BY <1>4 DEF Packets
<1>6. peer' \in [Conns -> {"WaitingForHosted", "WaitingForMatchInfo",
                           "WaitingForTunInfo", "HolePunching", "closed"}]
      /\ \A d \in Conns : peer[d] = "closed" => peer'[d] = "closed"
  BY <1>5 DEF ParseServerMsg, Kinds, IInv, TypeOK
<1>7. inbox' \in [Conns -> Seq(Packets)]
  BY <1>1, <1>2, <1>4
<1>8. known' \in [Conns -> 0 .. IdSpace] /\ endpoint' \in [Conns -> Conns \cup {Nobody}]
  BY <1>1, <1>5 DEF IInv, TypeOK
<1>9. TypeOK' /\ InboxType'
  BY <1>1, <1>6, <1>7, <1>8, InboxTyped DEF IInv, TypeOK, InboxType
<1>10. QueuesOrdered' /\ \A d \in Conns : Untold(d)
  BY <1>3, <1>4 DEF IInv, QueuesOrdered, Untold
<1>11. \A d \in Conns : \A id \in Ids :
         Told(inbox[d], known[d], id) => Told(inbox'[d], known'[d], id)
  BY <1>3, <1>4 DEF Ids
<1>12. \A k \in Codes : Continues(k)
  BY <1>1 DEF Continues
<1>13. \A k \in Codes : rooms[k].state = "waiting" => rooms[k].host \in Conns
  BY DEF IInv, TypeOK, Room, NoRoom, Conns
<1>. QED BY <1>1, <1>6, <1>9, <1>10, <1>11, <1>12, <1>13, RoomsContinue

(* Who is gone reads nothing any more.                                                  *)
LEMMA ClosePreserves ==
  ASSUME IInv, NEW c \in Conns, Close(c)
  PROVE  IInv'
<1>1. /\ inbox' = [inbox EXCEPT ![c] = << >>] /\ peer' = [peer EXCEPT ![c] = "closed"]
      /\ endpoint' = [endpoint EXCEPT ![c] = Nobody]
      /\ UNCHANGED << rooms, matchIndex, grace, handler, asked, known >>
  BY DEF Close, serverVars
<1>2. inbox \in [Conns -> Seq(Packets)] /\ << >> \in Seq(Packets)
  BY DEF IInv, InboxType
<1>3. inbox' \in [Conns -> Seq(Packets)] /\ inbox'[c] = << >> /\ peer'[c] = "closed"
      /\ \A d \in Conns : d # c => inbox'[d] = inbox[d] /\ peer'[d] = peer[d]
  BY <1>1, <1>2 DEF IInv, TypeOK
<1>4. TypeOK' /\ InboxType'
  BY <1>1, <1>3, InboxTyped DEF IInv, TypeOK, InboxType
<1>5. \A n : Ordered(<< >>, n) /\ (n = 0 => NoInfo(<< >>, n))
  BY DEF Ordered, NoInfo
<1>6. QueuesOrdered' /\ \A d \in Conns : Untold(d)
  BY <1>1, <1>3, <1>5 DEF IInv, QueuesOrdered, Untold, NoInfo
<1>7. \A k \in Codes : Continues(k)
  BY <1>1 DEF Continues
<1>8. \A k \in Codes : rooms[k].state = "waiting" => rooms[k].host \in Conns
  BY DEF IInv, TypeOK, Room, NoRoom, Conns
<1>. QED BY <1>1, <1>3, <1>4, <1>6, <1>7, <1>8, RoomsContinue

-----------------------------------------------------------------------------
(* The invariant, and what it says.                                         *)

LEMMA NextPreserves == IInv /\ [Next]_vars => IInv'
<1>. SUFFICES ASSUME IInv, [Next]_vars PROVE IInv'
  OBVIOUS
<1>1. CASE Housekeeping
  BY <1>1, DeletionsPreserve, ElapsePreserves DEF Housekeeping
<1>2. ASSUME NEW c \in Conns, Serve(c) PROVE IInv'
  BY <1>2, RegisterHostPreserves, ReplyHostedPreserves, JoinClientPreserves, DeletionsPreserve
  DEF Serve
<1>3. ASSUME NEW c \in Conns, RecordPeerUdpAddr(c) PROVE IInv'
  BY <1>3, RecordPeerUdpAddrPreserves
<1>4. ASSUME NEW c \in Conns, ParseServerMsg(c) PROVE IInv'
  BY <1>4, ParseServerMsgPreserves
<1>5. ASSUME NEW c \in Conns, Close(c) PROVE IInv'
  BY <1>5, ClosePreserves
<1>6. CASE UNCHANGED vars
  BY <1>6, RelayAssumption
  DEF vars, IInv, TypeOK, InboxType, QueuesOrdered, AcceptedHasNone, RoomsFit, RoomFits, Members
<1>. QED BY <1>1, <1>2, <1>3, <1>4, <1>5, <1>6 DEF Next

(* On every connection TunInfo comes after the MatchInfo of the same match              *)
(* (room.go:174), for any number of peers that share any number of codes, whenever they *)
(* vanish and however often the match ids wrap round.                                   *)
THEOREM MatchInfoComesFirst == Spec => []MatchInfoFirst
<1>1. IInv => MatchInfoFirst
  BY DEF IInv, QueuesOrdered, Ordered, MatchInfoFirst
<1>. QED BY <1>1, InitEstablishes, NextPreserves, PTL DEF Spec

(* The type invariant of the relay: 0, which stands for no match, is never a match id,  *)
(* and only matched rooms have one.                                                     *)
THEOREM TypeCorrect == Spec => []TypeOK
<1>1. IInv => TypeOK
  BY DEF IInv
<1>. QED BY <1>1, InitEstablishes, NextPreserves, PTL DEF Spec

-----------------------------------------------------------------------------
(* Peers are paired, as long as no match id is given twice.                 *)

(* Every match takes a client's connection of its own: ids do not repeat as long as no  *)
(* more clients connect than there are ids, 2^32 - 1 in the code.                       *)
EnoughIds == IsFiniteSet(Clients) /\ Cardinality(Clients) <= IdSpace

(* How many ids after the first an id comes, the wrap counted.                          *)
Age(id) == IF id > FirstIndex THEN id - FirstIndex ELSE id + IdSpace - FirstIndex

(* A peer that holds the unread messages q and the match id n has been, or will be, told *)
(* of match id.                                                                          *)
Heard(q, n, id) == n = id \/ \E i \in DOMAIN q : q[i].kind = "MatchInfo" /\ q[i].id = id

Used ==
  {id \in Ids : \/ \E k \in Codes : rooms[k].id = id \/ << k, id >> \in grace
                \/ \E c \in Conns : Heard(inbox[c], known[c], id)}

(* The counter has given m ids, and no other is about.                                  *)
Given(m, last, used) ==
  /\ m = 0 => last = FirstIndex
  /\ m > 0 => last \in Ids /\ Age(last) = m
  /\ \A id \in used : Age(id) <= m

(* A client whose room was found, or was not.                                           *)
Joined == {c \in Clients : handler[c] # "accept"}
Counted == \E m \in 0 .. Cardinality(Joined) : Given(m, matchIndex, Used)

(* The room that a put-off deletion names is one whose sides were both told.            *)
GraceFits ==
  \A k \in Codes : << k, rooms[k].id >> \in grace => rooms[k].told = {"host", "client"}

(* Only the two of a room have heard of its id.                                         *)
IdNamesRoom ==
  \A k \in Codes : \A c \in Conns :
    rooms[k].id \in Ids /\ Heard(inbox[c], known[c], rooms[k].id) => c \in Members(rooms[k])

HasTun(c) == endpoint[c] # Nobody \/ \E i \in DOMAIN inbox[c] : inbox[c][i].kind = "TunInfo"

(* An endpoint is that of a connection, and who has one knows its own match id.         *)
EndpointKnown ==
  \A c \in Conns :
    /\ endpoint[c] # Nobody => known[c] # 0
    /\ \A i \in DOMAIN inbox[c] : inbox[c][i].kind = "TunInfo" => inbox[c][i].from \in Conns

(* Who was told an endpoint was told by the other side, and the room has noted it.      *)
OtherSide(c) == IF c \in Clients THEN "host" ELSE "client"
OnceTold ==
  \A k \in Codes : \A c \in Members(rooms[k]) : HasTun(c) => OtherSide(c) \in rooms[k].told

PairInv == Counted /\ GraceFits /\ IdNamesRoom /\ EndpointKnown /\ OnceTold /\ PeersArePaired

(* The next id comes after all that were given, unless the counter has come round.      *)
LEMMA NextIdIsNext ==
  ASSUME NEW m \in Nat, m < IdSpace, matchIndex \in 0 .. IdSpace, NEW used \in SUBSET Ids,
         Given(m, matchIndex, used)
  PROVE  /\ NextMatchId \in Ids /\ NextMatchId \notin used
         /\ Given(m + 1, NextMatchId, used \cup {NextMatchId})
<1>. USE RelayAssumption
<1>1. NextMatchId = IF matchIndex = IdSpace THEN 1 ELSE matchIndex + 1
  <2>1. matchIndex + 1 \in 1 .. IdSpace + 1 /\ IdSpace + 1 \in Nat \ {0}
    OBVIOUS
  <2>2. \A a \in Nat, b \in Nat \ {0} : (a < b => a % b = a) /\ (a = b => a % b = 0)
    OBVIOUS
  <2>3. (matchIndex + 1) % (IdSpace + 1) = IF matchIndex = IdSpace THEN 0 ELSE matchIndex + 1
    BY <2>2
  <2>. QED BY <2>1, <2>3 DEF NextMatchId
<1>2. NextMatchId \in Ids
  BY <1>1 DEF Ids
<1>3. Age(NextMatchId) = m + 1
  <2>1. CASE m = 0
    BY <1>1, <2>1 DEF Given, Age
  <2>2. CASE m > 0
    <3>1. matchIndex \in 1 .. IdSpace /\ Age(matchIndex) = m
      BY <2>2 DEF Given, Ids
    <3>. QED BY <1>1, <3>1 DEF Age
  <2>. QED BY <2>1, <2>2
<1>4. \A id \in used : Age(id) <= m
  BY DEF Given
<1>5. NextMatchId \notin used
  BY <1>3, <1>4
<1>6. \A id \in used \cup {NextMatchId} : Age(id) <= m + 1
  <2>1. ASSUME NEW id \in used PROVE Age(id) <= m + 1
    <3>1. Age(id) <= m /\ id \in Ids
      BY <1>4
    <3>2. Age(id) \in Int
      BY <3>1 DEF Age, Ids
    <3>. QED BY <3>1, <3>2
  <2>. QED BY <1>3, <2>1
<1>. QED BY <1>2, <1>3, <1>5, <1>6 DEF Given

(* A client joins, and takes the next id.                                               *)
LEMMA JoinCounts ==
  ASSUME EnoughIds, TypeOK, Counted, NEW c \in Clients, handler[c] = "accept",
         handler'[c] # "accept", \A d \in Conns : d # c => handler'[d] = handler[d],
         matchIndex' = NextMatchId, Used' \subseteq Used \cup {NextMatchId}
  PROVE  Counted' /\ NextMatchId \notin Used
<1>1. PICK m \in 0 .. Cardinality(Joined) : Given(m, matchIndex, Used)
  BY DEF Counted
<1>2. Joined' = Joined \cup {c} /\ c \notin Joined /\ Joined \subseteq Clients /\ Joined' \subseteq Clients
  BY DEF Joined, Conns
<1>3. IsFiniteSet(Joined) /\ IsFiniteSet(Joined') /\ Cardinality(Joined) \in Nat
  BY <1>2, FS_Subset, FS_CardinalityType DEF EnoughIds
<1>4. Cardinality(Joined') = Cardinality(Joined) + 1
  BY <1>2, <1>3, FS_AddElement
<1>5. Cardinality(Joined') <= Cardinality(Clients) /\ Cardinality(Clients) \in Nat
  BY <1>2, FS_Subset, FS_CardinalityType DEF EnoughIds
<1>6. m \in Nat /\ m < IdSpace /\ m + 1 \in 0 .. Cardinality(Joined')
  BY <1>1, <1>3, <1>4, <1>5, RelayAssumption DEF EnoughIds
<1>7. Used \in SUBSET Ids /\ matchIndex \in 0 .. IdSpace
  BY DEF Used, TypeOK
<1>8. NextMatchId \notin Used /\ Given(m + 1, NextMatchId, Used \cup {NextMatchId})
  BY <1>1, <1>6, <1>7, NextIdIsNext
<1>9. Given(m + 1, matchIndex', Used')
  BY <1>8 DEF Given
<1>. QED BY <1>6, <1>8, <1>9 DEF Counted

LEMMA QuietCounts ==
  ASSUME EnoughIds, Counted, matchIndex' = matchIndex, Used' \subseteq Used,
         \A d \in Clients : handler'[d] = "accept" => handler[d] = "accept"
  PROVE  Counted'
<1>1. PICK m \in 0 .. Cardinality(Joined) : Given(m, matchIndex, Used)
  BY DEF Counted
<1>2. Joined \subseteq Joined' /\ Joined' \subseteq Clients
  BY DEF Joined
<1>3. IsFiniteSet(Joined')
  BY <1>2, FS_Subset DEF EnoughIds
<1>4. IsFiniteSet(Joined) /\ Cardinality(Joined) <= Cardinality(Joined')
  BY <1>2, <1>3, FS_Subset
<1>5. m \in 0 .. Cardinality(Joined')
  <2>1. Cardinality(Joined) \in Nat /\ Cardinality(Joined') \in Nat
    BY <1>3, <1>4, FS_CardinalityType
  <2>. QED BY <1>1, <1>4, <2>1
<1>6. Given(m, matchIndex', Used')
  BY <1>1 DEF Given
<1>. QED BY <1>5, <1>6 DEF Counted

(* Who was told of no match was told no endpoint.                                       *)
LEMMA NoInfoNoTun ==
  ASSUME IInv, EndpointKnown, NEW c \in Conns, NoInfo(inbox[c], known[c])
  PROVE  ~ HasTun(c)
<1>1. endpoint[c] = Nobody
  BY DEF NoInfo, EndpointKnown
<1>2. ASSUME NEW i \in DOMAIN inbox[c], inbox[c][i].kind = "TunInfo" PROVE FALSE
  <2>1. inbox[c] \in Seq(Packets) /\ Ordered(inbox[c], known[c])
    BY DEF IInv, InboxType, QueuesOrdered
  <2>2. inbox[c][i].id # 0 /\ \E j \in 1 .. i - 1 : inbox[c][j] = MatchInfo(inbox[c][i].id)
    BY <1>2, <2>1 DEF Ordered, NoInfo
  <2>3. PICK j \in 1 .. i - 1 : inbox[c][j] = MatchInfo(inbox[c][i].id)
    BY <2>2
  <2>4. DOMAIN inbox[c] = 1 .. Len(inbox[c]) /\ Len(inbox[c]) \in Nat
    BY <2>1
  <2>5. j \in DOMAIN inbox[c] /\ inbox[c][j].kind = "MatchInfo"
    BY <1>2, <2>3, <2>4 DEF MatchInfo, Message
  <2>. QED BY <2>5 DEF NoInfo
<1>. QED BY <1>1, <1>2 DEF HasTun

(* A queue to which nothing was added that tells of a match, or only the match id.      *)
NoNews(q, new) ==
  \A i \in DOMAIN new : new[i].kind \in {"MatchInfo", "TunInfo"} => i \in DOMAIN q /\ q[i] = new[i]
OnlyNews(q, new, id) ==
  \A i \in DOMAIN new :
    \/ new[i].kind \in {"MatchInfo", "TunInfo"} => i \in DOMAIN q /\ q[i] = new[i]
    \/ new[i].kind = "MatchInfo" /\ new[i].id = id

(* Matched, in the rooms of another moment.                                             *)
MatchedIn(c, d, now) ==
  /\ Side(c) # Side(d) /\ asked[c] = asked[d]
  /\ \A k \in Codes : c \in Members(now[k]) => d \in Members(now[k])

LEMMA OtherIsNoNews ==
  ASSUME NEW box \in [Conns -> Seq(Packets)], NEW c \in Conns, NEW msg \in Packets,
         msg.kind \notin {"MatchInfo", "TunInfo"}, NEW d \in Conns
  PROVE  NoNews(box[d], Written(box, c, msg)[d])
<1>1. CASE Written(box, c, msg)[d] = box[d]
  BY <1>1 DEF NoNews
<1>2. CASE d = c /\ Written(box, c, msg)[c] = Append(box[c], msg)
  <2>1. box[c] \in Seq(Packets)
    OBVIOUS
  <2>2. \A i \in DOMAIN Append(box[c], msg) :
          (i \in DOMAIN box[c] /\ box[c][i] = Append(box[c], msg)[i]) \/ Append(box[c], msg)[i] = msg
    BY <2>1, AppendIsLast
  <2>. QED BY <1>2, <2>2 DEF NoNews
<1>3. \/ Written(box, c, msg)[d] = box[d]
      \/ d = c /\ Written(box, c, msg)[c] = Append(box[c], msg)
  BY DEF Written
<1>. QED BY <1>1, <1>2, <1>3

LEMMA InfoIsOnlyNews ==
  ASSUME NEW box \in [Conns -> Seq(Packets)], NEW c \in Conns, NEW id \in Ids, NEW d \in Conns
  PROVE  OnlyNews(box[d], Written(box, c, MatchInfo(id))[d], id)
<1>. DEFINE msg == MatchInfo(id)
<1>1. msg \in Packets
  BY MessagesArePackets
<1>2. msg.kind = "MatchInfo" /\ msg.id = id
  BY DEF MatchInfo, Message
<1>. HIDE DEF msg
<1>3. CASE Written(box, c, msg)[d] = box[d]
  BY <1>3 DEF OnlyNews, msg
<1>4. CASE d = c /\ Written(box, c, msg)[c] = Append(box[c], msg)
  <2>1. box[c] \in Seq(Packets)
    OBVIOUS
  <2>2. \A i \in DOMAIN Append(box[c], msg) :
          (i \in DOMAIN box[c] /\ box[c][i] = Append(box[c], msg)[i]) \/ Append(box[c], msg)[i] = msg
    BY <1>1, <2>1, AppendIsLast
  <2>3. OnlyNews(box[c], Append(box[c], msg), id)
    BY <1>2, <2>2 DEF OnlyNews
  <2>. QED BY <1>4, <2>3 DEF msg
<1>5. \/ Written(box, c, msg)[d] = box[d]
      \/ d = c /\ Written(box, c, msg)[c] = Append(box[c], msg)
  BY DEF Written
<1>. QED BY <1>3, <1>4, <1>5 DEF msg

(* Pairs stay pairs if no endpoint is told, nobody's match id changes, and rooms go, keep *)
(* their peers, or take in one that was told nothing.                                   *)
LEMMA PairsStay ==
  ASSUME IInv, EndpointKnown, OnceTold, PeersArePaired,
         asked' = asked, known' = known, endpoint' = endpoint,
         \A c \in Conns : \A i \in DOMAIN inbox'[c] :
           inbox'[c][i].kind = "TunInfo" => i \in DOMAIN inbox[c] /\ inbox[c][i] = inbox'[c][i],
         \A k \in Codes : \A c \in Members(rooms'[k]) :
           \/ c \in Conns /\ ~ HasTun(c)
           \/ /\ c \in Members(rooms[k]) /\ Members(rooms[k]) \subseteq Members(rooms'[k])
              /\ rooms[k].told \subseteq rooms'[k].told
  PROVE  EndpointKnown' /\ OnceTold' /\ PeersArePaired'
<1>1. \A c \in Conns : HasTun(c)' => HasTun(c)
  BY DEF HasTun
<1>2. ASSUME NEW c \in Conns, HasTun(c), NEW d, Matched(c, d) PROVE MatchedIn(c, d, rooms')
  BY <1>2 DEF Matched, MatchedIn
<1>3. EndpointKnown'
  BY DEF EndpointKnown
<1>4. \A k \in Codes : Members(rooms'[k]) \subseteq Conns
  <2>1. \A k \in Codes : Members(rooms[k]) \subseteq Conns
    BY DEF IInv, TypeOK, Room, NoRoom, Members, Conns
  <2>. QED BY <2>1
<1>5. OnceTold'
  <2>1. ASSUME NEW k \in Codes, NEW c \in Members(rooms'[k]), HasTun(c)'
        PROVE  OtherSide(c) \in rooms'[k].told
    <3>1. c \in Conns /\ HasTun(c)
      BY <1>1, <1>4, <2>1
    <3>2. c \in Members(rooms[k]) /\ rooms[k].told \subseteq rooms'[k].told
      BY <2>1, <3>1
    <3>. QED BY <3>1, <3>2 DEF OnceTold
  <2>2. \A c : OtherSide(c)' = OtherSide(c)
    BY DEF OtherSide
  <2>. QED BY <2>1, <2>2 DEF OnceTold, Members
<1>6. ASSUME NEW c \in Conns, NEW i \in DOMAIN inbox'[c], inbox'[c][i].kind = "TunInfo"
      PROVE  /\ MatchedIn(c, inbox'[c][i].from, rooms') /\ known'[inbox'[c][i].from] = inbox'[c][i].id
             /\ endpoint'[c] = Nobody
             /\ \A j \in DOMAIN inbox'[c] : inbox'[c][j].kind = "TunInfo" => j = i
  <2>1. i \in DOMAIN inbox[c] /\ inbox[c][i] = inbox'[c][i]
    BY <1>6
  <2>2. /\ Matched(c, inbox[c][i].from) /\ known[inbox[c][i].from] = inbox[c][i].id
        /\ endpoint[c] = Nobody
        /\ \A j \in DOMAIN inbox[c] : inbox[c][j].kind = "TunInfo" => j = i
    BY <1>6, <2>1 DEF PeersArePaired
  <2>3. HasTun(c)
    BY <1>6, <2>1 DEF HasTun
  <2>. QED BY <1>2, <2>1, <2>2, <2>3
<1>7. ASSUME NEW c \in Conns, endpoint'[c] # Nobody
      PROVE  MatchedIn(c, endpoint'[c], rooms') /\ known'[endpoint'[c]] = known'[c]
  <2>1. HasTun(c) /\ Matched(c, endpoint[c]) /\ known[endpoint[c]] = known[c]
    BY <1>7 DEF PeersArePaired, HasTun
  <2>2. MatchedIn(c, endpoint[c], rooms')
    BY <1>2, <2>1
  <2>. QED BY <2>1, <2>2
<1>8. PeersArePaired'
  BY <1>6, <1>7 DEF PeersArePaired, Matched, MatchedIn, Side
<1>. QED BY <1>3, <1>5, <1>8

(* A room keeps what it is, or what comes in its place has no id and nobody in it who    *)
(* was told of a match.                                                                  *)
RoomStays(k) ==
  /\ rooms'[k].id = rooms[k].id /\ rooms'[k].told = rooms[k].told
  /\ rooms'[k].host = rooms[k].host /\ rooms'[k].client = rooms[k].client
Opens(k) ==
  /\ rooms'[k].id \notin Ids
  /\ \A c \in Members(rooms'[k]) : c \in Conns /\ NoInfo(inbox[c], known[c])

LEMMA GoneOpens == ASSUME NEW k, rooms'[k] = NoRoom PROVE Opens(k)
  BY DEF Opens, NoRoom, Members, Ids

LEMMA HeardBefore ==
  ASSUME known' = known, \A c \in Conns : NoNews(inbox[c], inbox'[c])
  PROVE  \A c \in Conns : \A id : Heard(inbox'[c], known'[c], id) => Heard(inbox[c], known[c], id)
  BY DEF NoNews, Heard

(* A step that tells nobody of a match.                                                 *)
LEMMA QuietPairs ==
  ASSUME EnoughIds, IInv, TypeOK', PairInv,
         matchIndex' = matchIndex, grace' \subseteq grace,
         asked' = asked, known' = known, endpoint' = endpoint,
         \A d \in Clients : handler'[d] = "accept" => handler[d] = "accept",
         \A c \in Conns : NoNews(inbox[c], inbox'[c]),
         \A k \in Codes : RoomStays(k) \/ Opens(k)
  PROVE  PairInv'
<1>1. \A c \in Conns : \A id : Heard(inbox'[c], known'[c], id) => Heard(inbox[c], known[c], id)
  BY HeardBefore
<1>2. Used' \subseteq Used
  <2>1. ASSUME NEW id \in Ids, NEW k \in Codes, rooms'[k].id = id PROVE rooms[k].id = id
    BY <2>1 DEF RoomStays, Opens
  <2>. QED BY <1>1, <2>1 DEF Used
<1>3. Counted'
  BY <1>2, QuietCounts DEF PairInv
<1>4. GraceFits'
  <2>1. ASSUME NEW k \in Codes, << k, rooms'[k].id >> \in grace'
        PROVE  rooms'[k].told = {"host", "client"}
    <3>1. << k, rooms'[k].id >> \in grace /\ rooms'[k].id \in Ids
      BY <2>1 DEF IInv, TypeOK
    <3>. QED BY <3>1 DEF RoomStays, Opens, PairInv, GraceFits
  <2>. QED BY <2>1 DEF GraceFits
<1>5. IdNamesRoom'
  <2>1. ASSUME NEW k \in Codes, NEW c \in Conns, rooms'[k].id \in Ids,
               Heard(inbox'[c], known'[c], rooms'[k].id)
        PROVE  c \in Members(rooms'[k])
    <3>1. RoomStays(k) /\ Heard(inbox[c], known[c], rooms[k].id)
      BY <1>1, <2>1 DEF RoomStays, Opens
    <3>2. c \in Members(rooms[k])
      BY <2>1, <3>1 DEF PairInv, IdNamesRoom, RoomStays
    <3>. QED BY <3>1, <3>2 DEF RoomStays, Members
  <2>. QED BY <2>1 DEF IdNamesRoom, Members, Heard, Ids
<1>6. \A c \in Conns : \A i \in DOMAIN inbox'[c] :
        inbox'[c][i].kind = "TunInfo" => i \in DOMAIN inbox[c] /\ inbox[c][i] = inbox'[c][i]
  BY DEF NoNews
<1>7. ASSUME NEW k \in Codes, NEW c \in Members(rooms'[k])
      PROVE  \/ c \in Conns /\ ~ HasTun(c)
             \/ /\ c \in Members(rooms[k]) /\ Members(rooms[k]) \subseteq Members(rooms'[k])
                /\ rooms[k].told \subseteq rooms'[k].told
  <2>1. CASE RoomStays(k)
    BY <1>7, <2>1 DEF RoomStays, Members
  <2>2. CASE Opens(k)
    <3>1. c \in Conns /\ NoInfo(inbox[c], known[c])
      BY <1>7, <2>2 DEF Opens
    <3>. QED BY <3>1, NoInfoNoTun DEF PairInv
  <2>. QED BY <2>1, <2>2
<1>8. EndpointKnown' /\ OnceTold' /\ PeersArePaired'
  BY <1>6, <1>7, PairsStay DEF PairInv
<1>. QED BY <1>3, <1>4, <1>5, <1>8 DEF PairInv

LEMMA InitPairs == Init => PairInv
<1>. SUFFICES ASSUME Init PROVE PairInv
  OBVIOUS
<1>1. \A c \in Conns : inbox[c] = << >> /\ known[c] = 0 /\ endpoint[c] = Nobody
  BY DEF Init
<1>2. \A k \in Codes : rooms[k].id = 0 /\ Members(rooms[k]) = {}
  BY DEF Init, NoRoom, Members
<1>3. \A c \in Conns : ~ HasTun(c) /\ \A id \in Ids : ~ Heard(inbox[c], known[c], id)
  BY <1>1 DEF HasTun, Heard, Ids
<1>4. Used = {}
  BY <1>2, <1>3 DEF Init, Used, Ids
<1>5. Counted
  <2>1. Joined = {}
    BY DEF Init, Joined, Conns
  <2>2. Cardinality(Joined) = 0
    BY <2>1, FS_EmptySet
  <2>. QED BY <1>4, <2>2 DEF Init, Counted, Given
<1>6. GraceFits /\ IdNamesRoom /\ EndpointKnown /\ OnceTold
  BY <1>1, <1>2 DEF Init, GraceFits, IdNamesRoom, EndpointKnown, OnceTold, Ids
<1>7. PeersArePaired
  BY <1>1 DEF PeersArePaired
<1>. QED BY <1>5, <1>6, <1>7 DEF PairInv

(* A host that registers was told of no match; a reply and a deletion tell of none.     *)
LEMMA RegisterHostPairs ==
  ASSUME EnoughIds, IInv, IInv', PairInv, NEW h \in Hosts, RegisterHost(h)
  PROVE  PairInv'
<1>1. h \in Conns /\ asked[h] \in Codes /\ handler[h] = "accept"
  BY DEF IInv, TypeOK, Conns, RegisterHost
<1>2. UNCHANGED << matchIndex, grace, asked, peer, known, endpoint >>
  BY DEF RegisterHost, peerVars
<1>3. inbox \in [Conns -> Seq(Packets)] /\ TypeOK'
  BY DEF IInv, InboxType
<1>4. \A d \in Clients : handler'[d] = "accept" => handler[d] = "accept"
  BY DEF RegisterHost, IInv, TypeOK, Conns
<1>5. ASSUME NEW c \in Conns PROVE NoNews(inbox[c], inbox'[c])
  <2>1. inbox' = inbox \/ inbox' = Written(inbox, h, Error)
    BY DEF RegisterHost
  <2>2. NoNews(inbox[c], inbox[c])
    BY DEF NoNews
  <2>3. NoNews(inbox[c], Written(inbox, h, Error)[c])
    BY <1>1, <1>3, OtherIsNoNews, MessagesArePackets
  <2>. QED BY <2>1, <2>2, <2>3
<1>6. ASSUME NEW k \in Codes PROVE RoomStays(k) \/ Opens(k)
  <2>1. rooms'[k] = rooms[k] \/ (k = asked[h] /\ rooms'[k] = NewRoom(h))
    BY <1>1 DEF RegisterHost, IInv, TypeOK
  <2>2. CASE rooms'[k] = NewRoom(h)
    <3>1. rooms'[k].id \notin Ids /\ Members(rooms'[k]) = {h}
      BY <1>1, <2>2, RelayAssumption DEF NewRoom, Members, Ids
    <3>2. NoInfo(inbox[h], known[h])
      BY <1>1 DEF IInv, AcceptedHasNone
    <3>. QED BY <1>1, <3>1, <3>2 DEF Opens
  <2>. QED BY <2>1, <2>2 DEF RoomStays
<1>. QED BY <1>2, <1>3, <1>4, <1>5, <1>6, QuietPairs

LEMMA ReplyHostedPairs ==
  ASSUME EnoughIds, IInv, IInv', PairInv, NEW h \in Hosts, ReplyHosted(h)
  PROVE  PairInv'
<1>1. h \in Conns /\ asked[h] \in Codes
  BY DEF IInv, TypeOK, Conns
<1>2. UNCHANGED << matchIndex, grace, asked, peer, known, endpoint >>
  BY DEF ReplyHosted, peerVars
<1>3. inbox \in [Conns -> Seq(Packets)] /\ TypeOK'
  BY DEF IInv, InboxType
<1>4. \A d \in Clients : handler'[d] = "accept" => handler[d] = "accept"
  BY DEF ReplyHosted, IInv, TypeOK, Conns
<1>5. ASSUME NEW c \in Conns PROVE NoNews(inbox[c], inbox'[c])
  <2>1. inbox' = inbox \/ inbox' = Written(inbox, h, Hosted)
    BY DEF ReplyHosted
  <2>2. NoNews(inbox[c], inbox[c])
    BY DEF NoNews
  <2>3. NoNews(inbox[c], Written(inbox, h, Hosted)[c])
    BY <1>1, <1>3, OtherIsNoNews, MessagesArePackets
  <2>. QED BY <2>1, <2>2, <2>3
<1>6. ASSUME NEW k \in Codes PROVE RoomStays(k) \/ Opens(k)
  <2>1. rooms'[k] = rooms[k] \/ rooms'[k] = NoRoom
    BY <1>1 DEF ReplyHosted, IInv, TypeOK
  <2>. QED BY <2>1, GoneOpens DEF RoomStays
<1>. QED BY <1>2, <1>3, <1>4, <1>5, <1>6, QuietPairs

LEMMA DeletionsPairs ==
  ASSUME EnoughIds, IInv, IInv', PairInv,
         \/ Cleanup \/ \E k \in Codes : Elapse(k)
         \/ \E g \in grace : DeleteIfMatch(g[1], g[2])
         \/ \E c \in Conns : Disconnect(c)
  PROVE  PairInv'
<1>1. /\ UNCHANGED << matchIndex, asked, inbox, peer, known, endpoint >>
      /\ grace' \subseteq grace
  BY DEF Cleanup, Elapse, DeleteIfMatch, Disconnect, peerVars
<1>2. TypeOK' /\ rooms \in [Codes -> Room \cup {NoRoom}]
  BY DEF IInv, TypeOK
<1>3. \A d \in Clients : handler'[d] = "accept" => handler[d] = "accept"
  BY DEF Cleanup, Elapse, DeleteIfMatch, Disconnect, IInv, TypeOK, Conns
<1>4. \A c \in Conns : NoNews(inbox[c], inbox'[c])
  BY <1>1 DEF NoNews
<1>5. ASSUME NEW k \in Codes PROVE RoomStays(k) \/ Opens(k)
  <2>1. CASE Cleanup
    <3>1. rooms'[k] = rooms[k] \/ rooms'[k] = NoRoom
      BY <2>1 DEF Cleanup
    <3>. QED BY <3>1, GoneOpens DEF RoomStays
  <2>2. ASSUME NEW j \in Codes, Elapse(j) PROVE RoomStays(k) \/ Opens(k)
    <3>1. rooms[j] \in Room /\ rooms' = [rooms EXCEPT ![j].expired = TRUE]
      BY <1>2, <2>2 DEF Elapse, Free
    <3>2. CASE k # j
      BY <1>2, <3>1, <3>2 DEF RoomStays
    <3>3. CASE k = j
      BY <1>2, <3>1, <3>3 DEF RoomStays, Room
    <3>. QED BY <3>2, <3>3
  <2>3. ASSUME NEW g \in grace, DeleteIfMatch(g[1], g[2]) PROVE RoomStays(k) \/ Opens(k)
    <3>1. rooms'[k] = rooms[k] \/ rooms'[k] = NoRoom
      BY <1>2, <2>3 DEF DeleteIfMatch
    <3>. QED BY <3>1, GoneOpens DEF RoomStays
  <2>4. ASSUME NEW c \in Conns, Disconnect(c) PROVE RoomStays(k) \/ Opens(k)
    <3>1. rooms'[k] = rooms[k] \/ rooms'[k] = NoRoom
      BY <1>2, <2>4 DEF Disconnect
    <3>. QED BY <3>1, GoneOpens DEF RoomStays
  <2>. QED BY <2>1, <2>2, <2>3, <2>4
<1>. QED BY <1>1, <1>2, <1>3, <1>4, <1>5, QuietPairs

(* What JoinClient writes is the match id, to the two of the room.                      *)
LEMMA JoinWrites ==
  ASSUME IInv, NEW h \in Conns, NEW c \in Conns, NEW id \in Ids,
         NEW box, box = Written(inbox, h, MatchInfo(id)),
         \/ inbox' = Written(inbox, c, Error)
         \/ inbox' = Written(box, c, Error)
         \/ inbox' = Written(box, c, MatchInfo(id))
  PROVE  \A d \in Conns :
           OnlyNews(inbox[d], inbox'[d], id) /\ (d \notin {h, c} => inbox'[d] = inbox[d])
<1>1. inbox \in [Conns -> Seq(Packets)] /\ MatchInfo(id) \in Packets /\ Error \in Packets
  BY MessagesArePackets DEF IInv, InboxType
<1>2. box \in [Conns -> Seq(Packets)]
  BY <1>1, WrittenIsAppend
<1>3. \A q, r, s : OnlyNews(q, r, id) /\ OnlyNews(r, s, id) => OnlyNews(q, s, id)
  BY DEF OnlyNews
<1>4. \A q, r : NoNews(q, r) => OnlyNews(q, r, id)
  BY DEF OnlyNews, NoNews
<1>5. ASSUME NEW d \in Conns PROVE OnlyNews(inbox[d], inbox'[d], id)
  <2>1. OnlyNews(inbox[d], box[d], id)
    BY <1>1, InfoIsOnlyNews
  <2>2. OnlyNews(inbox[d], Written(inbox, c, Error)[d], id)
    BY <1>1, <1>4, OtherIsNoNews, MessagesArePackets
  <2>3. OnlyNews(box[d], Written(box, c, Error)[d], id)
    BY <1>2, <1>4, OtherIsNoNews, MessagesArePackets
  <2>4. OnlyNews(box[d], Written(box, c, MatchInfo(id))[d], id)
    BY <1>2, InfoIsOnlyNews
  <2>. QED BY <1>3, <2>1, <2>2, <2>3, <2>4
<1>6. ASSUME NEW d \in Conns, d \notin {h, c} PROVE inbox'[d] = inbox[d]
  <2>1. \A b \in [Conns -> Seq(Packets)] : \A msg :
          Written(b, h, msg)[d] = b[d] /\ Written(b, c, msg)[d] = b[d]
    BY <1>6 DEF Written
  <2>2. box[d] = inbox[d]
    BY <1>1, <2>1
  <2>3. /\ Written(inbox, c, Error)[d] = inbox[d] /\ Written(box, c, Error)[d] = box[d]
        /\ Written(box, c, MatchInfo(id))[d] = box[d]
    BY <1>1, <1>2, <2>1
  <2>. QED BY <2>2, <2>3
<1>. QED BY <1>5, <1>6

(* Two peers are matched, under an id that nobody has heard of.                         *)
LEMMA MatchPairs ==
  ASSUME EnoughIds, IInv, TypeOK', PairInv, NEW k \in Codes, NEW h \in Conns, NEW c \in Clients,
         h # Nobody, c # Nobody, NEW id \in Ids, id = NextMatchId, matchIndex' = id,
         UNCHANGED << grace, asked, known, endpoint >>,
         NoInfo(inbox[h], known[h]), NoInfo(inbox[c], known[c]),
         handler[c] = "accept", handler'[c] # "accept",
         \A d \in Conns : d # c => handler'[d] = handler[d],
         \A d \in Conns :
           OnlyNews(inbox[d], inbox'[d], id) /\ (d \notin {h, c} => inbox'[d] = inbox[d]),
         \A j \in Codes : j # k => rooms'[j] = rooms[j],
         rooms'[k] = NoRoom \/ (rooms'[k].id = id /\ Members(rooms'[k]) = {h, c})
  PROVE  PairInv'
<1>1. c \in Conns /\ \A d \in {h, c} : d \in Conns /\ NoInfo(inbox[d], known[d])
  BY DEF Conns
<1>2. ASSUME NEW d \in Conns, NEW i \in Ids, Heard(inbox'[d], known'[d], i)
      PROVE  Heard(inbox[d], known[d], i) \/ (i = id /\ d \in {h, c})
  BY <1>2 DEF Heard, OnlyNews
<1>3. Used' \subseteq Used \cup {id}
  <2>1. ASSUME NEW i \in Ids, NEW j \in Codes, rooms'[j].id = i PROVE rooms[j].id = i \/ i = id
    BY <2>1 DEF NoRoom, Ids
  <2>. QED BY <1>2, <2>1 DEF Used
<1>4. TypeOK
  BY DEF IInv
<1>5. Counted' /\ id \notin Used
  BY <1>3, <1>4, JoinCounts DEF PairInv
<1>6. GraceFits'
  <2>1. ASSUME NEW j \in Codes, << j, rooms'[j].id >> \in grace
        PROVE  rooms'[j].told = {"host", "client"}
    <3>1. rooms'[j].id \in Ids /\ rooms'[j].id \in Used
      BY <1>4, <2>1 DEF TypeOK, Used
    <3>2. j # k
      BY <1>5, <3>1 DEF NoRoom, Ids
    <3>. QED BY <2>1, <3>2 DEF PairInv, GraceFits
  <2>. QED BY <2>1 DEF GraceFits
<1>7. IdNamesRoom'
  <2>1. ASSUME NEW j \in Codes, NEW d \in Conns, rooms'[j].id \in Ids,
               Heard(inbox'[d], known'[d], rooms'[j].id)
        PROVE  d \in Members(rooms'[j])
    <3>1. CASE j # k
      <4>1. rooms'[j] = rooms[j]
        BY <3>1
      <4>2. rooms[j].id # id
        BY <1>5, <2>1, <4>1 DEF Used
      <4>3. Heard(inbox[d], known[d], rooms[j].id)
        BY <1>2, <2>1, <4>1, <4>2
      <4>. QED BY <2>1, <4>1, <4>3 DEF PairInv, IdNamesRoom
    <3>2. CASE j = k
      <4>1. rooms'[k].id = id /\ ~ Heard(inbox[d], known[d], id)
        BY <1>5, <2>1, <3>2 DEF Used, NoRoom, Ids
      <4>2. d \in {h, c}
        BY <1>2, <2>1, <3>2, <4>1
      <4>3. Members(rooms'[k]) = {h, c}
        BY <2>1, <3>2 DEF NoRoom, Ids
      <4>. QED BY <3>2, <4>2, <4>3
    <3>. QED BY <3>1, <3>2
  <2>. QED BY <2>1 DEF IdNamesRoom, Members, Heard, Ids
<1>8. \A d \in Conns : \A i \in DOMAIN inbox'[d] :
        inbox'[d][i].kind = "TunInfo" => i \in DOMAIN inbox[d] /\ inbox[d][i] = inbox'[d][i]
  BY DEF OnlyNews
<1>9. ASSUME NEW j \in Codes, NEW d \in Members(rooms'[j])
      PROVE  \/ d \in Conns /\ ~ HasTun(d)
             \/ /\ d \in Members(rooms[j]) /\ Members(rooms[j]) \subseteq Members(rooms'[j])
                /\ rooms[j].told \subseteq rooms'[j].told
  <2>1. CASE j # k
    BY <1>9, <2>1
  <2>2. CASE j = k
    <3>1. d \in {h, c}
      BY <1>9, <2>2 DEF NoRoom, Members
    <3>2. d \in Conns /\ NoInfo(inbox[d], known[d])
      BY <1>1, <3>1
    <3>. QED BY <3>2, NoInfoNoTun DEF PairInv
  <2>. QED BY <2>1, <2>2
<1>10. EndpointKnown' /\ OnceTold' /\ PeersArePaired'
  BY <1>8, <1>9, PairsStay DEF PairInv
<1>. QED BY <1>5, <1>6, <1>7, <1>10 DEF PairInv

LEMMA JoinClientPairs ==
  ASSUME EnoughIds, IInv, IInv', PairInv, NEW c \in Clients, JoinClient(c)
  PROVE  PairInv'
<1>. DEFINE k == asked[c]
            r == rooms[k]
            id == NextMatchId
            new == [r EXCEPT !.id = id, !.state = "matched", !.client = c]
<1>1. c \in Conns /\ k \in Codes /\ id \in Ids /\ TypeOK' /\ handler[c] = "accept"
  BY NextMatchIdIsId DEF IInv, TypeOK, Conns, JoinClient
<1>2. UNCHANGED << grace, asked, peer, known, endpoint >>
  BY DEF JoinClient, peerVars
<1>3. inbox \in [Conns -> Seq(Packets)] /\ handler \in [Conns -> {"accept", "reply", "wait", "done"}]
      /\ rooms \in [Codes -> Room \cup {NoRoom}]
  BY DEF IInv, InboxType, TypeOK
<1>4. CASE Refuse(c) /\ rooms' = [rooms EXCEPT ![k] = IF r.expired THEN NoRoom ELSE r]
  <2>1. /\ inbox' = Written(inbox, c, Error) /\ matchIndex' = matchIndex
        /\ handler' = [handler EXCEPT ![c] = "done"]
    BY <1>4 DEF Refuse
  <2>2. \A d \in Conns : NoNews(inbox[d], inbox'[d])
    BY <1>1, <1>3, <2>1, OtherIsNoNews, MessagesArePackets
  <2>3. ASSUME NEW j \in Codes PROVE RoomStays(j) \/ Opens(j)
    <3>1. rooms'[j] = rooms[j] \/ rooms'[j] = NoRoom
      BY <1>1, <1>3, <1>4
    <3>. QED BY <3>1, GoneOpens DEF RoomStays
  <2>4. \A d \in Clients : handler'[d] = "accept" => handler[d] = "accept"
    BY <1>3, <2>1 DEF Conns
  <2>. QED BY <1>1, <1>2, <2>1, <2>2, <2>3, <2>4, QuietPairs
<1>5. CASE r.state = "waiting" /\ ~ r.expired /\ matchIndex' = id
  <2>. DEFINE h == r.host
              box == ToHost(r, id)
  <2>1. r \in Room
    BY <1>1, <1>3, <1>5 DEF NoRoom
  <2>2. h \in Hosts /\ h \in Conns /\ h # c /\ h # Nobody /\ c # Nobody
    BY <1>1, <2>1, RelayAssumption DEF Room, Conns
  <2>3. NoInfo(inbox[h], known[h]) /\ NoInfo(inbox[c], known[c])
    BY <1>1, <1>5 DEF IInv, RoomsFit, RoomFits, AcceptedHasNone
  <2>4. /\ rooms' = [rooms EXCEPT ![k] = NoRoom] \/ rooms' = [rooms EXCEPT ![k] = new]
        /\ handler' = [handler EXCEPT ![c] = "done"] \/ handler' = [handler EXCEPT ![c] = "wait"]
        /\ \/ inbox' = Written(inbox, c, Error)
           \/ inbox' = Written(box, c, Error)
           \/ inbox' = Written(box, c, MatchInfo(id))
    BY <1>5 DEF JoinClient
  <2>5. new.id = id /\ Members(new) = {h, c}
    BY <2>1, <2>2 DEF Room, Members
  <2>6. box = Written(inbox, h, MatchInfo(id))
    BY DEF ToHost
  <2>. HIDE DEF new, h, box, id, r
  <2>7. \A d \in Conns :
          OnlyNews(inbox[d], inbox'[d], id) /\ (d \notin {h, c} => inbox'[d] = inbox[d])
    BY <1>1, <2>2, <2>4, <2>6, JoinWrites
  <2>8. /\ \A j \in Codes : j # k => rooms'[j] = rooms[j]
        /\ rooms'[k] = NoRoom \/ (rooms'[k].id = id /\ Members(rooms'[k]) = {h, c})
    BY <1>1, <1>3, <2>4, <2>5
  <2>9. handler'[c] # "accept" /\ \A d \in Conns : d # c => handler'[d] = handler[d]
    BY <1>1, <1>3, <2>4
  <2>10. id = NextMatchId
    BY DEF id
  <2>. QED BY <1>1, <1>2, <1>5, <2>2, <2>3, <2>7, <2>8, <2>9, <2>10, MatchPairs
<1>. QED BY <1>4, <1>5 DEF JoinClient

(* An endpoint goes to the other side of the room, which has had none.                  *)
LEMMA RecordPairs ==
  ASSUME EnoughIds, IInv, IInv', PairInv, NEW c \in Conns, RecordPeerUdpAddr(c)
  PROVE  PairInv'
<1>1. PICK k \in FindByMatchId(known[c]) :
        LET r == rooms[k]
            opposite == IF c \in Clients THEN r.host ELSE r.client
            told == r.told \cup {Side(c)}
        IN  /\ Side(c) \notin r.told
            /\ inbox' = Written(inbox, opposite, TunInfo(r.id, c))
            /\ rooms' = [rooms EXCEPT ![k] = [r EXCEPT !.told = told,
                            !.state = IF Done(told) THEN "done" ELSE @]]
            /\ grace' = IF Done(told) THEN grace \cup {<< k, r.id >>} ELSE grace
  BY DEF RecordPeerUdpAddr
<1>. DEFINE r == rooms[k]
            o == IF c \in Clients THEN r.host ELSE r.client
            told == r.told \cup {Side(c)}
            state == IF Done(told) THEN "done" ELSE r.state
            msg == TunInfo(r.id, c)
<1>2. /\ UNCHANGED << matchIndex, handler, asked, peer, known, endpoint >>
      /\ k \in Codes /\ r.state \in {"matched", "done"} /\ r.id \in Ids /\ r.id = known[c]
  BY <1>1 DEF RecordPeerUdpAddr, FindByMatchId, IInv, TypeOK, peerVars
<1>3. /\ r \in Room /\ inbox \in [Conns -> Seq(Packets)] /\ TypeOK'
      /\ rooms \in [Codes -> Room \cup {NoRoom}]
  BY <1>2 DEF IInv, InboxType, TypeOK, NoRoom
<1>4. r.host \in Hosts /\ r.client \in Clients /\ Members(r) = {r.host, r.client}
      /\ r.host \notin Clients /\ r.client \notin Hosts
  <2>1. RoomFits(k)
    BY <1>2 DEF IInv, RoomsFit
  <2>2. r.host \in Hosts /\ r.client \in Clients
    BY <1>2, <1>3, <2>1 DEF Room, RoomFits
  <2>. QED BY <2>2, RelayAssumption DEF Members, Conns
<1>5. c \in Members(r)
  BY <1>2 DEF PairInv, IdNamesRoom, Heard
<1>6. /\ o \in Conns /\ o # c /\ Members(r) = {c, o} /\ OtherSide(o) = Side(c) /\ Side(o) # Side(c)
      /\ asked[c] = k /\ asked[o] = k
  <2>1. o \in Conns /\ o # c /\ Members(r) = {c, o} /\ OtherSide(o) = Side(c) /\ Side(o) # Side(c)
    BY <1>4, <1>5 DEF Conns, OtherSide, Side
  <2>2. asked[c] = k /\ asked[o] = k
    BY <1>2, <2>1 DEF IInv, RoomsFit, RoomFits
  <2>. QED BY <2>1, <2>2
<1>7. ~ HasTun(o)
  BY <1>1, <1>2, <1>6 DEF PairInv, OnceTold
<1>8. /\ rooms'[k] = [r EXCEPT !.told = told, !.state = state]
      /\ \A j \in Codes : j # k => rooms'[j] = rooms[j]
  BY <1>1, <1>2, <1>3
<1>9. /\ rooms'[k].host = r.host /\ rooms'[k].client = r.client
      /\ rooms'[k].id = r.id /\ rooms'[k].told = told
  <2>. HIDE DEF told, state, r
  <2>. QED BY <1>3, <1>8 DEF Room
<1>10. /\ \A j \in Codes : rooms'[j].id = rooms[j].id /\ Members(rooms'[j]) = Members(rooms[j])
       /\ \A j \in Codes : rooms[j].told \subseteq rooms'[j].told
  BY <1>8, <1>9 DEF Members
<1>11. msg \in Packets /\ msg.kind = "TunInfo" /\ msg.id = r.id /\ msg.from = c
  BY <1>2, MessagesArePackets DEF TunInfo, Message
<1>12. inbox' = Written(inbox, o, msg)
  BY <1>1
<1>13. grace' = grace \/ (grace' = grace \cup {<< k, r.id >>} /\ told = {"host", "client"})
  BY <1>1 DEF Done
<1>. HIDE DEF msg, o, r, told, state
<1>14. /\ \A d \in Conns : d # o => inbox'[d] = inbox[d]
       /\ inbox'[o] = inbox[o] \/ inbox'[o] = Append(inbox[o], msg)
  <2>1. /\ \A d \in Conns : d # o => Written(inbox, o, msg)[d] = inbox[d]
        /\ \/ Written(inbox, o, msg)[o] = inbox[o]
           \/ Written(inbox, o, msg)[o] = Append(inbox[o], msg)
    BY <1>3, <1>6, <1>11 DEF Written
  <2>. QED BY <1>12, <2>1
<1>15. inbox[o] \in Seq(Packets)
  BY <1>3, <1>6
<1>16. \A d \in Conns : \A id : Heard(inbox'[d], known[d], id) => Heard(inbox[d], known[d], id)
  <2>1. \A id : Heard(Append(inbox[o], msg), known[o], id) => Heard(inbox[o], known[o], id)
    BY <1>11, <1>15, AppendIsLast DEF Heard
  <2>. QED BY <1>14, <2>1
<1>17. Counted'
  <2>1. r.id \in Used
    BY <1>2 DEF Used, r
  <2>2. ASSUME NEW id \in Ids, NEW j \in Codes, << j, id >> \in grace' PROVE id \in Used
    <3>1. << j, id >> \in grace \/ id = r.id
      BY <1>13, <2>2
    <3>. QED BY <2>1, <3>1 DEF Used
  <2>3. Used' \subseteq Used
    <3>1. ASSUME NEW id \in Used' PROVE id \in Used
      <4>1. id \in Ids
        BY <3>1 DEF Used, Ids
      <4>2. \/ \E j \in Codes : rooms'[j].id = id \/ << j, id >> \in grace'
            \/ \E d \in Conns : Heard(inbox'[d], known[d], id)
        BY <1>2, <3>1 DEF Used, Heard
      <4>3. CASE \E j \in Codes : rooms'[j].id = id
        BY <1>10, <4>1, <4>3 DEF Used
      <4>4. CASE \E j \in Codes : << j, id >> \in grace'
        BY <2>2, <4>1, <4>4
      <4>5. CASE \E d \in Conns : Heard(inbox'[d], known[d], id)
        BY <1>16, <4>1, <4>5 DEF Used
      <4>. QED BY <4>2, <4>3, <4>4, <4>5
    <3>. QED BY <3>1
  <2>. QED BY <1>2, <2>3, QuietCounts DEF PairInv
<1>18. GraceFits'
  <2>1. ASSUME NEW j \in Codes, << j, rooms'[j].id >> \in grace'
        PROVE  rooms'[j].told = {"host", "client"}
    <3>1. CASE j = k
      <4>1. told = {"host", "client"} \/ << k, r.id >> \in grace
        BY <1>9, <1>13, <2>1, <3>1
      <4>2. << k, r.id >> \in grace => r.told = {"host", "client"}
        BY <1>2 DEF PairInv, GraceFits, r
      <4>3. r.told # {"host", "client"}
        BY <1>1 DEF Side, r
      <4>. QED BY <1>9, <3>1, <4>1, <4>2, <4>3
    <3>2. CASE j # k
      BY <1>8, <1>13, <2>1, <3>2 DEF PairInv, GraceFits
    <3>. QED BY <3>1, <3>2
  <2>. QED BY <2>1 DEF GraceFits
<1>19. IdNamesRoom'
  <2>1. ASSUME NEW j \in Codes, NEW d \in Conns, rooms'[j].id \in Ids,
               Heard(inbox'[d], known[d], rooms'[j].id)
        PROVE  d \in Members(rooms'[j])
    BY <1>10, <1>16, <2>1 DEF PairInv, IdNamesRoom
  <2>. QED BY <1>2, <2>1 DEF IdNamesRoom, Members, Heard, Ids
<1>20. EndpointKnown'
  <2>1. ASSUME NEW d \in Conns, NEW i \in DOMAIN inbox'[d], inbox'[d][i].kind = "TunInfo"
        PROVE  inbox'[d][i].from \in Conns
    <3>1. CASE inbox'[d] = inbox[d]
      BY <2>1, <3>1 DEF PairInv, EndpointKnown
    <3>2. CASE d = o /\ inbox'[o] = Append(inbox[o], msg) /\ i \in 1 .. Len(inbox[o])
      <4>1. inbox'[o][i] = inbox[o][i] /\ i \in DOMAIN inbox[o]
        BY <1>11, <1>15, <3>2, AppendIsLast
      <4>. QED BY <2>1, <3>2, <4>1 DEF PairInv, EndpointKnown
    <3>3. CASE d = o /\ inbox'[o] = Append(inbox[o], msg) /\ i = Len(inbox[o]) + 1
      BY <1>11, <1>15, <3>3, AppendIsLast
    <3>4. inbox'[o] = Append(inbox[o], msg) => DOMAIN inbox'[o] = 1 .. Len(inbox[o]) + 1
      BY <1>11, <1>15, AppendIsLast
    <3>5. Len(inbox[o]) \in Nat
      BY <1>15
    <3>. QED BY <1>14, <2>1, <3>1, <3>2, <3>3, <3>4, <3>5
  <2>. QED BY <1>2, <2>1 DEF PairInv, EndpointKnown
<1>21. OnceTold'
  <2>1. ASSUME NEW j \in Codes, NEW d \in Members(rooms'[j]), HasTun(d)'
        PROVE  OtherSide(d) \in rooms'[j].told
    <3>1. d \in Members(rooms[j]) /\ d \in Conns
      <4>1. d \in Members(rooms[j])
        BY <1>10, <2>1
      <4>2. rooms[j] \in Room \cup {NoRoom}
        BY <1>3
      <4>3. Members(rooms[j]) \subseteq Conns
        BY <4>2 DEF Room, NoRoom, Members, Conns
      <4>. QED BY <4>1, <4>3
    <3>2. CASE d = o
      <4>1. j = k
        BY <1>6, <3>1, <3>2 DEF IInv, RoomsFit, RoomFits
      <4>. QED BY <1>6, <1>9, <3>2, <4>1 DEF told
    <3>3. CASE d # o
      <4>1. HasTun(d)
        BY <1>2, <1>14, <2>1, <3>1, <3>3 DEF HasTun
      <4>. QED BY <1>10, <3>1, <4>1 DEF PairInv, OnceTold
    <3>. QED BY <3>2, <3>3
  <2>2. \A d : OtherSide(d)' = OtherSide(d)
    BY DEF OtherSide
  <2>. QED BY <2>1, <2>2 DEF OnceTold, Members
<1>22. \A d \in Conns : \A e : Matched(d, e) => MatchedIn(d, e, rooms')
  BY <1>10 DEF Matched, MatchedIn
<1>23. MatchedIn(o, c, rooms')
  <2>1. \A j \in Codes : o \in Members(rooms[j]) => j = k
    BY <1>6 DEF IInv, RoomsFit, RoomFits
  <2>. QED BY <1>5, <1>6, <1>10, <2>1 DEF MatchedIn, r
<1>24. ASSUME NEW d \in Conns, NEW i \in DOMAIN inbox'[d], inbox'[d][i].kind = "TunInfo"
       PROVE  /\ MatchedIn(d, inbox'[d][i].from, rooms') /\ known[inbox'[d][i].from] = inbox'[d][i].id
              /\ endpoint[d] = Nobody
              /\ \A j \in DOMAIN inbox'[d] : inbox'[d][j].kind = "TunInfo" => j = i
  <2>1. CASE inbox'[d] = inbox[d]
    BY <1>22, <1>24, <2>1 DEF PairInv, PeersArePaired
  <2>2. CASE d = o /\ inbox'[o] = Append(inbox[o], msg)
    <3>1. endpoint[o] = Nobody /\ \A j \in DOMAIN inbox[o] : inbox[o][j].kind # "TunInfo"
      BY <1>7 DEF HasTun
    <3>2. \A j \in DOMAIN inbox'[o] : inbox'[o][j].kind = "TunInfo" => j = Len(inbox[o]) + 1
      BY <1>11, <1>15, <2>2, <3>1, AppendIsLast
    <3>3. inbox'[o][i] = msg
      BY <1>11, <1>15, <1>24, <2>2, <3>2, AppendIsLast
    <3>. QED BY <1>2, <1>11, <1>23, <1>24, <2>2, <3>1, <3>2, <3>3
  <2>. QED BY <1>14, <2>1, <2>2
<1>25. ASSUME NEW d \in Conns, endpoint[d] # Nobody
       PROVE  MatchedIn(d, endpoint[d], rooms') /\ known[endpoint[d]] = known[d]
  BY <1>22, <1>25 DEF PairInv, PeersArePaired
<1>26. PeersArePaired'
  BY <1>2, <1>24, <1>25 DEF PeersArePaired, Matched, MatchedIn, Side
<1>. QED BY <1>17, <1>18, <1>19, <1>20, <1>21, <1>26 DEF PairInv

(* A peer that reads, or stops reading: it comes to hold nothing that it was not sent.  *)
LEMMA ReadPairs ==
  ASSUME EnoughIds, IInv, PairInv, UNCHANGED << rooms, matchIndex, grace, handler, asked >>,
         \A d \in Conns : \A id \in Ids :
           Heard(inbox'[d], known'[d], id) => Heard(inbox[d], known[d], id),
         \A d \in Conns : known[d] # 0 => known'[d] = known[d],
         \A d \in Conns : \A i \in DOMAIN inbox'[d] : inbox'[d][i].kind = "TunInfo" =>
           /\ endpoint'[d] = endpoint[d]
           /\ \A j \in DOMAIN inbox'[d] : inbox'[d][j].kind = "TunInfo" => j = i
           /\ \E j \in DOMAIN inbox[d] : inbox[d][j] = inbox'[d][i],
         \A d \in Conns : endpoint'[d] # Nobody =>
           \/ endpoint'[d] = endpoint[d]
           \/ \E j \in DOMAIN inbox[d] :
                /\ inbox[d][j].kind = "TunInfo" /\ inbox[d][j].from = endpoint'[d]
                /\ inbox[d][j].id = known[d] /\ known[d] # 0
  PROVE  PairInv'
<1>1. Counted'
  <2>1. Used' \subseteq Used
    BY DEF Used
  <2>. QED BY <2>1, QuietCounts DEF PairInv
<1>2. GraceFits'
  BY DEF PairInv, GraceFits
<1>3. IdNamesRoom'
  <2>1. ASSUME NEW k \in Codes, NEW c \in Conns, rooms[k].id \in Ids,
               Heard(inbox'[c], known'[c], rooms[k].id)
        PROVE  c \in Members(rooms[k])
    BY <2>1 DEF PairInv, IdNamesRoom
  <2>. QED BY <2>1 DEF IdNamesRoom, Members, Heard, Ids
<1>4. EndpointKnown'
  <2>1. ASSUME NEW d \in Conns, endpoint'[d] # Nobody PROVE known'[d] # 0
    BY <2>1 DEF PairInv, EndpointKnown
  <2>2. ASSUME NEW d \in Conns, NEW i \in DOMAIN inbox'[d], inbox'[d][i].kind = "TunInfo"
        PROVE  inbox'[d][i].from \in Conns
    BY <2>2 DEF PairInv, EndpointKnown
  <2>. QED BY <2>1, <2>2 DEF EndpointKnown
<1>5. \A d \in Conns : HasTun(d)' => HasTun(d)
  BY DEF HasTun
<1>6. OnceTold'
  <2>1. \A k \in Codes : Members(rooms[k]) \subseteq Conns
    <3>1. \A k \in Codes : rooms[k] \in Room \cup {NoRoom}
      BY DEF IInv, TypeOK
    <3>. QED BY <3>1 DEF Room, NoRoom, Members, Conns
  <2>. QED BY <1>5, <2>1 DEF PairInv, OnceTold, Members, OtherSide
<1>7. ASSUME NEW d \in Conns, NEW e PROVE Matched(d, e) => MatchedIn(d, e, rooms')
  BY DEF Matched, MatchedIn
<1>8. ASSUME NEW d \in Conns, NEW j \in DOMAIN inbox[d], inbox[d][j].kind = "TunInfo"
      PROVE  /\ inbox[d][j].from \in Conns /\ known[inbox[d][j].from] = inbox[d][j].id
             /\ known'[inbox[d][j].from] = inbox[d][j].id
             /\ Matched(d, inbox[d][j].from) /\ endpoint[d] = Nobody
  <2>1. inbox[d][j].id # 0
    BY <1>8 DEF IInv, QueuesOrdered, Ordered
  <2>2. /\ inbox[d][j].from \in Conns /\ known[inbox[d][j].from] = inbox[d][j].id
        /\ Matched(d, inbox[d][j].from) /\ endpoint[d] = Nobody
    BY <1>8 DEF PairInv, EndpointKnown, PeersArePaired
  <2>. QED BY <2>1, <2>2
<1>9. ASSUME NEW d \in Conns, NEW i \in DOMAIN inbox'[d], inbox'[d][i].kind = "TunInfo"
      PROVE  /\ MatchedIn(d, inbox'[d][i].from, rooms') /\ known'[inbox'[d][i].from] = inbox'[d][i].id
             /\ endpoint'[d] = Nobody
             /\ \A j \in DOMAIN inbox'[d] : inbox'[d][j].kind = "TunInfo" => j = i
  <2>1. PICK j \in DOMAIN inbox[d] : inbox[d][j] = inbox'[d][i]
    BY <1>9
  <2>. QED BY <1>7, <1>8, <1>9, <2>1
<1>10. ASSUME NEW d \in Conns, endpoint'[d] # Nobody
       PROVE  MatchedIn(d, endpoint'[d], rooms') /\ known'[endpoint'[d]] = known'[d]
  <2>1. CASE endpoint'[d] = endpoint[d]
    <3>1. /\ Matched(d, endpoint[d]) /\ known[endpoint[d]] = known[d] /\ known[d] # 0
          /\ endpoint[d] \in Conns
      BY <1>10, <2>1 DEF PairInv, PeersArePaired, EndpointKnown, IInv, TypeOK
    <3>. QED BY <1>7, <2>1, <3>1
  <2>2. ASSUME NEW j \in DOMAIN inbox[d], inbox[d][j].kind = "TunInfo",
               inbox[d][j].from = endpoint'[d], inbox[d][j].id = known[d], known[d] # 0
        PROVE  MatchedIn(d, endpoint'[d], rooms') /\ known'[endpoint'[d]] = known'[d]
    BY <1>7, <1>8, <2>2
  <2>. QED BY <1>10, <2>1, <2>2
<1>11. PeersArePaired'
  BY <1>9, <1>10 DEF PeersArePaired, Matched, MatchedIn, Side
<1>. QED BY <1>1, <1>2, <1>3, <1>4, <1>6, <1>11 DEF PairInv

LEMMA ParsePairs ==
  ASSUME EnoughIds, IInv, PairInv, NEW c \in Conns, ParseServerMsg(c)
  PROVE  PairInv'
<1>. DEFINE q == inbox[c]
            msg == Head(q)
<1>1. /\ q # << >> /\ inbox' = [inbox EXCEPT ![c] = Tail(q)]
      /\ known' = [known EXCEPT ![c] = IF msg.kind = "MatchInfo" THEN msg.id ELSE known[c]]
      /\ endpoint' = [endpoint EXCEPT ![c] = IF msg.kind = "TunInfo" THEN msg.from ELSE endpoint[c]]
      /\ UNCHANGED << rooms, matchIndex, grace, handler, asked >>
  BY DEF ParseServerMsg, serverVars, IInv, TypeOK
<1>2. /\ q \in Seq(Packets) /\ inbox \in [Conns -> Seq(Packets)]
      /\ known \in [Conns -> 0 .. IdSpace] /\ endpoint \in [Conns -> Conns \cup {Nobody}]
  BY DEF IInv, InboxType, TypeOK
<1>3. /\ inbox'[c] = Tail(q) /\ known'[c] = (IF msg.kind = "MatchInfo" THEN msg.id ELSE known[c])
      /\ endpoint'[c] = (IF msg.kind = "TunInfo" THEN msg.from ELSE endpoint[c])
      /\ \A d \in Conns : d # c =>
           inbox'[d] = inbox[d] /\ known'[d] = known[d] /\ endpoint'[d] = endpoint[d]
  BY <1>1, <1>2
<1>4. /\ 1 \in DOMAIN q /\ msg = q[1]
      /\ \A i \in DOMAIN Tail(q) : i + 1 \in DOMAIN q /\ Tail(q)[i] = q[i + 1] /\ i \in Nat \ {0}
  <2>1. \A s \in Seq(Packets) : s # << >> =>
          /\ 1 \in DOMAIN s /\ Head(s) = s[1]
          /\ \A i \in DOMAIN Tail(s) : i + 1 \in DOMAIN s /\ Tail(s)[i] = s[i + 1] /\ i \in Nat \ {0}
    BY HeadTailProperties
  <2>. QED BY <1>1, <1>2, <2>1
<1>. HIDE DEF q, msg
<1>5. /\ msg.kind = "MatchInfo" => known[c] = 0
      /\ msg.kind = "TunInfo" => msg.id # 0 /\ msg.id = known[c]
  <2>1. Ordered(q, known[c])
    BY DEF IInv, QueuesOrdered, q
  <2>. QED BY <1>4, <2>1 DEF Ordered
<1>6. ASSUME NEW d \in Conns, NEW id \in Ids, Heard(inbox'[d], known'[d], id)
      PROVE  Heard(inbox[d], known[d], id)
  <2>1. CASE d # c
    BY <1>3, <1>6, <2>1
  <2>2. CASE d = c
    <3>1. CASE msg.kind = "MatchInfo" /\ msg.id = id
      BY <1>4, <2>2, <3>1 DEF Heard, q
    <3>2. CASE known[c] = id
      BY <2>2, <3>2 DEF Heard
    <3>3. CASE \E i \in DOMAIN Tail(q) : Tail(q)[i].kind = "MatchInfo" /\ Tail(q)[i].id = id
      BY <1>4, <2>2, <3>3 DEF Heard, q
    <3>. QED BY <1>3, <1>6, <2>2, <3>1, <3>2, <3>3 DEF Heard
  <2>. QED BY <2>1, <2>2
<1>7. \A d \in Conns : known[d] # 0 => known'[d] = known[d]
  BY <1>3, <1>5
<1>8. \A d \in Conns : \A i, j \in DOMAIN inbox[d] :
        inbox[d][i].kind = "TunInfo" /\ inbox[d][j].kind = "TunInfo" => i = j
  BY DEF PairInv, PeersArePaired
<1>9. ASSUME NEW d \in Conns, NEW i \in DOMAIN inbox'[d], inbox'[d][i].kind = "TunInfo"
      PROVE  /\ endpoint'[d] = endpoint[d]
             /\ \A j \in DOMAIN inbox'[d] : inbox'[d][j].kind = "TunInfo" => j = i
             /\ \E j \in DOMAIN inbox[d] : inbox[d][j] = inbox'[d][i]
  <2>1. CASE d # c
    BY <1>3, <1>8, <1>9, <2>1
  <2>2. CASE d = c
    <3>1. /\ i \in Nat \ {0} /\ i + 1 \in DOMAIN q /\ q[i + 1] = inbox'[c][i]
          /\ q[i + 1].kind = "TunInfo"
      BY <1>3, <1>4, <1>9, <2>2
    <3>2. ASSUME NEW j \in DOMAIN q, q[j].kind = "TunInfo" PROVE j = i + 1
      BY <1>8, <3>1, <3>2 DEF q
    <3>3. ASSUME NEW j \in DOMAIN inbox'[c], inbox'[c][j].kind = "TunInfo" PROVE j = i
      <4>1. j \in Nat /\ j + 1 \in DOMAIN q /\ q[j + 1].kind = "TunInfo"
        BY <1>3, <1>4, <3>3
      <4>2. j + 1 = i + 1
        BY <3>2, <4>1
      <4>. QED BY <3>1, <4>1, <4>2
    <3>4. msg.kind # "TunInfo"
      <4>1. 1 # i + 1
        BY <3>1
      <4>. QED BY <1>4, <3>2, <4>1
    <3>. QED BY <1>3, <2>2, <3>1, <3>3, <3>4 DEF q
  <2>. QED BY <2>1, <2>2
<1>10. ASSUME NEW d \in Conns, endpoint'[d] # Nobody
       PROVE  \/ endpoint'[d] = endpoint[d]
              \/ \E j \in DOMAIN inbox[d] :
                   /\ inbox[d][j].kind = "TunInfo" /\ inbox[d][j].from = endpoint'[d]
                   /\ inbox[d][j].id = known[d] /\ known[d] # 0
  <2>1. CASE d = c /\ msg.kind = "TunInfo"
    BY <1>3, <1>4, <1>5, <2>1 DEF q
  <2>. QED BY <1>3, <2>1
<1>. QED BY <1>1, <1>6, <1>7, <1>9, <1>10, ReadPairs

LEMMA ClosePairs ==
  ASSUME EnoughIds, IInv, PairInv, NEW c \in Conns, Close(c)
  PROVE  PairInv'
<1>1. /\ inbox' = [inbox EXCEPT ![c] = << >>] /\ endpoint' = [endpoint EXCEPT ![c] = Nobody]
      /\ UNCHANGED << rooms, matchIndex, grace, handler, asked, known >>
  BY DEF Close, serverVars
<1>2. inbox \in [Conns -> Seq(Packets)] /\ endpoint \in [Conns -> Conns \cup {Nobody}]
  BY DEF IInv, InboxType, TypeOK
<1>3. /\ inbox'[c] = << >> /\ endpoint'[c] = Nobody
      /\ \A d \in Conns : d # c => inbox'[d] = inbox[d] /\ endpoint'[d] = endpoint[d]
  BY <1>1, <1>2
<1>4. \A d \in Conns : inbox'[d] = inbox[d] \/ DOMAIN inbox'[d] = {}
  BY <1>3
<1>5. \A d \in Conns : \A id \in Ids :
        Heard(inbox'[d], known'[d], id) => Heard(inbox[d], known[d], id)
  BY <1>1, <1>4 DEF Heard
<1>6. \A d \in Conns : \A i, j \in DOMAIN inbox[d] :
        inbox[d][i].kind = "TunInfo" /\ inbox[d][j].kind = "TunInfo" => i = j
  BY DEF PairInv, PeersArePaired
<1>7. ASSUME NEW d \in Conns, NEW i \in DOMAIN inbox'[d], inbox'[d][i].kind = "TunInfo"
      PROVE  /\ endpoint'[d] = endpoint[d]
             /\ \A j \in DOMAIN inbox'[d] : inbox'[d][j].kind = "TunInfo" => j = i
             /\ \E j \in DOMAIN inbox[d] : inbox[d][j] = inbox'[d][i]
  BY <1>3, <1>6, <1>7
<1>8. \A d \in Conns : endpoint'[d] # Nobody => endpoint'[d] = endpoint[d]
  BY <1>3
<1>. QED BY <1>1, <1>5, <1>7, <1>8, ReadPairs

LEMMA NextPairs == EnoughIds /\ IInv /\ PairInv /\ [Next]_vars => PairInv'
<1>. SUFFICES ASSUME EnoughIds, IInv, PairInv, [Next]_vars PROVE PairInv'
  OBVIOUS
<1>0. IInv'
  BY NextPreserves
<1>1. CASE Housekeeping
  BY <1>0, <1>1, DeletionsPairs DEF Housekeeping
<1>2. ASSUME NEW c \in Conns, Serve(c) PROVE PairInv'
  BY <1>0, <1>2, RegisterHostPairs, ReplyHostedPairs, JoinClientPairs, DeletionsPairs DEF Serve
<1>3. ASSUME NEW c \in Conns, RecordPeerUdpAddr(c) PROVE PairInv'
  BY <1>0, <1>3, RecordPairs
<1>4. ASSUME NEW c \in Conns, ParseServerMsg(c) PROVE PairInv'
  BY <1>4, ParsePairs
<1>5. ASSUME NEW c \in Conns, Close(c) PROVE PairInv'
  BY <1>5, ClosePairs
<1>6. CASE UNCHANGED vars
  <2>1. UNCHANGED << rooms, matchIndex, grace, handler, asked, inbox, known, endpoint >>
    BY <1>6 DEF vars
  <2>2. \A d \in Conns : \A i, j \in DOMAIN inbox[d] :
          inbox[d][i].kind = "TunInfo" /\ inbox[d][j].kind = "TunInfo" => i = j
    BY DEF PairInv, PeersArePaired
  <2>. QED BY <2>1, <2>2, ReadPairs
<1>. QED BY <1>1, <1>2, <1>3, <1>4, <1>5, <1>6 DEF Next

(* Why a room goes away.                                                                *)
Reason(k) ==
  \/ rooms[k].expired \/ rooms[k].told = {"host", "client"}
  \/ JoinFailed(k) \/ ReplyFailed(k)
  \/ \E c \in Members(rooms[k]) : peer[c] = "closed"

LEMMA RoomsHaveReasons ==
  ASSUME IInv, PairInv, [Next]_vars, NEW k \in Codes, Removed(k)
  PROVE  Reason(k)
<1>1. /\ rooms \in [Codes -> Room \cup {NoRoom}] /\ rooms[k] \in Room
      /\ rooms'[k] # rooms[k] /\ rooms'[k].host # rooms[k].host
  BY DEF Removed, Free, IInv, TypeOK
<1>2. rooms[k].host \in Members(rooms[k])
  BY <1>1, RelayAssumption DEF Room, Members, Conns
<1>3. \A d : FALSE \in WriteOutcomes(d) => peer[d] = "closed"
  BY DEF WriteOutcomes
<1>4. ASSUME NEW h \in Hosts, RegisterHost(h) PROVE Reason(k)
  BY <1>1, <1>4 DEF RegisterHost, Removed
<1>5. ASSUME NEW h \in Hosts, ReplyHosted(h) PROVE Reason(k)
  <2>1. /\ FALSE \in WriteOutcomes(h) /\ k = asked[h] /\ handler[h] = "reply"
        /\ handler' = [handler EXCEPT ![h] = "done"]
    BY <1>1, <1>5 DEF ReplyHosted
  <2>2. handler'[h] = "done"
    BY <2>1 DEF IInv, TypeOK, Conns
  <2>. QED BY <1>3, <2>1, <2>2 DEF Reason, ReplyFailed
<1>6. ASSUME NEW c \in Clients, JoinClient(c) PROVE Reason(k)
  <2>1. asked[c] = k /\ handler[c] = "accept"
    BY <1>1, <1>6 DEF JoinClient
  <2>2. CASE rooms[k].expired
    BY <2>2 DEF Reason
  <2>3. CASE FALSE \in WriteOutcomes(rooms[k].host)
    BY <1>2, <1>3, <2>3 DEF Reason
  <2>4. CASE FALSE \in WriteOutcomes(c) /\ handler' = [handler EXCEPT ![c] = "done"]
    <3>1. peer[c] = "closed" /\ handler'[c] = "done"
      BY <1>3, <2>4 DEF IInv, TypeOK, Conns
    <3>. QED BY <2>1, <3>1 DEF Reason, JoinFailed
  <2>5. CASE /\ ~ rooms[k].expired
             /\ \E id : rooms' = [rooms EXCEPT ![k] =
                          [rooms[k] EXCEPT !.id = id, !.state = "matched", !.client = c]]
    BY <1>1, <2>5 DEF Room
  <2>6. CASE rooms' = [rooms EXCEPT ![k] = IF rooms[k].expired THEN NoRoom ELSE rooms[k]]
    BY <1>1, <2>2, <2>6
  <2>. QED BY <1>6, <2>1, <2>2, <2>3, <2>4, <2>5, <2>6 DEF JoinClient
<1>7. ASSUME NEW c \in Conns, Disconnect(c) PROVE Reason(k)
  <2>1. peer[c] = "closed" /\ c \in Members(rooms[k])
    BY <1>1, <1>7 DEF Disconnect, SameRoom
  <2>. QED BY <2>1 DEF Reason
<1>8. ASSUME NEW c \in Conns, RecordPeerUdpAddr(c) PROVE Reason(k)
  <2>1. PICK j \in FindByMatchId(known[c]) :
          LET r == rooms[j]
              told == r.told \cup {Side(c)}
          IN  rooms' = [rooms EXCEPT ![j] =
                [r EXCEPT !.told = told, !.state = IF Done(told) THEN "done" ELSE @]]
    BY <1>8 DEF RecordPeerUdpAddr
  <2>2. k = j /\ rooms'[k].host = rooms[k].host
    BY <1>1, <2>1 DEF Room, FindByMatchId
  <2>. QED BY <1>1, <2>2
<1>9. CASE Cleanup
  BY <1>1, <1>9 DEF Cleanup, Stale, Reason
<1>10. ASSUME NEW j \in Codes, Elapse(j) PROVE Reason(k)
  BY <1>1, <1>10 DEF Elapse, Room
<1>11. ASSUME NEW g \in grace, DeleteIfMatch(g[1], g[2]) PROVE Reason(k)
  <2>1. k = g[1] /\ rooms[k].id = g[2]
    BY <1>1, <1>11 DEF DeleteIfMatch
  <2>2. << k, rooms[k].id >> \in grace
    BY <1>11, <2>1 DEF DeleteIfMatch
  <2>. QED BY <2>2 DEF PairInv, GraceFits, Reason
<1>12. ASSUME UNCHANGED rooms PROVE Reason(k)
  BY <1>1, <1>12
<1>13. \A c : ParseServerMsg(c) \/ Close(c) => UNCHANGED rooms
  BY DEF ParseServerMsg, Close, serverVars
<1>. QED
  BY <1>4, <1>5, <1>6, <1>7, <1>8, <1>9, <1>10, <1>11, <1>12, <1>13
  DEF Next, vars, Serve, Housekeeping

(* The endpoint a peer is told is that of the other side of its own match, and nobody is *)
(* told one twice (room.go:RecordPeerUDPAddr), for any number of peers and codes, as long *)
(* as the 32-bit counter of match ids has not come round to one that is still in use.     *)
THEOREM PeersAreAlwaysPaired ==
  ASSUME EnoughIds
  PROVE  Spec => []Inv
<1>1. IInv /\ PairInv => Inv
  BY DEF IInv, PairInv, Inv
<1>2. Init => IInv /\ PairInv
  BY InitEstablishes, InitPairs
<1>3. (IInv /\ PairInv) /\ [Next]_vars => (IInv /\ PairInv)'
  BY NextPreserves, NextPairs
<1>. QED BY <1>1, <1>2, <1>3, PTL DEF Spec

(* A room goes away because it expired, because both its peers were told, or because one *)
(* of them is gone: the deletions that were put off (DeleteIfMatch) and those of a closed *)
(* connection (DeleteIfSame) never take a later room under the same code.  Only the step  *)
(* in which a reply to HostRegister fails (Delete) takes whatever room it finds.          *)
THEOREM RoomsGoForTheirOwnReason ==
  ASSUME EnoughIds
  PROVE  Spec => NeverAnothersRoom
<1>1. Init => IInv /\ PairInv
  BY InitEstablishes, InitPairs
<1>2. (IInv /\ PairInv) /\ [Next]_vars => (IInv /\ PairInv)'
  BY NextPreserves, NextPairs
<1>3. (IInv /\ PairInv) /\ [Next]_vars => [\A k \in Codes : Removed(k) =>
        \/ rooms[k].expired \/ rooms[k].told = {"host", "client"}
        \/ JoinFailed(k) \/ ReplyFailed(k)
        \/ \E c \in Members(rooms[k]) : peer[c] = "closed"]_vars
  <2>1. IInv /\ PairInv /\ [Next]_vars => \A k \in Codes : Removed(k) => Reason(k)
    BY RoomsHaveReasons
  <2>. QED BY <2>1 DEF Reason
<1>. QED BY <1>1, <1>2, <1>3, PTL DEF Spec, NeverAnothersRoom
=============================================================================
