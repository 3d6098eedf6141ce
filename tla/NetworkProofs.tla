---------------------------- MODULE NetworkProofs ----------------------------
(***************************************************************************)
(* What module Network's slots and queues hold, and what a spectator is    *)
(* sent, for every number of slots, connections, batches and control       *)
(* messages: Inv and StreamIsWhole are invariants of Spec.                 *)
(*                                                                         *)
(* Inv needs two more facts to be inductive: a slot that is in use has a   *)
(* connection, which a packet queued for it is meant for, and nobody is    *)
(* taken in before there is a manager.  StreamIsWhole needs what a         *)
(* connection is going to be sent (Streams), that no two slots have the    *)
(* same connection, and that nothing is meant for a connection before it   *)
(* is made (Fresh).                                                        *)
(***************************************************************************)
EXTENDS Network, FiniteSetTheorems, SequenceTheorems, TLAPS

UsedHasConnection == \A s \in Slots : status[s] # "free" => conn[s] # 0
NobodyBeforeManager == ~ manager => pending = {} /\ served = {}

IInv == TypeOK /\ OneRole /\ UsedHasConnection /\ NobodyBeforeManager

-----------------------------------------------------------------------------
(* Lemmas on what is queued and on how many are served.                     *)

(* A list of messages for a slot in use is a list of packets: what both promotion and   *)
(* the frame's batches queue.                                                           *)
LEMMA ToIsPackets ==
  ASSUME TypeOK, NEW s \in Slots, conn[s] # 0, NEW messages \in Seq(Messages)
  PROVE  To(s, messages) \in Seq(Packets)
<1>1. conn[s] \in Conns
  BY NetworkAssumption DEF TypeOK, Conns
<1>2. DOMAIN messages = 1 .. Len(messages) /\ Len(messages) \in Nat
  OBVIOUS
<1>3. ASSUME NEW i \in 1 .. Len(messages)
      PROVE  [for |-> conn[s], msg |-> messages[i]] \in Packets
  BY <1>1 DEF Packets
<1>4. To(s, messages) = [i \in 1 .. Len(messages) |-> [for |-> conn[s], msg |-> messages[i]]]
  BY <1>2 DEF To
<1>. QED BY <1>2, <1>3, <1>4

(* The configuration and the control history are a list of packets.                     *)
LEMMA GreetingIsPackets ==
  ASSUME TypeOK, NEW s \in Slots, conn[s] # 0
  PROVE  Greeting(s) \in Seq(Packets)
<1>. DEFINE history_ == [n \in 1 .. controls |-> Control(n)]
<1>1. controls \in Nat /\ controls <= MaxControls
  BY NetworkAssumption DEF TypeOK
<1>2. \A n \in 1 .. controls : Control(n) \in Messages
  BY <1>1, NetworkAssumption DEF Messages
<1>3. history_ \in Seq(Messages)
  BY <1>1, <1>2
<1>4. << Config >> \in Seq(Messages)
  BY DEF Messages
<1>5. << Config >> \o history_ \in Seq(Messages)
  BY <1>3, <1>4, ConcatProperties
<1>. QED BY <1>5, ToIsPackets DEF Greeting

(* A frame's batches go no further than the archive.                                    *)
LEMMA ServedIsBacklog ==
  ASSUME TypeOK, NEW s \in Slots
  PROVE  Served(s) \in Nat /\ cursor[s] + Served(s) \in 0 .. archive
<1>. cursor[s] \in Nat /\ cursor[s] <= archive /\ archive \in Nat
  BY NetworkAssumption DEF TypeOK
<1>. QED BY NetworkAssumption DEF Served

(* ... and are a list of packets.                                                       *)
LEMMA BatchesArePackets ==
  ASSUME TypeOK, NEW s \in Slots, conn[s] # 0
  PROVE  To(s, [i \in 1 .. Served(s) |-> Batch(cursor[s] + i)]) \in Seq(Packets)
<1>. DEFINE batches == [i \in 1 .. Served(s) |-> Batch(cursor[s] + i)]
<1>1. Served(s) \in Nat /\ cursor[s] + Served(s) <= MaxArchive /\ cursor[s] \in Nat
  BY ServedIsBacklog, NetworkAssumption DEF TypeOK
<1>2. \A i \in 1 .. Served(s) : cursor[s] + i \in 1 .. MaxArchive
  BY <1>1, NetworkAssumption
<1>3. \A i \in 1 .. Served(s) : Batch(cursor[s] + i) \in Messages
  BY <1>2 DEF Messages
<1>4. batches \in Seq(Messages)
  BY <1>1, <1>3
<1>. QED BY <1>4, ToIsPackets

(* Slots that are served are a finite set, of which any part is no larger.              *)
LEMMA ServedIsFinite ==
  ASSUME TypeOK
  PROVE  /\ IsFiniteSet(served) /\ Cardinality(served) \in Nat
         /\ \A part \in SUBSET served :
              Cardinality(part) \in Nat /\ Cardinality(part) <= Cardinality(served)
         /\ \A s \in Slots : Cardinality(served \cup {s}) <= Cardinality(served) + 1
<1>1. IsFiniteSet(served)
  BY NetworkAssumption, FS_Subset DEF TypeOK
<1>2. Cardinality(served) \in Nat
  BY <1>1, FS_CardinalityType
<1>3. \A part \in SUBSET served :
        Cardinality(part) \in Nat /\ Cardinality(part) <= Cardinality(served)
  BY <1>1, FS_Subset, FS_CardinalityType
<1>4. ASSUME NEW s \in Slots
      PROVE  Cardinality(served \cup {s}) <= Cardinality(served) + 1
  BY <1>1, <1>2, FS_AddElement
<1>. QED BY <1>1, <1>2, <1>3, <1>4

-----------------------------------------------------------------------------
(* Each action keeps the invariant.                                         *)

(* The initial state: nobody is connected, and nobody has a role.                       *)
LEMMA InitEstablishes == Init => IInv
<1>. SUFFICES ASSUME Init PROVE IInv
  OBVIOUS
<1>1. TypeOK
  <2>1. << >> \in Seq(Slots) /\ << >> \in Seq(Packets)
    OBVIOUS
  <2>2. 0 \in 0 .. MaxConns /\ 0 \in 0 .. MaxArchive /\ 0 \in 0 .. MaxControls /\ 0 \in 0 .. 0
    BY NetworkAssumption
  <2>3. /\ conn \in [Slots -> 0 .. made] /\ cursor \in [Slots -> 0 .. archive]
        /\ status \in [Slots -> {"free", "succeeded", "connected", "zombie"}]
    BY <2>2 DEF Init
  <2>4. outQueue \in [Slots -> Seq(Packets)] /\ received \in [Conns -> Seq(Packets)]
    BY <2>1 DEF Init
  <2>. QED BY <2>1, <2>2, <2>3, <2>4 DEF Init, TypeOK
<1>2. OneRole
  BY FS_EmptySet, NetworkAssumption DEF Init, OneRole
<1>. QED BY <1>1, <1>2 DEF Init, IInv, UsedHasConnection, NobodyBeforeManager

(* A new connection takes a slot without a role.                                        *)
LEMMA ConnectPreserves ==
  ASSUME IInv, NEW s \in Slots, Connect(s)
  PROVE  IInv'
<1>. USE NetworkAssumption DEF IInv, Connect, managed, history, game
<1>1. TypeOK'
  <2>1. made' \in 0 .. MaxConns /\ \A n \in 0 .. made : n \in 0 .. made'
    BY DEF TypeOK
  <2>2. conn' \in [Slots -> 0 .. made']
    BY <2>1 DEF TypeOK
  <2>3. status' \in [Slots -> {"free", "succeeded", "connected", "zombie"}]
    BY DEF TypeOK
  <2>4. dispatch' \in Seq(Slots)
    BY DEF TypeOK
  <2>. QED BY <2>1, <2>2, <2>3, <2>4 DEF TypeOK, Packets, Messages
<1>2. OneRole'
  BY DEF TypeOK, OneRole
<1>. QED BY <1>2 DEF TypeOK, UsedHasConnection, NobodyBeforeManager

(* A slot whose client leaves keeps its role until the event is taken.                  *)
LEMMA LeavePreserves ==
  ASSUME IInv, NEW s \in Slots, Leave(s)
  PROVE  IInv'
<1>. USE NetworkAssumption DEF IInv, Leave, managed, history, game
<1>1. TypeOK'
  BY DEF TypeOK
<1>2. OneRole'
  BY DEF TypeOK, OneRole
<1>. QED BY <1>1, <1>2 DEF TypeOK, UsedHasConnection, NobodyBeforeManager

(* What the slots need when the roles of one of them, s, change with its status: the      *)
(* others keep theirs, and s has at most one, and one only if it is in use.               *)
LEMMA OneSlotChanges ==
  ASSUME IInv, NEW s \in Slots, NEW st \in {"free", "connected"},
         status' = [status EXCEPT ![s] = st],
         served' \subseteq served, pending' \subseteq pending \cup {s},
         peer' \in {peer, s, None},
         st = "free" => s \notin pending' \cup served' /\ peer' # s,
         pending' \cap served' = {}, peer' \notin pending' \cup served'
  PROVE  OneRole'
<1>. USE DEF IInv
<1>1. Cardinality(served') <= MaxRoot
  <2>1. /\ Cardinality(served) \in Nat /\ Cardinality(served') \in Nat
        /\ Cardinality(served') <= Cardinality(served)
    BY ServedIsFinite
  <2>. QED BY <2>1, NetworkAssumption DEF OneRole
<1>2. status \in [Slots -> {"free", "succeeded", "connected", "zombie"}]
  BY DEF TypeOK
<1>3. ASSUME NEW r \in (pending' \cup served' \cup {peer'}) \ {None}
      PROVE  status'[r] \in {"connected", "zombie"}
  <2>1. CASE r = s
    BY <1>2, <1>3, <2>1
  <2>2. CASE r # s
    <3>1. r \in (pending \cup served \cup {peer}) \ {None}
      BY <1>3, <2>2
    <3>2. status[r] \in {"connected", "zombie"}
      BY <3>1 DEF OneRole
    <3>. QED BY <1>2, <2>2, <3>2
  <2>. QED BY <2>1, <2>2
<1>. QED BY <1>1, <1>3 DEF OneRole

(* The slot of a CONNECT has no role yet, and gets one or is free again.                *)
LEMMA TakeConnectPreserves ==
  ASSUME IInv, TakeConnect
  PROVE  IInv'
<1>. USE NetworkAssumption DEF IInv
<1>. DEFINE s == Head(dispatch)
<1>1. /\ s \in Slots /\ Tail(dispatch) \in Seq(Slots) /\ status[s] = "succeeded"
      /\ s # None
  BY DEF TakeConnect, TypeOK
<1>2. s \notin pending \cup served /\ s # peer
  BY <1>1 DEF OneRole
<1>3. /\ dispatch' = Tail(dispatch)
      /\ UNCHANGED << made, manager, served, cursor, outQueue, archive, controls, pc, toPromote, received >>
  BY DEF TakeConnect, history, game
<1>4. CASE peer = None /\ peer' = s /\ status' = [status EXCEPT ![s] = "connected"]
           /\ UNCHANGED << conn, pending >>
  <2>1. TypeOK'
    BY <1>1, <1>3, <1>4 DEF TypeOK, Packets, Messages
  <2>2. OneRole'
    BY <1>1, <1>2, <1>3, <1>4, OneSlotChanges DEF OneRole
  <2>3. UsedHasConnection'
    BY <1>1, <1>4 DEF UsedHasConnection, TypeOK
  <2>. QED BY <1>3, <1>4, <2>1, <2>2, <2>3 DEF NobodyBeforeManager
<1>5. CASE peer # None /\ manager /\ SpectatorConnects(s)
           /\ status' = [status EXCEPT ![s] = "connected"] /\ UNCHANGED << conn, peer >>
  <2>1. pending' = pending \cup {s}
    BY <1>2, <1>5 DEF SpectatorConnects
  <2>2. TypeOK'
    BY <1>1, <1>3, <1>5, <2>1 DEF TypeOK, Packets, Messages
  <2>3. OneRole'
    BY <1>1, <1>2, <1>3, <1>5, <2>1, OneSlotChanges DEF OneRole
  <2>4. UsedHasConnection'
    BY <1>1, <1>5 DEF UsedHasConnection, TypeOK
  <2>. QED BY <1>3, <1>5, <2>2, <2>3, <2>4 DEF NobodyBeforeManager
<1>6. CASE peer # None /\ ~ manager /\ status' = [status EXCEPT ![s] = "free"]
           /\ conn' = [conn EXCEPT ![s] = 0] /\ UNCHANGED << peer, pending >>
  <2>1. conn' \in [Slots -> 0 .. made]
        /\ status' \in [Slots -> {"free", "succeeded", "connected", "zombie"}]
    BY <1>1, <1>6 DEF TypeOK
  <2>2. TypeOK'
    BY <1>1, <1>3, <1>6, <2>1 DEF TypeOK, Packets, Messages
  <2>3. OneRole'
    BY <1>1, <1>2, <1>3, <1>6, OneSlotChanges DEF OneRole
  <2>4. UsedHasConnection'
    BY <1>1, <1>6 DEF UsedHasConnection, TypeOK
  <2>. QED BY <1>3, <1>6, <2>2, <2>3, <2>4 DEF NobodyBeforeManager
<1>. QED BY <1>4, <1>5, <1>6 DEF TakeConnect

(* A slot loses its role as it becomes free.                                            *)
LEMMA TakeDisconnectPreserves ==
  ASSUME IInv, TakeDisconnect
  PROVE  IInv'
<1>. USE NetworkAssumption DEF IInv
<1>. DEFINE s == Head(dispatch)
<1>1. s \in Slots /\ Tail(dispatch) \in Seq(Slots) /\ s # None
  BY DEF TakeDisconnect, TypeOK
<1>2. /\ status' = [status EXCEPT ![s] = "free"] /\ conn' = [conn EXCEPT ![s] = 0]
      /\ dispatch' = Tail(dispatch)
      /\ UNCHANGED << made, manager, cursor, outQueue, archive, controls, pc, toPromote, received >>
  BY DEF TakeDisconnect, history, game
<1>3. /\ pending' \subseteq pending /\ served' \subseteq served
      /\ s \notin pending' \cup served' /\ s # peer' /\ (peer' = peer \/ peer' = None)
  <2>1. CASE s = peer /\ peer' = None /\ UNCHANGED << pending, served >>
    BY <1>1, <2>1 DEF OneRole
  <2>2. CASE s # peer /\ manager /\ Erased(s) /\ UNCHANGED peer
    BY <2>2 DEF Erased
  <2>3. CASE s # peer /\ ~ manager /\ UNCHANGED << peer, pending, served >>
    BY <2>3 DEF NobodyBeforeManager
  <2>. QED BY <2>1, <2>2, <2>3 DEF TakeDisconnect
<1>4. TypeOK'
  <2>1. conn' \in [Slots -> 0 .. made]
        /\ status' \in [Slots -> {"free", "succeeded", "connected", "zombie"}]
    BY <1>1, <1>2 DEF TypeOK
  <2>2. peer' \in Slots \cup {None} /\ pending' \in SUBSET Slots /\ served' \in SUBSET Slots
    BY <1>3 DEF TypeOK
  <2>. QED BY <1>1, <1>2, <2>1, <2>2 DEF TypeOK, Packets, Messages
<1>5. None \notin pending' \cup served'
  BY <1>3 DEF TypeOK
<1>6. OneRole'
  BY <1>1, <1>2, <1>3, <1>5, OneSlotChanges DEF OneRole
<1>7. UsedHasConnection'
  BY <1>1, <1>2 DEF UsedHasConnection, TypeOK
<1>. QED BY <1>2, <1>3, <1>4, <1>6, <1>7 DEF NobodyBeforeManager

(* Whoever has waited too long only loses the place in the list.                        *)
LEMMA ExpirePreserves ==
  ASSUME IInv, NEW s \in Slots, Expire(s)
  PROVE  IInv'
<1>. USE NetworkAssumption DEF IInv, Expire, enet, history, game
<1>1. TypeOK'
  BY DEF TypeOK, Packets, Messages
<1>2. OneRole'
  BY DEF OneRole
<1>. QED BY <1>1, <1>2 DEF UsedHasConnection, NobodyBeforeManager

(* What a connection is sent is what was queued for its slot.                           *)
LEMMA FlushPreserves ==
  ASSUME IInv, Flush
  PROVE  IInv'
<1>. USE NetworkAssumption DEF IInv, Flush, enet, history, game
<1>1. received' \in [Conns -> Seq(Packets)]
  <2>. DEFINE mine(c) == {s \in Slots : conn[s] = c /\ status[s] = "connected"}
  <2>1. ASSUME NEW c \in Conns, mine(c) # {}
        PROVE  received[c] \o outQueue[CHOOSE s \in mine(c) : TRUE] \in Seq(Packets)
    <3>1. (CHOOSE s \in mine(c) : TRUE) \in Slots
      BY <2>1
    <3>2. outQueue[CHOOSE s \in mine(c) : TRUE] \in Seq(Packets) /\ received[c] \in Seq(Packets)
      BY <3>1 DEF TypeOK
    <3>. QED BY <3>2, ConcatProperties
  <2>2. \A c \in Conns : received[c] \in Seq(Packets)
    BY DEF TypeOK
  <2>. QED BY <2>1, <2>2
<1>2. outQueue' \in [Slots -> Seq(Packets)]
  <2>1. << >> \in Seq(Packets)
    OBVIOUS
  <2>. QED BY <2>1
<1>3. TypeOK'
  BY <1>1, <1>2 DEF TypeOK, Packets, Messages
<1>4. OneRole'
  BY DEF OneRole
<1>. QED BY <1>3, <1>4 DEF UsedHasConnection, NobodyBeforeManager

(* The thread is given a manager that knows nobody.                                     *)
LEMMA InitSpectatorManagerPreserves ==
  ASSUME IInv, InitSpectatorManager
  PROVE  IInv'
<1>. USE DEF IInv, InitSpectatorManager, enet, managed, history, game
<1>. QED BY DEF TypeOK, OneRole, UsedHasConnection, NobodyBeforeManager, Packets, Messages

(* The archive grows: the cursors stay inside it.                                       *)
LEMMA ArchiveStepPreserves ==
  ASSUME IInv, ArchiveStep
  PROVE  IInv'
<1>. USE NetworkAssumption DEF IInv, ArchiveStep, enet, managed
<1>1. archive' \in 0 .. MaxArchive /\ archive <= archive'
  BY DEF TypeOK
<1>2. cursor' \in [Slots -> 0 .. archive']
  BY <1>1 DEF TypeOK
<1>3. TypeOK'
  BY <1>1, <1>2 DEF TypeOK, Packets, Messages
<1>4. OneRole'
  BY DEF OneRole
<1>. QED BY <1>3, <1>4 DEF UsedHasConnection, NobodyBeforeManager

(* The list is a copy of the slots that wait.                                           *)
LEMMA ListPendingPreserves ==
  ASSUME IInv, ListPending
  PROVE  IInv'
<1>. USE DEF IInv, ListPending, enet, managed, history
<1>1. TypeOK'
  BY DEF TypeOK, Packets, Messages
<1>. QED BY <1>1 DEF OneRole, UsedHasConnection, NobodyBeforeManager

(* A slot goes from the waiting to the served, or is let fall; there is room for it.    *)
LEMMA PromotePendingPreserves ==
  ASSUME IInv, NEW s \in Slots, PromotePending(s)
  PROVE  IInv'
<1>. USE NetworkAssumption DEF IInv, PromotePending, enet, history
<1>1. CASE UNCHANGED << served, cursor, outQueue >>
  <2>1. TypeOK'
    BY <1>1 DEF TypeOK, Packets, Messages
  <2>2. OneRole'
    BY <1>1 DEF OneRole
  <2>. QED BY <1>1, <2>1, <2>2 DEF UsedHasConnection, NobodyBeforeManager
<1>2. CASE /\ s \in pending /\ Cardinality(served) < MaxRoot
           /\ served' = served \cup {s} /\ cursor' = [cursor EXCEPT ![s] = 0]
           /\ outQueue' = [outQueue EXCEPT ![s] = @ \o Greeting(s)]
  <2>1. conn[s] # 0 /\ manager
    BY <1>2 DEF OneRole, UsedHasConnection, NobodyBeforeManager, TypeOK
  <2>2. outQueue[s] \o Greeting(s) \in Seq(Packets)
    BY <2>1, GreetingIsPackets, ConcatProperties DEF TypeOK
  <2>3. outQueue' \in [Slots -> Seq(Packets)]
    BY <1>2, <2>2 DEF TypeOK
  <2>4. cursor' \in [Slots -> 0 .. archive]
    BY <1>2 DEF TypeOK
  <2>5. TypeOK'
    BY <1>2, <2>3, <2>4 DEF TypeOK, Packets, Messages
  <2>6. Cardinality(served') <= MaxRoot
    BY <1>2, ServedIsFinite, FS_CardinalityType, FS_AddElement
  <2>7. OneRole'
    BY <1>2, <2>6 DEF OneRole
  <2>. QED BY <2>1, <2>5, <2>7 DEF UsedHasConnection, NobodyBeforeManager
<1>3. s \in pending /\ ~ Cardinality(served) >= MaxRoot => Cardinality(served) < MaxRoot
  BY ServedIsFinite
<1>. QED BY <1>1, <1>2, <1>3 DEF Promoted

(* A frame queues batches for the served, who are all connected or not known to be gone. *)
LEMMA FrameStepSpectatorsPreserves ==
  ASSUME IInv, FrameStepSpectators
  PROVE  IInv'
<1>. USE NetworkAssumption DEF IInv, FrameStepSpectators, enet, history
<1>1. outQueue' \in [Slots -> Seq(Packets)]
  <2>1. ASSUME NEW s \in served
        PROVE  outQueue[s] \o To(s, [i \in 1 .. Served(s) |-> Batch(cursor[s] + i)]) \in Seq(Packets)
    <3>1. s \in Slots /\ conn[s] # 0 /\ outQueue[s] \in Seq(Packets)
      BY DEF TypeOK, OneRole, UsedHasConnection
    <3>. QED BY <3>1, BatchesArePackets, ConcatProperties
  <2>2. \A s \in Slots : outQueue[s] \in Seq(Packets)
    BY DEF TypeOK
  <2>. QED BY <2>1, <2>2
<1>2. cursor' \in [Slots -> 0 .. archive]
  BY ServedIsBacklog DEF TypeOK
<1>3. TypeOK'
  BY <1>1, <1>2 DEF TypeOK, Packets, Messages
<1>4. OneRole'
  BY DEF OneRole
<1>. QED BY <1>3, <1>4 DEF UsedHasConnection, NobodyBeforeManager

(* A control message is queued for the served.                                          *)
LEMMA ArchiveControlPreserves ==
  ASSUME IInv, ArchiveControl
  PROVE  IInv'
<1>. USE NetworkAssumption DEF IInv, ArchiveControl, enet
<1>1. controls' \in 0 .. MaxControls /\ controls + 1 \in 1 .. MaxControls
  BY DEF TypeOK
<1>2. << Control(controls + 1) >> \in Seq(Messages)
  BY <1>1 DEF Messages
<1>3. outQueue' \in [Slots -> Seq(Packets)]
  <2>1. ASSUME NEW s \in served
        PROVE  outQueue[s] \o To(s, << Control(controls + 1) >>) \in Seq(Packets)
    <3>1. s \in Slots /\ conn[s] # 0 /\ outQueue[s] \in Seq(Packets)
      BY DEF TypeOK, OneRole, UsedHasConnection
    <3>. QED BY <1>2, <3>1, ToIsPackets, ConcatProperties
  <2>2. \A s \in Slots : outQueue[s] \in Seq(Packets)
    BY DEF TypeOK
  <2>. QED BY <2>1, <2>2
<1>4. TypeOK'
  BY <1>1, <1>3 DEF TypeOK, Packets, Messages
<1>5. OneRole'
  BY DEF OneRole
<1>. QED BY <1>4, <1>5 DEF UsedHasConnection, NobodyBeforeManager

(* A frame ends without one.                                                            *)
LEMMA EndFramePreserves ==
  ASSUME IInv, EndFrame
  PROVE  IInv'
<1>. USE DEF IInv, EndFrame, enet, managed, history
<1>1. TypeOK'
  BY DEF TypeOK, Packets, Messages
<1>. QED BY <1>1 DEF OneRole, UsedHasConnection, NobodyBeforeManager

(* Nothing happens.                                                                     *)
LEMMA StutterPreserves ==
  ASSUME IInv, UNCHANGED vars
  PROVE  IInv'
  BY DEF IInv, vars, enet, managed, history, game, TypeOK, OneRole, UsedHasConnection,
         NobodyBeforeManager, Packets, Messages

(* Inv's invariant is inductive.                                                        *)
LEMMA StepPreserves == IInv /\ [Next]_vars => IInv'
<1>. SUFFICES ASSUME IInv, [Next]_vars PROVE IInv'
  OBVIOUS
<1>1. ASSUME NEW s \in Slots, Connect(s) PROVE IInv'
  BY <1>1, ConnectPreserves
<1>2. ASSUME NEW s \in Slots, Leave(s) PROVE IInv'
  BY <1>2, LeavePreserves
<1>3. CASE TakeConnect
  BY <1>3, TakeConnectPreserves
<1>4. CASE TakeDisconnect
  BY <1>4, TakeDisconnectPreserves
<1>5. ASSUME NEW s \in Slots, Expire(s) PROVE IInv'
  BY <1>5, ExpirePreserves
<1>6. CASE Flush
  BY <1>6, FlushPreserves
<1>7. CASE InitSpectatorManager
  BY <1>7, InitSpectatorManagerPreserves
<1>8. CASE ArchiveStep
  BY <1>8, ArchiveStepPreserves
<1>9. CASE ListPending
  BY <1>9, ListPendingPreserves
<1>10. ASSUME NEW s \in Slots, PromotePending(s) PROVE IInv'
  BY <1>10, PromotePendingPreserves
<1>11. CASE FrameStepSpectators
  BY <1>11, FrameStepSpectatorsPreserves
<1>12. CASE ArchiveControl
  BY <1>12, ArchiveControlPreserves
<1>13. CASE EndFrame
  BY <1>13, EndFramePreserves
<1>14. CASE UNCHANGED vars
  BY <1>14, StutterPreserves
<1>. QED
  BY <1>1, <1>2, <1>3, <1>4, <1>5, <1>6, <1>7, <1>8, <1>9, <1>10, <1>11, <1>12, <1>13, <1>14
  DEF Next, Frame

-----------------------------------------------------------------------------
(* "If ev.peer == peer_: this is the opponent ... Otherwise: this is a spectator"       *)
(* (network_thread.cpp:483), for any number of slots and of spectators: no slot has two *)
(* roles, none keeps one after ENet has told of its end, the manager serves no more     *)
(* than MAX_ROOT_SPECTATORS and reads no further than its archive, and every packet     *)
(* queued is meant for a connection that was made.                                      *)
THEOREM NoSlotHasTwoRoles == Spec => []Inv
<1>1. Init => IInv
  BY InitEstablishes
<1>2. IInv /\ [Next]_vars => IInv'
  BY StepPreserves
<1>3. IInv => Inv
  BY DEF IInv, Inv
<1>. QED BY <1>1, <1>2, <1>3, PTL DEF Spec

-----------------------------------------------------------------------------
(* What the properties of a list of packets are when more packets are added. *)

(* What the first k packets of a list say, whomever they are for.                       *)
Said(list, k) == {list[i].msg : i \in 1 .. k}

(* All of a list is for one connection.                                                 *)
AllFor(list, c) == \A i \in 1 .. Len(list) : list[i].for = c

(* The numbers of a stream's control messages and batches.                              *)
LEMMA StreamNumbers ==
  ASSUME NEW n \in Nat, NEW m \in Nat
  PROVE  /\ Config \in Stream(n, m)
         /\ Numbers("control", Stream(n, m)) = 1 .. n
         /\ Numbers("batch", Stream(n, m)) = 1 .. m
<1>. USE DEF Stream, Numbers, Config, Control, Batch
<1>1. Numbers("control", Stream(n, m)) = 1 .. n
  <2>1. ASSUME NEW i \in 1 .. n PROVE i \in Numbers("control", Stream(n, m))
    <3>1. Control(i) \in Stream(n, m) /\ Control(i).type = "control" /\ Control(i).n = i
      OBVIOUS
    <3>. QED BY <3>1
  <2>. QED BY <2>1
<1>2. Numbers("batch", Stream(n, m)) = 1 .. m
  <2>1. ASSUME NEW i \in 1 .. m PROVE i \in Numbers("batch", Stream(n, m))
    <3>1. Batch(i) \in Stream(n, m) /\ Batch(i).type = "batch" /\ Batch(i).n = i
      OBVIOUS
    <3>. QED BY <3>1
  <2>. QED BY <2>1
<1>. QED BY <1>1, <1>2

(* One more control message, one more batch.                                            *)
LEMMA StreamGrows ==
  ASSUME NEW n \in Nat, NEW m \in Nat
  PROVE  /\ Follows(Control(n + 1), Stream(n, m))
         /\ Stream(n + 1, m) = Stream(n, m) \cup {Control(n + 1)}
         /\ Follows(Batch(m + 1), Stream(n, m))
         /\ Stream(n, m + 1) = Stream(n, m) \cup {Batch(m + 1)}
<1>1. 1 .. n + 1 = 1 .. n \cup {n + 1} /\ 1 .. m + 1 = 1 .. m \cup {m + 1}
  OBVIOUS
<1>2. /\ Control(n + 1) # Config /\ Control(n + 1).type = "control" /\ Control(n + 1).n = n + 1
      /\ Batch(m + 1) # Config /\ Batch(m + 1).type = "batch" /\ Batch(m + 1).n = m + 1
  BY DEF Control, Batch, Config
<1>3. n + 1 - 1 = n /\ m + 1 - 1 = m
  OBVIOUS
<1>4. Follows(Control(n + 1), Stream(n, m)) /\ Follows(Batch(m + 1), Stream(n, m))
  BY <1>2, <1>3, StreamNumbers DEF Follows
<1>. QED BY <1>1, <1>4 DEF Stream

(* What a list held before packets were added to it.                                    *)
LEMMA ToldBefore ==
  ASSUME NEW list \in Seq(Packets), NEW add \in Seq(Packets), NEW c,
         NEW n \in 0 .. Len(list)
  PROVE  Told(list \o add, c, n) = Told(list, c, n)
<1>1. \A i \in 1 .. n : (list \o add)[i] = list[i]
  BY ConcatProperties
<1>. QED BY <1>1 DEF Told

(* ... and what it holds with the first of them.                                        *)
LEMMA ToldAfter ==
  ASSUME NEW list \in Seq(Packets), NEW add \in Seq(Packets), NEW c,
         AllFor(add, c),
         NEW k \in 0 .. Len(add)
  PROVE  Told(list \o add, c, Len(list) + k)
           = Told(list, c, Len(list)) \cup Said(add, k)
<1>. DEFINE both == list \o add
<1>1. /\ \A i \in 1 .. Len(list) : both[i] = list[i]
      /\ \A i \in 1 .. k : both[Len(list) + i] = add[i]
      /\ Len(list) \in Nat /\ Len(add) \in Nat
  BY ConcatProperties
<1>2. ASSUME NEW m \in Told(both, c, Len(list) + k)
      PROVE  m \in Told(list, c, Len(list)) \cup Said(add, k)
  <2>1. PICK i \in 1 .. Len(list) + k : both[i].for = c /\ m = both[i].msg
    BY DEF Told
  <2>2. CASE i <= Len(list)
    <3>1. i \in 1 .. Len(list) /\ list[i].for = c /\ m = list[i].msg
      BY <1>1, <2>1, <2>2
    <3>. QED BY <3>1 DEF Told
  <2>3. CASE i > Len(list)
    <3>1. i - Len(list) \in 1 .. k /\ both[i] = add[i - Len(list)]
      BY <1>1, <2>1, <2>3
    <3>. QED BY <2>1, <3>1 DEF Said
  <2>4. i <= Len(list) \/ i > Len(list)
    BY <1>1
  <2>. QED BY <2>2, <2>3, <2>4
<1>3. ASSUME NEW m \in Told(list, c, Len(list)) PROVE m \in Told(both, c, Len(list) + k)
  <2>1. PICK i \in 1 .. Len(list) : list[i].for = c /\ m = list[i].msg
    BY DEF Told
  <2>. QED BY <1>1, <2>1 DEF Told
<1>4. ASSUME NEW i \in 1 .. k PROVE add[i].msg \in Told(both, c, Len(list) + k)
  <2>1. Len(list) + i \in 1 .. Len(list) + k /\ both[Len(list) + i] = add[i] /\ add[i].for = c
    BY <1>1 DEF AllFor
  <2>. QED BY <2>1 DEF Told
<1>. QED BY <1>2, <1>3, <1>4 DEF Said

(* A list stays whole as packets for c are added to it, each of which follows what is   *)
(* there before it.                                                                     *)
LEMMA StaysWhole ==
  ASSUME NEW list \in Seq(Packets), NEW add \in Seq(Packets), NEW c,
         IsWhole(list, c),
         AllFor(add, c),
         \A i \in 1 .. Len(add) :
           Follows(add[i].msg,
                   Told(list, c, Len(list)) \cup Said(add, i - 1))
  PROVE  IsWhole(list \o add, c)
<1>. DEFINE both == list \o add
<1>1. /\ \A i \in 1 .. Len(list) : both[i] = list[i]
      /\ \A i \in 1 .. Len(add) : both[Len(list) + i] = add[i]
      /\ Len(list) \in Nat /\ Len(add) \in Nat /\ Len(both) = Len(list) + Len(add)
      /\ DOMAIN both = 1 .. Len(both) /\ DOMAIN list = 1 .. Len(list)
  BY ConcatProperties
<1>2. \A j \in Len(list) + 1 .. Len(both) : both[j].for = c
  <2>. SUFFICES ASSUME NEW j \in Len(list) + 1 .. Len(both) PROVE both[j].for = c
    OBVIOUS
  <2>1. j - Len(list) \in 1 .. Len(add) /\ both[j] = add[j - Len(list)]
    BY <1>1
  <2>. QED BY <2>1 DEF AllFor
<1>. SUFFICES ASSUME NEW i \in 1 .. Len(both), both[i].for = c
              PROVE  /\ Follows(both[i].msg, Told(both, c, i - 1))
                     /\ \A j \in i .. Len(both) : both[j].for = c
  BY <1>1 DEF IsWhole
<1>3. CASE i <= Len(list)
  <2>1. /\ Follows(list[i].msg, Told(list, c, i - 1))
        /\ \A j \in i .. Len(list) : list[j].for = c
    BY <1>1, <1>3 DEF IsWhole
  <2>2. Told(both, c, i - 1) = Told(list, c, i - 1)
    <3>1. i - 1 \in 0 .. Len(list)
      BY <1>1, <1>3
    <3>. QED BY <3>1, ToldBefore
  <2>3. \A j \in i .. Len(both) : both[j].for = c
    BY <1>1, <1>2, <2>1
  <2>. QED BY <1>1, <1>3, <2>1, <2>2, <2>3
<1>4. CASE i > Len(list)
  <2>. DEFINE k == i - Len(list)
  <2>1. k \in 1 .. Len(add) /\ both[i] = add[k] /\ k - 1 \in 0 .. Len(add) /\ i - 1 = Len(list) + (k - 1)
    BY <1>1, <1>4
  <2>2. Told(both, c, i - 1) = Told(list, c, Len(list)) \cup Said(add, k - 1)
    <3>1. Told(both, c, Len(list) + (k - 1)) = Told(list, c, Len(list)) \cup Said(add, k - 1)
      <4>1. \A n \in 0 .. Len(add) :
              Told(both, c, Len(list) + n) = Told(list, c, Len(list)) \cup Said(add, n)
        BY ToldAfter
      <4>. HIDE DEF both, k
      <4>. QED BY <2>1, <4>1
    <3>. QED BY <2>1, <3>1
  <2>3. Follows(both[i].msg, Told(both, c, i - 1))
    BY <2>1, <2>2
  <2>. QED BY <1>1, <1>2, <1>4, <2>3
<1>. QED BY <1>1, <1>3, <1>4

(* A list with nothing for c is whole, and tells c nothing.                             *)
LEMMA NothingIsWhole ==
  ASSUME NEW list \in Seq(Packets), NEW c, \A i \in 1 .. Len(list) : list[i].for # c
  PROVE  IsWhole(list, c) /\ Told(list, c, Len(list)) = {}
  BY DEF IsWhole, Told

(* What packets add to what c was told: each follows what comes before it.              *)
Adds(add, c, before, after) ==
  /\ AllFor(add, c)
  /\ \A i \in 1 .. Len(add) : Follows(add[i].msg, before \cup Said(add, i - 1))
  /\ after = before \cup Said(add, Len(add))

(* A list that is whole stays so, and tells c so much more.                             *)
LEMMA WholeAndMore ==
  ASSUME NEW list \in Seq(Packets), NEW add \in Seq(Packets), NEW c, NEW after,
         IsWhole(list, c), Adds(add, c, Told(list, c, Len(list)), after)
  PROVE  IsWhole(list \o add, c) /\ Told(list \o add, c, Len(list \o add)) = after
<1>1. IsWhole(list \o add, c)
  BY StaysWhole DEF Adds
<1>2. Len(list \o add) = Len(list) + Len(add) /\ Len(add) \in 0 .. Len(add)
  BY ConcatProperties
<1>3. Told(list \o add, c, Len(list) + Len(add)) = Told(list, c, Len(list)) \cup Said(add, Len(add))
  BY <1>2, ToldAfter DEF Adds
<1>. QED BY <1>1, <1>2, <1>3 DEF Adds

(* Messages for a slot, as packets.                                                     *)
LEMMA ToSays ==
  ASSUME NEW s \in Slots, NEW messages \in Seq(Messages)
  PROVE  /\ Len(To(s, messages)) = Len(messages)
         /\ AllFor(To(s, messages), conn[s])
         /\ \A i \in 1 .. Len(messages) : To(s, messages)[i].msg = messages[i]
<1>1. DOMAIN messages = 1 .. Len(messages) /\ Len(messages) \in Nat
  OBVIOUS
<1>2. To(s, messages) = [i \in 1 .. Len(messages) |-> [for |-> conn[s], msg |-> messages[i]]]
  BY <1>1 DEF To
<1>. QED BY <1>1, <1>2 DEF AllFor

(* Promotion adds the configuration and every control message there is.                 *)
LEMMA GreetingAdds ==
  ASSUME TypeOK, NEW s \in Slots, conn[s] # 0
  PROVE  Adds(Greeting(s), conn[s], {}, Stream(controls, 0))
<1>. DEFINE history_ == [n \in 1 .. controls |-> Control(n)]
            messages == << Config >> \o history_
<1>1. controls \in Nat /\ controls <= MaxControls
  BY NetworkAssumption DEF TypeOK
<1>2. history_ \in Seq(Messages) /\ Len(history_) = controls
  <2>1. \A n \in 1 .. controls : Control(n) \in Messages
    BY <1>1, NetworkAssumption DEF Messages
  <2>. QED BY <1>1, <2>1
<1>3. << Config >> \in Seq(Messages) /\ Len(<< Config >>) = 1
  BY DEF Messages
<1>4. /\ messages \in Seq(Messages) /\ Len(messages) = controls + 1
      /\ messages[1] = Config
      /\ \A n \in 1 .. controls : messages[n + 1] = Control(n)
  <2>1. /\ messages \in Seq(Messages) /\ Len(messages) = 1 + controls
        /\ messages[1] = << Config >>[1]
        /\ \A n \in 1 .. controls : messages[1 + n] = history_[n]
    <3>. HIDE DEF history_
    <3>. QED BY <1>1, <1>2, <1>3, ConcatProperties
  <2>2. \A n \in 1 .. controls : history_[n] = Control(n)
    OBVIOUS
  <2>3. \A n \in 1 .. controls : 1 + n = n + 1
    OBVIOUS
  <2>. HIDE DEF messages, history_
  <2>. QED BY <1>1, <2>1, <2>2, <2>3
<1>. HIDE DEF messages
<1>5. Greeting(s) = To(s, messages)
  BY DEF Greeting, messages
<1>6. /\ Len(Greeting(s)) = controls + 1 /\ AllFor(Greeting(s), conn[s])
      /\ \A i \in 1 .. controls + 1 : Greeting(s)[i].msg = messages[i]
  BY <1>4, <1>5, ToSays
<1>7. ASSUME NEW n \in 0 .. controls PROVE Said(Greeting(s), n + 1) = Stream(n, 0)
  <2>1. 1 .. n + 1 = {1} \cup {i + 1 : i \in 1 .. n}
    <3>1. ASSUME NEW j \in 1 .. n + 1, j # 1 PROVE j \in {i + 1 : i \in 1 .. n}
      <4>1. j - 1 \in 1 .. n /\ j = (j - 1) + 1
        BY <3>1
      <4>. QED BY <4>1
    <3>. QED BY <3>1
  <2>2. Greeting(s)[1].msg = Config /\ \A i \in 1 .. n : Greeting(s)[i + 1].msg = Control(i)
    BY <1>1, <1>4, <1>6
  <2>. QED BY <2>1, <2>2 DEF Said, Stream
<1>8. Said(Greeting(s), 0) = {}
  BY DEF Said
<1>9. ASSUME NEW i \in 1 .. controls + 1
      PROVE  Follows(Greeting(s)[i].msg, Said(Greeting(s), i - 1))
  <2>1. CASE i = 1
    BY <1>1, <1>4, <1>6, <1>8, <2>1 DEF Follows
  <2>2. CASE i # 1
    <3>1. i - 1 \in 1 .. controls /\ i - 2 \in 0 .. controls /\ (i - 2) + 1 = i - 1 /\ i - 2 \in Nat
          /\ (i - 1) + 1 = i
      BY <1>1, <2>2
    <3>2. Greeting(s)[i].msg = Control((i - 2) + 1)
      BY <1>4, <1>6, <3>1
    <3>3. Said(Greeting(s), i - 1) = Stream(i - 2, 0)
      BY <1>7, <3>1
    <3>4. Follows(Control((i - 2) + 1), Stream(i - 2, 0))
      BY <3>1, StreamGrows
    <3>. QED BY <3>2, <3>3, <3>4
  <2>. QED BY <2>1, <2>2
<1>10. Said(Greeting(s), controls + 1) = Stream(controls, 0)
  BY <1>1, <1>7
<1>. QED BY <1>6, <1>9, <1>10 DEF Adds

(* A frame's batches go on where the cursor is.                                         *)
LEMMA BatchesAdd ==
  ASSUME TypeOK, NEW s \in Slots
  PROVE  Adds(To(s, [i \in 1 .. Served(s) |-> Batch(cursor[s] + i)]), conn[s],
              Stream(controls, cursor[s]), Stream(controls, cursor[s] + Served(s)))
<1>. DEFINE batches == [i \in 1 .. Served(s) |-> Batch(cursor[s] + i)]
            add == To(s, batches)
<1>1. /\ Served(s) \in Nat /\ cursor[s] \in Nat /\ cursor[s] + Served(s) <= MaxArchive
      /\ controls \in Nat /\ MaxArchive \in Nat
  BY ServedIsBacklog, NetworkAssumption DEF TypeOK
<1>2. batches \in Seq(Messages) /\ Len(batches) = Served(s)
  <2>1. \A i \in 1 .. Served(s) : cursor[s] + i \in 1 .. MaxArchive
    BY <1>1
  <2>2. \A i \in 1 .. Served(s) : Batch(cursor[s] + i) \in Messages
    BY <2>1 DEF Messages
  <2>. QED BY <1>1, <2>2
<1>3. /\ Len(add) = Served(s) /\ AllFor(add, conn[s])
      /\ \A i \in 1 .. Served(s) : add[i].msg = Batch(cursor[s] + i)
  <2>1. \A i \in 1 .. Served(s) : batches[i] = Batch(cursor[s] + i)
    OBVIOUS
  <2>. HIDE DEF batches
  <2>. QED BY <1>2, <2>1, ToSays
<1>. HIDE DEF add
<1>4. ASSUME NEW n \in 0 .. Served(s)
      PROVE  Stream(controls, cursor[s]) \cup Said(add, n) = Stream(controls, cursor[s] + n)
  <2>1. Said(add, n) = {Batch(cursor[s] + i) : i \in 1 .. n}
    BY <1>1, <1>3 DEF Said
  <2>2. 1 .. cursor[s] + n = 1 .. cursor[s] \cup {cursor[s] + i : i \in 1 .. n}
    <3>1. ASSUME NEW j \in 1 .. cursor[s] + n, j > cursor[s]
          PROVE  j \in {cursor[s] + i : i \in 1 .. n}
      <4>1. j - cursor[s] \in 1 .. n /\ j = cursor[s] + (j - cursor[s])
        BY <1>1, <3>1
      <4>. QED BY <4>1
    <3>. QED BY <1>1, <3>1
  <2>. QED BY <2>1, <2>2 DEF Stream
<1>5. ASSUME NEW i \in 1 .. Served(s)
      PROVE  Follows(add[i].msg, Stream(controls, cursor[s]) \cup Said(add, i - 1))
  <2>1. i - 1 \in 0 .. Served(s) /\ cursor[s] + (i - 1) \in Nat /\ cursor[s] + i = (cursor[s] + (i - 1)) + 1
    BY <1>1
  <2>2. Follows(Batch((cursor[s] + (i - 1)) + 1), Stream(controls, cursor[s] + (i - 1)))
    BY <1>1, <2>1, StreamGrows
  <2>. QED BY <1>3, <1>4, <2>1, <2>2
<1>6. Stream(controls, cursor[s]) \cup Said(add, Served(s)) = Stream(controls, cursor[s] + Served(s))
  BY <1>1, <1>4
<1>. QED BY <1>3, <1>5, <1>6 DEF Adds, add

(* A control message is the next one.                                                   *)
LEMMA ControlAdds ==
  ASSUME TypeOK, NEW s \in Slots, controls < MaxControls
  PROVE  Adds(To(s, << Control(controls + 1) >>), conn[s],
              Stream(controls, cursor[s]), Stream(controls + 1, cursor[s]))
<1>. DEFINE messages == << Control(controls + 1) >>
            add == To(s, messages)
<1>1. controls \in Nat /\ cursor[s] \in Nat /\ controls + 1 \in 1 .. MaxControls
  BY NetworkAssumption DEF TypeOK
<1>2. /\ messages \in Seq(Messages) /\ Len(messages) = 1
      /\ messages[1] = Control(controls + 1)
  BY <1>1 DEF Messages
<1>. HIDE DEF messages
<1>3. Len(add) = 1 /\ AllFor(add, conn[s]) /\ add[1].msg = Control(controls + 1)
  BY <1>2, ToSays
<1>. HIDE DEF add
<1>4. Said(add, 1) = {Control(controls + 1)} /\ Said(add, 1 - 1) = {}
  BY <1>3 DEF Said
<1>5. /\ Follows(Control(controls + 1), Stream(controls, cursor[s]))
      /\ Stream(controls + 1, cursor[s]) = Stream(controls, cursor[s]) \cup {Control(controls + 1)}
  BY <1>1, StreamGrows
<1>6. Adds(add, conn[s], Stream(controls, cursor[s]), Stream(controls + 1, cursor[s]))
  BY <1>3, <1>4, <1>5 DEF Adds
<1>. QED BY <1>6 DEF add, messages

-----------------------------------------------------------------------------
(* What a connection has been and is going to be sent.                      *)

(* What a slot's connection is sent in all, if it stays.                                *)
Sent(s) == received[conn[s]] \o outQueue[s]

(* How far the manager is with a slot.                                                  *)
Reached(s) == IF s \in served THEN Stream(controls, cursor[s]) ELSE {}

(* That is whole, and as much as the manager thinks.                                    *)
SentIsWhole(s) ==
  /\ IsWhole(Sent(s), conn[s])
  /\ Told(Sent(s), conn[s], Len(Sent(s))) = Reached(s)

Streams == \A s \in Slots : status[s] = "connected" => SentIsWhole(s)

OneSlotEach == \A s, r \in Slots : conn[s] = conn[r] /\ conn[s] # 0 => s = r

NothingFor(list, c) == \A i \in 1 .. Len(list) : list[i].for # c

(* Nothing is queued for, or sent to, a connection that is not made, or that the thread *)
(* has not heard of.                                                                    *)
Fresh ==
  /\ \A c \in Conns : c > made => received[c] = << >> /\ \A s \in Slots : NothingFor(outQueue[s], c)
  /\ \A s \in Slots : status[s] = "succeeded" =>
       received[conn[s]] = << >> /\ NothingFor(outQueue[s], conn[s])

StreamInv == Streams /\ OneSlotEach /\ Fresh /\ StreamIsWhole

(* A slot in use has a connection that was made, and lists for it.                      *)
LEMMA UsedSlot ==
  ASSUME IInv, NEW s \in Slots, status[s] # "free"
  PROVE  /\ conn[s] \in Conns /\ conn[s] <= made
         /\ received[conn[s]] \in Seq(Packets) /\ outQueue[s] \in Seq(Packets)
         /\ Sent(s) \in Seq(Packets)
<1>1. conn[s] \in Conns /\ conn[s] <= made
  BY NetworkAssumption DEF IInv, TypeOK, UsedHasConnection, Conns
<1>2. received[conn[s]] \in Seq(Packets) /\ outQueue[s] \in Seq(Packets)
  BY <1>1 DEF IInv, TypeOK
<1>. QED BY <1>1, <1>2, ConcatProperties DEF Sent

LEMMA InitStreams == Init => StreamInv
<1>. SUFFICES ASSUME Init PROVE StreamInv
  OBVIOUS
<1>1. Len(<< >>) = 0 /\ << >> \in Seq(Packets)
  OBVIOUS
<1>2. Streams /\ OneSlotEach
  BY DEF Init, Streams, OneSlotEach
<1>3. Fresh
  BY DEF Init, Fresh, NothingFor
<1>4. StreamIsWhole
  <2>1. \A c \in Conns : IsWhole(<< >>, c)
    BY DEF IsWhole
  <2>. QED BY <2>1 DEF Init, StreamIsWhole
<1>. QED BY <1>2, <1>3, <1>4 DEF StreamInv

(* What the streams are about does not change: most of a frame.                         *)
LEMMA QuietKeepsStreams ==
  ASSUME StreamInv,
         UNCHANGED << conn, status, made, received, outQueue, served, cursor, controls >>
  PROVE  StreamInv'
<1>1. ASSUME NEW s \in Slots PROVE Sent(s)' = Sent(s) /\ Reached(s)' = Reached(s)
  BY DEF Sent, Reached
<1>2. Streams'
  BY <1>1 DEF StreamInv, Streams, SentIsWhole
<1>3. OneSlotEach'
  BY DEF StreamInv, OneSlotEach
<1>4. Fresh'
  BY DEF StreamInv, Fresh
<1>. QED BY <1>2, <1>3, <1>4 DEF StreamInv, StreamIsWhole

(* A slot gets a new connection: nothing is for that yet.                               *)
LEMMA ConnectKeepsStreams ==
  ASSUME IInv, StreamInv, NEW s \in Slots, Connect(s)
  PROVE  StreamInv'
<1>. USE NetworkAssumption DEF IInv
<1>. DEFINE c == made + 1
<1>1. /\ c \in Conns /\ made' = c /\ made \in Nat
      /\ conn' = [conn EXCEPT ![s] = c] /\ status' = [status EXCEPT ![s] = "succeeded"]
      /\ UNCHANGED << received, outQueue, served, cursor, controls >>
  BY DEF Connect, managed, history, TypeOK, Conns
<1>2. /\ conn'[s] = c /\ status'[s] = "succeeded"
      /\ \A r \in Slots \ {s} : conn'[r] = conn[r] /\ status'[r] = status[r]
      /\ \A r \in Slots : conn[r] \in 0 .. made
  BY <1>1 DEF TypeOK
<1>3. OneSlotEach'
  BY <1>1, <1>2 DEF StreamInv, OneSlotEach
<1>4. Streams'
  <2>. SUFFICES ASSUME NEW r \in Slots, status'[r] = "connected" PROVE SentIsWhole(r)'
    BY DEF Streams
  <2>1. r # s /\ status[r] = "connected" /\ conn'[r] = conn[r]
    BY <1>2
  <2>2. SentIsWhole(r)
    BY <2>1 DEF StreamInv, Streams
  <2>3. Sent(r)' = Sent(r) /\ Reached(r)' = Reached(r)
    BY <1>1, <2>1 DEF Sent, Reached
  <2>. QED BY <2>1, <2>2, <2>3 DEF SentIsWhole
<1>5. Fresh'
  <2>1. \A d \in Conns : d > made' => d > made
    BY <1>1 DEF Conns
  <2>2. received[c] = << >> /\ NothingFor(outQueue[s], c)
    BY <1>1 DEF StreamInv, Fresh
  <2>. QED BY <1>1, <1>2, <2>1, <2>2 DEF StreamInv, Fresh
<1>. QED BY <1>1, <1>3, <1>4, <1>5 DEF StreamInv, StreamIsWhole

(* The status of one slot changes, and with it perhaps its connection and its role: the *)
(* others keep theirs.                                                                  *)
LEMMA SlotChangesKeepStreams ==
  ASSUME IInv, StreamInv, NEW s \in Slots, NEW st \in {"free", "connected", "zombie"},
         status' = [status EXCEPT ![s] = st],
         conn' = conn \/ conn' = [conn EXCEPT ![s] = 0],
         served' = served \/ served' = served \ {s},
         UNCHANGED << made, received, outQueue, cursor, controls >>,
         st = "connected" => status[s] = "succeeded" /\ s \notin served /\ conn' = conn
  PROVE  StreamInv'
<1>. USE NetworkAssumption DEF IInv
<1>1. /\ status'[s] = st
      /\ \A r \in Slots \ {s} :
           conn'[r] = conn[r] /\ status'[r] = status[r] /\ (r \in served' <=> r \in served)
      /\ conn'[s] \in {conn[s], 0}
  BY DEF TypeOK
<1>2. OneSlotEach'
  BY <1>1 DEF StreamInv, OneSlotEach
<1>3. Streams'
  <2>. SUFFICES ASSUME NEW r \in Slots, status'[r] = "connected" PROVE SentIsWhole(r)'
    BY DEF Streams
  <2>1. CASE r # s
    <3>1. SentIsWhole(r) /\ conn'[r] = conn[r]
      BY <1>1, <2>1 DEF StreamInv, Streams
    <3>2. Sent(r)' = Sent(r) /\ Reached(r)' = Reached(r)
      BY <1>1, <2>1 DEF Sent, Reached
    <3>. QED BY <3>1, <3>2 DEF SentIsWhole
  <2>2. CASE r = s
    <3>1. status[s] = "succeeded" /\ s \notin served' /\ conn' = conn
      BY <1>1, <2>2
    <3>2. received[conn[s]] = << >> /\ NothingFor(outQueue[s], conn[s])
      BY <3>1 DEF StreamInv, Fresh
    <3>3. outQueue[s] \in Seq(Packets)
      BY DEF TypeOK
    <3>4. Sent(s)' = outQueue[s] /\ Reached(s)' = {}
      BY <3>1, <3>2, <3>3, ConcatEmptySeq DEF Sent, Reached
    <3>5. IsWhole(outQueue[s], conn[s]) /\ Told(outQueue[s], conn[s], Len(outQueue[s])) = {}
      BY <3>2, <3>3, NothingIsWhole DEF NothingFor
    <3>. QED BY <2>2, <3>1, <3>4, <3>5 DEF SentIsWhole
  <2>. QED BY <2>1, <2>2
<1>4. Fresh'
  BY <1>1 DEF StreamInv, Fresh
<1>. QED BY <1>2, <1>3, <1>4 DEF StreamInv, StreamIsWhole

(* Packets are queued for slots in use, each as much as the manager then thinks.        *)
LEMMA QueuesKeepStreams ==
  ASSUME IInv, StreamInv, UNCHANGED << conn, status, made, received >>,
         \A s \in Slots :
           \/ outQueue'[s] = outQueue[s] /\ Reached(s)' = Reached(s)
           \/ /\ status[s] # "free" /\ status[s] # "succeeded"
              /\ \E add \in Seq(Packets) :
                   outQueue'[s] = outQueue[s] \o add /\ Adds(add, conn[s], Reached(s), Reached(s)')
  PROVE  StreamInv'
<1>1. OneSlotEach'
  BY DEF StreamInv, OneSlotEach
<1>2. ASSUME NEW s \in Slots, status[s] = "connected" PROVE SentIsWhole(s)'
  <2>1. SentIsWhole(s)
    BY <1>2 DEF StreamInv, Streams
  <2>2. CASE outQueue'[s] = outQueue[s] /\ Reached(s)' = Reached(s)
    <3>1. Sent(s)' = Sent(s)
      BY <2>2 DEF Sent
    <3>. QED BY <2>1, <2>2, <3>1 DEF SentIsWhole
  <2>3. ASSUME NEW add \in Seq(Packets),
               outQueue'[s] = outQueue[s] \o add, Adds(add, conn[s], Reached(s), Reached(s)')
        PROVE  SentIsWhole(s)'
    <3>1. received[conn[s]] \in Seq(Packets) /\ outQueue[s] \in Seq(Packets) /\ Sent(s) \in Seq(Packets)
      BY <1>2, UsedSlot
    <3>2. Sent(s)' = Sent(s) \o add
      <4>1. \A a, b, d \in Seq(Packets) : (a \o b) \o d = a \o (b \o d)
        BY ConcatAssociative
      <4>2. (received[conn[s]] \o outQueue[s]) \o add = received[conn[s]] \o (outQueue[s] \o add)
        BY <3>1, <4>1
      <4>. QED BY <2>3, <4>2 DEF Sent
    <3>3. /\ IsWhole(Sent(s) \o add, conn[s])
          /\ Told(Sent(s) \o add, conn[s], Len(Sent(s) \o add)) = Reached(s)'
      BY <2>1, <2>3, <3>1, WholeAndMore DEF SentIsWhole
    <3>. QED BY <3>2, <3>3 DEF SentIsWhole
  <2>. QED BY <2>2, <2>3
<1>3. ASSUME NEW s \in Slots, NEW c \in Conns, NothingFor(outQueue[s], c), status[s] # "free" => c # conn[s]
      PROVE  NothingFor(outQueue[s], c)'
  <2>1. CASE outQueue'[s] = outQueue[s]
    BY <1>3, <2>1 DEF NothingFor
  <2>2. ASSUME NEW add \in Seq(Packets), status[s] # "free",
               outQueue'[s] = outQueue[s] \o add, Adds(add, conn[s], Reached(s), Reached(s)')
        PROVE  NothingFor(outQueue[s], c)'
    <3>1. outQueue[s] \in Seq(Packets)
      BY DEF IInv, TypeOK
    <3>2. \A i \in 1 .. Len(add) : add[i].for # c
      BY <1>3, <2>2 DEF Adds, AllFor
    <3>3. /\ Len(outQueue'[s]) = Len(outQueue[s]) + Len(add)
          /\ \A i \in 1 .. Len(outQueue[s]) : outQueue'[s][i] = outQueue[s][i]
          /\ \A i \in 1 .. Len(add) : outQueue'[s][Len(outQueue[s]) + i] = add[i]
      BY <2>2, <3>1, ConcatProperties
    <3>. SUFFICES ASSUME NEW i \in 1 .. Len(outQueue'[s]) PROVE outQueue'[s][i].for # c
      BY DEF NothingFor
    <3>4. CASE i <= Len(outQueue[s])
      BY <1>3, <3>1, <3>3, <3>4 DEF NothingFor
    <3>5. CASE i > Len(outQueue[s])
      <4>1. i - Len(outQueue[s]) \in 1 .. Len(add) /\ outQueue'[s][i] = add[i - Len(outQueue[s])]
        BY <3>1, <3>3, <3>5
      <4>. QED BY <3>2, <4>1
    <3>6. i <= Len(outQueue[s]) \/ i > Len(outQueue[s])
      BY <3>1
    <3>. QED BY <3>4, <3>5, <3>6
  <2>. QED BY <2>1, <2>2
<1>4. Fresh'
  <2>1. ASSUME NEW c \in Conns, c > made PROVE \A s \in Slots : NothingFor(outQueue[s], c)'
    <3>. SUFFICES ASSUME NEW s \in Slots PROVE NothingFor(outQueue[s], c)'
      OBVIOUS
    <3>1. NothingFor(outQueue[s], c)
      BY <2>1 DEF StreamInv, Fresh
    <3>2. status[s] # "free" => c # conn[s]
      BY <2>1, UsedSlot, NetworkAssumption DEF IInv, TypeOK, Conns
    <3>. QED BY <1>3, <3>1, <3>2
  <2>2. ASSUME NEW s \in Slots, status[s] = "succeeded" PROVE outQueue'[s] = outQueue[s]
    BY <2>2
  <2>3. /\ \A c \in Conns : c > made => received[c] = << >>
        /\ \A s \in Slots : status[s] = "succeeded" =>
             received[conn[s]] = << >> /\ NothingFor(outQueue[s], conn[s])
    BY DEF StreamInv, Fresh
  <2>. QED BY <2>1, <2>2, <2>3 DEF Fresh
<1>. QED BY <1>1, <1>2, <1>4 DEF StreamInv, Streams, StreamIsWhole

(* A slot that is served is in use, and not new.                                        *)
LEMMA ServedIsInUse ==
  ASSUME IInv, NEW s \in pending \cup served
  PROVE  /\ s \in Slots /\ conn[s] # 0
         /\ status[s] # "free" /\ status[s] # "succeeded"
<1>1. s \in Slots /\ s # None
  BY NetworkAssumption DEF IInv, TypeOK
<1>2. status[s] \in {"connected", "zombie"}
  BY <1>1 DEF IInv, OneRole
<1>. QED BY <1>1, <1>2 DEF IInv, UsedHasConnection

LEMMA PromotePendingKeepsStreams ==
  ASSUME IInv, StreamInv, NEW s \in Slots, PromotePending(s)
  PROVE  StreamInv'
<1>. USE NetworkAssumption DEF IInv
<1>0. UNCHANGED << conn, status, made, received, controls >>
  BY DEF PromotePending, enet, history
<1>1. CASE UNCHANGED << served, cursor, outQueue >>
  BY <1>0, <1>1, QuietKeepsStreams
<1>2. CASE /\ s \in pending /\ served' = served \cup {s} /\ cursor' = [cursor EXCEPT ![s] = 0]
           /\ outQueue' = [outQueue EXCEPT ![s] = @ \o Greeting(s)]
  <2>1. /\ s \notin served /\ conn[s] # 0 /\ status[s] # "free" /\ status[s] # "succeeded"
    BY <1>2, ServedIsInUse DEF OneRole
  <2>2. Reached(s) = {} /\ Reached(s)' = Stream(controls, 0)
    BY <1>0, <1>2, <2>1 DEF Reached, TypeOK
  <2>3. Greeting(s) \in Seq(Packets) /\ Adds(Greeting(s), conn[s], Reached(s), Reached(s)')
    BY <2>1, <2>2, GreetingIsPackets, GreetingAdds
  <2>4. outQueue'[s] = outQueue[s] \o Greeting(s)
    BY <1>2 DEF TypeOK
  <2>5. ASSUME NEW r \in Slots \ {s}
        PROVE  outQueue'[r] = outQueue[r] /\ Reached(r)' = Reached(r)
    BY <1>0, <1>2 DEF TypeOK, Reached
  <2>. QED BY <1>0, <2>1, <2>3, <2>4, <2>5, QueuesKeepStreams
<1>. QED BY <1>1, <1>2 DEF PromotePending, Promoted

LEMMA FrameStepSpectatorsKeepsStreams ==
  ASSUME IInv, StreamInv, FrameStepSpectators
  PROVE  StreamInv'
<1>. USE NetworkAssumption DEF IInv
<1>. DEFINE batches(s) == To(s, [i \in 1 .. Served(s) |-> Batch(cursor[s] + i)])
<1>1. UNCHANGED << conn, status, made, received, controls, served >>
  BY DEF FrameStepSpectators, enet, history
<1>2. ASSUME NEW s \in served
      PROVE  /\ s \in Slots /\ status[s] # "free" /\ status[s] # "succeeded"
             /\ outQueue'[s] = outQueue[s] \o batches(s)
             /\ batches(s) \in Seq(Packets)
             /\ Adds(batches(s), conn[s], Reached(s), Reached(s)')
  <2>1. s \in Slots /\ conn[s] # 0 /\ status[s] # "free" /\ status[s] # "succeeded"
    BY ServedIsInUse
  <2>2. outQueue'[s] = outQueue[s] \o batches(s) /\ cursor'[s] = cursor[s] + Served(s)
    BY <2>1 DEF FrameStepSpectators
  <2>3. batches(s) \in Seq(Packets)
    BY <2>1, BatchesArePackets
  <2>4. Reached(s) = Stream(controls, cursor[s]) /\ Reached(s)' = Stream(controls, cursor[s] + Served(s))
    BY <1>1, <2>2 DEF Reached
  <2>5. Adds(batches(s), conn[s], Stream(controls, cursor[s]), Stream(controls, cursor[s] + Served(s)))
    BY <2>1, BatchesAdd
  <2>. QED BY <2>1, <2>2, <2>3, <2>4, <2>5
<1>3. ASSUME NEW s \in Slots \ served
      PROVE  outQueue'[s] = outQueue[s] /\ Reached(s)' = Reached(s)
  BY <1>1 DEF FrameStepSpectators, Reached
<1>. HIDE DEF batches
<1>. QED BY <1>1, <1>2, <1>3, QueuesKeepStreams

LEMMA ArchiveControlKeepsStreams ==
  ASSUME IInv, StreamInv, ArchiveControl
  PROVE  StreamInv'
<1>. USE NetworkAssumption DEF IInv
<1>. DEFINE add(s) == To(s, << Control(controls + 1) >>)
<1>1. /\ UNCHANGED << conn, status, made, received, served, cursor >>
      /\ controls' = controls + 1 /\ controls < MaxControls
  BY DEF ArchiveControl, enet
<1>2. ASSUME NEW s \in served
      PROVE  /\ s \in Slots /\ status[s] # "free" /\ status[s] # "succeeded"
             /\ outQueue'[s] = outQueue[s] \o add(s)
             /\ add(s) \in Seq(Packets)
             /\ Adds(add(s), conn[s], Reached(s), Reached(s)')
  <2>1. s \in Slots /\ conn[s] # 0 /\ status[s] # "free" /\ status[s] # "succeeded"
    BY ServedIsInUse
  <2>2. outQueue'[s] = outQueue[s] \o add(s)
    BY <2>1 DEF ArchiveControl
  <2>3. add(s) \in Seq(Packets)
    <3>1. controls + 1 \in 1 .. MaxControls
      BY <1>1 DEF TypeOK
    <3>2. << Control(controls + 1) >> \in Seq(Messages)
      BY <3>1 DEF Messages
    <3>. QED BY <2>1, <3>2, ToIsPackets
  <2>4. Reached(s) = Stream(controls, cursor[s]) /\ Reached(s)' = Stream(controls + 1, cursor[s])
    BY <1>1 DEF Reached
  <2>5. Adds(add(s), conn[s], Stream(controls, cursor[s]), Stream(controls + 1, cursor[s]))
    BY <1>1, <2>1, ControlAdds
  <2>. QED BY <2>1, <2>2, <2>3, <2>4, <2>5
<1>3. ASSUME NEW s \in Slots \ served
      PROVE  outQueue'[s] = outQueue[s] /\ Reached(s)' = Reached(s)
  BY <1>1 DEF ArchiveControl, Reached
<1>. HIDE DEF add
<1>. QED BY <1>1, <1>2, <1>3, QueuesKeepStreams

(* The connections of connected slots are sent what is queued for them, and the queues  *)
(* are empty: who has not a connected slot is sent nothing.                             *)
LEMMA FlushKeepsStreams ==
  ASSUME IInv, StreamInv, Flush
  PROVE  StreamInv'
<1>. USE NetworkAssumption DEF IInv
<1>. DEFINE mine(c) == {s \in Slots : conn[s] = c /\ status[s] = "connected"}
<1>1. /\ UNCHANGED << conn, status, made, served, cursor, controls >>
      /\ \A s \in Slots : outQueue'[s] = << >>
      /\ \A c \in Conns : received'[c] =
           IF mine(c) = {} THEN received[c] ELSE received[c] \o outQueue[CHOOSE s \in mine(c) : TRUE]
  BY DEF Flush, enet, history
<1>2. ASSUME NEW s \in Slots, status[s] = "connected"
      PROVE  conn[s] \in Conns /\ received'[conn[s]] = Sent(s)
  <2>1. conn[s] \in Conns /\ conn[s] # 0
    BY <1>2, UsedSlot DEF Conns
  <2>2. mine(conn[s]) = {s}
    BY <1>2, <2>1 DEF StreamInv, OneSlotEach
  <2>3. mine(conn[s]) # {} /\ (CHOOSE r \in mine(conn[s]) : TRUE) = s
    BY <2>2
  <2>. HIDE DEF mine
  <2>. QED BY <1>1, <2>1, <2>3 DEF Sent
<1>3. ASSUME NEW c \in Conns, \A s \in Slots : conn[s] = c => status[s] # "connected"
      PROVE  received'[c] = received[c]
  BY <1>1, <1>3
<1>4. Streams'
  <2>. SUFFICES ASSUME NEW s \in Slots, status[s] = "connected" PROVE SentIsWhole(s)'
    BY <1>1 DEF Streams
  <2>1. Sent(s)' = Sent(s) \o << >>
    BY <1>1, <1>2 DEF Sent
  <2>2. Sent(s) \in Seq(Packets)
    BY UsedSlot
  <2>3. Sent(s)' = Sent(s)
    BY <2>1, <2>2, ConcatEmptySeq
  <2>4. Reached(s)' = Reached(s)
    BY <1>1 DEF Reached
  <2>5. SentIsWhole(s)
    BY DEF StreamInv, Streams
  <2>. QED BY <1>1, <2>3, <2>4, <2>5 DEF SentIsWhole
<1>5. StreamIsWhole'
  <2>. SUFFICES ASSUME NEW c \in Conns PROVE IsWhole(received'[c], c)
    BY DEF StreamIsWhole
  <2>1. CASE \A s \in Slots : conn[s] = c => status[s] # "connected"
    BY <1>3, <2>1 DEF StreamInv, StreamIsWhole
  <2>2. ASSUME NEW s \in Slots, conn[s] = c, status[s] = "connected"
        PROVE  IsWhole(received'[c], c)
    BY <1>2, <2>2 DEF StreamInv, Streams, SentIsWhole
  <2>. QED BY <2>1, <2>2
<1>6. Fresh'
  <2>1. ASSUME NEW c \in Conns, c > made PROVE received'[c] = << >>
    <3>1. \A s \in Slots : conn[s] # c
      BY <2>1 DEF TypeOK, Conns
    <3>. QED BY <1>3, <2>1, <3>1 DEF StreamInv, Fresh
  <2>2. ASSUME NEW s \in Slots, status[s] = "succeeded" PROVE received'[conn[s]] = << >>
    <3>1. conn[s] \in Conns /\ conn[s] # 0
      BY <2>2, UsedSlot DEF Conns
    <3>2. \A r \in Slots : conn[r] = conn[s] => status[r] # "connected"
      BY <2>2, <3>1 DEF StreamInv, OneSlotEach
    <3>. QED BY <1>3, <2>2, <3>1, <3>2 DEF StreamInv, Fresh
  <2>3. \A s \in Slots : \A c : NothingFor(outQueue'[s], c)
    BY <1>1 DEF NothingFor
  <2>. QED BY <1>1, <2>1, <2>2, <2>3 DEF Fresh
<1>7. OneSlotEach'
  BY <1>1 DEF StreamInv, OneSlotEach
<1>. QED BY <1>4, <1>5, <1>6, <1>7 DEF StreamInv

(* The thread takes a slot's connection in or out.                                      *)
LEMMA TakenKeepsStreams ==
  ASSUME IInv, StreamInv, TakeConnect \/ TakeDisconnect
  PROVE  StreamInv'
<1>. USE NetworkAssumption DEF IInv
<1>. DEFINE s == Head(dispatch)
<1>1. CASE TakeConnect
  <2>1. s \in Slots /\ status[s] = "succeeded" /\ s \notin served
    <3>1. s \in Slots /\ status[s] = "succeeded"
      BY <1>1 DEF TakeConnect, TypeOK
    <3>. QED BY <3>1, ServedIsInUse
  <2>2. \/ status' = [status EXCEPT ![s] = "connected"] /\ conn' = conn
        \/ status' = [status EXCEPT ![s] = "free"] /\ conn' = [conn EXCEPT ![s] = 0]
    BY <1>1 DEF TakeConnect
  <2>3. UNCHANGED << made, received, served, outQueue, cursor, controls >>
    BY <1>1 DEF TakeConnect, history
  <2>. HIDE DEF s
  <2>. QED BY <2>1, <2>2, <2>3, SlotChangesKeepStreams
<1>2. CASE TakeDisconnect
  <2>1. s \in Slots
    BY <1>2 DEF TakeDisconnect, TypeOK
  <2>2. /\ status' = [status EXCEPT ![s] = "free"] /\ conn' = [conn EXCEPT ![s] = 0]
        /\ UNCHANGED << made, received, outQueue, cursor, controls >>
    BY <1>2 DEF TakeDisconnect, history
  <2>3. served' = served \/ served' = served \ {s}
    BY <1>2 DEF TakeDisconnect, Erased
  <2>. HIDE DEF s
  <2>. QED BY <2>1, <2>2, <2>3, SlotChangesKeepStreams
<1>. QED BY <1>1, <1>2

LEMMA LeaveKeepsStreams ==
  ASSUME IInv, StreamInv, NEW s \in Slots, Leave(s)
  PROVE  StreamInv'
<1>1. /\ status' = [status EXCEPT ![s] = "zombie"]
      /\ UNCHANGED << conn, made, received, served, outQueue, cursor, controls >>
  BY DEF Leave, managed, history
<1>. QED BY <1>1, SlotChangesKeepStreams

(* A step that queues nothing, and changes no slot's connection.                        *)
LEMMA QuietSteps ==
  ASSUME StreamInv,
         \/ \E s \in Slots : Expire(s)
         \/ InitSpectatorManager \/ ArchiveStep \/ ListPending \/ EndFrame
         \/ UNCHANGED vars
  PROVE  StreamInv'
<1>1. UNCHANGED << conn, status, made, received, outQueue, served, cursor, controls >>
  BY DEF Expire, InitSpectatorManager, ArchiveStep, ListPending, EndFrame, vars,
         enet, managed, history, game
<1>. QED BY <1>1, QuietKeepsStreams

(* "a spectator joining at ANY moment can replay from session start"                    *)
(* (spectator_manager.hpp:199), for any number of slots, connections, batches and       *)
(* control messages: whatever the two threads do in between, what a connection has been *)
(* sent is first what was queued for its slot's last user, which is not meant for it,   *)
(* and then the configuration and every control message and every batch once, in order. *)
THEOREM StreamsAreWhole == Spec => []StreamIsWhole
<1>1. Init => IInv /\ StreamInv
  BY InitEstablishes, InitStreams
<1>2. (IInv /\ StreamInv) /\ [Next]_vars => (IInv /\ StreamInv)'
  <2>. SUFFICES ASSUME IInv, StreamInv, [Next]_vars PROVE StreamInv'
    BY StepPreserves
  <2>1. ASSUME NEW s \in Slots, Connect(s) PROVE StreamInv'
    BY <2>1, ConnectKeepsStreams
  <2>2. ASSUME NEW s \in Slots, Leave(s) PROVE StreamInv'
    BY <2>2, LeaveKeepsStreams
  <2>3. CASE TakeConnect \/ TakeDisconnect
    BY <2>3, TakenKeepsStreams
  <2>4. CASE Flush
    BY <2>4, FlushKeepsStreams
  <2>5. ASSUME NEW s \in Slots, PromotePending(s) PROVE StreamInv'
    BY <2>5, PromotePendingKeepsStreams
  <2>6. CASE FrameStepSpectators
    BY <2>6, FrameStepSpectatorsKeepsStreams
  <2>7. CASE ArchiveControl
    BY <2>7, ArchiveControlKeepsStreams
  <2>8. CASE \/ \E s \in Slots : Expire(s)
             \/ InitSpectatorManager \/ ArchiveStep \/ ListPending \/ EndFrame
             \/ UNCHANGED vars
    BY <2>8, QuietSteps
  <2>. QED BY <2>1, <2>2, <2>3, <2>4, <2>5, <2>6, <2>7, <2>8 DEF Next, Frame
<1>3. StreamInv => StreamIsWhole
  BY DEF StreamInv
<1>. QED BY <1>1, <1>2, <1>3, PTL DEF Spec
=============================================================================
