------------------------------ MODULE Network -------------------------------
(***************************************************************************)
(* Who is at the other end: the network thread of a host's game takes      *)
(* ENet's connections in and out, for the first of them keeps `peer_', and *)
(* hands the others to the spectator manager, which the game thread calls  *)
(* once per frame.  Both threads are in the manager, under _outMutex: each *)
(* action below is one critical section, or what one thread does between   *)
(* two of them.                                                            *)
(*                                                                         *)
(* A slot is an ENetPeer: ENet gives it to a new connection once the event *)
(* that ended the one before has been taken.  Packets queued for a slot go *)
(* to whoever has it when they are sent.  Connections are numbered in the  *)
(* order they are made.  What a batch and a control message hold is in     *)
(* module Spectate; here they are numbers.                                 *)
(*                                                                         *)
(* Code: NetworkThread::loop (netplay/network_thread.cpp),                 *)
(* initSpectatorManager (netplay/connector.cpp), SpectatorManager          *)
(* (spec/spectator_manager.cpp), step 2-pre of frameStep                   *)
(* (entry/dll_main.cpp).                                                   *)
(***************************************************************************)
EXTENDS Naturals, Sequences, FiniteSets

CONSTANTS
  Slots,        \* ENetPeers of the host
  MaxRoot,      \* MAX_ROOT_SPECTATORS
  LiveTail,     \* kLiveTailBatches
  Burst,        \* kBurstBatches
  PerTick,      \* kTailBatchesPerTick
  MaxArchive,   \* bound: batches in the archive
  MaxControls,  \* bound: control messages in the archive
  MaxConns      \* bound: connections made

None == "none"

ASSUME NetworkAssumption ==
  /\ IsFiniteSet(Slots) /\ None \notin Slots
  /\ MaxRoot \in Nat /\ LiveTail \in Nat
  /\ Burst \in Nat \ {0} /\ PerTick \in Nat \ {0}
  /\ MaxArchive \in Nat /\ MaxControls \in Nat /\ MaxConns \in Nat

Conns == 1 .. MaxConns

VARIABLES
  conn,         \* the connection that has a slot, 0 for none
  status,       \* what ENet knows of a slot
  dispatch,     \* ENet's dispatch queue: slots with an event to be taken
  made,         \* connections made so far
  peer,         \* peer_, the opponent's slot, or None
  manager,      \* the thread has been given the spectator manager
  pending,      \* _pending: slots
  served,       \* _spectatorMap: slots
  cursor,       \* archiveCursor of a served slot
  archive,      \* batches in _archive
  controls,     \* messages in _rngArchive and _menuArchive
  outQueue,     \* _outQueue, by slot: messages, with the connection each is meant for
  pc,           \* where the game thread is in its frame
  toPromote,    \* promoteAllPending's list of slots
  received      \* history: what a connection has been sent, and whom it was meant for

enet == << conn, status, dispatch, made >>
managed == << pending, served, cursor, outQueue >>
history == << archive, controls >>
game == << pc, toPromote >>
vars == << enet, peer, manager, managed, history, game, received >>

Config == [type |-> "config", n |-> 0]
Control(n) == [type |-> "control", n |-> n]
Batch(n) == [type |-> "batch", n |-> n]

To(s, messages) == [i \in DOMAIN messages |-> [for |-> conn[s], msg |-> messages[i]]]

Init ==
  /\ conn = [s \in Slots |-> 0] /\ status = [s \in Slots |-> "free"]
  /\ dispatch = << >> /\ made = 0
  /\ peer = None /\ manager = FALSE
  /\ pending = {} /\ served = {} /\ cursor = [s \in Slots |-> 0]
  /\ archive = 0 /\ controls = 0
  /\ outQueue = [s \in Slots |-> << >>]
  /\ pc = "archive" /\ toPromote = {}
  /\ received = [c \in Conns |-> << >>]

-----------------------------------------------------------------------------
(* ENet *)

(* A client's handshake is done: it has a free slot and waits for the event to be taken. *)
Connect(s) ==
  /\ made < MaxConns
  /\ status[s] = "free"
  /\ made' = made + 1
  /\ conn' = [conn EXCEPT ![s] = made + 1]
  /\ status' = [status EXCEPT ![s] = "succeeded"]
  /\ dispatch' = Append(dispatch, s)
  /\ UNCHANGED << peer, manager, managed, history, game, received >>

(* A client leaves, or is not heard for too long.  A slot is queued once. *)
Leave(s) ==
  /\ status[s] \in {"succeeded", "connected"}
  /\ status' = [status EXCEPT ![s] = "zombie"]
  /\ dispatch' = IF status[s] = "connected" THEN Append(dispatch, s) ELSE dispatch
  /\ UNCHANGED << conn, made, peer, manager, managed, history, game, received >>

-----------------------------------------------------------------------------
(* The network thread *)

(* onSpectatorConnect *)
SpectatorConnects(s) ==
  pending' = IF s \in served \cup pending THEN pending ELSE pending \cup {s}

(* CONNECT: the first one is the opponent, another one a spectator.  Without a manager  *)
(* it is sent away with no word (enet_peer_reset).                                      *)
TakeConnect ==
  /\ dispatch # << >> /\ status[Head(dispatch)] = "succeeded"
  /\ dispatch' = Tail(dispatch)
  /\ LET s == Head(dispatch)
     IN  \/ /\ peer = None
            /\ peer' = s
            /\ status' = [status EXCEPT ![s] = "connected"]
            /\ UNCHANGED << conn, pending >>
         \/ /\ peer # None /\ manager
            /\ SpectatorConnects(s)
            /\ status' = [status EXCEPT ![s] = "connected"]
            /\ UNCHANGED << conn, peer >>
         \/ /\ peer # None /\ ~ manager
            /\ status' = [status EXCEPT ![s] = "free"]
            /\ conn' = [conn EXCEPT ![s] = 0]
            /\ UNCHANGED << peer, pending >>
  /\ UNCHANGED << made, manager, served, cursor, outQueue, history, game, received >>

(* onSpectatorDisconnect.  Packets queued for the slot stay queued. *)
Erased(s) ==
  /\ pending' = pending \ {s}
  /\ served' = served \ {s}

(* DISCONNECT: the slot is free again. *)
TakeDisconnect ==
  /\ dispatch # << >> /\ status[Head(dispatch)] = "zombie"
  /\ dispatch' = Tail(dispatch)
  /\ LET s == Head(dispatch)
     IN  /\ status' = [status EXCEPT ![s] = "free"]
         /\ conn' = [conn EXCEPT ![s] = 0]
         /\ \/ s = peer /\ peer' = None /\ UNCHANGED << pending, served >>
            \/ s # peer /\ manager /\ Erased(s) /\ UNCHANGED peer
            \/ s # peer /\ ~ manager /\ UNCHANGED << peer, pending, served >>
  /\ UNCHANGED << made, manager, cursor, outQueue, history, game, received >>

(* step: who has waited for DEFAULT_PENDING_TIMEOUT_MS is forgotten, not disconnected. *)
Expire(s) ==
  /\ manager /\ s \in pending
  /\ pending' = pending \ {s}
  /\ UNCHANGED << enet, peer, manager, served, cursor, outQueue, history, game, received >>

(* The rest of an iteration: what is queued is sent, each to its slot, which takes it if *)
(* it is connected.                                                                     *)
Flush ==
  /\ manager /\ \E s \in Slots : outQueue[s] # << >>
  /\ received' = [c \in Conns |->
       LET mine == {s \in Slots : conn[s] = c /\ status[s] = "connected"}
       IN  IF mine = {} THEN received[c] ELSE received[c] \o outQueue[CHOOSE s \in mine : TRUE]]
  /\ outQueue' = [s \in Slots |-> << >>]
  /\ UNCHANGED << enet, peer, manager, pending, served, cursor, history, game >>

-----------------------------------------------------------------------------
(* The game thread *)

(* connector::start has started the thread; initSpectatorManager comes after it. *)
InitSpectatorManager ==
  /\ ~ manager
  /\ manager' = TRUE
  /\ UNCHANGED << enet, peer, managed, history, game, received >>

(* archiveStep *)
ArchiveStep ==
  /\ manager /\ pc = "archive"
  /\ \E n \in 0 .. MaxArchive - archive : archive' = archive + n
  /\ pc' = "promote"
  /\ UNCHANGED << enet, peer, manager, managed, controls, toPromote, received >>

(* Mutant: nothing is done for spectators unless one is served. *)
Anyone_ServedOnly == served # {}

(* numSpectators() > 0 || numPending() > 0 *)
Anyone == served # {} \/ pending # {}

(* promoteAllPending: the slots are listed, and the lock is let go. *)
ListPending ==
  /\ pc = "promote"
  /\ \/ Anyone /\ pc' = "promoting" /\ toPromote' = pending
     \/ ~ Anyone /\ pc' = "control" /\ UNCHANGED toPromote
  /\ UNCHANGED << enet, peer, manager, managed, history, received >>

(* The configuration and the control history. *)
Greeting(s) == To(s, << Config >> \o [n \in 1 .. controls |-> Control(n)])

(* Mutant: the list is believed. *)
Promoted_NoRecheck(s) ==
  IF Cardinality(served) >= MaxRoot THEN UNCHANGED << served, cursor, outQueue >>
  ELSE /\ served' = served \cup {s}
       /\ cursor' = [cursor EXCEPT ![s] = 0]
       /\ outQueue' = [outQueue EXCEPT ![s] = @ \o Greeting(s)]

(* Mutant: a spectator that joins late starts where the archive ends. *)
Promoted_FromNow(s) ==
  IF s \notin pending \/ Cardinality(served) >= MaxRoot THEN UNCHANGED << served, cursor, outQueue >>
  ELSE /\ served' = served \cup {s}
       /\ cursor' = [cursor EXCEPT ![s] = archive]
       /\ outQueue' = [outQueue EXCEPT ![s] = @ \o Greeting(s)]

(* One more spectator than can be served is let fall: it is connected, and nothing is   *)
(* known of it.  The others are sent the configuration and the control history.         *)
Promoted(s) ==
  IF s \notin pending \/ Cardinality(served) >= MaxRoot THEN UNCHANGED << served, cursor, outQueue >>
  ELSE /\ served' = served \cup {s}
       /\ cursor' = [cursor EXCEPT ![s] = 0]
       /\ outQueue' = [outQueue EXCEPT ![s] = @ \o Greeting(s)]

(* promotePending *)
PromotePending(s) ==
  /\ pc = "promoting" /\ s \in toPromote
  /\ toPromote' = toPromote \ {s}
  /\ Promoted(s)
  /\ pending' = pending \ {s}
  /\ UNCHANGED << enet, peer, manager, history, pc, received >>

(* Batches a spectator is served in one frame. *)
Served(s) ==
  LET backlog == archive - cursor[s]
      budget == IF backlog > LiveTail THEN Burst ELSE PerTick
  IN  IF budget < backlog THEN budget ELSE backlog

(* frameStepSpectators *)
FrameStepSpectators ==
  /\ pc = "promoting" /\ toPromote = {}
  /\ outQueue' = [s \in Slots |->
       IF s \in served
       THEN outQueue[s] \o To(s, [i \in 1 .. Served(s) |-> Batch(cursor[s] + i)])
       ELSE outQueue[s]]
  /\ cursor' = [s \in Slots |-> IF s \in served THEN cursor[s] + Served(s) ELSE cursor[s]]
  /\ pc' = "control"
  /\ UNCHANGED << enet, peer, manager, pending, served, history, toPromote, received >>

(* archiveRngState, archiveMenuIndex: to everyone who is served. *)
ArchiveControl ==
  /\ pc = "control" /\ controls < MaxControls
  /\ controls' = controls + 1
  /\ outQueue' = [s \in Slots |->
       IF s \in served THEN outQueue[s] \o To(s, << Control(controls + 1) >>) ELSE outQueue[s]]
  /\ pc' = "archive"
  /\ UNCHANGED << enet, peer, manager, pending, served, cursor, archive, toPromote, received >>

(* A frame without a control message. *)
EndFrame ==
  /\ pc = "control"
  /\ pc' = "archive"
  /\ UNCHANGED << enet, peer, manager, managed, history, toPromote, received >>

-----------------------------------------------------------------------------
Frame ==
  \/ InitSpectatorManager
  \/ ArchiveStep
  \/ ListPending
  \/ \E s \in Slots : PromotePending(s)
  \/ FrameStepSpectators
  \/ ArchiveControl
  \/ EndFrame

Next ==
  \/ \E s \in Slots : Connect(s)
  \/ \E s \in Slots : Leave(s)
  \/ TakeConnect
  \/ TakeDisconnect
  \/ \E s \in Slots : Expire(s)
  \/ Flush
  \/ Frame

Spec == Init /\ [][Next]_vars

(* Both threads run: enet_host_service comes back after 10 ms at most, and nothing in a *)
(* frame waits for the network thread.  Connections and the clock are free.             *)
FairSpec ==
  /\ Spec
  /\ WF_vars(TakeConnect \/ TakeDisconnect)
  /\ WF_vars(Flush)
  /\ WF_vars(Frame)

-----------------------------------------------------------------------------
(* Properties *)

Messages == {Config} \cup {Control(n) : n \in 1 .. MaxControls} \cup {Batch(n) : n \in 1 .. MaxArchive}

Packets == [for : Conns, msg : Messages]

TypeOK ==
  /\ conn \in [Slots -> 0 .. made]
  /\ status \in [Slots -> {"free", "succeeded", "connected", "zombie"}]
  /\ dispatch \in Seq(Slots) /\ made \in 0 .. MaxConns
  /\ peer \in Slots \cup {None} /\ manager \in BOOLEAN
  /\ pending \in SUBSET Slots /\ served \in SUBSET Slots
  /\ archive \in 0 .. MaxArchive /\ controls \in 0 .. MaxControls
  /\ cursor \in [Slots -> 0 .. archive]
  /\ outQueue \in [Slots -> Seq(Packets)]
  /\ pc \in {"archive", "promote", "promoting", "control"}
  /\ toPromote \in SUBSET Slots
  /\ received \in [Conns -> Seq(Packets)]

(* "If ev.peer == peer_: this is the opponent ... Otherwise: this is a spectator"       *)
(* (network_thread.cpp:483): both threads together never have a slot in two roles, nor  *)
(* in one after ENet has told of its end, and the manager serves no more than it may.   *)
OneRole ==
  /\ pending \cap served = {}
  /\ peer \notin pending \cup served
  /\ \A s \in (pending \cup served \cup {peer}) \ {None} : status[s] \in {"connected", "zombie"}
  /\ Cardinality(served) <= MaxRoot

(* Slots, queues and cursors fit each other, and no slot has two roles.                 *)
Inv == TypeOK /\ OneRole

(* What the first n packets of a list hold for a connection, and the numbers of a type.  *)
Told(list, c, n) == {list[i].msg : i \in {j \in 1 .. n : list[j].for = c}}
Numbers(type, messages) == {m.n : m \in {k \in messages : k.type = type}}

(* The configuration comes before everything else, and a control message or a batch      *)
(* right after all those of its type with a smaller number.                              *)
Follows(m, before) ==
  IF m = Config THEN before = {}
  ELSE Config \in before /\ Numbers(m.type, before) = 1 .. m.n - 1

(* What was meant for somebody else comes first, and what was meant for c is in order.   *)
IsWhole(list, c) ==
  \A i \in DOMAIN list : list[i].for = c =>
    /\ Follows(list[i].msg, Told(list, c, i - 1))
    /\ \A j \in i .. Len(list) : list[j].for = c

(* "a spectator joining at ANY moment can replay from session start"                    *)
(* (spectator_manager.hpp:199): the configuration comes first, then every control       *)
(* message and every batch once, and in order, though the two threads promote, archive, *)
(* forward and drop at the same time and slots change hands.  What was queued for a     *)
(* slot's last user can only come before.                                               *)
StreamIsWhole == \A c \in Conns : IsWhole(received[c], c)

(* The configuration, and so many control messages and batches.                         *)
Stream(n, m) == {Config} \cup {Control(i) : i \in 1 .. n} \cup {Batch(i) : i \in 1 .. m}

Has(slots, c) == \E s \in slots : conn[s] = c
Complete(c) == Told(received[c], c, Len(received[c])) = Stream(controls, archive)

(* Whoever the manager takes in is in the end sent all there is, or is let go: refused,  *)
(* timed out, or gone of itself.                                                        *)
CatchesUp ==
  \A c \in Conns :
    Has(pending \cup served, c) ~> (Complete(c) \/ ~ Has(pending \cup served, c))
=============================================================================
