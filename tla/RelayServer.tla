---------------------------- MODULE RelayServer ----------------------------
(* The signalling relay (server/, Go) and the peers' side of its protocol     *)
(* (src/common/net/relay/relay_client.cpp).  A host registers a room under a  *)
(* code, a client joins it, both are told the match id, send UdpData over UDP *)
(* and are told each other's endpoint.  Every method of RoomManager holds     *)
(* rm.mu from its first line to its last, socket writes included, so each is  *)
(* one step; the goroutines that call them interleave between the steps.      *)
(* A member of Hosts or Clients is one connection: a peer that retries comes  *)
(* back as another one, with the same code.                                   *)
EXTENDS Integers, Sequences, FiniteSets

CONSTANTS
  Hosts, Clients,   \* the connections that register a room, and that join one
  Codes,            \* the room codes in use
  IdSpace,          \* match ids are 1..IdSpace; 2^32 - 1 in the code
  FirstIndex,       \* the counter of match ids when the model starts
  Nobody            \* nil

Conns == Hosts \cup Clients

ASSUME RelayAssumption ==
  /\ IdSpace \in Nat \ {0} /\ FirstIndex \in 0..IdSpace
  /\ Hosts \cap Clients = {}
  /\ Nobody \notin Conns

VARIABLES
  rooms,       \* rm.rooms: the room under each code, or NoRoom
  matchIndex,  \* rm.matchIndex
  handler,     \* handler[c]: how far the goroutine that serves c has come
  asked,       \* asked[c]: the code c registered or joined
  grace,       \* the goroutines that wait to delete a finished room
  inbox,       \* inbox[c]: what was written to c and not yet read
  peer,        \* peer[c]: RelayClient::state_ of the peer behind c
  known,       \* known[c]: its match_id_, 0 before MatchInfo
  endpoint     \* endpoint[c]: its peer_addr_, named by the connection it leads to

serverVars == <<rooms, matchIndex, grace, handler, asked>>
peerVars == <<peer, known, endpoint>>
vars == <<rooms, matchIndex, grace, handler, asked, inbox, peer, known, endpoint>>

Ids == 1..IdSpace
Room == [id : 0..IdSpace, state : {"waiting", "matched", "done"}, host : Hosts,
         client : Clients \cup {Nobody}, told : SUBSET {"host", "client"},
         expired : BOOLEAN]
NoRoom == [id |-> 0, state |-> "none", host |-> Nobody, client |-> Nobody,
           told |-> {}, expired |-> FALSE]
(* told: the sides whose UdpData was forwarded (HostTunSent, ClientTunSent).  *)
(* expired: time.Now().After(Expires).                                        *)

Message(kind, id, from) == [kind |-> kind, id |-> id, from |-> from]
Hosted == Message("Hosted", 0, Nobody)
Error == Message("Error", 0, Nobody)
MatchInfo(id) == Message("MatchInfo", id, Nobody)
TunInfo(id, from) == Message("TunInfo", id, from)

Free(k) == rooms[k] = NoRoom
Side(c) == IF c \in Clients THEN "client" ELSE "host"
Members(r) == {r.host, r.client} \ {Nobody}

(* A write to a connection: one that is open takes it; one whose peer is gone *)
(* reports an error or, while nobody has noticed, swallows it.                *)
WriteOutcomes(c) == IF peer[c] = "closed" THEN BOOLEAN ELSE {TRUE}
Written(box, c, msg) ==
  IF peer[c] = "closed" THEN box ELSE [box EXCEPT ![c] = Append(@, msg)]

Init ==
  /\ rooms = [k \in Codes |-> NoRoom]
  /\ matchIndex = FirstIndex
  /\ handler = [c \in Conns |-> "accept"]
  /\ asked \in [Conns -> Codes]
  /\ grace = {}
  /\ inbox = [c \in Conns |-> <<>>]
  /\ peer = [c \in Conns |-> IF c \in Hosts THEN "WaitingForHosted" ELSE "WaitingForMatchInfo"]
  /\ known = [c \in Conns |-> 0]
  /\ endpoint = [c \in Conns |-> Nobody]

-----------------------------------------------------------------------------
(* The server.                                                                *)

(* Mutant: the counter stays. *)
NextMatchId_Fixed == 1

NextMatchId == LET n == (matchIndex + 1) % (IdSpace + 1) IN IF n = 0 THEN 1 ELSE n

NewRoom(h) == [id |-> 0, state |-> "waiting", host |-> h, client |-> Nobody,
               told |-> {}, expired |-> FALSE]

RegisterHost(h) ==
  LET k == asked[h] IN
  /\ handler[h] = "accept"
  /\ IF Free(k)
     THEN /\ rooms' = [rooms EXCEPT ![k] = NewRoom(h)]
          /\ handler' = [handler EXCEPT ![h] = "reply"]
          /\ UNCHANGED inbox
     ELSE /\ inbox' = Written(inbox, h, Error)
          /\ handler' = [handler EXCEPT ![h] = "done"]
          /\ UNCHANGED rooms
  /\ UNCHANGED <<matchIndex, grace, asked, peerVars>>

(* Hosted is written after RegisterHost has released the lock; a failed write *)
(* removes whatever room is then under the code.                              *)
ReplyHosted(h) ==
  /\ handler[h] = "reply"
  /\ \/ /\ TRUE \in WriteOutcomes(h)
        /\ inbox' = Written(inbox, h, Hosted)
        /\ handler' = [handler EXCEPT ![h] = "wait"]
        /\ UNCHANGED rooms
     \/ /\ FALSE \in WriteOutcomes(h)
        /\ rooms' = [rooms EXCEPT ![asked[h]] = NoRoom]
        /\ handler' = [handler EXCEPT ![h] = "done"]
        /\ UNCHANGED inbox
  /\ UNCHANGED <<matchIndex, grace, asked, peerVars>>

Refuse(c) ==
  /\ inbox' = Written(inbox, c, Error)
  /\ handler' = [handler EXCEPT ![c] = "done"]
  /\ UNCHANGED <<matchIndex>>

(* Mutant: the host's MatchInfo is left to the goroutine of the host.         *)
ToHost_Later(r, id) == inbox
ToHost(r, id) == Written(inbox, r.host, MatchInfo(id))

(* MatchInfo goes to the host, then to the client, under the lock; a write    *)
(* that fails removes the room.                                               *)
JoinClient(c) ==
  LET k == asked[c]  r == rooms[k]  id == NextMatchId IN
  /\ handler[c] = "accept"
  /\ \/ /\ r.state # "waiting" \/ r.expired
        /\ rooms' = [rooms EXCEPT ![k] = IF r.expired THEN NoRoom ELSE r]
        /\ Refuse(c)
     \/ /\ r.state = "waiting" /\ ~r.expired
        /\ matchIndex' = id
        /\ \/ /\ FALSE \in WriteOutcomes(r.host)
              /\ rooms' = [rooms EXCEPT ![k] = NoRoom]
              /\ inbox' = Written(inbox, c, Error)
              /\ handler' = [handler EXCEPT ![c] = "done"]
           \/ /\ TRUE \in WriteOutcomes(r.host) /\ FALSE \in WriteOutcomes(c)
              /\ rooms' = [rooms EXCEPT ![k] = NoRoom]
              /\ inbox' = Written(ToHost(r, id), c, Error)
              /\ handler' = [handler EXCEPT ![c] = "done"]
           \/ /\ TRUE \in WriteOutcomes(r.host) /\ TRUE \in WriteOutcomes(c)
              /\ rooms' = [rooms EXCEPT ![k] =
                    [r EXCEPT !.id = id, !.state = "matched", !.client = c]]
              /\ inbox' = Written(ToHost(r, id), c, MatchInfo(id))
              /\ handler' = [handler EXCEPT ![c] = "wait"]
  /\ UNCHANGED <<grace, asked, peerVars>>

(* A UdpData of c arrives: once c knows its match id it sends one every 50 ms *)
(* and any of them may be late, so one may arrive at any time from then on.   *)
(* It is forwarded once to the opposite side of the room that has its id;     *)
(* when both sides were, a goroutine will delete the room.                    *)
FindByMatchId(id) == {k \in Codes : rooms[k].id = id /\ rooms[k].state \in {"matched", "done"}}

(* Mutant: the room counts as done when one side has been told.               *)
Done_Either(told) == told # {}
Done(told) == told = {"host", "client"}

RecordPeerUdpAddr(c) ==
  /\ known[c] # 0
  /\ \E k \in FindByMatchId(known[c]) :
       LET r == rooms[k]
           opposite == IF c \in Clients THEN r.host ELSE r.client
           told == r.told \cup {Side(c)}
       IN /\ Side(c) \notin r.told
          /\ TRUE \in WriteOutcomes(opposite)
          /\ inbox' = Written(inbox, opposite, TunInfo(r.id, c))
          /\ rooms' = [rooms EXCEPT ![k] = [r EXCEPT !.told = told,
                         !.state = IF Done(told) THEN "done" ELSE @]]
          /\ grace' = IF Done(told) THEN grace \cup {<<k, r.id>>} ELSE grace
  /\ UNCHANGED <<matchIndex, handler, asked, peerVars>>

DeleteIfMatch(k, id) ==
  /\ <<k, id>> \in grace
  /\ grace' = grace \ {<<k, id>>}
  /\ rooms' = [rooms EXCEPT ![k] = IF @.id = id THEN NoRoom ELSE @]
  /\ UNCHANGED <<matchIndex, handler, asked, inbox, peerVars>>

(* The goroutine of a connection that was closed: DeleteIfSame.               *)
(* Mutant: a blind deletion by code.                                          *)
SameRoom_ByCode(k, c) == TRUE
SameRoom(k, c) == c \in Members(rooms[k])
Disconnect(c) ==
  /\ handler[c] = "wait" /\ peer[c] = "closed"
  /\ handler' = [handler EXCEPT ![c] = "done"]
  /\ rooms' = [rooms EXCEPT ![asked[c]] = IF SameRoom(asked[c], c) THEN NoRoom ELSE @]
  /\ UNCHANGED <<matchIndex, grace, asked, inbox, peerVars>>

Elapse(k) ==
  /\ ~Free(k) /\ ~rooms[k].expired
  /\ rooms' = [rooms EXCEPT ![k].expired = TRUE]
  /\ UNCHANGED <<matchIndex, grace, handler, asked, inbox, peerVars>>

(* Mutant: only rooms without a client are cleaned up.                        *)
Stale_WaitingOnly(k) == rooms[k].expired /\ rooms[k].state = "waiting"
Stale(k) == rooms[k].expired

Cleanup ==
  /\ \E k \in Codes : Stale(k)
  /\ rooms' = [k \in Codes |-> IF Stale(k) THEN NoRoom ELSE rooms[k]]
  /\ UNCHANGED <<matchIndex, grace, handler, asked, inbox, peerVars>>

-----------------------------------------------------------------------------
(* The peers: RelayClient::step.                                              *)

(* One message is parsed per step, whatever the state it arrives in.          *)
ParseServerMsg(c) ==
  LET msg == Head(inbox[c]) IN
  /\ peer[c] # "closed" /\ inbox[c] # <<>>
  /\ inbox' = [inbox EXCEPT ![c] = Tail(@)]
  /\ peer' = [peer EXCEPT ![c] = CASE msg.kind = "Hosted" -> "WaitingForMatchInfo"
                                   [] msg.kind = "MatchInfo" -> "WaitingForTunInfo"
                                   [] msg.kind = "TunInfo" -> "HolePunching"
                                   [] msg.kind = "Error" -> "closed"]
  /\ known' = [known EXCEPT ![c] = IF msg.kind = "MatchInfo" THEN msg.id ELSE @]
  /\ endpoint' = [endpoint EXCEPT ![c] = IF msg.kind = "TunInfo" THEN msg.from ELSE @]
  /\ UNCHANGED serverVars

(* It sends UdpData while it waits for TunInfo and while it punches.          *)
SendsUdpData(c) == peer[c] \in {"WaitingForTunInfo", "HolePunching"}

(* A timeout of any state, a socket error, the end of the punch, or the user. *)
Close(c) ==
  /\ peer[c] # "closed"
  /\ peer' = [peer EXCEPT ![c] = "closed"]
  /\ inbox' = [inbox EXCEPT ![c] = <<>>]
  /\ endpoint' = [endpoint EXCEPT ![c] = Nobody]
  /\ UNCHANGED <<serverVars, known>>

Serve(c) ==
  \/ c \in Hosts /\ (RegisterHost(c) \/ ReplyHosted(c))
  \/ c \in Clients /\ JoinClient(c)
  \/ Disconnect(c)
Housekeeping ==
  \/ Cleanup
  \/ \E k \in Codes : Elapse(k)
  \/ \E g \in grace : DeleteIfMatch(g[1], g[2])

Next ==
  \/ Housekeeping
  \/ \E c \in Conns : \/ Serve(c) \/ RecordPeerUdpAddr(c)
                      \/ ParseServerMsg(c) \/ Close(c)

Spec == Init /\ [][Next]_vars

(* The goroutines run, an open peer polls and sends again what was lost, and  *)
(* time passes; nothing makes a peer connect or close.                        *)
Progress(c) ==
  \/ c \in Hosts /\ ReplyHosted(c)
  \/ Disconnect(c) \/ ParseServerMsg(c)
  \/ SendsUdpData(c) /\ RecordPeerUdpAddr(c)

FairSpec == Spec /\ WF_vars(Housekeeping) /\ WF_vars(\E c \in Conns : Progress(c))

-----------------------------------------------------------------------------
(* Properties.                                                                *)

(* Every variable has its type, and a room has a match id exactly once it is  *)
(* matched: 0 stays reserved when the counter wraps round.                    *)
TypeOK ==
  /\ rooms \in [Codes -> Room \cup {NoRoom}]
  /\ \A k \in Codes : rooms[k].state \in {"matched", "done"} <=> rooms[k].id \in Ids
  /\ matchIndex \in 0..IdSpace
  /\ handler \in [Conns -> {"accept", "reply", "wait", "done"}]
  /\ asked \in [Conns -> Codes]
  /\ grace \subseteq Codes \X Ids
  /\ \A c \in Conns : \A i \in DOMAIN inbox[c] :
       inbox[c][i] \in [kind : {"Hosted", "Error", "MatchInfo", "TunInfo"},
                        id : 0..IdSpace, from : Conns \cup {Nobody}]
  /\ peer \in [Conns -> {"WaitingForHosted", "WaitingForMatchInfo",
                         "WaitingForTunInfo", "HolePunching", "closed"}]
  /\ known \in [Conns -> 0..IdSpace]
  /\ endpoint \in [Conns -> Conns \cup {Nobody}]

(* On every connection TunInfo comes after the MatchInfo of the same match,   *)
(* which is what writing both MatchInfos under the lock is for.               *)
MatchInfoFirst ==
  \A c \in Conns : \A i \in DOMAIN inbox[c] : inbox[c][i].kind = "TunInfo" =>
    \/ known[c] = inbox[c][i].id
    \/ \E j \in 1..i - 1 : inbox[c][j] = MatchInfo(inbox[c][i].id)

(* The endpoint a peer is told, once and for all, is that of the other side   *)
(* of its own match, whichever rooms its code and its match id have named.    *)
Matched(c, d) ==
  /\ Side(c) # Side(d) /\ asked[c] = asked[d]
  /\ \A k \in Codes : c \in Members(rooms[k]) => d \in Members(rooms[k])
PeersArePaired ==
  \A c \in Conns :
    /\ \A i \in DOMAIN inbox[c] : LET msg == inbox[c][i] IN
         msg.kind = "TunInfo" =>
           /\ Matched(c, msg.from) /\ known[msg.from] = msg.id
           /\ endpoint[c] = Nobody
           /\ \A j \in DOMAIN inbox[c] : inbox[c][j].kind = "TunInfo" => j = i
    /\ endpoint[c] # Nobody => Matched(c, endpoint[c]) /\ known[endpoint[c]] = known[c]

(* Rooms, codes and match ids fit each other, and so do the peers they bring together.  *)
Inv == TypeOK /\ PeersArePaired

(* A room goes away for a reason of its own - it expired, both its peers were *)
(* told, one of them is gone - and never through a deletion that was put off  *)
(* and meant an earlier room under the same code.  One deletion does not look *)
(* whose room it is: that of a host to which Hosted could not be written.     *)
Removed(k) == ~Free(k) /\ rooms'[k].host # rooms[k].host
JoinFailed(k) == \E c \in Clients : /\ asked[c] = k /\ peer[c] = "closed"
                                    /\ handler[c] = "accept" /\ handler'[c] = "done"
ReplyFailed(k) == \E h \in Hosts : /\ asked[h] = k /\ peer[h] = "closed"
                                   /\ handler[h] = "reply" /\ handler'[h] = "done"
NeverAnothersRoom ==
  [][\A k \in Codes : Removed(k) =>
       \/ rooms[k].expired \/ rooms[k].told = {"host", "client"}
       \/ JoinFailed(k) \/ ReplyFailed(k)
       \/ \E c \in Members(rooms[k]) : peer[c] = "closed"]_vars

(* Two peers that were matched and stay learn each other's endpoints before   *)
(* the room expires, if Hosted was on the host's connection before MatchInfo  *)
(* and no other host of the code is still to be written its Hosted.  (Hosted  *)
(* is written outside the lock: one that comes last sends the host back to    *)
(* WaitingForMatchInfo for good, one that fails removes the room.)            *)
InRoom(h, c) == \E k \in Codes : rooms[k].host = h /\ rooms[k].client = c
HostedFirst(h) ==
  /\ handler[h] = "wait" /\ known[h] = 0
  /\ \A i, j \in DOMAIN inbox[h] :
       inbox[h][i].kind = "MatchInfo" /\ inbox[h][j] = Hosted => j < i
RepliesDone(k) == \A h \in Hosts : asked[h] = k => handler[h] # "reply"
MatchCompletes ==
  \A h \in Hosts, c \in Clients :
    InRoom(h, c) /\ HostedFirst(h) /\ RepliesDone(asked[h]) ~>
    \/ peer[h] = "HolePunching" /\ peer[c] = "HolePunching"
    \/ peer[h] = "closed" \/ peer[c] = "closed"
    \/ \E k \in Codes : rooms[k].host = h /\ rooms[k].expired

(* No room stays for ever: its code becomes free again.                       *)
RoomsEnd == \A k \in Codes : ~Free(k) ~> Free(k)
=============================================================================
