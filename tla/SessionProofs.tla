--------------------------- MODULE SessionProofs ---------------------------
(***************************************************************************)
(* What the host starts its game with is what a guest has confirmed, for   *)
(* any launchers, spectators, match configurations and number of pings.    *)
(*                                                                         *)
(* A configuration on its way is the one the host holds for as long as it  *)
(* listens (SentIsHeld), and so is one that a guest has confirmed          *)
(* (ConfirmedIsHeld).  It stays so because the commands that would change  *)
(* it are obeyed only before it is sent (OrdersFit), and because a guest   *)
(* confirms once and is done with the handshake (Done).                    *)
(*                                                                         *)
(* A guest hears the configuration when it is ready for it (Hears): what   *)
(* is on its way to a guest comes in the order the host says it, which is  *)
(* ranked, and from no further than the guest is; and a guest connects     *)
(* only once, so that the order is of one connection.                      *)
(***************************************************************************)
EXTENDS Session, SequenceTheorems, TLAPS

In(m, list) == \E n \in DOMAIN list : list[n] = m

(* Sessions, and the commands a launcher's queue may hold. *)
SessionType ==
  [state : States, phase : {0, 1, 3}, cancel : BOOLEAN, pings : 0 .. Pings - 1,
   config : Configs, manual : BOOLEAN, peer : {NoPeer, "host"} \cup Guests]

Confirms == {<< Do("Confirm") >>} \cup {<< Set(v), Do("Confirm") >> : v \in Values}
Orders == {<< >>, << Do("Confirm") >>, << Do("Cancel") >>, << Do("Deinit") >>}
          \cup {<< Set(v), Do("Confirm") >> : v \in Values}

Types ==
  /\ TypeOK
  /\ session \in [Launchers -> SessionType]
  /\ commands \in [Launchers -> Orders]

(* The host's player edits and confirms only what waits for it, or has ended since; and *)
(* a session that nobody looks at is over, or about to be torn down.                    *)
OrdersFit ==
  \A p \in Launchers :
    /\ ui[p] \in {"leaving", "launching"} <=> commands[p] = << Do("Deinit") >>
    /\ ui[p] \in {"menu", "game", "away"} => commands[p] = << >>
    /\ ui[p] \in {"menu", "game", "away"} <=> session[p].state = "Idle"
    /\ session[p].state = "Idle" => ~ session[p].cancel
    /\ ui[p] = "launching" => session[p].state = "Launching" /\ game[p] = session[p].config
    /\ commands[p] \in Confirms =>
         session[p].state \in {"WaitingConfirmation", "Failed", "Cancelled"}
    /\ p # "host" => commands[p] \in {<< >>, << Do("Deinit") >>}

(* The host has sent its configuration and waits for the guest's word. *)
Awaits(s) == s.state = "Handshaking" /\ s.phase = 3

(* A guest that has confirmed does not come back. *)
Done(g) == session[g].state = "Launching" \/ ui[g] \in {"game", "away"}

(* A configuration that a connected guest may still read is the host's. *)
SentIsHeld ==
  \A g \in linked \cap Joiners : \A v \in Configs : In(ConfigMessage(v), channel[<< "host", g >>]) =>
    \/ session["host"].state \in {"Launching", "Failed", "Cancelled"}
    \/ Awaits(session["host"]) /\ session["host"].config = v

ConfirmedIsHeld ==
  \A g \in Guests : In(Message("Confirm"), channel[<< g, "host" >>]) =>
    /\ g \in Joiners /\ Done(g)
    /\ Awaits(session["host"]) /\ session["host"].config = confirmed[g]

LaunchedWithOne ==
  session["host"].state = "Launching" \/ ui["host"] \in {"launching", "game"} =>
    \E g \in Joiners : Done(g) /\ confirmed[g] = HostPlays

IInv == Types /\ OrdersFit /\ SentIsHeld /\ ConfirmedIsHeld /\ LaunchedWithOne
-----------------------------------------------------------------------------
(* Lists *)

LEMMA InAppend ==
  ASSUME NEW S, NEW list \in Seq(S), NEW e \in S
  PROVE  /\ Append(list, e) \in Seq(S)
         /\ \A m : In(m, Append(list, e)) <=> In(m, list) \/ m = e
<1>1. /\ Append(list, e) \in Seq(S) /\ Len(Append(list, e)) = Len(list) + 1
      /\ \A n \in 1 .. Len(list) : Append(list, e)[n] = list[n]
      /\ Append(list, e)[Len(list) + 1] = e
      /\ Len(list) \in Nat /\ DOMAIN list = 1 .. Len(list)
      /\ DOMAIN Append(list, e) = 1 .. Len(list) + 1
  BY AppendProperties
<1>2. \A n \in 1 .. Len(list) + 1 : n \in 1 .. Len(list) \/ n = Len(list) + 1
  BY <1>1
<1>3. Len(list) + 1 \in 1 .. Len(list) + 1 /\ 1 .. Len(list) \subseteq 1 .. Len(list) + 1
  BY <1>1
<1>. QED BY <1>1, <1>2, <1>3 DEF In

LEMMA InConcat ==
  ASSUME NEW S, NEW list \in Seq(S), NEW more \in Seq(S)
  PROVE  /\ list \o more \in Seq(S)
         /\ \A m : In(m, list \o more) => In(m, list) \/ In(m, more)
<1>1. /\ list \o more \in Seq(S) /\ Len(list \o more) = Len(list) + Len(more)
      /\ Len(list) \in Nat /\ Len(more) \in Nat
      /\ DOMAIN list = 1 .. Len(list) /\ DOMAIN more = 1 .. Len(more)
      /\ DOMAIN (list \o more) = 1 .. Len(list) + Len(more)
      /\ \A n \in 1 .. Len(list) + Len(more) :
           (list \o more)[n] = IF n <= Len(list) THEN list[n] ELSE more[n - Len(list)]
  BY ConcatProperties
<1>2. \A n \in 1 .. Len(list) + Len(more) :
        \/ n <= Len(list) /\ n \in 1 .. Len(list)
        \/ n > Len(list) /\ n - Len(list) \in 1 .. Len(more)
  BY <1>1
<1>. QED BY <1>1, <1>2 DEF In

LEMMA InTail ==
  ASSUME NEW S, NEW list \in Seq(S), list # << >>
  PROVE  /\ Tail(list) \in Seq(S) /\ Head(list) \in S /\ In(Head(list), list)
         /\ \A m : In(m, Tail(list)) => In(m, list)
<1>1. /\ Tail(list) \in Seq(S) /\ Len(Tail(list)) = Len(list) - 1 /\ Len(list) \in Nat \ {0}
      /\ \A n \in 1 .. Len(list) - 1 : Tail(list)[n] = list[n + 1]
      /\ DOMAIN Tail(list) = 1 .. Len(list) - 1 /\ DOMAIN list = 1 .. Len(list)
      /\ Head(list) = list[1]
  BY HeadTailProperties, LenProperties, EmptySeq
<1>2. \A n \in 1 .. Len(list) - 1 : n + 1 \in 1 .. Len(list)
  BY <1>1
<1>3. 1 \in DOMAIN list /\ list[1] \in S
  BY <1>1, ElementOfSeq
<1>. QED BY <1>1, <1>2, <1>3 DEF In

LEMMA InSub ==
  ASSUME NEW S, NEW list \in Seq(S), NEW k \in Nat, k <= Len(list)
  PROVE  /\ SubSeq(list, 1, k) \in Seq(S)
         /\ \A m : In(m, SubSeq(list, 1, k)) => In(m, list)
<1>1. /\ SubSeq(list, 1, k) \in Seq(S) /\ Len(SubSeq(list, 1, k)) = k
      /\ \A n \in 1 .. k : SubSeq(list, 1, k)[n] = list[n]
      /\ DOMAIN SubSeq(list, 1, k) = 1 .. k /\ DOMAIN list = 1 .. Len(list)
      /\ 1 .. k \subseteq 1 .. Len(list)
  OBVIOUS
<1>. QED BY <1>1 DEF In

LEMMA InOne ==
  ASSUME NEW S, NEW e \in S
  PROVE  << e >> \in Seq(S) /\ \A m : In(m, << e >>) <=> m = e
BY DEF In

LEMMA InNone == \A S : << >> \in Seq(S) /\ \A m : ~ In(m, << >>)
BY DEF In
-----------------------------------------------------------------------------
(* Messages *)

LEMMA Messages ==
  /\ \A t \in {"Connected", "Disconnected", "Version", "Name", "Confirm"} : Message(t) \in Events
  /\ \A v \in Configs : ConfigMessage(v) \in Events
  /\ \A s \in SessionType : PingMessage(s) \in Events
  /\ \A v : ConfigMessage(v).tag = "Config" /\ ConfigMessage(v).value = v
  /\ \A t : Message(t).tag = t
  /\ \A s : PingMessage(s).tag = "Ping"
BY DEF Message, ConfigMessage, PingMessage, Events, SessionType

LEMMA EventTags ==
  ASSUME NEW e \in Events
  PROVE  /\ e.tag \in {"Connected", "Disconnected", "Version", "Name", "Confirm", "Config", "Ping"}
         /\ e.tag = "Config" => e.value \in Configs /\ e = ConfigMessage(e.value)
         /\ e.tag = "Confirm" => e = Message("Confirm")
BY DEF Message, ConfigMessage, Events

(* A function that takes one more value. *)
LEMMA Updates ==
  ASSUME NEW D, NEW S, NEW f \in [D -> S], NEW d \in D, NEW v \in S
  PROVE  /\ [f EXCEPT ![d] = v] \in [D -> S]
         /\ \A x \in D : [f EXCEPT ![d] = v][x] = IF x = d THEN v ELSE f[x]
OBVIOUS

LEMMA RouteFields ==
  /\ \A g \in Guests : << "host", g >> \in Routes /\ << g, "host" >> \in Routes
  /\ \A p \in Launchers : \A q \in Peers(p) : << p, q >> \in Routes /\ << q, p >> \in Routes
  /\ Joiners \subseteq Guests /\ "host" \notin Guests /\ "host" \in Launchers
  /\ Joiners \subseteq Launchers /\ \A p \in Launchers : p = "host" \/ p \in Joiners
  /\ \A r \in Routes : r = << r[1], r[2] >>
  /\ \A p \in Launchers : Peers(p) \subseteq {"host"} \cup Guests
BY SessionAssumption DEF Guests, Routes, Launchers, Peers, IsHost

(* What is on a channel after a step was there before, is told of a connection, or was  *)
(* written by the step.                                                                 *)
LEMMA SentIs ==
  ASSUME NEW ch \in [Routes -> Seq(Events)], NEW p \in Launchers,
         NEW q \in {NoPeer} \cup Peers(p), NEW msgs \in Seq(Events)
  PROVE  /\ Sent(ch, p, q, msgs) \in [Routes -> Seq(Events)]
         /\ \A r \in Routes : \A m : In(m, Sent(ch, p, q, msgs)[r]) =>
              \/ In(m, ch[r])
              \/ r = << p, q >> /\ In(m, msgs) /\ GuestOf(p, q) \in linked /\ Reads(q)
<1>1. CASE q = NoPeer \/ GuestOf(p, q) \notin linked \/ ~ Reads(q)
  BY <1>1 DEF Sent
<1>2. CASE q # NoPeer /\ GuestOf(p, q) \in linked /\ Reads(q)
  <2>. DEFINE more == ch[<< p, q >>] \o msgs
  <2>1. << p, q >> \in Routes
    BY <1>2, RouteFields
  <2>2. more \in Seq(Events) /\ \A m : In(m, more) => In(m, ch[<< p, q >>]) \/ In(m, msgs)
    BY <2>1, InConcat
  <2>3. Sent(ch, p, q, msgs) = [ch EXCEPT ![<< p, q >>] = more]
    BY <1>2 DEF Sent
  <2>. HIDE DEF more
  <2>4. /\ Sent(ch, p, q, msgs) \in [Routes -> Seq(Events)]
        /\ \A r \in Routes : Sent(ch, p, q, msgs)[r] = IF r = << p, q >> THEN more ELSE ch[r]
    BY <2>1, <2>2, <2>3
  <2>. QED BY <1>2, <2>2, <2>4
<1>. QED BY <1>1, <1>2

LEMMA ReadIs ==
  ASSUME NEW ch \in [Routes -> Seq(Events)]
  PROVE  /\ Read(ch) \in [Routes -> Seq(Events)]
         /\ \A r \in Routes : \A m : In(m, Read(ch)[r]) =>
              In(m, ch[r]) /\ r[2] \notin Spectators /\ Polls(session'[r[2]])
<1>1. \A r \in Routes :
        Read(ch)[r] = IF r[2] \notin Spectators /\ Polls(session'[r[2]]) THEN ch[r] ELSE << >>
  BY DEF Read
<1>2. Read(ch) \in [Routes -> Seq(Events)]
  BY InNone DEF Read
<1>. QED BY <1>1, <1>2, InNone

LEMMA WroteIs ==
  ASSUME NEW ch \in [Routes -> Seq(Events)], NEW p \in Launchers,
         NEW q \in {NoPeer} \cup Peers(p), NEW msgs \in Seq(Events),
         channel' = Read(Sent(ch, p, q, msgs))
  PROVE  /\ channel' \in [Routes -> Seq(Events)]
         /\ \A r \in Routes : \A m : In(m, channel'[r]) =>
              /\ \/ In(m, ch[r])
                 \/ /\ r = << p, q >> /\ In(m, msgs) /\ q # NoPeer
                    /\ GuestOf(p, q) \in linked /\ Reads(q)
              /\ r[2] \notin Spectators /\ Polls(session'[r[2]])
<1>. DEFINE sent == Sent(ch, p, q, msgs)
<1>1. sent \in [Routes -> Seq(Events)]
  BY SentIs
<1>2. \A r \in Routes : \A m : In(m, sent[r]) =>
        \/ In(m, ch[r])
        \/ r = << p, q >> /\ In(m, msgs) /\ GuestOf(p, q) \in linked /\ Reads(q)
  BY SentIs
<1>3. q = NoPeer => sent = ch
  BY DEF Sent
<1>4. channel' = Read(sent)
  OBVIOUS
<1>. HIDE DEF sent
<1>5. Read(sent) \in [Routes -> Seq(Events)]
  BY <1>1, ReadIs
<1>6. \A r \in Routes : \A m : In(m, Read(sent)[r]) =>
        In(m, sent[r]) /\ r[2] \notin Spectators /\ Polls(session'[r[2]])
  BY <1>1, ReadIs
<1>. QED BY <1>2, <1>3, <1>4, <1>5, <1>6

(* Cut and Lose write Disconnected only, and empty what a leaver would have read. *)
LEMMA CutIs ==
  ASSUME Types, NEW guests, NEW leaver, Cut(guests, leaver)
  PROVE  /\ channel' \in [Routes -> Seq(Events)]
         /\ linked' = linked \ guests
         /\ \A r \in Routes : \A m : In(m, channel'[r]) =>
              (In(m, channel[r]) \/ m = Message("Disconnected")) /\ r[2] # leaver
<1>1. channel \in [Routes -> Seq(Events)] /\ Message("Disconnected") \in Events
  BY Messages DEF Types, TypeOK
<1>2. ASSUME NEW r \in Routes
      PROVE  /\ channel'[r] \in Seq(Events)
             /\ \A m : In(m, channel'[r]) =>
                  (In(m, channel[r]) \/ m = Message("Disconnected")) /\ r[2] # leaver
  <2>1. channel[r] \in Seq(Events)
    BY <1>1
  <2>2. /\ Append(channel[r], Message("Disconnected")) \in Seq(Events)
        /\ \A m : In(m, Append(channel[r], Message("Disconnected")))
                    <=> In(m, channel[r]) \/ m = Message("Disconnected")
    BY <1>1, <2>1, InAppend
  <2>3. CASE r[2] = leaver
    <3>1. channel'[r] = << >>
      BY <2>3 DEF Cut
    <3>. QED BY <3>1, InNone
  <2>4. CASE r[2] # leaver
    <3>1. channel'[r] = channel[r] \/ channel'[r] = Append(channel[r], Message("Disconnected"))
      BY <2>4 DEF Cut
    <3>. QED BY <2>1, <2>2, <2>4, <3>1
  <2>. QED BY <2>3, <2>4
<1>3. channel' = [r \in Routes |-> channel'[r]]
  BY DEF Cut
<1>4. channel' \in [Routes -> Seq(Events)]
  BY <1>2, <1>3
<1>. QED BY <1>2, <1>4 DEF Cut
-----------------------------------------------------------------------------
Quiet(out) == \A m : In(m, out) => m.tag \notin {"Config", "Confirm"}

(* What a step of the handshake may do to a session, and what it may write. *)
Handled(p, s, r) ==
  /\ r.next \in SessionType /\ r.next.peer = s.peer /\ r.next.state # "Idle"
  /\ r.out \in Seq(Events)
  /\ \A m : In(m, r.out) => m.tag # "Config" /\ (m.tag = "Confirm" => r.out = << Message("Confirm") >>)
  /\ s.state = "WaitingConfirmation" =>
       r.next.state \in {"WaitingConfirmation", "Failed", "Cancelled"}
  /\ p = "host" =>
       /\ Awaits(r.next) => Awaits(s)
       /\ Awaits(s) => (Awaits(r.next) \/ r.next.state \in {"Launching", "Failed", "Cancelled"})
                       /\ r.next.config = s.config
       /\ r.next.state = "Launching" => Awaits(s)

(* A session with a step's outcome, and the messages that may go with it. *)
LEMMA Fields ==
  ASSUME NEW s \in SessionType
  PROVE  /\ s.state \in States /\ s.phase \in {0, 1, 3} /\ s.pings \in 0 .. Pings - 1
         /\ s.cancel \in BOOLEAN /\ s.config \in Configs /\ s.manual \in BOOLEAN
         /\ s.peer \in {NoPeer, "host"} \cup Guests
         /\ \A x \in States : [s EXCEPT !.state = x] \in SessionType
         /\ \A x \in States : \A n \in {0, 1, 3} :
              [s EXCEPT !.state = x, !.phase = n] \in SessionType
         /\ \A n \in {0, 1, 3} : [s EXCEPT !.phase = n] \in SessionType
         /\ \A x \in States : \A n \in 0 .. Pings - 1 :
              [s EXCEPT !.state = x, !.pings = n] \in SessionType
         /\ \A n \in 0 .. Pings - 1 : [s EXCEPT !.pings = n] \in SessionType
         /\ \A x \in States : \A v \in Configs :
              [s EXCEPT !.state = x, !.config = v] \in SessionType
         /\ \A q \in {NoPeer, "host"} \cup Guests : [s EXCEPT !.peer = q] \in SessionType
         /\ [s EXCEPT !.cancel = TRUE] \in SessionType
         /\ \A v \in Configs : [s EXCEPT !.config = v, !.manual = TRUE] \in SessionType
BY DEF SessionType

LEMMA Changed ==
  ASSUME NEW s \in SessionType, NEW x, NEW n
  PROVE  /\ [s EXCEPT !.state = x].state = x /\ [s EXCEPT !.state = x].peer = s.peer
         /\ [s EXCEPT !.state = x].config = s.config /\ [s EXCEPT !.state = x].phase = s.phase
         /\ [s EXCEPT !.phase = n].state = s.state /\ [s EXCEPT !.phase = n].phase = n
         /\ [s EXCEPT !.phase = n].peer = s.peer
         /\ [s EXCEPT !.state = x, !.phase = n].state = x
         /\ [s EXCEPT !.state = x, !.phase = n].phase = n
         /\ [s EXCEPT !.state = x, !.phase = n].peer = s.peer
         /\ [s EXCEPT !.state = x, !.phase = n].config = s.config
         /\ [s EXCEPT !.state = x, !.pings = n].state = x
         /\ [s EXCEPT !.state = x, !.pings = n].peer = s.peer
         /\ [s EXCEPT !.pings = n].state = s.state /\ [s EXCEPT !.pings = n].peer = s.peer
         /\ [s EXCEPT !.state = x, !.config = n].state = x
         /\ [s EXCEPT !.state = x, !.config = n].peer = s.peer
         /\ [s EXCEPT !.state = x, !.config = n].config = n
         /\ [s EXCEPT !.peer = x].peer = x /\ [s EXCEPT !.peer = x].state = s.state
         /\ [s EXCEPT !.peer = x].phase = s.phase /\ [s EXCEPT !.peer = x].config = s.config
BY DEF SessionType

LEMMA Simple ==
  ASSUME NEW t \in {"Version", "Name", "Confirm"}
  PROVE  /\ << Message(t) >> \in Seq(Events)
         /\ \A m : In(m, << Message(t) >>) => m.tag = t
BY Messages, InOne

LEMMA FailedIs ==
  ASSUME NEW p \in Launchers, NEW s \in SessionType,
         Awaits(s) \/ s.state # "Launching"
  PROVE  Handled(p, s, [next |-> Failed(s), out |-> << >>])
<1>1. Failed(s) \in SessionType
  BY Fields DEF Failed, States
<1>2. Failed(s).state = "Failed" /\ Failed(s).peer = s.peer /\ Failed(s).config = s.config
  BY Changed DEF Failed
<1>. QED BY <1>1, <1>2, InNone DEF Handled, Awaits

LEMMA DroppedIs ==
  ASSUME NEW p \in Launchers, NEW s \in SessionType, s.state \notin {"Idle", "Launching"}
  PROVE  Handled(p, s, [next |-> s, out |-> << >>])
BY InNone DEF Handled, Awaits

LEMMA GreetIs ==
  ASSUME NEW p \in Launchers, NEW s \in SessionType, s.state \in {"Listening", "Connecting"}
  PROVE  Handled(p, s, Greet(s)) /\ Quiet(Greet(s).out)
         /\ Greet(s).next.state = "Handshaking"
<1>. DEFINE next == [s EXCEPT !.state = "Handshaking", !.phase = 0]
<1>1. next \in SessionType
  BY Fields DEF States
<1>3. next.state = "Handshaking" /\ next.phase = 0 /\ next.peer = s.peer
  BY Changed
<1>2. Greet(s).next = next /\ Greet(s).out = << Message("Version") >>
  BY DEF Greet
<1>. HIDE DEF next
<1>. QED BY <1>1, <1>2, <1>3, Simple DEF Handled, Quiet, Awaits

LEMMA ToNamesIs ==
  ASSUME NEW p \in Launchers, NEW s \in SessionType, Waits(s, "Handshaking", 0)
  PROVE  Handled(p, s, ToNames(s)) /\ Quiet(ToNames(s).out)
         /\ ToNames(s).next.state = "Handshaking"
<1>. DEFINE next == [s EXCEPT !.phase = 1]
<1>1. next \in SessionType
  BY Fields
<1>3. next.state = "Handshaking" /\ next.phase = 1 /\ next.peer = s.peer
  BY Changed DEF Waits
<1>2. ToNames(s).next = next /\ ToNames(s).out = << Message("Name") >>
  BY DEF ToNames
<1>. HIDE DEF next
<1>. QED BY <1>1, <1>2, <1>3, Simple DEF Handled, Quiet, Awaits, Waits

LEMMA PingIs ==
  ASSUME NEW s \in SessionType
  PROVE  << PingMessage(s) >> \in Seq(Events)
         /\ \A m : In(m, << PingMessage(s) >>) => m.tag = "Ping"
BY Messages, InOne

LEMMA ToPingsIs ==
  ASSUME NEW p \in Launchers, NEW s \in SessionType, Waits(s, "Handshaking", 1)
  PROVE  Handled(p, s, ToPings(s)) /\ ToPings(s).next.state = "PingExchanging"
         /\ Quiet(ToPings(s).out)
<1>. DEFINE next == [s EXCEPT !.state = "PingExchanging", !.pings = 0]
<1>1. next \in SessionType
  <2>1. 0 \in 0 .. Pings - 1 /\ "PingExchanging" \in States
    BY SessionAssumption DEF States
  <2>. QED BY <2>1, Fields
<1>5. next.state = "PingExchanging" /\ next.peer = s.peer
  BY Changed
<1>2. ToPings(s).next = next /\ ToPings(s).out = << PingMessage(next) >>
  BY DEF ToPings
<1>. HIDE DEF next
<1>. QED BY <1>1, <1>2, <1>5, PingIs DEF Handled, Quiet, Awaits, Waits

LEMMA PingDoneIs ==
  ASSUME NEW p \in Launchers, NEW s \in SessionType, s.state = "PingExchanging",
         NEW r \in PingDone(p, s)
  PROVE  Handled(p, s, r) /\ Quiet(r.out) /\ r.next.state # "Launching"
<1>. DEFINE more == [s EXCEPT !.pings = @ + 1]
<1>1. CASE s.pings + 1 = Pings
  <2>1. PICK f \in Finished(p, s) : r = [next |-> f, out |-> << >>]
    BY <1>1 DEF PingDone
  <2>2. /\ f \in SessionType /\ f.peer = s.peer
        /\ f.state = "WaitingConfirmation" \/ (p # "host" /\ f.state = "Handshaking")
    <3>1. CASE p = "host"
      <4>1. PICK v \in Configs : f = [s EXCEPT !.state = "WaitingConfirmation", !.config = v]
        BY <3>1, Fields DEF Finished, IsHost, Configs
      <4>2. "WaitingConfirmation" \in States
        BY DEF States
      <4>3. f \in SessionType
        BY <4>1, <4>2, Fields
      <4>. QED BY <4>1, <4>3, Changed
    <3>2. CASE p # "host"
      <4>1. f = [s EXCEPT !.state = "Handshaking", !.phase = 3]
        BY <3>2 DEF Finished, IsHost
      <4>2. "Handshaking" \in States
        BY DEF States
      <4>3. f \in SessionType
        BY <4>1, <4>2, Fields
      <4>. QED BY <3>2, <4>1, <4>3, Changed
    <3>. QED BY <3>1, <3>2
  <2>. QED BY <2>1, <2>2, InNone DEF Handled, Quiet, Awaits
<1>2. CASE s.pings + 1 # Pings
  <2>1. r = [next |-> more, out |-> << PingMessage(more) >>]
    BY <1>2 DEF PingDone
  <2>2. more \in SessionType
    <3>1. s.pings \in 0 .. Pings - 1 /\ Pings \in Nat
      BY Fields, SessionAssumption
    <3>2. s.pings + 1 \in 0 .. Pings - 1
      BY <1>2, <3>1
    <3>. QED BY <3>2, Fields
  <2>3. more.state = s.state /\ more.peer = s.peer
    BY Changed
  <2>. HIDE DEF more
  <2>. QED BY <2>1, <2>2, <2>3, PingIs DEF Handled, Quiet, Awaits
<1>. QED BY <1>1, <1>2

LEMMA TimeoutIs ==
  ASSUME Types, NEW p \in Launchers, Deadline(p), NEW r \in AfterTimeout(p)
  PROVE  /\ Handled(p, session[p], r) /\ Quiet(r.out) /\ r.next.state # "Launching"
         /\ Polls(session[p])
<1>. DEFINE s == session[p]
<1>1. s \in SessionType /\ Polls(s)
  BY DEF Types, Deadline, Polls
<1>2. CASE s.state = "PingExchanging"
  BY <1>1, <1>2, PingDoneIs DEF AfterTimeout
<1>3. CASE s.state = "Handshaking" /\ s.phase = 1
  BY <1>1, <1>3, ToPingsIs DEF AfterTimeout, Waits
<1>4. CASE s.state # "PingExchanging" /\ ~ (s.state = "Handshaking" /\ s.phase = 1)
  <2>1. r = [next |-> Failed(s), out |-> << >>]
    BY <1>4 DEF AfterTimeout
  <2>2. s.state # "Launching"
    BY DEF Deadline
  <2>3. Failed(s).state = "Failed"
    BY <1>1, Changed DEF Failed
  <2>. QED BY <1>1, <2>1, <2>2, <2>3, FailedIs, InNone DEF Quiet
<1>. QED BY <1>1, <1>2, <1>3, <1>4

LEMMA OutcomeIs ==
  ASSUME NEW p \in Launchers, NEW s \in SessionType, Polls(s), NEW e \in Events,
         NEW r \in Outcome(p, s, e)
  PROVE  /\ Handled(p, s, r)
         /\ \/ Quiet(r.out) /\ (p # "host" => r.next.state # "Launching")
            \/ /\ p # "host" /\ e.tag = "Config" /\ r.next.state = "Launching"
               /\ r.out = << Message("Confirm") >>
         /\ r.next.state = "Launching" /\ p = "host" => e.tag = "Confirm"
<1>. DEFINE dropped == [next |-> s, out |-> << >>]
<1>1. Handled(p, s, dropped) /\ Quiet(dropped.out) /\ dropped.next.state # "Launching"
  BY DroppedIs, InNone DEF Polls, Quiet
<1>2. /\ Handled(p, s, [next |-> Failed(s), out |-> << >>]) /\ Failed(s).state = "Failed"
      /\ Quiet(<< >>)
  <2>1. s.state # "Launching"
    BY DEF Polls
  <2>. QED BY <2>1, FailedIs, Changed, InNone DEF Failed, Quiet
<1>3. CASE r = dropped
  BY <1>1, <1>3
<1>4. CASE e.tag = "Connected" /\ r # dropped
  <2>1. r = Greet(s) /\ s.state \in {"Listening", "Connecting"}
    BY <1>4 DEF Outcome
  <2>. QED BY <2>1, GreetIs
<1>5. CASE e.tag = "Disconnected" /\ r # dropped
  <2>1. r = [next |-> Failed(s), out |-> << >>]
    BY <1>5 DEF Outcome
  <2>. QED BY <1>2, <2>1
<1>6. CASE e.tag = "Version" /\ r # dropped
  <2>1. r = ToNames(s) /\ Waits(s, "Handshaking", 0)
    BY <1>6 DEF Outcome
  <2>. QED BY <2>1, ToNamesIs
<1>7. CASE e.tag = "Name" /\ r # dropped
  <2>1. r = ToPings(s) /\ Waits(s, "Handshaking", 1)
    BY <1>7 DEF Outcome
  <2>. QED BY <2>1, ToPingsIs
<1>8. CASE e.tag = "Ping" /\ r # dropped
  <2>1. r \in PingDone(p, s) /\ s.state = "PingExchanging"
    BY <1>8 DEF Outcome
  <2>. QED BY <2>1, PingDoneIs
<1>9. CASE e.tag = "Config" /\ r # dropped
  <2>. DEFINE next == [s EXCEPT !.state = "Launching", !.config = e.value]
  <2>1. /\ Awaits(s) /\ p # "host"
        /\ r = [next |-> next, out |-> << Message("Confirm") >>]
    BY <1>9 DEF Outcome, Waits, IsHost, Awaits
  <2>2. e.value \in Configs /\ "Launching" \in States
    BY <1>9, EventTags DEF States
  <2>3. next \in SessionType
    BY <2>2, Fields
  <2>4. next.state = "Launching" /\ next.peer = s.peer
    BY Changed
  <2>. HIDE DEF next
  <2>. QED BY <1>9, <2>1, <2>3, <2>4, Simple DEF Handled, Awaits
<1>10. CASE e.tag = "Confirm" /\ r # dropped
  <2>. DEFINE next == [s EXCEPT !.state = "Launching"]
  <2>1. Awaits(s) /\ p = "host" /\ r = [next |-> next, out |-> << >>]
    BY <1>10 DEF Outcome, Waits, IsHost, Awaits
  <2>2. "Launching" \in States
    BY DEF States
  <2>3. next \in SessionType
    BY <2>2, Fields
  <2>4. next.state = "Launching" /\ next.peer = s.peer /\ next.config = s.config
    BY Changed
  <2>. HIDE DEF next
  <2>. QED BY <1>10, <2>1, <2>3, <2>4, InNone DEF Handled, Quiet, Awaits
<1>. QED BY <1>3, <1>4, <1>5, <1>6, <1>7, <1>8, <1>9, <1>10, EventTags
-----------------------------------------------------------------------------
(* The steps of the worker *)

Works(s) == s.state \notin {"Idle", "Launching", "Failed", "Cancelled"}

(* A launcher at work is not done, and nobody has left it. *)
LEMMA WorksIs ==
  ASSUME OrdersFit, NEW p \in Launchers, Works(session[p])
  PROVE  ui[p] \notin {"menu", "game", "away", "launching"} /\ ~ Done(p)
BY DEF OrdersFit, Works, Done

LEMMA WorkerPreserves ==
  ASSUME IInv, NEW p \in Launchers, NEW s \in SessionType, Works(session[p]),
         s.state = session[p].state, s.phase = session[p].phase, s.config = session[p].config,
         s.peer \in {NoPeer} \cup Peers(p),
         NEW r, Handled(p, s, r), session' = [session EXCEPT ![p] = r.next],
         channel' \in [Routes -> Seq(Events)],
         \A route \in Routes : \A m : In(m, channel'[route]) =>
           \/ In(m, channel[route])
           \/ /\ route = << p, r.next.peer >> /\ In(m, r.out) /\ r.next.peer # NoPeer
              /\ GuestOf(p, r.next.peer) \in linked /\ Reads(r.next.peer),
         \A g \in Guests :
           In(Message("Confirm"), channel'[<< g, "host" >>]) => Polls(session'["host"]),
         UNCHANGED << uiVars, linked, knocked >>, greeted' \subseteq Guests,
         \/ Quiet(r.out) /\ confirmed' = confirmed
         \/ /\ p # "host" /\ r.next.state = "Launching"
            /\ \E v \in Configs : /\ In(ConfigMessage(v), channel[<< "host", p >>])
                                  /\ confirmed' = [confirmed EXCEPT ![p] = v],
         p = "host" /\ r.next.state = "Launching" =>
           \E g \in Guests : In(Message("Confirm"), channel[<< g, "host" >>])
  PROVE  IInv'
<1>1. /\ session \in [Launchers -> SessionType] /\ session' \in [Launchers -> SessionType]
      /\ session'[p] = r.next /\ \A x \in Launchers : x # p => session'[x] = session[x]
  BY DEF IInv, Types, Handled
<1>2. /\ commands' = commands /\ ui' = ui /\ game' = game /\ hosted' = hosted
      /\ linked' = linked /\ knocked' = knocked
  BY DEF uiVars
<1>3. confirmed \in [Joiners -> Configs] /\ confirmed' \in [Joiners -> Configs]
      /\ \A g \in Joiners : g # p => confirmed'[g] = confirmed[g]
  <2>1. confirmed \in [Joiners -> Configs]
    BY DEF IInv, Types, TypeOK
  <2>2. CASE confirmed' = confirmed
    BY <2>1, <2>2
  <2>3. CASE p # "host" /\ \E v \in Configs : confirmed' = [confirmed EXCEPT ![p] = v]
    <3>1. p \in Joiners
      BY <2>3, RouteFields
    <3>. QED BY <2>1, <2>3, <3>1
  <2>. QED BY <2>2, <2>3
<1>4. Types'
  <2>1. TypeOK'
    <3>1. \A x \in Launchers : session'[x] \in SessionType
      BY <1>1
    <3>2. \A x \in Launchers : session'[x].peer \in {NoPeer} \cup Peers(x)
      BY <1>1 DEF Handled, IInv, Types, TypeOK
    <3>3. session'["host"].state # "Idle" \/ session'["host"] = session["host"]
      BY <1>1, RouteFields DEF Handled
    <3>. QED BY <1>2, <1>3, <3>1, <3>2, <3>3, Fields DEF IInv, Types, TypeOK
  <2>. QED BY <1>1, <1>2, <2>1 DEF IInv, Types
<1>5. OrdersFit'
  <2>. SUFFICES ASSUME NEW x \in Launchers
                PROVE  /\ ui[x] \in {"leaving", "launching"} <=> commands[x] = << Do("Deinit") >>
                       /\ ui[x] \in {"menu", "game", "away"} => commands[x] = << >>
                       /\ ui[x] \in {"menu", "game", "away"} <=> session'[x].state = "Idle"
                       /\ session'[x].state = "Idle" => ~ session'[x].cancel
                       /\ ui[x] = "launching" => session'[x].state = "Launching"
                                                 /\ game[x] = session'[x].config
                       /\ commands[x] \in Confirms =>
                            session'[x].state \in {"WaitingConfirmation", "Failed", "Cancelled"}
                       /\ x # "host" => commands[x] \in {<< >>, << Do("Deinit") >>}
    BY <1>2 DEF OrdersFit, Confirms
  <2>1. CASE x # p
    BY <1>1, <2>1 DEF IInv, OrdersFit
  <2>2. CASE x = p
    <3>1. ui[x] \notin {"menu", "game", "away", "launching"}
      BY <2>2, WorksIs DEF IInv
    <3>2. commands[x] \in Confirms =>
            session'[x].state \in {"WaitingConfirmation", "Failed", "Cancelled"}
      BY <1>1, <2>2 DEF IInv, OrdersFit, Works, Handled
    <3>3. session'[x].state # "Idle"
      BY <1>1, <2>2 DEF Handled
    <3>. QED BY <3>1, <3>2, <3>3 DEF IInv, OrdersFit
  <2>. QED BY <2>1, <2>2
<1>6. SentIsHeld'
  <2>. SUFFICES ASSUME NEW g \in linked \cap Joiners, NEW v \in Configs,
                       In(ConfigMessage(v), channel'[<< "host", g >>])
                PROVE  \/ session'["host"].state \in {"Launching", "Failed", "Cancelled"}
                       \/ Awaits(session'["host"]) /\ session'["host"].config = v
    BY <1>2 DEF SentIsHeld
  <2>1. << "host", g >> \in Routes
    BY RouteFields DEF IInv, Types, TypeOK
  <2>2. In(ConfigMessage(v), channel[<< "host", g >>])
    BY <2>1, Messages DEF Handled
  <2>3. \/ session["host"].state \in {"Launching", "Failed", "Cancelled"}
        \/ Awaits(session["host"]) /\ session["host"].config = v
    BY <2>2 DEF IInv, SentIsHeld
  <2>4. CASE p = "host"
    BY <1>1, <2>3, <2>4 DEF Works, Handled, Awaits
  <2>5. CASE p # "host"
    BY <1>1, <2>3, <2>5, RouteFields
  <2>. QED BY <2>4, <2>5
<1>7. ConfirmedIsHeld'
  <2>. SUFFICES ASSUME NEW g \in Guests, In(Message("Confirm"), channel'[<< g, "host" >>])
                PROVE  /\ g \in Joiners /\ Done(g)'
                       /\ Awaits(session'["host"]) /\ session'["host"].config = confirmed'[g]
    BY DEF ConfirmedIsHeld
  <2>1. << g, "host" >> \in Routes /\ Polls(session'["host"])
    <3>1. << g, "host" >> \in Routes /\ << g, "host" >>[2] = "host"
      BY RouteFields
    <3>. QED BY <3>1
  <2>2. CASE In(Message("Confirm"), channel[<< g, "host" >>])
    <3>1. /\ g \in Joiners /\ Done(g)
          /\ Awaits(session["host"]) /\ session["host"].config = confirmed[g]
      BY <2>2 DEF IInv, ConfirmedIsHeld
    <3>2. g # p
      BY <3>1, WorksIs DEF IInv
    <3>3. Done(g)' /\ confirmed'[g] = confirmed[g]
      BY <1>1, <1>2, <1>3, <3>1, <3>2, RouteFields DEF Done
    <3>4. Awaits(session'["host"]) /\ session'["host"].config = session["host"].config
      <4>1. CASE p = "host"
        BY <1>1, <2>1, <3>1, <4>1 DEF Polls, Handled, Awaits
      <4>2. CASE p # "host"
        BY <1>1, <3>1, <4>2, RouteFields
      <4>. QED BY <4>1, <4>2
    <3>. QED BY <3>1, <3>3, <3>4
  <2>3. CASE ~ In(Message("Confirm"), channel[<< g, "host" >>])
    <3>1. /\ << g, "host" >> = << p, r.next.peer >> /\ In(Message("Confirm"), r.out)
          /\ GuestOf(p, r.next.peer) \in linked /\ Reads(r.next.peer)
      BY <2>1, <2>3
    <3>2. g = p /\ r.next.peer = "host" /\ p # "host"
      BY <3>1, RouteFields
    <3>3. p \in linked /\ Polls(session["host"]) /\ p \in Joiners
      BY <3>1, <3>2, RouteFields DEF GuestOf, IsHost, Reads
    <3>4. ~ Quiet(r.out)
      BY <3>1, Messages DEF Quiet
    <3>5. PICK v \in Configs : /\ In(ConfigMessage(v), channel[<< "host", p >>])
                               /\ confirmed' = [confirmed EXCEPT ![p] = v]
      BY <3>4
    <3>6. Awaits(session["host"]) /\ session["host"].config = v
      BY <3>3, <3>5 DEF IInv, SentIsHeld, Polls
    <3>7. confirmed'[p] = v /\ session'["host"] = session["host"]
      BY <1>1, <1>3, <3>2, <3>3, <3>5, RouteFields
    <3>8. Done(p)'
      BY <1>1, <3>4 DEF Done
    <3>. QED BY <3>2, <3>3, <3>6, <3>7, <3>8
  <2>. QED BY <2>2, <2>3
<1>8. LaunchedWithOne'
  <2>. SUFFICES ASSUME session'["host"].state = "Launching" \/ ui["host"] \in {"launching", "game"}
                PROVE  \E g \in Joiners : Done(g)' /\ confirmed'[g] = HostPlays'
    BY <1>2 DEF LaunchedWithOne
  <2>1. \A g \in Joiners : Done(g) => Done(g)' /\ confirmed'[g] = confirmed[g]
    <3>1. ASSUME NEW g \in Joiners, Done(g) PROVE Done(g)' /\ confirmed'[g] = confirmed[g]
      <4>1. g # p
        BY <3>1, WorksIs DEF IInv
      <4>. QED BY <1>1, <1>2, <1>3, <3>1, <4>1, RouteFields DEF Done
    <3>. QED BY <3>1
  <2>2. CASE p = "host"
    <3>1. ui["host"] \notin {"launching", "game"}
      BY <2>2, WorksIs DEF IInv
    <3>2. PICK g \in Guests : In(Message("Confirm"), channel[<< g, "host" >>])
      BY <1>1, <2>2, <3>1
    <3>3. /\ g \in Joiners /\ Done(g) /\ Awaits(session["host"])
          /\ session["host"].config = confirmed[g]
      BY <3>2 DEF IInv, ConfirmedIsHeld
    <3>4. HostPlays' = session["host"].config
      BY <1>1, <1>2, <2>2, <3>1, <3>3 DEF HostPlays, Handled, Awaits
    <3>. QED BY <2>1, <3>3, <3>4
  <2>3. CASE p # "host"
    <3>1. session'["host"] = session["host"] /\ HostPlays' = HostPlays
      BY <1>1, <1>2, <2>3, RouteFields DEF HostPlays
    <3>. QED BY <2>1, <3>1 DEF IInv, LaunchedWithOne
  <2>. QED BY <2>2, <2>3
<1>. QED BY <1>4, <1>5, <1>6, <1>7, <1>8 DEF IInv

LEMMA InitEstablishes == Init => IInv
<1>. SUFFICES ASSUME Init PROVE IInv
  OBVIOUS
<1>1. /\ session \in [Launchers -> SessionType] /\ \A p \in Launchers : session[p] = Fresh
      /\ Fresh \in SessionType /\ Fresh.state = "Idle" /\ Fresh.peer = NoPeer /\ ~ Fresh.cancel
  BY SessionAssumption DEF Init, Fresh, SessionType, States, Configs
<1>2. \A p \in Launchers : commands[p] = << >> /\ ui[p] = "menu"
  BY DEF Init
<1>3. channel \in [Routes -> Seq(Events)] /\ \A r \in Routes : channel[r] = << >>
  BY DEF Init
<1>4. Types
  <2>1. TypeOK
    <3>1. ui \in [Launchers -> {"menu", "waiting", "leaving", "launching", "game", "away"}]
          /\ game \in [Launchers -> Configs] /\ confirmed \in [Joiners -> Configs]
          /\ linked = {} /\ hosted \in 0 .. MaxHosted /\ greeted = {} /\ knocked = {}
      BY SessionAssumption DEF Init, Configs
    <3>. QED BY <1>1, <1>3, <3>1, Fields DEF TypeOK
  <2>2. commands \in [Launchers -> Orders]
    BY DEF Init, Orders
  <2>. QED BY <1>1, <2>1, <2>2 DEF Types
<1>5. OrdersFit
  <2>1. << >> # << Do("Deinit") >> /\ << >> \notin Confirms
    BY DEF Confirms
  <2>. QED BY <1>1, <1>2, <2>1 DEF OrdersFit
<1>6. SentIsHeld /\ LaunchedWithOne
  BY <1>1, <1>2, RouteFields DEF Init, SentIsHeld, LaunchedWithOne
<1>7. ConfirmedIsHeld
  BY <1>3, RouteFields, InNone DEF ConfirmedIsHeld
<1>. QED BY <1>4, <1>5, <1>6, <1>7 DEF IInv

LEMMA TimeoutPreserves ==
  ASSUME IInv, NEW p \in Launchers, Timeout(p)
  PROVE  IInv'
<1>. DEFINE s == session[p]
<1>1. Types /\ s \in SessionType /\ s.peer \in {NoPeer} \cup Peers(p)
      /\ channel \in [Routes -> Seq(Events)] /\ greeted \subseteq Guests
  BY DEF IInv, Types, TypeOK
<1>2. PICK r \in AfterTimeout(p) :
        /\ session' = [session EXCEPT ![p] = r.next]
        /\ channel' = Read(Sent(channel, p, r.next.peer, r.out))
  BY DEF Timeout
<1>3. Handled(p, s, r) /\ Quiet(r.out) /\ r.next.state # "Launching" /\ Works(s)
  BY <1>1, TimeoutIs DEF Timeout, Polls, Works
<1>4. r.next.peer = s.peer /\ r.out \in Seq(Events)
  BY <1>3 DEF Handled
<1>5. UNCHANGED << uiVars, linked, knocked, greeted, confirmed >>
  BY DEF Timeout
<1>. HIDE DEF s
<1>6. /\ channel' \in [Routes -> Seq(Events)]
      /\ \A x \in Routes : \A m : In(m, channel'[x]) =>
           /\ \/ In(m, channel[x])
              \/ /\ x = << p, r.next.peer >> /\ In(m, r.out) /\ r.next.peer # NoPeer
                 /\ GuestOf(p, r.next.peer) \in linked /\ Reads(r.next.peer)
           /\ x[2] \notin Spectators /\ Polls(session'[x[2]])
  <2>1. PICK q \in {NoPeer} \cup Peers(p), msgs \in Seq(Events) : q = r.next.peer /\ msgs = r.out
    BY <1>1, <1>4
  <2>2. channel' = Read(Sent(channel, p, q, msgs))
    BY <1>2, <2>1
  <2>3. /\ channel' \in [Routes -> Seq(Events)]
        /\ \A x \in Routes : \A m : In(m, channel'[x]) =>
             /\ \/ In(m, channel[x])
                \/ /\ x = << p, q >> /\ In(m, msgs) /\ q # NoPeer
                   /\ GuestOf(p, q) \in linked /\ Reads(q)
             /\ x[2] \notin Spectators /\ Polls(session'[x[2]])
    BY <1>1, <2>2, WroteIs
  <2>. QED BY <2>1, <2>3
<1>7. \A g \in Guests :
        In(Message("Confirm"), channel'[<< g, "host" >>]) => Polls(session'["host"])
  <2>1. \A g \in Guests : << g, "host" >> \in Routes /\ << g, "host" >>[2] = "host"
    BY RouteFields
  <2>. QED BY <1>6, <2>1
<1>8. s.state = session[p].state /\ s.phase = session[p].phase /\ s.config = session[p].config
      /\ Works(session[p])
  BY <1>3 DEF s
<1>. QED BY <1>1, <1>2, <1>3, <1>5, <1>6, <1>7, <1>8, WorkerPreserves

LEMMA ReceivePreserves ==
  ASSUME IInv, NEW p \in Launchers, NEW q \in Peers(p), Receive(p, q)
  PROVE  IInv'
<1>. DEFINE e == Head(channel[<< q, p >>])
            s == Polled(session[p], q, e.tag)
            rest == [channel EXCEPT ![<< q, p >>] = Tail(@)]
<1>1. Types /\ session[p] \in SessionType /\ session[p].peer \in {NoPeer} \cup Peers(p)
      /\ channel \in [Routes -> Seq(Events)] /\ greeted \subseteq Guests
      /\ << q, p >> \in Routes /\ channel[<< q, p >>] \in Seq(Events)
  BY RouteFields DEF IInv, Types, TypeOK
<1>2. channel[<< q, p >>] # << >> /\ Polls(session[p])
  BY DEF Receive
<1>3. /\ e \in Events /\ In(e, channel[<< q, p >>]) /\ Tail(channel[<< q, p >>]) \in Seq(Events)
      /\ \A m : In(m, Tail(channel[<< q, p >>])) => In(m, channel[<< q, p >>])
  BY <1>1, <1>2, InTail
<1>4. /\ rest \in [Routes -> Seq(Events)]
      /\ \A x \in Routes : \A m : In(m, rest[x]) => In(m, channel[x])
  <2>1. /\ rest \in [Routes -> Seq(Events)]
        /\ \A x \in Routes : rest[x] = IF x = << q, p >> THEN Tail(channel[<< q, p >>])
                                       ELSE channel[x]
    BY <1>1, <1>3, Updates
  <2>. QED BY <1>3, <2>1
<1>5. /\ s \in SessionType /\ s.state = session[p].state /\ s.phase = session[p].phase
      /\ s.config = session[p].config /\ s.peer \in {NoPeer} \cup Peers(p)
  <2>1. PICK peer \in {NoPeer} \cup Peers(p) : s = [session[p] EXCEPT !.peer = peer]
    <3>1. s = [session[p] EXCEPT !.peer = IF e.tag = "Connected" THEN q
                                          ELSE IF e.tag = "Disconnected" THEN NoPeer
                                          ELSE session[p].peer]
      BY DEF Polled
    <3>. QED BY <1>1, <3>1
  <2>2. peer \in {NoPeer, "host"} \cup Guests
    BY RouteFields
  <2>3. s \in SessionType
    <3>1. session[p] \in SessionType
      BY <1>1
    <3>. HIDE DEF s
    <3>. QED BY <2>1, <2>2, <3>1, Fields
  <2>. DEFINE new == [session[p] EXCEPT !.peer = peer]
  <2>4. new.peer = peer /\ new.state = session[p].state
    BY <1>1, Changed
  <2>5. new.phase = session[p].phase /\ new.config = session[p].config
    BY <1>1, Changed
  <2>6. s = new
    BY <2>1
  <2>. HIDE DEF s, new
  <2>. QED BY <2>3, <2>4, <2>5, <2>6
<1>6. PICK r \in Outcome(p, s, e) :
        /\ session' = [session EXCEPT ![p] = r.next]
        /\ channel' = Read(Sent(rest, p, r.next.peer, r.out))
        /\ greeted' = IF IsHost(p) /\ r.out = << Message("Version") >>
                      THEN greeted \cup {q} ELSE greeted
        /\ confirmed' = IF r.out = << Message("Confirm") >>
                        THEN [confirmed EXCEPT ![p] = e.value] ELSE confirmed
  BY DEF Receive
<1>7. UNCHANGED << uiVars, linked, knocked >>
  BY DEF Receive
<1>. HIDE DEF e, s, rest
<1>8. Works(session[p]) /\ Polls(s)
  BY <1>2, <1>5 DEF Polls, Works
<1>9. /\ Handled(p, s, r)
      /\ \/ Quiet(r.out) /\ (p # "host" => r.next.state # "Launching")
         \/ /\ p # "host" /\ e.tag = "Config" /\ r.next.state = "Launching"
            /\ r.out = << Message("Confirm") >>
      /\ r.next.state = "Launching" /\ p = "host" => e.tag = "Confirm"
  BY <1>3, <1>5, <1>6, <1>8, OutcomeIs
<1>10. r.next.peer = s.peer /\ r.out \in Seq(Events)
  BY <1>9 DEF Handled
<1>11. /\ channel' \in [Routes -> Seq(Events)]
       /\ \A x \in Routes : \A m : In(m, channel'[x]) =>
            /\ \/ In(m, rest[x])
               \/ /\ x = << p, r.next.peer >> /\ In(m, r.out) /\ r.next.peer # NoPeer
                  /\ GuestOf(p, r.next.peer) \in linked /\ Reads(r.next.peer)
            /\ x[2] \notin Spectators /\ Polls(session'[x[2]])
  BY <1>4, <1>5, <1>6, <1>10, WroteIs
<1>12. \A g \in Guests :
         In(Message("Confirm"), channel'[<< g, "host" >>]) => Polls(session'["host"])
  <2>1. \A g \in Guests : << g, "host" >> \in Routes /\ << g, "host" >>[2] = "host"
    BY RouteFields
  <2>. QED BY <1>11, <2>1
<1>13. greeted' \subseteq Guests
  BY <1>1, <1>6 DEF Peers, IsHost
<1>14. \/ Quiet(r.out) /\ confirmed' = confirmed
       \/ /\ p # "host" /\ r.next.state = "Launching"
          /\ \E v \in Configs : /\ In(ConfigMessage(v), channel[<< "host", p >>])
                                /\ confirmed' = [confirmed EXCEPT ![p] = v]
  <2>1. CASE Quiet(r.out)
    <3>1. In(Message("Confirm"), << Message("Confirm") >>)
      BY DEF In
    <3>2. ~ In(Message("Confirm"), r.out)
      BY <2>1, Messages DEF Quiet
    <3>. QED BY <1>6, <2>1, <3>1, <3>2
  <2>2. CASE ~ Quiet(r.out)
    <3>1. /\ p # "host" /\ e.tag = "Config" /\ r.next.state = "Launching"
          /\ r.out = << Message("Confirm") >>
      BY <1>9, <2>2
    <3>2. e.value \in Configs /\ e = ConfigMessage(e.value)
      BY <1>3, <3>1, EventTags
    <3>3. q = "host"
      BY <3>1 DEF Peers, IsHost
    <3>. QED BY <1>3, <1>6, <3>1, <3>2, <3>3
  <2>. QED BY <2>1, <2>2
<1>15. p = "host" /\ r.next.state = "Launching" =>
         \E g \in Guests : In(Message("Confirm"), channel[<< g, "host" >>])
  <2>. SUFFICES ASSUME p = "host", r.next.state = "Launching"
                PROVE  \E g \in Guests : In(Message("Confirm"), channel[<< g, "host" >>])
    OBVIOUS
  <2>1. e = Message("Confirm") /\ q \in Guests
    BY <1>3, <1>9, EventTags DEF Peers, IsHost
  <2>. QED BY <1>3, <2>1
<1>16. \A x \in Routes : \A m : In(m, channel'[x]) =>
         \/ In(m, channel[x])
         \/ /\ x = << p, r.next.peer >> /\ In(m, r.out) /\ r.next.peer # NoPeer
            /\ GuestOf(p, r.next.peer) \in linked /\ Reads(r.next.peer)
  BY <1>4, <1>11
<1>. QED BY <1>5, <1>6, <1>7, <1>8, <1>9, <1>11, <1>12, <1>13, <1>14, <1>15, <1>16,
            WorkerPreserves

(* The worker finds the session cancelled, or hears from the relay. *)
LEMMA EndsPreserve ==
  ASSUME IInv, NEW p \in Launchers, NEW x \in {"Cancelled", "Failed", "Connecting"},
         Works(session[p]), x = "Cancelled" \/ p # "host",
         session' = [session EXCEPT ![p].state = x],
         channel' = channel \/ channel' = Read(channel), session[p].state = "RelayConnecting" \/ x = "Cancelled",
         x = "Cancelled" \/ channel' = channel, x # "Cancelled" \/ channel' = Read(channel),
         UNCHANGED << uiVars, linked, knocked, greeted, confirmed >>
  PROVE  IInv'
<1>. DEFINE s == session[p]
            next == [s EXCEPT !.state = x]
            r == [next |-> next, out |-> << >>]
<1>1. Types /\ s \in SessionType /\ s.peer \in {NoPeer} \cup Peers(p)
      /\ channel \in [Routes -> Seq(Events)] /\ greeted \subseteq Guests
      /\ session \in [Launchers -> SessionType]
  BY DEF IInv, Types, TypeOK
<1>2. next \in SessionType
  <2>1. x \in States
    BY DEF States
  <2>. QED BY <1>1, <2>1, Fields
<1>3. next.state = x /\ next.peer = s.peer /\ next.config = s.config
  BY <1>1, Changed
<1>4. Handled(p, s, r)
  <2>. HIDE DEF s, next
  <2>1. s.state = "RelayConnecting" \/ x = "Cancelled"
    BY DEF s
  <2>. QED BY <1>2, <1>3, <2>1, InNone DEF Handled, Awaits
<1>5. session' = [session EXCEPT ![p] = next]
  BY <1>1
<1>6. /\ channel' \in [Routes -> Seq(Events)]
      /\ \A y \in Routes : \A m : In(m, channel'[y]) => In(m, channel[y])
  BY <1>1, ReadIs
<1>7. \A g \in Guests :
        In(Message("Confirm"), channel'[<< g, "host" >>]) => Polls(session'["host"])
  <2>. SUFFICES ASSUME NEW g \in Guests, In(Message("Confirm"), channel'[<< g, "host" >>])
                PROVE  Polls(session'["host"])
    OBVIOUS
  <2>1. << g, "host" >> \in Routes /\ << g, "host" >>[2] = "host" /\ "host" \in Launchers
    BY RouteFields
  <2>2. CASE x = "Cancelled"
    BY <1>1, <2>1, <2>2, ReadIs
  <2>3. CASE x # "Cancelled"
    <3>1. Awaits(session["host"])
      BY <1>6, <2>1 DEF IInv, ConfirmedIsHeld
    <3>2. session'["host"] = session["host"]
      BY <1>1, <2>1, <2>3
    <3>. QED BY <3>1, <3>2 DEF Awaits, Polls
  <2>. QED BY <2>2, <2>3
<1>8. Quiet(r.out) /\ r.next = next /\ r.next.state # "Launching"
  BY <1>3, InNone DEF Quiet
<1>. HIDE DEF r, next
<1>. QED BY <1>1, <1>4, <1>5, <1>6, <1>7, <1>8, WorkerPreserves

LEMMA CancelledPreserves ==
  ASSUME IInv, NEW p \in Launchers, Cancelled(p)
  PROVE  IInv'
<1>1. Works(session[p])
  <2>1. session[p].state # "Idle"
    BY DEF Cancelled, IInv, OrdersFit
  <2>. QED BY <2>1 DEF Cancelled, Works
<1>. QED BY <1>1, EndsPreserve DEF Cancelled

LEMMA RelayEndsPreserves ==
  ASSUME IInv, NEW g \in Joiners, RelayEnds(g)
  PROVE  IInv'
<1>1. g \in Launchers /\ g # "host" /\ Works(session[g])
  BY RouteFields DEF RelayEnds, Works
<1>2. PICK x \in {"Connecting", "Failed"} : session' = [session EXCEPT ![g].state = x]
  BY DEF RelayEnds
<1>3. channel' = channel /\ UNCHANGED << uiVars, linked, knocked, greeted, confirmed >>
      /\ session[g].state = "RelayConnecting"
  BY DEF RelayEnds
<1>. QED BY <1>1, <1>2, <1>3, EndsPreserve
-----------------------------------------------------------------------------
(* The other steps *)

(* They write no configuration and no word of a guest, and leave those who are done.    *)
LEMMA OthersPreserve ==
  ASSUME IInv, Types', OrdersFit', confirmed' = confirmed,
         \A g \in Joiners : Done(g) => Done(g)',
         \A g \in linked' \cap Joiners : \A v \in Configs :
           In(ConfigMessage(v), channel'[<< "host", g >>]) =>
             g \in linked /\ In(ConfigMessage(v), channel[<< "host", g >>]),
         \A g \in Guests : In(Message("Confirm"), channel'[<< g, "host" >>]) =>
           In(Message("Confirm"), channel[<< g, "host" >>]),
         session["host"].state \in {"Launching", "Failed", "Cancelled"} =>
           session'["host"].state \in {"Launching", "Failed", "Cancelled"},
         Awaits(session["host"]) =>
           Awaits(session'["host"]) /\ session'["host"].config = session["host"].config,
         session'["host"].state = "Launching" \/ ui'["host"] \in {"launching", "game"} =>
           /\ session["host"].state = "Launching" \/ ui["host"] \in {"launching", "game"}
           /\ HostPlays' = HostPlays
  PROVE  IInv'
<1>1. SentIsHeld'
  <2>. SUFFICES ASSUME NEW g \in linked' \cap Joiners, NEW v \in Configs,
                       In(ConfigMessage(v), channel'[<< "host", g >>])
                PROVE  \/ session'["host"].state \in {"Launching", "Failed", "Cancelled"}
                       \/ Awaits(session'["host"]) /\ session'["host"].config = v
    BY DEF SentIsHeld
  <2>1. \/ session["host"].state \in {"Launching", "Failed", "Cancelled"}
        \/ Awaits(session["host"]) /\ session["host"].config = v
    BY DEF IInv, SentIsHeld
  <2>. QED BY <2>1
<1>2. ConfirmedIsHeld'
  <2>. SUFFICES ASSUME NEW g \in Guests, In(Message("Confirm"), channel'[<< g, "host" >>])
                PROVE  /\ g \in Joiners /\ Done(g)'
                       /\ Awaits(session'["host"]) /\ session'["host"].config = confirmed[g]
    BY DEF ConfirmedIsHeld
  <2>1. /\ g \in Joiners /\ Done(g)
        /\ Awaits(session["host"]) /\ session["host"].config = confirmed[g]
    BY DEF IInv, ConfirmedIsHeld
  <2>. QED BY <2>1
<1>3. LaunchedWithOne'
  BY DEF IInv, LaunchedWithOne
<1>. QED BY <1>1, <1>2, <1>3 DEF IInv

(* The transport *)
LEMMA TransportPreserves ==
  ASSUME IInv, UNCHANGED << session, uiVars, greeted, confirmed >>,
         knocked' \subseteq Spectators, linked' \subseteq Guests,
         linked' # {} => session["host"].state # "Idle",
         channel' \in [Routes -> Seq(Events)],
         \A r \in Routes : \A m : In(m, channel'[r]) /\ m.tag \in {"Config", "Confirm"} =>
           In(m, channel[r]) /\ (r[2] \in linked' \cap Joiners => r[2] \in linked)
  PROVE  IInv'
<1>1. /\ session' = session /\ commands' = commands /\ ui' = ui /\ game' = game
      /\ hosted' = hosted /\ greeted' = greeted /\ confirmed' = confirmed
  BY DEF uiVars
<1>2. Types'
  BY <1>1 DEF IInv, Types, TypeOK
<1>3. OrdersFit'
  BY <1>1 DEF IInv, OrdersFit, Confirms
<1>4. \A g \in Joiners : Done(g) => Done(g)'
  BY <1>1 DEF Done
<1>5. \A g \in linked' \cap Joiners : \A v \in Configs :
        In(ConfigMessage(v), channel'[<< "host", g >>]) =>
          g \in linked /\ In(ConfigMessage(v), channel[<< "host", g >>])
  <2>1. \A g \in linked' \cap Joiners : << "host", g >> \in Routes /\ << "host", g >>[2] = g
    BY RouteFields
  <2>. QED BY <2>1, Messages
<1>6. \A g \in Guests : In(Message("Confirm"), channel'[<< g, "host" >>]) =>
        In(Message("Confirm"), channel[<< g, "host" >>])
  BY RouteFields, Messages
<1>7. HostPlays' = HostPlays
  BY <1>1 DEF HostPlays
<1>. QED BY <1>1, <1>2, <1>3, <1>4, <1>5, <1>6, <1>7, OthersPreserve

LEMMA ConnectPreserves ==
  ASSUME IInv, NEW g \in Joiners, Connect(g)
  PROVE  IInv'
<1>1. /\ linked \subseteq Guests /\ channel \in [Routes -> Seq(Events)] /\ knocked \subseteq Spectators
      /\ UNCHANGED << session, uiVars, knocked, greeted, confirmed >>
      /\ linked' = linked \cup {g} /\ g \in Guests
      /\ channel' = [r \in Routes |->
                       IF g \in {r[1], r[2]} THEN << Message("Connected") >> ELSE channel[r]]
  BY RouteFields DEF IInv, Types, TypeOK, Connect
<1>2. session["host"].state # "Idle"
  BY DEF Connect, Polls
<1>3. << Message("Connected") >> \in Seq(Events)
      /\ \A m : In(m, << Message("Connected") >>) => m.tag = "Connected"
  BY Messages, InOne
<1>4. channel' \in [Routes -> Seq(Events)]
  BY <1>1, <1>3
<1>5. ASSUME NEW r \in Routes, NEW m, In(m, channel'[r]), m.tag \in {"Config", "Confirm"}
      PROVE  In(m, channel[r]) /\ (r[2] \in linked' \cap Joiners => r[2] \in linked)
  BY <1>1, <1>3, <1>5
<1>. QED BY <1>1, <1>2, <1>4, <1>5, TransportPreserves

LEMMA KnockPreserves ==
  ASSUME IInv, NEW g \in Spectators, Knock(g)
  PROVE  IInv'
<1>1. /\ linked \subseteq Guests /\ channel \in [Routes -> Seq(Events)] /\ knocked \subseteq Spectators
      /\ UNCHANGED << session, uiVars, greeted, confirmed >>
      /\ linked' = linked \cup {g} /\ g \in Guests /\ knocked' = knocked \cup {g}
      /\ channel' = [channel EXCEPT ![<< g, "host" >>] = << Message("Connected") >>]
  BY DEF IInv, Types, TypeOK, Knock, Guests
<1>2. session["host"].state # "Idle"
  BY DEF Knock, Polls
<1>3. << Message("Connected") >> \in Seq(Events)
      /\ \A m : In(m, << Message("Connected") >>) => m.tag = "Connected"
  BY Messages, InOne
<1>4. << g, "host" >> \in Routes
  BY <1>1, RouteFields
<1>5. channel' \in [Routes -> Seq(Events)]
      /\ \A r \in Routes : channel'[r] = IF r = << g, "host" >> THEN << Message("Connected") >>
                                         ELSE channel[r]
  BY <1>1, <1>3, <1>4
<1>6. g \notin Joiners
  BY SessionAssumption
<1>. QED BY <1>1, <1>2, <1>3, <1>5, <1>6, TransportPreserves

LEMMA BreakPreserves ==
  ASSUME IInv, NEW g \in Guests, Break(g)
  PROVE  IInv'
<1>1. /\ Types /\ linked \subseteq Guests /\ knocked \subseteq Spectators
      /\ linked # {} => session["host"].state # "Idle"
      /\ UNCHANGED << session, uiVars, knocked, greeted, confirmed >>
  BY DEF IInv, Types, TypeOK, Break
<1>2. PICK guests, leaver : guests = {g} /\ Cut(guests, leaver)
  BY DEF Break
<1>3. /\ channel' \in [Routes -> Seq(Events)] /\ linked' \subseteq linked
      /\ \A r \in Routes : \A m : In(m, channel'[r]) =>
           In(m, channel[r]) \/ m = Message("Disconnected")
  <2>1. Types
    BY <1>1
  <2>2. channel' \in [Routes -> Seq(Events)] /\ linked' = linked \ guests
    BY <1>2, <2>1, CutIs
  <2>3. \A r \in Routes : \A m : In(m, channel'[r]) =>
          (In(m, channel[r]) \/ m = Message("Disconnected")) /\ r[2] # leaver
    BY <1>2, <2>1, CutIs
  <2>. QED BY <2>2, <2>3
<1>4. \A r \in Routes : \A m : In(m, channel'[r]) /\ m.tag \in {"Config", "Confirm"} =>
        In(m, channel[r]) /\ (r[2] \in linked' \cap Joiners => r[2] \in linked)
  BY <1>3, Messages
<1>. QED BY <1>1, <1>3, <1>4, TransportPreserves

LEMMA LosePreserves ==
  ASSUME IInv, NEW r \in Routes, Lose(r)
  PROVE  IInv'
<1>. DEFINE list == channel[r]
            short == SubSeq(list, 1, Len(list) - 2)
            new == Append(short, Message("Disconnected"))
<1>1. /\ Types /\ linked \subseteq Guests /\ knocked \subseteq Spectators
      /\ linked # {} => session["host"].state # "Idle"
      /\ channel \in [Routes -> Seq(Events)] /\ list \in Seq(Events)
  BY DEF IInv, Types, TypeOK
<1>2. /\ UNCHANGED << session, uiVars, linked, knocked, greeted, confirmed >>
      /\ channel' = [channel EXCEPT ![r] = new] /\ Len(list) > 1
  BY DEF Lose
<1>3. short \in Seq(Events) /\ \A m : In(m, short) => In(m, list)
  <2>1. Len(list) - 2 \in Nat /\ Len(list) - 2 <= Len(list)
    BY <1>1, <1>2
  <2>. HIDE DEF list
  <2>. QED BY <1>1, <2>1, InSub
<1>4. new \in Seq(Events) /\ \A m : In(m, new) => In(m, list) \/ m = Message("Disconnected")
  <2>. HIDE DEF short
  <2>. QED BY <1>3, Messages, InAppend
<1>5. /\ channel' \in [Routes -> Seq(Events)]
      /\ \A x \in Routes : channel'[x] = IF x = r THEN new ELSE channel[x]
  <2>. HIDE DEF new
  <2>. QED BY <1>1, <1>2, <1>4
<1>6. \A x \in Routes : \A m : In(m, channel'[x]) /\ m.tag \in {"Config", "Confirm"} =>
        In(m, channel[x]) /\ (x[2] \in linked' \cap Joiners => x[2] \in linked)
  <2>. HIDE DEF new
  <2>. QED BY <1>2, <1>4, <1>5, Messages
<1>. QED BY <1>1, <1>2, <1>5, <1>6, TransportPreserves

(* The user interface.  What it queues, and where it goes. *)
LEMMA OrdersAre ==
  /\ {<< >>, << Do("Confirm") >>, << Do("Cancel") >>, << Do("Deinit") >>} \subseteq Orders
  /\ Confirms \subseteq Orders
  /\ << >> # << Do("Deinit") >> /\ << >> \notin Confirms /\ << Do("Deinit") >> \notin Confirms
  /\ << Do("Cancel") >> \notin Confirms /\ << Do("Cancel") >> # << Do("Deinit") >>
BY DEF Orders, Confirms, Do, Set

LEMMA UiPreserves ==
  ASSUME IInv, NEW p \in Launchers, ui[p] = "waiting", commands[p] = << >>,
         NEW list \in Orders, NEW page \in {"waiting", "leaving", "launching"},
         ui' = [ui EXCEPT ![p] = page], commands' = [commands EXCEPT ![p] = list],
         UNCHANGED << session, channel, linked, hosted, knocked, greeted, confirmed >>,
         page \in {"leaving", "launching"} <=> list = << Do("Deinit") >>,
         page = "launching" => session[p].state = "Launching",
         list \in Confirms => session[p].state = "WaitingConfirmation",
         p # "host" => list = << Do("Deinit") >>,
         game' = IF page = "launching" THEN [game EXCEPT ![p] = session[p].config] ELSE game
  PROVE  IInv'
<1>1. /\ TypeOK /\ session \in [Launchers -> SessionType] /\ commands \in [Launchers -> Orders]
      /\ ui \in [Launchers -> {"menu", "waiting", "leaving", "launching", "game", "away"}]
      /\ game \in [Launchers -> Configs]
  BY DEF IInv, Types, TypeOK
<1>2. /\ ui' \in [Launchers -> {"menu", "waiting", "leaving", "launching", "game", "away"}]
      /\ ui'[p] = page /\ \A x \in Launchers : x # p => ui'[x] = ui[x]
      /\ commands' \in [Launchers -> Orders]
      /\ commands'[p] = list /\ \A x \in Launchers : x # p => commands'[x] = commands[x]
  BY <1>1
<1>3. /\ game' \in [Launchers -> Configs]
      /\ \A x \in Launchers : game'[x] = IF x = p /\ page = "launching" THEN session[p].config
                                         ELSE game[x]
  <2>1. session[p].config \in Configs
    BY <1>1, Fields
  <2>. QED BY <1>1, <2>1
<1>4. Types'
  BY <1>1, <1>2, <1>3 DEF IInv, Types, TypeOK
<1>5. OrdersFit'
  <2>. SUFFICES ASSUME NEW x \in Launchers
                PROVE  /\ ui'[x] \in {"leaving", "launching"} <=> commands'[x] = << Do("Deinit") >>
                       /\ ui'[x] \in {"menu", "game", "away"} => commands'[x] = << >>
                       /\ ui'[x] \in {"menu", "game", "away"} <=> session[x].state = "Idle"
                       /\ session[x].state = "Idle" => ~ session[x].cancel
                       /\ ui'[x] = "launching" => session[x].state = "Launching"
                                                  /\ game'[x] = session[x].config
                       /\ commands'[x] \in Confirms =>
                            session[x].state \in {"WaitingConfirmation", "Failed", "Cancelled"}
                       /\ x # "host" => commands'[x] \in {<< >>, << Do("Deinit") >>}
    BY DEF OrdersFit, Confirms
  <2>1. CASE x # p
    BY <1>2, <1>3, <2>1 DEF IInv, OrdersFit
  <2>2. CASE x = p
    BY <1>2, <1>3, <2>2 DEF IInv, OrdersFit
  <2>. QED BY <2>1, <2>2
<1>6. \A g \in Joiners : Done(g) => Done(g)'
  BY <1>2, RouteFields DEF Done
<1>7. session["host"].state = "Launching" \/ ui'["host"] \in {"launching", "game"} =>
        /\ session["host"].state = "Launching" \/ ui["host"] \in {"launching", "game"}
        /\ HostPlays' = HostPlays
  <2>1. CASE p = "host"
    BY <1>2, <1>3, <2>1 DEF HostPlays
  <2>2. CASE p # "host"
    BY <1>2, <1>3, <2>2, RouteFields DEF HostPlays
  <2>. QED BY <2>1, <2>2
<1>. QED BY <1>4, <1>5, <1>6, <1>7, OthersPreserve

LEMMA PagesPreserve ==
  ASSUME IInv, NEW p \in Launchers, StartMatch \/ CancelAndWait \/ Leave(p) \/ Launch(p)
  PROVE  IInv'
<1>1. /\ ui \in [Launchers -> {"menu", "waiting", "leaving", "launching", "game", "away"}]
      /\ "host" \in Launchers
  BY RouteFields DEF IInv, Types, TypeOK
<1>2. ASSUME StartMatch PROVE IInv'
  <2>1. PICK list \in Confirms : Queue("host", list)
    BY <1>2 DEF StartMatch, Confirms
  <2>2. list \in Orders /\ list # << Do("Deinit") >>
    BY OrdersAre
  <2>3. ui' = [ui EXCEPT !["host"] = "waiting"] /\ ui["host"] = "waiting"
        /\ commands["host"] = << >> /\ session["host"].state = "WaitingConfirmation"
    BY <1>1, <1>2 DEF StartMatch, Seen
  <2>. QED BY <1>1, <2>1, <2>2, <2>3, UiPreserves DEF Queue
<1>3. ASSUME CancelAndWait PROVE IInv'
  <2>1. ui' = [ui EXCEPT !["host"] = "waiting"] /\ ui["host"] = "waiting"
        /\ commands["host"] = << >> /\ Queue("host", << Do("Cancel") >>)
    BY <1>1, <1>3 DEF CancelAndWait
  <2>2. << Do("Cancel") >> \in Orders /\ << Do("Cancel") >> # << Do("Deinit") >>
        /\ << Do("Cancel") >> \notin Confirms
    BY OrdersAre
  <2>. QED BY <1>1, <2>1, <2>2, UiPreserves DEF Queue
<1>4. ASSUME Leave(p) PROVE IInv'
  <2>1. ui' = [ui EXCEPT ![p] = "leaving"] /\ ui[p] = "waiting"
        /\ commands[p] = << >> /\ Queue(p, << Do("Deinit") >>)
    BY <1>4 DEF Leave
  <2>. QED BY <2>1, OrdersAre, UiPreserves DEF Queue
<1>5. ASSUME Launch(p) PROVE IInv'
  <2>1. /\ ui' = [ui EXCEPT ![p] = "launching"] /\ ui[p] = "waiting"
        /\ commands[p] = << >> /\ commands' = [commands EXCEPT ![p] = << Do("Deinit") >>]
        /\ game' = [game EXCEPT ![p] = session[p].config] /\ session[p].state = "Launching"
        /\ UNCHANGED << session, channel, linked, hosted, knocked, greeted, confirmed >>
    BY <1>5 DEF Launch, Seen
  <2>. QED BY <2>1, OrdersAre, UiPreserves
<1>. QED BY <1>2, <1>3, <1>4, <1>5

(* Host, Join: a session is opened. *)
LEMMA OpenPreserves ==
  ASSUME IInv, NEW p \in Launchers, NEW new \in SessionType, Opened(p, new),
         new.state \notin {"Idle", "Launching"}, ~ Awaits(new), new.peer = NoPeer,
         hosted' \in 0 .. MaxHosted
  PROVE  IInv'
<1>1. /\ TypeOK /\ session \in [Launchers -> SessionType] /\ commands \in [Launchers -> Orders]
      /\ ui \in [Launchers -> {"menu", "waiting", "leaving", "launching", "game", "away"}]
  BY DEF IInv, Types, TypeOK
<1>2. /\ ui[p] = "menu" /\ ui' = [ui EXCEPT ![p] = "waiting"]
      /\ session' = [session EXCEPT ![p] = new]
      /\ UNCHANGED << commands, game, channel, linked, knocked, greeted, confirmed >>
  BY DEF Opened
<1>3. /\ ui' \in [Launchers -> {"menu", "waiting", "leaving", "launching", "game", "away"}]
      /\ ui'[p] = "waiting" /\ \A x \in Launchers : x # p => ui'[x] = ui[x]
      /\ session' \in [Launchers -> SessionType]
      /\ session'[p] = new /\ \A x \in Launchers : x # p => session'[x] = session[x]
  BY <1>1, <1>2
<1>4. session[p].state = "Idle" /\ commands[p] = << >>
  BY <1>2 DEF IInv, OrdersFit
<1>5. Types'
  <2>1. \A x \in Launchers : session'[x] \in SessionType
                             /\ session'[x].peer \in {NoPeer} \cup Peers(x)
    BY <1>1, <1>3 DEF TypeOK
  <2>2. linked # {} => session'["host"].state # "Idle"
    BY <1>1, <1>3, RouteFields DEF TypeOK
  <2>. QED BY <1>1, <1>2, <1>3, <2>1, <2>2, Fields DEF Types, TypeOK
<1>6. OrdersFit'
  <2>. SUFFICES ASSUME NEW x \in Launchers
                PROVE  /\ ui'[x] \in {"leaving", "launching"} <=> commands[x] = << Do("Deinit") >>
                       /\ ui'[x] \in {"menu", "game", "away"} => commands[x] = << >>
                       /\ ui'[x] \in {"menu", "game", "away"} <=> session'[x].state = "Idle"
                       /\ session'[x].state = "Idle" => ~ session'[x].cancel
                       /\ ui'[x] = "launching" => session'[x].state = "Launching"
                                                  /\ game[x] = session'[x].config
                       /\ commands[x] \in Confirms =>
                            session'[x].state \in {"WaitingConfirmation", "Failed", "Cancelled"}
                       /\ x # "host" => commands[x] \in {<< >>, << Do("Deinit") >>}
    BY <1>2 DEF OrdersFit, Confirms
  <2>1. CASE x # p
    BY <1>3, <2>1 DEF IInv, OrdersFit
  <2>2. CASE x = p
    BY <1>3, <1>4, <2>2, OrdersAre
  <2>. QED BY <2>1, <2>2
<1>7. \A g \in Joiners : Done(g) => Done(g)'
  <2>1. ~ Done(p)
    BY <1>2, <1>4 DEF Done
  <2>. QED BY <1>3, <2>1, RouteFields DEF Done
<1>8. ~ Awaits(session[p]) /\ session[p].state \notin {"Launching", "Failed", "Cancelled"}
  BY <1>4 DEF Awaits
<1>9. session'["host"].state = "Launching" \/ ui'["host"] \in {"launching", "game"} =>
        /\ session["host"].state = "Launching" \/ ui["host"] \in {"launching", "game"}
        /\ HostPlays' = HostPlays
  <2>1. CASE p = "host"
    BY <1>3, <2>1
  <2>2. CASE p # "host"
    BY <1>2, <1>3, <2>2, RouteFields DEF HostPlays
  <2>. QED BY <2>1, <2>2
<1>10. /\ session["host"].state \in {"Launching", "Failed", "Cancelled"} =>
            session'["host"].state \in {"Launching", "Failed", "Cancelled"}
       /\ Awaits(session["host"]) =>
            Awaits(session'["host"]) /\ session'["host"].config = session["host"].config
  <2>1. CASE p = "host"
    BY <1>8, <2>1
  <2>2. CASE p # "host"
    BY <1>3, <2>2, RouteFields
  <2>. QED BY <2>1, <2>2
<1>. QED BY <1>2, <1>5, <1>6, <1>7, <1>9, <1>10, OthersPreserve

LEMMA HostAndJoinPreserve ==
  ASSUME IInv, Host \/ \E g \in Joiners : Join(g)
  PROVE  IInv'
<1>1. Fresh \in SessionType /\ Fresh.peer = NoPeer /\ Fresh.phase = 0
  BY SessionAssumption DEF Fresh, SessionType, States, Configs
<1>2. ASSUME Host PROVE IInv'
  <2>1. PICK v \in Overrides \cup {NoValue}, state \in {"Listening", "Failed"} :
          Opened("host", [Fresh EXCEPT !.state = state, !.config = v, !.manual = v # NoValue])
    BY <1>2 DEF Host
  <2>. DEFINE new == [Fresh EXCEPT !.state = state, !.config = v, !.manual = v # NoValue]
  <2>2. /\ new \in SessionType /\ new.state = state /\ new.peer = NoPeer /\ new.phase = 0
    <3>1. PICK b \in BOOLEAN : b = (v # NoValue)
      OBVIOUS
    <3>2. new = [state |-> state, phase |-> 0, cancel |-> FALSE, pings |-> 0,
                 config |-> v, manual |-> b, peer |-> NoPeer]
      <4>1. new = [Fresh EXCEPT !.state = state, !.config = v, !.manual = b]
        BY <3>1, Zenon
      <4>. HIDE DEF new
      <4>. QED BY <4>1 DEF Fresh
    <3>3. state \in States /\ v \in Configs /\ 0 \in 0 .. Pings - 1
      BY SessionAssumption DEF States, Configs
    <3>. HIDE DEF new
    <3>4. new \in SessionType
      BY <3>2, <3>3 DEF SessionType
    <3>. QED BY <3>2, <3>4
  <2>3. hosted' \in 0 .. MaxHosted
    <3>1. hosted \in 0 .. MaxHosted /\ MaxHosted \in Nat
      BY SessionAssumption DEF IInv, Types, TypeOK
    <3>2. hosted < MaxHosted /\ hosted' = hosted + 1
      BY <1>2 DEF Host
    <3>. QED BY <3>1, <3>2
  <2>. HIDE DEF new
  <2>4. ~ Awaits(new) /\ new.state \notin {"Idle", "Launching"}
    BY <2>2 DEF Awaits
  <2>5. Opened("host", new)
    BY <2>1 DEF new
  <2>. QED BY <2>2, <2>3, <2>4, <2>5, RouteFields, OpenPreserves
<1>3. ASSUME NEW g \in Joiners, Join(g) PROVE IInv'
  <2>1. PICK state \in {"Connecting", "RelayConnecting", "Failed"} :
          Opened(g, [Fresh EXCEPT !.state = state])
    BY <1>3 DEF Join
  <2>. DEFINE new == [Fresh EXCEPT !.state = state]
  <2>2. state \in States
    BY DEF States
  <2>3. new \in SessionType
    BY <1>1, <2>2, Fields
  <2>4. new.state = state /\ new.peer = NoPeer
    BY <1>1, Changed
  <2>5. hosted' \in 0 .. MaxHosted
    BY <1>3 DEF Join, IInv, Types, TypeOK
  <2>. HIDE DEF new
  <2>6. ~ Awaits(new) /\ new.state \notin {"Idle", "Launching"}
    BY <2>4 DEF Awaits
  <2>7. Opened(g, new)
    BY <2>1 DEF new
  <2>. QED BY <2>3, <2>4, <2>5, <2>6, <2>7, RouteFields, OpenPreserves
<1>. QED BY <1>2, <1>3

LEMMA OrderIs ==
  ASSUME NEW list \in Orders, list # << >>
  PROVE  /\ Tail(list) \in Orders /\ Head(list).name \in {"Set", "Confirm", "Cancel", "Deinit"}
         /\ Tail(list) # << Do("Deinit") >>
         /\ Head(list).name = "Deinit" => list = << Do("Deinit") >> /\ Tail(list) = << >>
         /\ Head(list).name = "Cancel" => list = << Do("Cancel") >> /\ Tail(list) = << >>
         /\ Head(list).name = "Confirm" => list \in Confirms /\ Tail(list) = << >>
         /\ Head(list).name = "Set" => list \in Confirms /\ Head(list).value \in Values
         /\ Tail(list) \in Confirms => Head(list).name = "Set"
<1>1. CASE \E v \in Values : list = << Set(v), Do("Confirm") >>
  <2>1. PICK v \in Values : list = << Set(v), Do("Confirm") >>
    BY <1>1
  <2>2. Head(list) = Set(v) /\ Tail(list) = << Do("Confirm") >> /\ list \in Confirms
    BY <2>1 DEF Confirms
  <2>3. Set(v).name = "Set" /\ Set(v).value = v
    BY DEF Set
  <2>4. << Do("Confirm") >> # << Do("Deinit") >>
    BY DEF Do
  <2>. QED BY <2>2, <2>3, <2>4, OrdersAre
<1>2. CASE list \in {<< Do("Confirm") >>, << Do("Cancel") >>, << Do("Deinit") >>}
  <2>1. PICK name \in {"Confirm", "Cancel", "Deinit"} : list = << Do(name) >>
    BY <1>2
  <2>2. Head(list) = Do(name) /\ Tail(list) = << >> /\ Do(name).name = name
    BY <2>1 DEF Do
  <2>3. name = "Confirm" => list \in Confirms
    BY <2>1 DEF Confirms
  <2>. QED BY <2>1, <2>2, <2>3, OrdersAre
<1>. QED BY <1>1, <1>2 DEF Orders

(* SetManualDelay, SetRollback: obeyed before the configuration is sent. *)
LEMMA ObeysIs ==
  ASSUME IInv, NEW p \in Launchers, Obey(p)
  PROVE  /\ commands' \in [Launchers -> Orders] /\ commands'[p] = Tail(commands[p])
         /\ \A x \in Launchers : x # p => commands'[x] = commands[x]
         /\ commands[p] \in Orders /\ commands[p] # << >>
         /\ game' = game /\ hosted' = hosted /\ knocked' = knocked /\ confirmed' = confirmed
         /\ TypeOK /\ session \in [Launchers -> SessionType]
         /\ ui[p] \notin {"menu", "game", "away"} /\ session[p].state # "Idle"
<1>1. commands \in [Launchers -> Orders] /\ TypeOK /\ session \in [Launchers -> SessionType]
  BY DEF IInv, Types
<1>2. commands[p] # << >> /\ commands' = [commands EXCEPT ![p] = Tail(@)]
      /\ UNCHANGED << game, hosted, knocked, confirmed >>
  BY DEF Obey
<1>3. Tail(commands[p]) \in Orders
  BY <1>1, <1>2, OrderIs
<1>4. ui[p] \notin {"menu", "game", "away"} /\ session[p].state # "Idle"
  BY <1>2 DEF IInv, OrdersFit
<1>. QED BY <1>1, <1>2, <1>3, <1>4

(* A command that changes a session in place, if any. *)
LEMMA ObeyInPlace ==
  ASSUME IInv, NEW p \in Launchers, Obey(p), Head(commands[p]).name # "Deinit",
         NEW next \in SessionType, session' = [session EXCEPT ![p] = next],
         next.peer = session[p].peer, next.state # "Idle",
         session[p].state = "Launching" => next.state = "Launching" /\ next.config = session[p].config,
         Tail(commands[p]) \in Confirms =>
           next.state \in {"WaitingConfirmation", "Failed", "Cancelled"},
         ui' = ui, linked' = linked, greeted' = greeted, channel' \in [Routes -> Seq(Events)]
  PROVE  /\ Types' /\ OrdersFit' /\ \A g \in Joiners : Done(g) => Done(g)'
         /\ session'[p] = next /\ \A x \in Launchers : x # p => session'[x] = session[x]
<1>1. /\ commands' \in [Launchers -> Orders] /\ commands'[p] = Tail(commands[p])
      /\ \A x \in Launchers : x # p => commands'[x] = commands[x]
      /\ commands[p] \in Orders /\ commands[p] # << >>
      /\ game' = game /\ hosted' = hosted /\ knocked' = knocked /\ confirmed' = confirmed
      /\ TypeOK /\ session \in [Launchers -> SessionType]
      /\ ui[p] \notin {"menu", "game", "away"} /\ session[p].state # "Idle"
  BY ObeysIs
<1>2. /\ session' \in [Launchers -> SessionType]
      /\ session'[p] = next /\ \A x \in Launchers : x # p => session'[x] = session[x]
  BY <1>1
<1>3. commands[p] # << Do("Deinit") >> /\ Tail(commands[p]) # << Do("Deinit") >>
  <2>1. Head(<< Do("Deinit") >>).name = "Deinit"
    BY DEF Do
  <2>. QED BY <1>1, <2>1, OrderIs
<1>4. Types'
  <2>1. \A x \in Launchers : session'[x] \in SessionType
                             /\ session'[x].peer \in {NoPeer} \cup Peers(x)
    BY <1>1, <1>2 DEF TypeOK
  <2>2. linked # {} => session'["host"].state # "Idle"
    BY <1>1, <1>2, RouteFields DEF TypeOK
  <2>. QED BY <1>1, <1>2, <2>1, <2>2, Fields DEF Types, TypeOK
<1>5. ui[p] \notin {"menu", "game", "away", "leaving", "launching"}
  BY <1>1, <1>3 DEF IInv, OrdersFit
<1>6. OrdersFit'
  <2>. SUFFICES ASSUME NEW x \in Launchers
                PROVE  /\ ui[x] \in {"leaving", "launching"} <=> commands'[x] = << Do("Deinit") >>
                       /\ ui[x] \in {"menu", "game", "away"} => commands'[x] = << >>
                       /\ ui[x] \in {"menu", "game", "away"} <=> session'[x].state = "Idle"
                       /\ session'[x].state = "Idle" => ~ session'[x].cancel
                       /\ ui[x] = "launching" => session'[x].state = "Launching"
                                                 /\ game[x] = session'[x].config
                       /\ commands'[x] \in Confirms =>
                            session'[x].state \in {"WaitingConfirmation", "Failed", "Cancelled"}
                       /\ x # "host" => commands'[x] \in {<< >>, << Do("Deinit") >>}
    BY <1>1 DEF OrdersFit, Confirms
  <2>1. CASE x # p
    BY <1>1, <1>2, <2>1 DEF IInv, OrdersFit
  <2>2. CASE x = p
    <3>1. x # "host" => FALSE
      BY <1>1, <1>3, <2>2 DEF IInv, OrdersFit
    <3>. QED BY <1>1, <1>2, <1>3, <1>5, <2>2, <3>1
  <2>. QED BY <2>1, <2>2
<1>7. \A g \in Joiners : Done(g) => Done(g)'
  BY <1>2, RouteFields DEF Done
<1>. QED BY <1>2, <1>4, <1>6, <1>7

(* No command but Deinit reaches a guest, and none is obeyed once the host has launched. *)
LEMMA ObeyQuietly ==
  ASSUME IInv, NEW p \in Launchers, Obey(p), Head(commands[p]).name # "Deinit",
         NEW next \in SessionType, session' = [session EXCEPT ![p] = next],
         next.peer = session[p].peer, next.state = session[p].state,
         next.phase = session[p].phase,
         session[p].state \notin {"WaitingConfirmation", "Failed", "Cancelled"} =>
           next.config = session[p].config,
         ui' = ui, linked' = linked, greeted' = greeted, channel' = channel
  PROVE  IInv'
<1>1. /\ commands[p] \in Orders /\ commands[p] # << >> /\ confirmed' = confirmed /\ game' = game
      /\ channel \in [Routes -> Seq(Events)] /\ session[p].state # "Idle"
      /\ ui[p] \notin {"menu", "game", "away"}
  BY ObeysIs DEF TypeOK
<1>2. Tail(commands[p]) \in Confirms =>
        next.state \in {"WaitingConfirmation", "Failed", "Cancelled"}
  BY <1>1, OrderIs DEF IInv, OrdersFit
<1>3. /\ Types' /\ OrdersFit' /\ \A g \in Joiners : Done(g) => Done(g)'
      /\ session'[p] = next /\ \A x \in Launchers : x # p => session'[x] = session[x]
  <2>1. /\ next.state # "Idle" /\ channel' \in [Routes -> Seq(Events)]
        /\ session[p].state = "Launching" =>
             next.state = "Launching" /\ next.config = session[p].config
    BY <1>1
  <2>. QED BY <1>2, <2>1, ObeyInPlace
<1>4. ui[p] \notin {"launching", "game"}
  <2>1. commands[p] # << Do("Deinit") >>
    BY DEF Do
  <2>. QED BY <1>1, <2>1 DEF IInv, OrdersFit
<1>5. /\ session["host"].state \in {"Launching", "Failed", "Cancelled"} =>
           session'["host"].state \in {"Launching", "Failed", "Cancelled"}
      /\ Awaits(session["host"]) =>
           Awaits(session'["host"]) /\ session'["host"].config = session["host"].config
  BY <1>3, RouteFields DEF Awaits
<1>6. session'["host"].state = "Launching" \/ ui'["host"] \in {"launching", "game"} =>
        /\ session["host"].state = "Launching" \/ ui["host"] \in {"launching", "game"}
        /\ HostPlays' = HostPlays
  BY <1>1, <1>3, <1>4, RouteFields DEF HostPlays
<1>. QED BY <1>1, <1>3, <1>5, <1>6, OthersPreserve

(* The host's configuration goes out. *)
LEMMA ObeyConfirm ==
  ASSUME IInv, NEW p \in Launchers, Obey(p), Head(commands[p]).name = "Confirm",
         session[p].state = "WaitingConfirmation",
         session' = [session EXCEPT ![p].state = "Handshaking", ![p].phase = 3],
         channel' = Sent(channel, p, session[p].peer, << ConfigMessage(session[p].config) >>),
         UNCHANGED << ui, linked, greeted >>
  PROVE  IInv'
<1>. DEFINE s == session[p]
            next == [s EXCEPT !.state = "Handshaking", !.phase = 3]
            msgs == << ConfigMessage(s.config) >>
<1>1. /\ commands[p] \in Orders /\ commands[p] # << >> /\ confirmed' = confirmed
      /\ channel \in [Routes -> Seq(Events)] /\ session[p].state # "Idle"
      /\ s \in SessionType /\ s.peer \in {NoPeer} \cup Peers(p)
      /\ session \in [Launchers -> SessionType] /\ ui[p] \notin {"menu", "game", "away"}
  BY ObeysIs DEF TypeOK
<1>2. Tail(commands[p]) \notin Confirms /\ commands[p] \in Confirms
  BY <1>1, OrderIs
<1>3. p = "host" /\ ui[p] \notin {"launching", "game"}
  BY <1>1, <1>2, OrdersAre DEF IInv, OrdersFit
<1>4. "Handshaking" \in States
  BY DEF States
<1>5. next \in SessionType
  BY <1>1, <1>4, Fields
<1>6. next.state = "Handshaking" /\ next.phase = 3 /\ next.peer = s.peer /\ next.config = s.config
  BY <1>1, Changed
<1>7. msgs \in Seq(Events) /\ \A m : In(m, msgs) <=> m = ConfigMessage(s.config)
  <2>1. ConfigMessage(s.config) \in Events
    BY <1>1, Fields, Messages
  <2>. QED BY <2>1, InOne
<1>8. PICK q \in {NoPeer} \cup Peers(p), out \in Seq(Events) : q = s.peer /\ out = msgs
  BY <1>1, <1>7
<1>9. channel' = Sent(channel, p, q, out)
  BY <1>8
<1>10. channel' \in [Routes -> Seq(Events)]
  <2>1. Sent(channel, p, q, out) \in [Routes -> Seq(Events)]
    BY <1>1, SentIs
  <2>. QED BY <1>9, <2>1
<1>11. \A r \in Routes : \A m : In(m, channel'[r]) => In(m, channel[r]) \/ In(m, out)
  BY <1>1, <1>9, SentIs
<1>12. session' = [session EXCEPT ![p] = next]
  BY <1>1
<1>. HIDE DEF next, msgs
<1>13. /\ Types' /\ OrdersFit' /\ \A g \in Joiners : Done(g) => Done(g)'
       /\ session'[p] = next /\ \A x \in Launchers : x # p => session'[x] = session[x]
  BY <1>1, <1>2, <1>5, <1>6, <1>10, <1>12, ObeyInPlace
<1>14. Awaits(session'["host"]) /\ session'["host"].config = session["host"].config
  BY <1>3, <1>6, <1>13 DEF Awaits
<1>15. SentIsHeld'
  <2>. SUFFICES ASSUME NEW g \in linked \cap Joiners, NEW v \in Configs,
                       In(ConfigMessage(v), channel'[<< "host", g >>])
                PROVE  session["host"].config = v
    BY <1>14 DEF SentIsHeld
  <2>1. << "host", g >> \in Routes
    BY RouteFields
  <2>2. ~ In(ConfigMessage(v), channel[<< "host", g >>])
    BY <1>3 DEF IInv, SentIsHeld, Awaits
  <2>3. ConfigMessage(v) = ConfigMessage(s.config)
    BY <1>7, <1>8, <1>11, <2>1, <2>2
  <2>. QED BY <1>3, <2>3, Messages
<1>16. ConfirmedIsHeld'
  <2>. SUFFICES ASSUME NEW g \in Guests, In(Message("Confirm"), channel'[<< g, "host" >>])
                PROVE  FALSE
    BY DEF ConfirmedIsHeld
  <2>1. << g, "host" >> \in Routes
    BY RouteFields
  <2>2. In(Message("Confirm"), channel[<< g, "host" >>])
    BY <1>7, <1>8, <1>11, <2>1, Messages
  <2>. QED BY <1>3, <2>2 DEF IInv, ConfirmedIsHeld, Awaits
<1>17. LaunchedWithOne'
  BY <1>3, <1>14 DEF LaunchedWithOne, Awaits
<1>. QED BY <1>13, <1>15, <1>16, <1>17 DEF IInv

(* Deinit: the transport goes, and with it whatever the launcher would have read. *)
LEMMA ObeyDeinit ==
  ASSUME IInv, NEW p \in Launchers, Obey(p), Head(commands[p]).name = "Deinit",
         session' = [session EXCEPT ![p] = Fresh], TornDown(p),
         ui' = [ui EXCEPT ![p] = IF @ = "launching" THEN "game"
                                 ELSE IF IsHost(p) THEN "menu" ELSE "away"],
         greeted' = IF IsHost(p) THEN {} ELSE greeted
  PROVE  IInv'
<1>1. /\ commands[p] \in Orders /\ commands[p] # << >>
      /\ commands' \in [Launchers -> Orders] /\ commands'[p] = Tail(commands[p])
      /\ \A x \in Launchers : x # p => commands'[x] = commands[x]
      /\ game' = game /\ hosted' = hosted /\ knocked' = knocked /\ confirmed' = confirmed
      /\ TypeOK /\ session \in [Launchers -> SessionType] /\ Types
  BY ObeysIs DEF IInv
<1>2. commands[p] = << Do("Deinit") >> /\ commands'[p] = << >>
  BY <1>1, OrderIs
<1>3. ui[p] \in {"leaving", "launching"}
  BY <1>2 DEF IInv, OrdersFit
<1>4. /\ ui' \in [Launchers -> {"menu", "waiting", "leaving", "launching", "game", "away"}]
      /\ ui'[p] = IF ui[p] = "launching" THEN "game" ELSE IF p = "host" THEN "menu" ELSE "away"
      /\ \A x \in Launchers : x # p => ui'[x] = ui[x]
  <2>1. ui \in [Launchers -> {"menu", "waiting", "leaving", "launching", "game", "away"}]
    BY <1>1 DEF TypeOK
  <2>. QED BY <2>1 DEF IsHost
<1>5. Fresh \in SessionType /\ Fresh.state = "Idle" /\ Fresh.peer = NoPeer /\ ~ Fresh.cancel
  BY SessionAssumption DEF Fresh, SessionType, States, Configs
<1>6. /\ session' \in [Launchers -> SessionType] /\ session'[p] = Fresh
      /\ \A x \in Launchers : x # p => session'[x] = session[x]
  BY <1>1, <1>5
<1>7. PICK guests : /\ guests = (IF p = "host" THEN Guests ELSE {p}) /\ Cut(guests, p)
  BY DEF TornDown, IsHost
<1>8. channel' \in [Routes -> Seq(Events)] /\ linked' = linked \ guests
  BY <1>1, <1>7, CutIs
<1>9. \A r \in Routes : \A m : In(m, channel'[r]) =>
        (In(m, channel[r]) \/ m = Message("Disconnected")) /\ r[2] # p
  BY <1>1, <1>7, CutIs
<1>10. Types'
  <2>1. \A x \in Launchers : session'[x] \in SessionType
                             /\ session'[x].peer \in {NoPeer} \cup Peers(x)
    BY <1>1, <1>5, <1>6 DEF TypeOK
  <2>2. linked' # {} => session'["host"].state # "Idle"
    BY <1>1, <1>6, <1>7, <1>8, RouteFields DEF TypeOK
  <2>3. greeted' \subseteq Guests /\ linked' \subseteq Guests
    BY <1>1, <1>8 DEF TypeOK
  <2>. QED BY <1>1, <1>4, <1>6, <1>8, <2>1, <2>2, <2>3, Fields DEF Types, TypeOK
<1>11. OrdersFit'
  <2>. SUFFICES ASSUME NEW x \in Launchers
                PROVE  /\ ui'[x] \in {"leaving", "launching"} <=> commands'[x] = << Do("Deinit") >>
                       /\ ui'[x] \in {"menu", "game", "away"} => commands'[x] = << >>
                       /\ ui'[x] \in {"menu", "game", "away"} <=> session'[x].state = "Idle"
                       /\ session'[x].state = "Idle" => ~ session'[x].cancel
                       /\ ui'[x] = "launching" => session'[x].state = "Launching"
                                                  /\ game[x] = session'[x].config
                       /\ commands'[x] \in Confirms =>
                            session'[x].state \in {"WaitingConfirmation", "Failed", "Cancelled"}
                       /\ x # "host" => commands'[x] \in {<< >>, << Do("Deinit") >>}
    BY <1>1 DEF OrdersFit, Confirms
  <2>1. CASE x # p
    BY <1>1, <1>4, <1>6, <2>1 DEF IInv, OrdersFit
  <2>2. CASE x = p
    BY <1>2, <1>3, <1>4, <1>5, <1>6, <2>2, OrdersAre
  <2>. QED BY <2>1, <2>2
<1>12. \A g \in Joiners : Done(g) => Done(g)'
  BY <1>4, <1>6, RouteFields DEF Done
<1>13. \A g \in Guests : In(Message("Confirm"), channel'[<< g, "host" >>]) =>
         In(Message("Confirm"), channel[<< g, "host" >>]) /\ p # "host"
  <2>1. \A g \in Guests : << g, "host" >> \in Routes /\ << g, "host" >>[2] = "host"
    BY RouteFields
  <2>. QED BY <1>9, <2>1, Messages
<1>14. CASE p = "host"
  <2>1. linked' = {}
    BY <1>1, <1>7, <1>8, <1>14 DEF TypeOK
  <2>2. SentIsHeld'
    BY <2>1 DEF SentIsHeld
  <2>3. ConfirmedIsHeld'
    BY <1>13, <1>14 DEF ConfirmedIsHeld
  <2>4. LaunchedWithOne'
    <3>1. session'["host"].state = "Idle"
      BY <1>5, <1>6, <1>14
    <3>2. CASE ui["host"] = "launching"
      <4>1. HostPlays' = HostPlays
        BY <1>1, <1>4, <1>14, <3>2 DEF HostPlays
      <4>. QED BY <1>1, <1>12, <3>2, <4>1 DEF IInv, LaunchedWithOne
    <3>3. CASE ui["host"] # "launching"
      BY <1>4, <1>14, <3>1, <3>3 DEF LaunchedWithOne
    <3>. QED BY <3>2, <3>3
  <2>. QED BY <1>10, <1>11, <2>2, <2>3, <2>4 DEF IInv
<1>15. CASE p # "host"
  <2>1. session'["host"] = session["host"] /\ ui'["host"] = ui["host"]
    BY <1>4, <1>6, <1>15, RouteFields
  <2>2. HostPlays' = HostPlays
    BY <1>1, <2>1 DEF HostPlays
  <2>3. \A g \in linked' \cap Joiners : \A v \in Configs :
          In(ConfigMessage(v), channel'[<< "host", g >>]) =>
            g \in linked /\ In(ConfigMessage(v), channel[<< "host", g >>])
    <3>1. \A g \in linked' \cap Joiners : << "host", g >> \in Routes
      BY RouteFields
    <3>. QED BY <1>8, <1>9, <3>1, Messages
  <2>. QED BY <1>1, <1>10, <1>11, <1>12, <1>13, <2>1, <2>2, <2>3, OthersPreserve
<1>. QED BY <1>14, <1>15

LEMMA ObeyPreserves ==
  ASSUME IInv, NEW p \in Launchers, Obey(p)
  PROVE  IInv'
<1>. DEFINE s == session[p]
            c == Head(commands[p])
<1>1. /\ commands[p] \in Orders /\ commands[p] # << >>
      /\ session \in [Launchers -> SessionType] /\ s \in SessionType
  BY ObeysIs
<1>2. c.name \in {"Set", "Confirm", "Cancel", "Deinit"}
  BY <1>1, OrderIs
<1>3. CASE c.name = "Set"
  <2>. DEFINE next == [s EXCEPT !.config = c.value, !.manual = TRUE]
  <2>1. session' = [session EXCEPT ![p].config = c.value, ![p].manual = TRUE]
        /\ UNCHANGED << ui, channel, linked, greeted >>
    BY <1>3 DEF Obey
  <2>2. session' = [session EXCEPT ![p] = next]
    BY <1>1, <2>1
  <2>3. commands[p] \in Confirms /\ c.value \in Configs
    BY <1>1, <1>3, OrderIs DEF Configs
  <2>4. s.state \in {"WaitingConfirmation", "Failed", "Cancelled"}
    BY <2>3 DEF IInv, OrdersFit
  <2>5. next \in SessionType
    BY <1>1, <2>3, Fields
  <2>6. next.state = s.state /\ next.phase = s.phase /\ next.peer = s.peer
    BY <1>1 DEF SessionType
  <2>7. c.name # "Deinit"
    BY <1>3
  <2>. HIDE DEF next
  <2>. QED BY <2>1, <2>2, <2>4, <2>5, <2>6, <2>7, ObeyQuietly
<1>4. CASE c.name = "Confirm" /\ s.state = "WaitingConfirmation"
  <2>1. /\ session' = [session EXCEPT ![p].state = "Handshaking", ![p].phase = 3]
        /\ channel' = Sent(channel, p, s.peer, << ConfigMessage(s.config) >>)
        /\ UNCHANGED << ui, linked, greeted >>
    BY <1>4 DEF Obey
  <2>. QED BY <1>4, <2>1, ObeyConfirm
<1>5. CASE c.name = "Confirm" /\ s.state # "WaitingConfirmation"
  <2>1. UNCHANGED << session, ui, channel, linked, greeted >>
    BY <1>5 DEF Obey
  <2>2. session' = [session EXCEPT ![p] = s] /\ c.name # "Deinit"
    BY <1>1, <1>5, <2>1
  <2>. HIDE DEF s
  <2>3. /\ s.peer = session[p].peer /\ s.state = session[p].state
        /\ s.phase = session[p].phase /\ s.config = session[p].config
    BY DEF s
  <2>. QED BY <1>1, <2>1, <2>2, <2>3, ObeyQuietly
<1>6. CASE c.name = "Cancel"
  <2>. DEFINE next == [s EXCEPT !.cancel = TRUE]
  <2>1. session' = [session EXCEPT ![p].cancel = TRUE]
        /\ UNCHANGED << ui, channel, linked, greeted >>
    BY <1>6 DEF Obey
  <2>2. session' = [session EXCEPT ![p] = next] /\ c.name # "Deinit"
    BY <1>1, <1>6, <2>1
  <2>3. next \in SessionType
    BY <1>1, Fields
  <2>4. next.state = s.state /\ next.phase = s.phase /\ next.peer = s.peer
        /\ next.config = s.config
    BY <1>1 DEF SessionType
  <2>. HIDE DEF next
  <2>. QED BY <2>1, <2>2, <2>3, <2>4, ObeyQuietly
<1>7. CASE c.name = "Deinit"
  <2>1. /\ session' = [session EXCEPT ![p] = Fresh] /\ TornDown(p)
        /\ ui' = [ui EXCEPT ![p] = IF @ = "launching" THEN "game"
                                   ELSE IF IsHost(p) THEN "menu" ELSE "away"]
        /\ greeted' = IF IsHost(p) THEN {} ELSE greeted
    BY <1>7 DEF Obey
  <2>. QED BY <1>7, <2>1, ObeyDeinit
<1>. QED BY <1>2, <1>3, <1>4, <1>5, <1>6, <1>7

LEMMA NextPreserves ==
  ASSUME IInv, [Next]_vars
  PROVE  IInv'
<1>1. ASSUME NEW g \in Joiners, Join(g) \/ Connect(g) \/ RelayEnds(g) PROVE IInv'
  BY <1>1, HostAndJoinPreserve, ConnectPreserves, RelayEndsPreserves
<1>2. ASSUME NEW g \in Spectators, Knock(g) PROVE IInv'
  BY <1>2, KnockPreserves
<1>3. ASSUME NEW g \in Guests, Break(g) PROVE IInv'
  BY <1>3, BreakPreserves
<1>4. ASSUME NEW r \in Routes, Lose(r) PROVE IInv'
  BY <1>4, LosePreserves
<1>5. ASSUME NEW p \in Launchers, Timeout(p) \/ Cancelled(p) \/ Obey(p) PROVE IInv'
  BY <1>5, TimeoutPreserves, CancelledPreserves, ObeyPreserves
<1>6. ASSUME NEW p \in Launchers, Leave(p) \/ Launch(p) PROVE IInv'
  BY <1>6, PagesPreserve
<1>7. ASSUME NEW p \in Launchers, NEW q \in Peers(p), Receive(p, q) PROVE IInv'
  BY <1>7, ReceivePreserves
<1>8. ASSUME Host PROVE IInv'
  BY <1>8, HostAndJoinPreserve
<1>9. ASSUME StartMatch \/ CancelAndWait PROVE IInv'
  BY <1>9, PagesPreserve, RouteFields
<1>10. CASE UNCHANGED vars
  <2>1. /\ UNCHANGED << session, uiVars, greeted, confirmed >>
        /\ linked' = linked /\ knocked' = knocked /\ channel' = channel
    BY <1>10 DEF vars, uiVars
  <2>2. /\ linked \subseteq Guests /\ knocked \subseteq Spectators
        /\ linked # {} => session["host"].state # "Idle"
    BY DEF IInv, Types, TypeOK
  <2>3. channel \in [Routes -> Seq(Events)]
    BY DEF IInv, Types, TypeOK
  <2>. QED BY <2>1, <2>2, <2>3, TransportPreserves
<1>. QED BY <1>1, <1>2, <1>3, <1>4, <1>5, <1>6, <1>7, <1>8, <1>9, <1>10 DEF Next

LEMMA Invariance == Spec => []IInv
<1>1. Init => IInv
  BY InitEstablishes
<1>2. IInv /\ [Next]_vars => IInv'
  BY NextPreserves
<1>. QED BY <1>1, <1>2, PTL DEF Spec

(* The worker, the page and the command line keep a session's types, and the host never *)
(* starts its game with a configuration that no guest has confirmed.                    *)
THEOREM GamesStartAlike == Spec => []Inv
<1>1. IInv => Inv
  <2>. SUFFICES ASSUME IInv PROVE Inv
    OBVIOUS
  <2>1. TypeOK /\ LaunchedWithOne
    BY DEF IInv, Types
  <2>. QED BY <2>1 DEF LaunchedWithOne, LaunchedAlike, Inv
<1>. QED BY <1>1, Invariance, PTL
-----------------------------------------------------------------------------
(* The rank of what the host says to a guest, in the order it says it. *)
Rank(e) ==
  CASE e.tag = "Connected" -> 0
    [] e.tag = "Version" -> 1
    [] e.tag = "Name" -> 2
    [] e.tag = "Ping" -> 3 + e.number
    [] e.tag = "Config" -> 3 + Pings
    [] OTHER -> -1

(* The ranks a guest is past. *)
Progress(s) ==
  CASE s.state = "Connecting" -> 0
    [] s.state = "Handshaking" /\ s.phase = 0 -> 1
    [] s.state = "Handshaking" /\ s.phase = 1 -> 2
    [] s.state = "PingExchanging" -> 3 + s.pings
    [] s.state = "Handshaking" /\ s.phase = 3 -> 3 + Pings
    [] OTHER -> 4 + Pings

(* The rank of what the host says next to its peer. *)
Speaks(s) == s.state \in {"Handshaking", "PingExchanging", "WaitingConfirmation"}
Says(s) ==
  CASE s.state = "Handshaking" /\ s.phase = 0 -> 2
    [] s.state = "Handshaking" /\ s.phase = 1 -> 3
    [] s.state = "PingExchanging" -> 4 + s.pings
    [] s.state = "WaitingConfirmation" -> 3 + Pings
    [] OTHER -> 4 + Pings

Down(g) == channel[<< "host", g >>]
Up(g) == channel[<< g, "host" >>]
Calls(list) == \E n \in DOMAIN list : list[n].tag = "Connected"
CallsFirst(list) == \A n \in DOMAIN list : list[n].tag = "Connected" => n = 1
Knocks(g) == Calls(Up(g))

(* A guest connects once: the host hears of it before anything else it says. *)
Known(g) == g \in greeted \/ session["host"].peer = g \/ Knocks(g) \/ g \in linked
Entered(g) ==
  /\ ui[g] # "menu" /\ session[g].state # "RelayConnecting"
  /\ session[g].state = "Connecting" => Down(g) # << >>
ConnectsOnce(g) ==
  /\ Known(g) => Entered(g)
  /\ Knocks(g) => g \notin greeted /\ session["host"].peer # g
  /\ CallsFirst(Up(g))
  /\ g \in linked => \A n \in DOMAIN Down(g) : Down(g)[n].tag # "Disconnected"
  /\ Down(g) # << >> => Polls(session[g])
  /\ session[g].state = "Connecting" /\ Down(g) # << >> =>
       Down(g)[1].tag \in {"Connected", "Disconnected"}
  /\ session[g].state \notin {"Listening", "WaitingConfirmation"}

(* What is on its way to a guest comes in order, from no further than the guest is; and *)
(* to a guest that is connected, as far as the host is.                                 *)
InOrder(g, b) ==
  /\ \A n \in DOMAIN Down(g) : Down(g)[n].tag = "Disconnected" \/ Rank(Down(g)[n]) = b + n - 1
  /\ g \in linked /\ Polls(session[g]) =>
       /\ Knocks(g) => b + Len(Down(g)) = 1
       /\ g \in greeted /\ session["host"].peer = g /\ Speaks(session["host"]) =>
            b + Len(Down(g)) = Says(session["host"])
KeepsUp(g) ==
  g \in greeted \/ Knocks(g) => \E b \in 0 .. Progress(session[g]) : InOrder(g, b)

Hears(g) == ConnectsOnce(g) /\ KeepsUp(g)
-----------------------------------------------------------------------------
(* Lists, by position *)

LEMMA TailIs ==
  ASSUME NEW S, NEW list \in Seq(S), list # << >>
  PROVE  /\ Tail(list) \in Seq(S) /\ Head(list) = list[1] /\ Head(list) \in S
         /\ Len(list) \in Nat \ {0} /\ Len(Tail(list)) = Len(list) - 1 /\ 1 \in DOMAIN list
         /\ \A n \in DOMAIN Tail(list) :
              n \in Nat \ {0} /\ n + 1 \in DOMAIN list /\ Tail(list)[n] = list[n + 1]
<1>1. /\ Tail(list) \in Seq(S) /\ Len(Tail(list)) = Len(list) - 1 /\ Len(list) \in Nat \ {0}
      /\ \A n \in 1 .. Len(list) - 1 : Tail(list)[n] = list[n + 1]
      /\ DOMAIN Tail(list) = 1 .. Len(list) - 1 /\ DOMAIN list = 1 .. Len(list)
      /\ Head(list) = list[1]
  BY HeadTailProperties, LenProperties, EmptySeq
<1>2. \A n \in 1 .. Len(list) - 1 : n \in Nat \ {0} /\ n + 1 \in 1 .. Len(list)
  BY <1>1
<1>3. 1 \in DOMAIN list /\ list[1] \in S
  BY <1>1, ElementOfSeq
<1>. QED BY <1>1, <1>2, <1>3

LEMMA ConcatIs ==
  ASSUME NEW S, NEW list \in Seq(S), NEW more \in Seq(S)
  PROVE  /\ list \o more \in Seq(S)
         /\ \A n \in DOMAIN list : n \in DOMAIN (list \o more) /\ (list \o more)[n] = list[n]
         /\ \A n \in DOMAIN (list \o more) :
              \/ n \in DOMAIN list /\ (list \o more)[n] = list[n]
              \/ \E k \in DOMAIN more : n = Len(list) + k /\ (list \o more)[n] = more[k]
<1>1. /\ list \o more \in Seq(S) /\ Len(list \o more) = Len(list) + Len(more)
      /\ Len(list) \in Nat /\ Len(more) \in Nat
      /\ DOMAIN list = 1 .. Len(list) /\ DOMAIN more = 1 .. Len(more)
      /\ DOMAIN (list \o more) = 1 .. Len(list) + Len(more)
      /\ \A n \in 1 .. Len(list) + Len(more) :
           (list \o more)[n] = IF n <= Len(list) THEN list[n] ELSE more[n - Len(list)]
  BY ConcatProperties
<1>2. \A n \in 1 .. Len(list) + Len(more) :
        \/ n <= Len(list) /\ n \in 1 .. Len(list)
        \/ n > Len(list) /\ n - Len(list) \in 1 .. Len(more) /\ n = Len(list) + (n - Len(list))
  BY <1>1
<1>3. \A n \in 1 .. Len(list) : n \in 1 .. Len(list) + Len(more) /\ n <= Len(list)
  BY <1>1
<1>4. \A n \in DOMAIN (list \o more) :
        \/ n \in DOMAIN list /\ (list \o more)[n] = list[n]
        \/ \E k \in DOMAIN more : n = Len(list) + k /\ (list \o more)[n] = more[k]
  <2>. SUFFICES ASSUME NEW n \in 1 .. Len(list) + Len(more)
                PROVE  \/ n \in DOMAIN list /\ (list \o more)[n] = list[n]
                       \/ \E k \in DOMAIN more : n = Len(list) + k /\ (list \o more)[n] = more[k]
    BY <1>1
  <2>1. CASE n <= Len(list)
    BY <1>1, <1>2, <2>1
  <2>2. CASE ~ n <= Len(list)
    <3>1. n - Len(list) \in DOMAIN more /\ n = Len(list) + (n - Len(list))
          /\ (list \o more)[n] = more[n - Len(list)]
      BY <1>1, <1>2, <2>2
    <3>. QED BY <3>1
  <2>. QED BY <2>1, <2>2
<1>. QED BY <1>1, <1>3, <1>4

(* What follows in a list, or is left of it, knocks no more than the list does. *)
Silent(list) == \A n \in DOMAIN list : list[n].tag # "Connected"

LEMMA CallsAppend ==
  ASSUME NEW list \in Seq(Events), NEW more \in Seq(Events), Silent(more), CallsFirst(list)
  PROVE  CallsFirst(list \o more) /\ (Calls(list \o more) => Calls(list))
<1>1. \A n \in DOMAIN (list \o more) : (list \o more)[n].tag = "Connected" =>
        n \in DOMAIN list /\ (list \o more)[n] = list[n]
  BY ConcatIs DEF Silent
<1>. QED BY <1>1 DEF CallsFirst, Calls

LEMMA CallsTail ==
  ASSUME NEW list \in Seq(Events), list # << >>, CallsFirst(list)
  PROVE  CallsFirst(Tail(list)) /\ ~ Calls(Tail(list))
<1>1. \A n \in DOMAIN Tail(list) : Tail(list)[n].tag # "Connected"
  <2>. SUFFICES ASSUME NEW n \in DOMAIN Tail(list), Tail(list)[n].tag = "Connected" PROVE FALSE
    OBVIOUS
  <2>1. n \in Nat \ {0} /\ n + 1 \in DOMAIN list /\ list[n + 1].tag = "Connected"
    BY TailIs
  <2>2. n + 1 = 1
    BY <2>1 DEF CallsFirst
  <2>. QED BY <2>1, <2>2
<1>. QED BY <1>1 DEF CallsFirst, Calls

(* A list that keeps some of the events it had, and ends with the end of a connection.  *)
Cuts(old, new) ==
  \A n \in DOMAIN new :
    (n \in DOMAIN old /\ new[n] = old[n]) \/ new[n].tag = "Disconnected"

LEMMA CallsEnds ==
  ASSUME NEW old, NEW new, CallsFirst(old), Cuts(old, new)
  PROVE  CallsFirst(new) /\ (Calls(new) => Calls(old))
BY DEF CallsFirst, Calls, Cuts
-----------------------------------------------------------------------------
(* What a step may do to a guest and the host's dealings with it *)

(* No connection and no message comes between them, though one may be lost with it. *)
ListsMild(g) ==
  /\ CallsFirst(Up(g))' /\ (Knocks(g)' => Knocks(g))
  /\ g \in linked' => g \in linked
  /\ \A n \in DOMAIN Down(g)' :
       \/ n \in DOMAIN Down(g) /\ Down(g)'[n] = Down(g)[n]
       \/ g \notin linked' /\ Down(g)'[n].tag = "Disconnected"
  /\ Polls(session'[g]) => /\ Down(g) # << >> => Down(g)' # << >>
                           /\ g \in linked' => Down(g)' = Down(g)
  /\ Down(g)' # << >> => Polls(session'[g])

(* The guest goes on, if anywhere. *)
GuestMild(g) ==
  /\ session'[g].state \notin {"Listening", "WaitingConfirmation"}
  /\ ui[g] # "menu" => ui'[g] # "menu"
  /\ session'[g].state \in {"RelayConnecting", "Connecting"} =>
       session'[g].state = session[g].state
  /\ Polls(session'[g]) => Polls(session[g])
  /\ Progress(session[g]) <= Progress(session'[g])

(* The host is where it was with the guest, or no longer deals with it. *)
HostMild(g) ==
  /\ Known(g)' => Known(g)
  /\ Knocks(g)' => g \notin greeted' /\ session'["host"].peer # g
  /\ g \in greeted' => g \in greeted \/ Knocks(g)
  /\ /\ g \in linked' /\ Polls(session'[g]) /\ g \in greeted'
     /\ session'["host"].peer = g /\ Speaks(session'["host"])
     => /\ g \in greeted /\ session["host"].peer = g /\ Speaks(session["host"])
        /\ Says(session'["host"]) = Says(session["host"])

LEMMA ProgressIs ==
  ASSUME NEW s \in SessionType
  PROVE  Progress(s) \in Nat /\ Says(s) \in Nat
<1>1. s.pings \in 0 .. Pings - 1 /\ Pings \in Nat
  BY Fields, SessionAssumption
<1>2. s.pings \in Nat
  BY <1>1
<1>. QED BY <1>1, <1>2 DEF Progress, Says

LEMMA GuestFields ==
  ASSUME IInv, NEW g \in Joiners
  PROVE  /\ g \in Launchers /\ g \in Guests /\ g # "host" /\ g # NoPeer /\ "host" # NoPeer
         /\ session[g] \in SessionType /\ session["host"] \in SessionType
         /\ session[g].peer \in {NoPeer, "host"} /\ session["host"].peer \in {NoPeer} \cup Guests
         /\ Down(g) \in Seq(Events) /\ Up(g) \in Seq(Events)
         /\ << "host", g >> \in Routes /\ << g, "host" >> \in Routes /\ g \notin Spectators
         /\ session \in [Launchers -> SessionType] /\ channel \in [Routes -> Seq(Events)]
<1>1. g \in Launchers /\ g \in Guests /\ g # "host" /\ "host" \in Launchers
      /\ << "host", g >> \in Routes /\ << g, "host" >> \in Routes
  BY RouteFields
<1>2. g # NoPeer /\ g \notin Spectators /\ "host" # NoPeer
  BY SessionAssumption DEF NoPeer
<1>3. session \in [Launchers -> SessionType] /\ channel \in [Routes -> Seq(Events)] /\ TypeOK
  BY DEF IInv, Types, TypeOK
<1>4. session[g].peer \in {NoPeer, "host"} /\ session["host"].peer \in {NoPeer} \cup Guests
  BY <1>1, <1>3 DEF TypeOK, Peers, IsHost
<1>. QED BY <1>1, <1>2, <1>3, <1>4 DEF Up, Down

LEMMA MildPreserves ==
  ASSUME IInv, IInv', NEW g \in Joiners, Hears(g),
         ListsMild(g), GuestMild(g), HostMild(g)
  PROVE  Hears(g)'
<1>1. ConnectsOnce(g)'
  <2>1. Known(g)' => Entered(g)'
    <3>1. Known(g)' => Entered(g)
      BY DEF HostMild, Hears, ConnectsOnce
    <3>2. session'[g].state = "Connecting" => Polls(session'[g])
      BY DEF Polls
    <3>. QED BY <3>1, <3>2 DEF Entered, GuestMild, ListsMild
  <2>2. g \in linked' => \A n \in DOMAIN Down(g)' : Down(g)'[n].tag # "Disconnected"
    BY DEF ListsMild, Hears, ConnectsOnce
  <2>3. session'[g].state = "Connecting" /\ Down(g)' # << >> =>
          Down(g)'[1].tag \in {"Connected", "Disconnected"}
    <3>. SUFFICES ASSUME session'[g].state = "Connecting", Down(g)' # << >>
                  PROVE  Down(g)'[1].tag \in {"Connected", "Disconnected"}
      OBVIOUS
    <3>1. Down(g)' \in Seq(Events) /\ Down(g) \in Seq(Events)
      <4>1. channel' \in [Routes -> Seq(Events)] /\ << "host", g >> \in Routes
        BY RouteFields DEF IInv, Types, TypeOK
      <4>. QED BY <4>1, GuestFields DEF Down
    <3>2. 1 \in DOMAIN Down(g)'
      BY <3>1, TailIs
    <3>3. CASE 1 \in DOMAIN Down(g) /\ Down(g)'[1] = Down(g)[1]
      <4>1. Down(g) # << >>
        BY <3>3
      <4>. QED BY <3>3, <4>1 DEF GuestMild, Hears, ConnectsOnce
    <3>4. CASE Down(g)'[1].tag = "Disconnected"
      BY <3>4
    <3>. QED BY <3>2, <3>3, <3>4 DEF ListsMild
  <2>. QED BY <2>1, <2>2, <2>3 DEF ConnectsOnce, ListsMild, GuestMild, HostMild
<1>2. KeepsUp(g)'
  <2>. SUFFICES ASSUME g \in greeted' \/ Knocks(g)'
                PROVE  \E b \in 0 .. Progress(session'[g]) : InOrder(g, b)'
    BY DEF KeepsUp
  <2>1. g \in greeted \/ Knocks(g)
    BY DEF HostMild, ListsMild
  <2>2. PICK b \in 0 .. Progress(session[g]) : InOrder(g, b)
    BY <2>1 DEF Hears, KeepsUp
  <2>3. b \in 0 .. Progress(session'[g])
    <3>1. session[g] \in SessionType /\ session'[g] \in SessionType
      <4>1. session' \in [Launchers -> SessionType] /\ g \in Launchers
        BY RouteFields DEF IInv, Types
      <4>. QED BY <4>1, GuestFields
    <3>2. Progress(session[g]) \in Nat /\ Progress(session'[g]) \in Nat
      BY <3>1, ProgressIs
    <3>. QED BY <3>2 DEF GuestMild
  <2>4. \A n \in DOMAIN Down(g)' : Down(g)'[n].tag = "Disconnected" \/ Rank(Down(g)'[n]) = b + n - 1
    BY <2>2 DEF ListsMild, InOrder
  <2>5. ASSUME g \in linked', Polls(session'[g])
        PROVE  /\ Knocks(g)' => b + Len(Down(g)') = 1
               /\ g \in greeted' /\ session'["host"].peer = g /\ Speaks(session'["host"]) =>
                    b + Len(Down(g)') = Says(session'["host"])
    <3>1. g \in linked /\ Polls(session[g]) /\ Down(g)' = Down(g)
      BY <2>5 DEF ListsMild, GuestMild
    <3>2. /\ Knocks(g) => b + Len(Down(g)) = 1
          /\ g \in greeted /\ session["host"].peer = g /\ Speaks(session["host"]) =>
               b + Len(Down(g)) = Says(session["host"])
      BY <2>2, <3>1 DEF InOrder
    <3>3. g \in greeted' /\ session'["host"].peer = g /\ Speaks(session'["host"]) =>
            /\ g \in greeted /\ session["host"].peer = g /\ Speaks(session["host"])
            /\ Says(session'["host"]) = Says(session["host"])
      BY <2>5 DEF HostMild
    <3>. QED BY <3>1, <3>2, <3>3 DEF ListsMild
  <2>6. InOrder(g, b)'
    BY <2>4, <2>5 DEF InOrder
  <2>. QED BY <2>3, <2>6
<1>. QED BY <1>1, <1>2 DEF Hears

(* Nothing connects a guest with the host, or ever has. *)
LEMMA UnknownPreserves ==
  ASSUME NEW g \in Joiners, ~ Known(g)', Up(g)' = Up(g), Down(g)' = << >>, Hears(g),
         session'[g].state \notin {"Listening", "WaitingConfirmation"}
  PROVE  Hears(g)'
<1>1. CallsFirst(Up(g))'
  BY DEF Hears, ConnectsOnce
<1>2. ConnectsOnce(g)'
  BY <1>1 DEF ConnectsOnce, Known
<1>3. KeepsUp(g)'
  BY DEF KeepsUp, Known
<1>. QED BY <1>2, <1>3 DEF Hears

(* The host says to its peer what comes next. *)
LEMMA SpeaksPreserves ==
  ASSUME IInv, IInv', NEW g \in Joiners, Hears(g), NEW m \in Events,
         g \in linked, linked' = linked, ui' = ui, session'[g] = session[g],
         Polls(session[g]), Down(g)' = Down(g) \o << m >>,
         m.tag \notin {"Connected", "Disconnected"},
         CallsFirst(Up(g))', ~ Knocks(g)',
         session'["host"].peer = g, Says(session'["host"]) = Rank(m) + 1,
         \/ g \notin greeted'
         \/ Knocks(g) /\ Rank(m) = 1
         \/ /\ g \in greeted /\ session["host"].peer = g
            /\ Speaks(session["host"]) /\ Rank(m) = Says(session["host"])
  PROVE  Hears(g)'
<1>1. Down(g) \in Seq(Events) /\ << m >> \in Seq(Events) /\ session[g] \in SessionType
  BY GuestFields, InOne
<1>2. /\ \A n \in DOMAIN Down(g) : n \in DOMAIN Down(g)' /\ Down(g)'[n] = Down(g)[n]
      /\ \A n \in DOMAIN Down(g)' :
           \/ n \in DOMAIN Down(g) /\ Down(g)'[n] = Down(g)[n]
           \/ n = Len(Down(g)) + 1 /\ Down(g)'[n] = m
  <2>. DEFINE old == Down(g)
              new == old \o << m >>
  <2>1. /\ \A n \in DOMAIN old : n \in DOMAIN new /\ new[n] = old[n]
        /\ \A n \in DOMAIN new :
             \/ n \in DOMAIN old /\ new[n] = old[n]
             \/ \E k \in DOMAIN << m >> : n = Len(old) + k /\ new[n] = << m >>[k]
    BY <1>1, ConcatIs
  <2>2. \A k \in DOMAIN << m >> : k = 1 /\ << m >>[k] = m
    OBVIOUS
  <2>3. Down(g)' = new
    OBVIOUS
  <2>. HIDE DEF old, new
  <2>. QED BY <2>1, <2>2, <2>3 DEF old
<1>3. Len(Down(g)') = Len(Down(g)) + 1 /\ Len(Down(g)) \in Nat
  BY <1>1
<1>4. ConnectsOnce(g)'
  <2>1. Known(g) /\ Entered(g)
    BY DEF Known, Hears, ConnectsOnce
  <2>2. Down(g)' # << >>
    BY <1>1, <1>3
  <2>3. Entered(g)'
    BY <2>1, <2>2 DEF Entered
  <2>4. \A n \in DOMAIN Down(g)' : Down(g)'[n].tag # "Disconnected"
    BY <1>2 DEF Hears, ConnectsOnce
  <2>5. session'[g].state = "Connecting" => Down(g)'[1].tag \in {"Connected", "Disconnected"}
    <3>. SUFFICES ASSUME session[g].state = "Connecting"
                  PROVE  Down(g)'[1].tag \in {"Connected", "Disconnected"}
      OBVIOUS
    <3>1. Down(g) # << >>
      BY <2>1 DEF Entered
    <3>2. 1 \in DOMAIN Down(g)
      BY <1>1, <3>1, TailIs
    <3>3. Down(g)[1].tag \in {"Connected", "Disconnected"}
      BY <3>1 DEF Hears, ConnectsOnce
    <3>. QED BY <1>2, <3>2, <3>3
  <2>6. session'[g].state \notin {"Listening", "WaitingConfirmation"} /\ Polls(session'[g])
    BY DEF Hears, ConnectsOnce
  <2>. QED BY <2>3, <2>4, <2>5, <2>6 DEF ConnectsOnce
<1>5. KeepsUp(g)'
  <2>. SUFFICES ASSUME g \in greeted' PROVE \E b \in 0 .. Progress(session'[g]) : InOrder(g, b)'
    BY DEF KeepsUp
  <2>1. g \in greeted \/ Knocks(g)
    OBVIOUS
  <2>2. PICK b \in 0 .. Progress(session[g]) : InOrder(g, b)
    BY <2>1 DEF Hears, KeepsUp
  <2>3. b + Len(Down(g)) = Rank(m)
    BY <2>2 DEF InOrder
  <2>4. Progress(session[g]) \in Nat
    BY <1>1, ProgressIs
  <2>5. b \in Nat /\ Rank(m) \in Nat
    <3>1. b \in Nat
      BY <2>4
    <3>. QED BY <1>3, <2>3, <3>1
  <2>6. \A n \in DOMAIN Down(g)' : Down(g)'[n].tag = "Disconnected" \/ Rank(Down(g)'[n]) = b + n - 1
    <3>. SUFFICES ASSUME NEW n \in DOMAIN Down(g)', Down(g)'[n].tag # "Disconnected"
                  PROVE  Rank(Down(g)'[n]) = b + n - 1
      OBVIOUS
    <3>1. CASE n \in DOMAIN Down(g) /\ Down(g)'[n] = Down(g)[n]
      BY <2>2, <3>1 DEF InOrder
    <3>2. CASE n = Len(Down(g)) + 1 /\ Down(g)'[n] = m
      BY <1>3, <2>3, <2>5, <3>2
    <3>. QED BY <1>2, <3>1, <3>2
  <2>7. b + Len(Down(g)') = Says(session'["host"])
    BY <1>3, <2>3, <2>5
  <2>8. InOrder(g, b)'
    BY <2>6, <2>7 DEF InOrder
  <2>. QED BY <2>2, <2>8
<1>. QED BY <1>4, <1>5 DEF Hears
-----------------------------------------------------------------------------
(* The transport *)

LEMMA AppendCuts ==
  ASSUME NEW list \in Seq(Events)
  PROVE  /\ Cuts(list, Append(list, Message("Disconnected")))
         /\ Append(list, Message("Disconnected")) # << >>
<1>1. Message("Disconnected") \in Events /\ Message("Disconnected").tag = "Disconnected"
  BY Messages
<1>. DEFINE m == Message("Disconnected")
            new == Append(list, m)
<1>2. /\ Len(new) = Len(list) + 1 /\ Len(list) \in Nat
      /\ \A n \in 1 .. Len(list) : new[n] = list[n]
      /\ new[Len(list) + 1] = m
      /\ DOMAIN list = 1 .. Len(list) /\ DOMAIN new = 1 .. Len(list) + 1
  BY <1>1, AppendProperties
<1>3. \A n \in 1 .. Len(list) + 1 : n \in 1 .. Len(list) \/ n = Len(list) + 1
  BY <1>2
<1>4. new # << >>
  BY <1>2
<1>. HIDE DEF new
<1>5. Cuts(list, new)
  BY <1>1, <1>2, <1>3 DEF Cuts
<1>. QED BY <1>4, <1>5 DEF new

LEMMA LoseCuts ==
  ASSUME NEW list \in Seq(Events), Len(list) > 1
  PROVE  LET new == Append(SubSeq(list, 1, Len(list) - 2), Message("Disconnected"))
         IN  Cuts(list, new) /\ new # << >>
<1>. DEFINE part == SubSeq(list, 1, Len(list) - 2)
            new == Append(part, Message("Disconnected"))
<1>1. /\ part \in Seq(Events) /\ DOMAIN part \subseteq DOMAIN list
      /\ \A n \in DOMAIN part : part[n] = list[n]
  <2>1. Len(list) - 2 \in Nat /\ Len(list) \in Nat /\ DOMAIN list = 1 .. Len(list)
    BY LenProperties
  <2>2. PICK k \in Nat : k = Len(list) - 2
    BY <2>1
  <2>3. /\ SubSeq(list, 1, k) \in Seq(Events) /\ DOMAIN SubSeq(list, 1, k) = 1 .. k
        /\ \A n \in 1 .. k : SubSeq(list, 1, k)[n] = list[n]
    BY <2>1, <2>2
  <2>4. 1 .. k \subseteq 1 .. Len(list)
    BY <2>1, <2>2
  <2>. QED BY <2>1, <2>2, <2>3, <2>4
<1>. HIDE DEF part
<1>2. Cuts(part, new) /\ new # << >>
  BY <1>1, AppendCuts
<1>. HIDE DEF new
<1>3. Cuts(list, new)
  BY <1>1, <1>2 DEF Cuts
<1>. QED BY <1>2, <1>3 DEF new, part

(* The guest and the host are where they were. *)
LEMMA SameGuest ==
  ASSUME IInv, NEW g \in Joiners, Hears(g), session'[g] = session[g],
         ui'[g] = ui[g] \/ ui'[g] # "menu"
  PROVE  GuestMild(g)
<1>1. Progress(session[g]) \in Nat
  BY GuestFields, ProgressIs
<1>. QED BY <1>1 DEF GuestMild, Hears, ConnectsOnce

LEMMA SameHost ==
  ASSUME NEW g \in Joiners, Hears(g), greeted' = greeted,
         session'["host"].peer = session["host"].peer \/ session'["host"].peer = NoPeer,
         g # NoPeer, g \in linked' => g \in linked, Knocks(g)' => Knocks(g),
         Speaks(session'["host"]) /\ session'["host"].peer = g =>
           Speaks(session["host"]) /\ Says(session'["host"]) = Says(session["host"])
  PROVE  HostMild(g)
BY DEF HostMild, Known, Hears, ConnectsOnce

LEMMA SameLists ==
  ASSUME NEW g \in Joiners, Hears(g), Up(g)' = Up(g), Down(g)' = Down(g),
         g \in linked' => g \in linked, Polls(session[g]) => Polls(session'[g])
  PROVE  ListsMild(g)
<1>1. CallsFirst(Up(g))' /\ Knocks(g)' = Knocks(g)
  BY DEF Knocks, Hears, ConnectsOnce
<1>. QED BY <1>1 DEF ListsMild, Hears, ConnectsOnce

(* A connection ends. *)
LEMMA CutMild ==
  ASSUME IInv, NEW g \in Joiners, Hears(g), NEW guests \in SUBSET Guests,
         NEW leaver \in {NoPeer} \cup Launchers, Cut(guests, leaver),
         leaver \in {"host", g} => g \in guests,
         IF leaver = g THEN ~ Polls(session'[g]) ELSE session'[g] = session[g]
  PROVE  ListsMild(g)
<1>1. /\ g # "host" /\ g # NoPeer /\ "host" # NoPeer /\ "host" \notin guests
      /\ << "host", g >> \in Routes /\ << g, "host" >> \in Routes
      /\ Up(g) \in Seq(Events) /\ Down(g) \in Seq(Events)
  BY GuestFields, RouteFields
<1>2. linked' = linked \ guests
  BY DEF Cut
<1>3. CallsFirst(Up(g))' /\ (Knocks(g)' => Knocks(g))
  <2>. DEFINE new == Append(Up(g), Message("Disconnected"))
  <2>1. \/ Up(g)' = << >> \/ Up(g)' = Up(g) \/ Up(g)' = new
    BY <1>1 DEF Cut, Up
  <2>2. Cuts(Up(g), Up(g)) /\ Cuts(Up(g), << >>) /\ Cuts(Up(g), new)
    BY <1>1, AppendCuts DEF Cuts
  <2>. HIDE DEF new
  <2>3. Cuts(Up(g), Up(g)')
    BY <2>1, <2>2
  <2>4. CallsFirst(Up(g))
    BY DEF Hears, ConnectsOnce
  <2>. QED BY <2>3, <2>4, CallsEnds DEF Knocks
<1>4. CASE leaver = g
  <2>1. Down(g)' = << >>
    BY <1>1, <1>4 DEF Cut, Down
  <2>. QED BY <1>2, <1>3, <1>4, <2>1 DEF ListsMild
<1>5. CASE leaver # g /\ Down(g)' = Down(g)
  <2>1. g \in linked' => g \in linked
    BY <1>2
  <2>. QED BY <1>3, <1>5, <2>1 DEF ListsMild, Hears, ConnectsOnce
<1>6. CASE leaver # g /\ Down(g)' # Down(g)
  <2>1. /\ Down(g)' = Append(Down(g), Message("Disconnected"))
        /\ {"host", g} \cap guests \cap linked # {} /\ Reads(g)
    <3>1. /\ << "host", g >>[1] = "host" /\ << "host", g >>[2] = g
      OBVIOUS
    <3>. QED BY <1>1, <1>6, <3>1 DEF Cut, Down
  <2>2. g \in guests /\ g \notin linked' /\ Polls(session[g])
    BY <1>1, <1>2, <2>1 DEF Reads
  <2>3. Cuts(Down(g), Down(g)') /\ Down(g)' # << >>
    BY <1>1, <2>1, AppendCuts
  <2>. QED BY <1>3, <1>6, <2>2, <2>3 DEF ListsMild, Cuts
<1>. QED BY <1>4, <1>5, <1>6

LEMMA BreakHears ==
  ASSUME IInv, IInv', NEW g \in Joiners, Hears(g), NEW x \in Guests, Break(x)
  PROVE  Hears(g)'
<1>1. /\ session' = session /\ ui' = ui /\ greeted' = greeted /\ Cut({x}, NoPeer)
  BY DEF Break, uiVars
<1>2. g # NoPeer /\ g # "host" /\ "host" # NoPeer
  BY GuestFields
<1>3. ListsMild(g)
  <2>1. {x} \in SUBSET Guests /\ NoPeer \in {NoPeer} \cup Launchers
    OBVIOUS
  <2>. QED BY <1>1, <1>2, <2>1, CutMild
<1>4. GuestMild(g) /\ HostMild(g)
  BY <1>1, <1>2, <1>3, SameGuest, SameHost DEF ListsMild
<1>. QED BY <1>3, <1>4, MildPreserves

LEMMA LoseHears ==
  ASSUME IInv, IInv', NEW g \in Joiners, Hears(g), NEW r \in Routes, Lose(r)
  PROVE  Hears(g)'
<1>1. /\ session' = session /\ ui' = ui /\ greeted' = greeted /\ linked' = linked
      /\ Len(channel[r]) > 1 /\ channel[r][Len(channel[r])] = Message("Disconnected")
  BY DEF Lose, uiVars
<1>2. /\ g # NoPeer /\ Up(g) \in Seq(Events) /\ Down(g) \in Seq(Events)
      /\ channel[r] \in Seq(Events) /\ channel \in [Routes -> Seq(Events)]
      /\ << "host", g >> \in Routes /\ << g, "host" >> \in Routes
  BY GuestFields
<1>. DEFINE new == Append(SubSeq(channel[r], 1, Len(channel[r]) - 2), Message("Disconnected"))
<1>3. \A x \in Routes : channel'[x] = IF x = r THEN new ELSE channel[x]
  BY <1>2 DEF Lose
<1>4. Cuts(channel[r], new) /\ new # << >>
  BY <1>1, <1>2, LoseCuts
<1>. HIDE DEF new
<1>5. CallsFirst(Up(g))' /\ (Knocks(g)' => Knocks(g))
  <2>1. Cuts(Up(g), Up(g)')
    BY <1>2, <1>3, <1>4 DEF Cuts, Up
  <2>2. CallsFirst(Up(g))
    BY DEF Hears, ConnectsOnce
  <2>. QED BY <2>1, <2>2, CallsEnds DEF Knocks
<1>6. ListsMild(g)
  <2>1. CASE r # << "host", g >>
    <3>1. Down(g)' = Down(g)
      BY <1>2, <1>3, <2>1 DEF Down
    <3>. QED BY <1>1, <1>5, <3>1 DEF ListsMild, Hears, ConnectsOnce
  <2>2. CASE r = << "host", g >>
    <3>1. Down(g) = channel[r] /\ Down(g)' = new
      BY <1>2, <1>3, <2>2 DEF Down
    <3>2. Len(Down(g)) \in DOMAIN Down(g)
      BY <1>1, <1>2, <3>1, LenProperties
    <3>3. g \notin linked
      BY <1>1, <3>1, <3>2, Messages DEF Hears, ConnectsOnce
    <3>4. Down(g) # << >>
      BY <3>2
    <3>5. Polls(session[g])
      BY <3>4 DEF Hears, ConnectsOnce
    <3>. QED BY <1>1, <1>4, <1>5, <3>1, <3>3, <3>5 DEF ListsMild, Cuts
  <2>. QED BY <2>1, <2>2
<1>7. GuestMild(g) /\ HostMild(g)
  BY <1>1, <1>2, <1>5, SameGuest, SameHost
<1>. QED BY <1>6, <1>7, MildPreserves

LEMMA KnockHears ==
  ASSUME IInv, IInv', NEW g \in Joiners, Hears(g), NEW x \in Spectators, Knock(x)
  PROVE  Hears(g)'
<1>1. /\ session' = session /\ ui' = ui /\ greeted' = greeted /\ linked' = linked \cup {x}
      /\ channel' = [channel EXCEPT ![<< x, "host" >>] = << Message("Connected") >>]
  BY DEF Knock, uiVars
<1>2. g # NoPeer /\ g \notin Spectators /\ "host" \notin Spectators /\ g # "host"
      /\ << "host", g >> \in Routes /\ << g, "host" >> \in Routes
      /\ channel \in [Routes -> Seq(Events)]
  BY GuestFields, SessionAssumption
<1>3. Up(g)' = Up(g) /\ Down(g)' = Down(g) /\ (g \in linked' => g \in linked)
  BY <1>1, <1>2 DEF Up, Down
<1>4. Knocks(g)' = Knocks(g)
  BY <1>3 DEF Knocks
<1>. QED BY <1>1, <1>2, <1>3, <1>4, SameGuest, SameHost, SameLists, MildPreserves

(* A guest that connects has heard nothing, and what it hears first is just that. *)
LEMMA ConnectHears ==
  ASSUME IInv, IInv', NEW g \in Joiners, Hears(g), NEW x \in Joiners, Connect(x)
  PROVE  Hears(g)'
<1>1. /\ session' = session /\ ui' = ui /\ greeted' = greeted /\ linked' = linked \cup {x}
      /\ channel' = [r \in Routes |->
                       IF x \in {r[1], r[2]} THEN << Message("Connected") >> ELSE channel[r]]
  BY DEF Connect, uiVars
<1>2. g # NoPeer /\ g # "host" /\ x # "host"
      /\ << "host", g >> \in Routes /\ << g, "host" >> \in Routes
  BY GuestFields
<1>3. CASE x # g
  <2>1. Up(g)' = Up(g) /\ Down(g)' = Down(g) /\ (g \in linked' => g \in linked)
    BY <1>1, <1>2, <1>3 DEF Up, Down
  <2>2. Knocks(g)' = Knocks(g)
    BY <2>1 DEF Knocks
  <2>. QED BY <1>1, <1>2, <2>1, <2>2, SameGuest, SameHost, SameLists, MildPreserves
<1>4. CASE x = g
  <2>1. session[g].state = "Connecting" /\ Down(g) = << >>
    BY <1>4 DEF Connect, Down
  <2>2. ~ Known(g) /\ ui[g] # "menu"
    <3>1. ~ Known(g)
      BY <2>1 DEF Hears, ConnectsOnce, Entered
    <3>2. g \in Launchers
      BY GuestFields
    <3>. QED BY <2>1, <3>1, <3>2 DEF IInv, OrdersFit
  <2>3. Up(g)' = << Message("Connected") >> /\ Down(g)' = << Message("Connected") >>
    BY <1>1, <1>2, <1>4 DEF Up, Down
  <2>4. /\ \A n \in DOMAIN << Message("Connected") >> :
             n = 1 /\ << Message("Connected") >>[n].tag = "Connected"
        /\ << Message("Connected") >>[1].tag = "Connected"
        /\ << Message("Connected") >> # << >> /\ Len(<< Message("Connected") >>) = 1
    BY Messages
  <2>5. ConnectsOnce(g)'
    BY <1>1, <2>1, <2>2, <2>3, <2>4 DEF ConnectsOnce, Entered, Known, CallsFirst, Polls
  <2>6. InOrder(g, 0)'
    <3>1. \A n \in DOMAIN Down(g)' : Rank(Down(g)'[n]) = 0 + n - 1
      BY <2>3, <2>4 DEF Rank
    <3>. QED BY <1>1, <2>2, <2>3, <2>4, <3>1 DEF InOrder, Known
  <2>7. 0 \in 0 .. Progress(session'[g])
    BY <1>1, <2>1 DEF Progress
  <2>. QED BY <2>5, <2>6, <2>7 DEF Hears, KeepsUp
<1>. QED BY <1>3, <1>4
-----------------------------------------------------------------------------
(* The pages *)

(* The page queues a command, and perhaps moves on. *)
LEMMA PagesHear ==
  ASSUME IInv, IInv', NEW g \in Joiners, Hears(g),
         UNCHANGED << session, channel, linked, greeted >>,
         ui'[g] = ui[g] \/ ui'[g] # "menu"
  PROVE  Hears(g)'
<1>1. Up(g)' = Up(g) /\ Down(g)' = Down(g) /\ Knocks(g)' = Knocks(g) /\ g # NoPeer
  BY GuestFields DEF Up, Down, Knocks
<1>. QED BY <1>1, SameGuest, SameHost, SameLists, MildPreserves

LEMMA HostHears ==
  ASSUME IInv, IInv', NEW g \in Joiners, Hears(g), Host
  PROVE  Hears(g)'
<1>1. PICK v \in Overrides \cup {NoValue}, state \in {"Listening", "Failed"} :
        Opened("host", [Fresh EXCEPT !.state = state, !.config = v, !.manual = v # NoValue])
  BY DEF Host
<1>2. /\ ui' = [ui EXCEPT !["host"] = "waiting"]
      /\ session' = [session EXCEPT !["host"] =
                       [Fresh EXCEPT !.state = state, !.config = v, !.manual = v # NoValue]]
      /\ UNCHANGED << channel, linked, greeted >>
  BY <1>1 DEF Opened
<1>3. /\ session'["host"].peer = NoPeer /\ ~ Speaks(session'["host"])
      /\ session'[g] = session[g] /\ ui'[g] = ui[g] /\ g # NoPeer
  <2>1. session \in [Launchers -> SessionType] /\ "host" \in Launchers /\ g # "host"
        /\ g # NoPeer /\ g \in Launchers /\ DOMAIN ui = Launchers
    BY GuestFields, RouteFields DEF IInv, Types, TypeOK
  <2>2. session'["host"] = [Fresh EXCEPT !.state = state, !.config = v, !.manual = v # NoValue]
    BY <1>2, <2>1
  <2>3. session'["host"].peer = NoPeer /\ session'["host"].state = state
    BY <2>2 DEF Fresh
  <2>. QED BY <1>2, <2>1, <2>3 DEF Speaks
<1>4. Up(g)' = Up(g) /\ Down(g)' = Down(g) /\ Knocks(g)' = Knocks(g)
  BY <1>2 DEF Up, Down, Knocks
<1>. QED BY <1>2, <1>3, <1>4, SameGuest, SameHost, SameLists, MildPreserves

(* A guest that enters, or that the relay lets go on, is unknown to the host. *)
LEMMA EntersHears ==
  ASSUME IInv, IInv', NEW g \in Joiners, Hears(g), NEW x \in Joiners,
         Join(x) \/ RelayEnds(x)
  PROVE  Hears(g)'
<1>1. /\ session' = [session EXCEPT ![x] = session'[x]]
      /\ session'[x].state \in {"Connecting", "RelayConnecting", "Failed"}
  <2>1. session[x] \in SessionType /\ session \in [Launchers -> SessionType] /\ x \in Launchers
    BY GuestFields
  <2>2. CASE Join(x)
    <3>1. PICK state \in {"Connecting", "RelayConnecting", "Failed"} :
            session' = [session EXCEPT ![x] = [Fresh EXCEPT !.state = state]]
      BY <2>2 DEF Join, Opened
    <3>2. [Fresh EXCEPT !.state = state].state = state
      BY DEF Fresh
    <3>. QED BY <2>1, <3>1, <3>2
  <2>3. CASE RelayEnds(x)
    <3>1. PICK state \in {"Connecting", "Failed"} : session' = [session EXCEPT ![x].state = state]
      BY <2>3 DEF RelayEnds
    <3>2. session' = [session EXCEPT ![x] = [session[x] EXCEPT !.state = state]]
      BY <2>1, <3>1
    <3>. QED BY <2>1, <3>2, Changed
  <2>. QED BY <2>2, <2>3
<1>2. /\ UNCHANGED << channel, linked, greeted >>
      /\ session[x].state \in {"Idle", "RelayConnecting"}
      /\ session[x].state # "RelayConnecting" => ui[x] = "menu"
      /\ \A y \in Joiners : y # x => ui'[y] = ui[y]
  <2>1. CASE Join(x)
    <3>1. ui[x] = "menu" /\ ui' = [ui EXCEPT ![x] = "waiting"]
          /\ UNCHANGED << channel, linked, greeted >>
      BY <2>1 DEF Join, Opened
    <3>2. x \in Launchers /\ DOMAIN ui = Launchers /\ Joiners \subseteq Launchers
      BY RouteFields DEF IInv, Types, TypeOK
    <3>. QED BY <3>1, <3>2 DEF IInv, OrdersFit
  <2>2. CASE RelayEnds(x)
    BY <2>2 DEF RelayEnds, uiVars
  <2>. QED BY <2>1, <2>2
<1>3. /\ session \in [Launchers -> SessionType] /\ "host" \in Launchers /\ g # "host"
      /\ g # NoPeer /\ g \in Launchers /\ x \in Launchers /\ x # "host"
  BY GuestFields, RouteFields
<1>4. Up(g)' = Up(g) /\ Down(g)' = Down(g) /\ Knocks(g)' = Knocks(g)
  BY <1>2 DEF Up, Down, Knocks
<1>5. session'["host"] = session["host"]
  BY <1>1, <1>3
<1>6. CASE x = g
  <2>1. Down(g) = << >>
    BY <1>2, <1>6 DEF Hears, ConnectsOnce, Polls
  <2>2. ~ Known(g)
    BY <1>2, <1>6 DEF Hears, ConnectsOnce, Entered
  <2>3. ~ Known(g)'
    BY <1>2, <1>4, <1>5, <2>2 DEF Known
  <2>4. session'[g].state \notin {"Listening", "WaitingConfirmation"}
    BY <1>1, <1>3, <1>6
  <2>. QED BY <1>4, <2>1, <2>3, <2>4, UnknownPreserves
<1>7. CASE x # g
  <2>1. session'[g] = session[g] /\ ui'[g] = ui[g]
    BY <1>1, <1>2, <1>3, <1>7
  <2>. QED BY <1>2, <1>3, <1>4, <1>5, <2>1, SameGuest, SameHost, SameLists, MildPreserves
<1>. QED BY <1>6, <1>7
-----------------------------------------------------------------------------
(* What the host says *)

LEMMA SentAt ==
  ASSUME NEW ch \in [Routes -> Seq(Events)], NEW p \in Launchers,
         NEW q \in {NoPeer, "host"} \cup Guests, NEW msgs \in Seq(Events), NEW r \in Routes
  PROVE  Sent(ch, p, q, msgs)[r] =
           IF /\ q # NoPeer /\ r = << p, q >>
              /\ GuestOf(p, q) \in linked /\ Reads(q)
           THEN ch[r] \o msgs ELSE ch[r]
BY DEF Sent

LEMMA SentDown ==
  ASSUME IInv, NEW g \in Joiners, NEW ch \in [Routes -> Seq(Events)],
         NEW q \in {NoPeer, "host"} \cup Guests, NEW msgs \in Seq(Events)
  PROVE  Sent(ch, "host", q, msgs)[<< "host", g >>] =
           IF q = g /\ g \in linked /\ Polls(session[g])
           THEN ch[<< "host", g >>] \o msgs ELSE ch[<< "host", g >>]
<1>1. g # NoPeer /\ g \notin Spectators /\ << "host", g >> \in Routes
  BY GuestFields
<1>2. (Reads(g) <=> Polls(session[g])) /\ GuestOf("host", g) = g
  BY <1>1 DEF Reads, GuestOf, IsHost
<1>3. CASE q = g
  <2>1. Sent(ch, "host", g, msgs) =
          IF g \notin linked \/ ~ Reads(g) THEN ch
          ELSE [ch EXCEPT ![<< "host", g >>] = @ \o msgs]
    BY <1>1, <1>2 DEF Sent
  <2>. QED BY <1>1, <1>2, <1>3, <2>1
<1>4. CASE q # g
  <2>1. << "host", q >> # << "host", g >>
    BY <1>4
  <2>2. \/ Sent(ch, "host", q, msgs) = ch
        \/ Sent(ch, "host", q, msgs) = [ch EXCEPT ![<< "host", q >>] = @ \o msgs]
    BY DEF Sent
  <2>. QED BY <1>1, <1>4, <2>1, <2>2
<1>. QED BY <1>3, <1>4

(* The host says what comes next, or nothing. *)
Speech(s, r) ==
  \/ /\ r.out = << >>
     /\ Speaks(r.next) => Speaks(s) /\ Says(r.next) = Says(s)
  \/ \E m \in Events :
       /\ r.out = << m >> /\ m.tag \notin {"Connected", "Disconnected"}
       /\ Speaks(s) /\ Rank(m) = Says(s) /\ Says(r.next) = Rank(m) + 1

LEMMA SpeechHears ==
  ASSUME IInv, IInv', NEW g \in Joiners, Hears(g),
         NEW ch \in [Routes -> Seq(Events)], NEW r, Speech(session["host"], r),
         r.out \in Seq(Events), r.next.peer \in {NoPeer, "host"} \cup Guests,
         ch[<< "host", g >>] = Down(g),
         Down(g)' = IF Polls(session[g])
                    THEN Sent(ch, "host", r.next.peer, r.out)[<< "host", g >>] ELSE << >>,
         CallsFirst(Up(g))', Knocks(g)' => Knocks(g),
         session'["host"] = r.next, session'[g] = session[g],
         r.next.peer = session["host"].peer \/ r.next.peer = NoPeer,
         greeted' = greeted, linked' = linked, ui' = ui
  PROVE  Hears(g)'
<1>1. /\ g # NoPeer /\ g \notin Spectators /\ << "host", g >> \in Routes
      /\ Down(g) \in Seq(Events)
  BY GuestFields
<1>. DEFINE told == r.next.peer = g /\ g \in linked /\ Polls(session[g])
<1>3. Down(g)' = IF told THEN Down(g) \o r.out ELSE Down(g)
  <2>1. CASE Polls(session[g])
    <3>1. Sent(ch, "host", r.next.peer, r.out)[<< "host", g >>] =
            IF r.next.peer = g /\ g \in linked /\ Polls(session[g])
            THEN ch[<< "host", g >>] \o r.out ELSE ch[<< "host", g >>]
      BY SentDown
    <3>. QED BY <2>1, <3>1
  <2>2. CASE ~ Polls(session[g])
    BY <2>2 DEF Hears, ConnectsOnce
  <2>. QED BY <2>1, <2>2
<1>4. CASE r.out = << >> \/ ~ told
  <2>1. Down(g)' = Down(g)
    <3>1. Down(g) \o << >> = Down(g)
      BY <1>1, ConcatEmptySeq
    <3>. QED BY <1>3, <1>4, <3>1
  <2>2. ListsMild(g)
    BY <2>1 DEF ListsMild, Hears, ConnectsOnce
  <2>3. GuestMild(g)
    BY SameGuest
  <2>4. HostMild(g)
    <3>1. Known(g)' => Known(g)
      BY <1>1 DEF Known
    <3>2. Knocks(g)' => g \notin greeted' /\ session'["host"].peer # g
      BY <1>1 DEF Hears, ConnectsOnce
    <3>3. ASSUME g \in linked', Polls(session'[g]), g \in greeted',
                 session'["host"].peer = g, Speaks(session'["host"])
          PROVE  /\ g \in greeted /\ session["host"].peer = g /\ Speaks(session["host"])
                 /\ Says(session'["host"]) = Says(session["host"])
      <4>1. told
        BY <3>3
      <4>2. r.out = << >>
        BY <1>4, <4>1
      <4>3. Speaks(session["host"]) /\ Says(session'["host"]) = Says(session["host"])
        BY <3>3, <4>2 DEF Speech
      <4>. QED BY <1>1, <3>3, <4>3
    <3>. QED BY <3>1, <3>2, <3>3 DEF HostMild
  <2>. QED BY <2>2, <2>3, <2>4, MildPreserves
<1>5. CASE r.out # << >> /\ told
  <2>1. PICK m \in Events :
          /\ r.out = << m >> /\ m.tag \notin {"Connected", "Disconnected"}
          /\ Speaks(session["host"]) /\ Rank(m) = Says(session["host"])
          /\ Says(r.next) = Rank(m) + 1
    BY <1>5 DEF Speech
  <2>2. session["host"].peer = g
    BY <1>1, <1>5
  <2>3. ~ Knocks(g)'
    BY <2>2 DEF Hears, ConnectsOnce
  <2>4. Down(g)' = Down(g) \o << m >>
    BY <1>3, <1>5, <2>1
  <2>. QED BY <1>5, <2>1, <2>2, <2>3, <2>4, SpeaksPreserves
<1>. QED BY <1>4, <1>5

(* What the handshake writes, and where it goes on. *)
LEMMA ChangedPings ==
  ASSUME NEW s \in SessionType, NEW x, NEW n
  PROVE  /\ [s EXCEPT !.state = x, !.pings = n].pings = n
         /\ [s EXCEPT !.pings = n].pings = n
         /\ [s EXCEPT !.peer = x].pings = s.pings
         /\ [s EXCEPT !.state = x].pings = s.pings
BY DEF SessionType

LEMMA Ranks ==
  /\ Message("Connected").tag = "Connected" /\ Rank(Message("Connected")) = 0
  /\ Message("Version").tag = "Version" /\ Rank(Message("Version")) = 1
  /\ Message("Name").tag = "Name" /\ Rank(Message("Name")) = 2
  /\ \A s : PingMessage(s).tag = "Ping" /\ Rank(PingMessage(s)) = 3 + s.pings
  /\ \A v : ConfigMessage(v).tag = "Config" /\ Rank(ConfigMessage(v)) = 3 + Pings
BY DEF Message, PingMessage, ConfigMessage, Rank

LEMMA GoesOn ==
  ASSUME NEW s \in SessionType
  PROVE  /\ Greet(s).next.state = "Handshaking" /\ Greet(s).next.phase = 0
         /\ ToNames(s).next.state = s.state /\ ToNames(s).next.phase = 1
         /\ ToPings(s).next.state = "PingExchanging" /\ ToPings(s).next.pings = 0
         /\ \A v : [s EXCEPT !.state = "Launching", !.config = v].state = "Launching"
<1>1. /\ Greet(s).next = [s EXCEPT !.state = "Handshaking", !.phase = 0]
      /\ ToNames(s).next = [s EXCEPT !.phase = 1]
      /\ ToPings(s).next = [s EXCEPT !.state = "PingExchanging", !.pings = 0]
  BY DEF Greet, ToNames, ToPings
<1>. QED BY <1>1 DEF SessionType

LEMMA PingsAre ==
  ASSUME NEW s \in SessionType
  PROVE  Pings \in Nat \ {0} /\ s.pings \in Nat /\ s.pings < Pings
<1>1. s.pings \in 0 .. Pings - 1 /\ Pings \in Nat \ {0}
  BY Fields, SessionAssumption
<1>. QED BY <1>1

LEMMA StopsIs ==
  ASSUME NEW s, NEW next, ~ Speaks(next)
  PROVE  Speech(s, [next |-> next, out |-> << >>])
BY DEF Speech

LEMMA SaysIs ==
  ASSUME NEW s \in SessionType, NEW next, NEW m \in Events, Speaks(s),
         m.tag \notin {"Connected", "Disconnected"},
         Rank(m) = Says(s), Says(next) = Rank(m) + 1
  PROVE  Speech(s, [next |-> next, out |-> << m >>])
BY DEF Speech

LEMMA ToNamesSpeech ==
  ASSUME NEW s \in SessionType, Waits(s, "Handshaking", 0)
  PROVE  Speech(s, ToNames(s))
<1>. DEFINE next == [s EXCEPT !.phase = 1]
            m == Message("Name")
<1>1. next.state = "Handshaking" /\ next.phase = 1 /\ m \in Events /\ m.tag = "Name" /\ Rank(m) = 2
  BY Changed, Ranks, Messages DEF Waits
<1>2. ToNames(s) = [next |-> next, out |-> << m >>]
  BY DEF ToNames
<1>. HIDE DEF next, m
<1>3. Speaks(s) /\ Says(s) = 2 /\ Says(next) = 3
  BY <1>1 DEF Waits, Speaks, Says
<1>. QED BY <1>1, <1>2, <1>3, SaysIs

LEMMA ToPingsSpeech ==
  ASSUME NEW s \in SessionType, Waits(s, "Handshaking", 1)
  PROVE  Speech(s, ToPings(s))
<1>. DEFINE next == [s EXCEPT !.state = "PingExchanging", !.pings = 0]
            m == PingMessage(next)
<1>1. next \in SessionType
  <2>1. 0 \in 0 .. Pings - 1 /\ "PingExchanging" \in States
    BY SessionAssumption DEF States
  <2>. QED BY <2>1, Fields
<1>5. next.state = "PingExchanging" /\ next.pings = 0
  BY Changed, ChangedPings
<1>3. ToPings(s) = [next |-> next, out |-> << m >>]
  BY DEF ToPings
<1>. HIDE DEF next
<1>6. m \in Events /\ m.tag = "Ping" /\ Rank(m) = 3 + next.pings
  BY <1>1, Ranks, Messages
<1>2. /\ next.state = "PingExchanging" /\ next.pings = 0
      /\ m \in Events /\ m.tag = "Ping" /\ Rank(m) = 3 + next.pings
  BY <1>5, <1>6
<1>. HIDE DEF m
<1>4. Speaks(s) /\ Says(s) = 3 /\ Says(next) = 4
  BY <1>2 DEF Waits, Speaks, Says
<1>. QED BY <1>2, <1>3, <1>4, SaysIs

(* A ping more: the host says the next one, or has said them all. *)
LEMMA PingDoneSpeech ==
  ASSUME NEW p \in Launchers, NEW s \in SessionType, s.state = "PingExchanging",
         NEW r \in PingDone(p, s)
  PROVE  /\ p = "host" => Speech(s, r)
         /\ p # "host" => Progress(s) + 1 <= Progress(r.next)
                          /\ r.next.state \in {"PingExchanging", "Handshaking"}
<1>1. Pings \in Nat \ {0} /\ s.pings \in Nat /\ s.pings < Pings
  BY PingsAre
<1>2. Speaks(s) /\ Says(s) = 4 + s.pings /\ Progress(s) = 3 + s.pings
  BY DEF Speaks, Says, Progress
<1>3. CASE s.pings + 1 = Pings
  <2>1. PICK f \in Finished(p, s) : r = [next |-> f, out |-> << >>]
    BY <1>3 DEF PingDone
  <2>2. CASE p = "host"
    <3>1. PICK v : f = [s EXCEPT !.state = "WaitingConfirmation", !.config = v]
      BY <2>2 DEF Finished, IsHost
    <3>2. f.state = "WaitingConfirmation"
      BY <3>1, Changed
    <3>3. Says(f) = 3 + Pings
      BY <3>2 DEF Says
    <3>. QED BY <1>1, <1>2, <1>3, <2>1, <2>2, <3>3 DEF Speech
  <2>3. CASE p # "host"
    <3>1. f = [s EXCEPT !.state = "Handshaking", !.phase = 3]
      BY <2>3 DEF Finished, IsHost
    <3>2. f.state = "Handshaking" /\ f.phase = 3
      BY <3>1, Changed
    <3>3. Progress(f) = 3 + Pings
      BY <3>2 DEF Progress
    <3>. QED BY <1>1, <1>2, <1>3, <2>1, <2>3, <3>2, <3>3
  <2>. QED BY <2>2, <2>3
<1>4. CASE s.pings + 1 # Pings
  <2>. DEFINE next == [s EXCEPT !.pings = s.pings + 1]
              m == PingMessage(next)
  <2>1. r = [next |-> next, out |-> << m >>]
    BY <1>4 DEF PingDone
  <2>2. next \in SessionType
    <3>1. s.pings + 1 \in 0 .. Pings - 1
      BY <1>1, <1>4
    <3>. QED BY <3>1, Fields
  <2>7. next.state = "PingExchanging" /\ next.pings = s.pings + 1
    BY Changed, ChangedPings
  <2>. HIDE DEF next
  <2>8. m \in Events /\ m.tag = "Ping" /\ Rank(m) = 3 + next.pings
    BY <2>2, Ranks, Messages
  <2>3. /\ next.state = "PingExchanging" /\ next.pings = s.pings + 1
        /\ m \in Events /\ m.tag = "Ping" /\ Rank(m) = 3 + next.pings
    BY <2>7, <2>8
  <2>. HIDE DEF m
  <2>4. Says(next) = 4 + next.pings /\ Progress(next) = 3 + next.pings
    BY <2>3 DEF Says, Progress
  <2>5. Rank(m) = Says(s) /\ Says(next) = Rank(m) + 1 /\ Progress(s) + 1 <= Progress(next)
    BY <1>1, <1>2, <2>3, <2>4
  <2>6. Speech(s, [next |-> next, out |-> << m >>])
    BY <1>2, <2>3, <2>5, SaysIs
  <2>. QED BY <2>1, <2>3, <2>5, <2>6
<1>. QED BY <1>3, <1>4

LEMMA FailedStops ==
  ASSUME NEW s \in SessionType
  PROVE  ~ Speaks(Failed(s)) /\ Progress(Failed(s)) = 4 + Pings /\ Failed(s).state = "Failed"
<1>1. Failed(s).state = "Failed"
  BY Changed DEF Failed
<1>. QED BY <1>1 DEF Speaks, Progress

LEMMA TimeoutSpeech ==
  ASSUME Types, NEW p \in Launchers, Deadline(p), NEW r \in AfterTimeout(p)
  PROVE  /\ p = "host" => Speech(session[p], r)
         /\ p # "host" => Progress(session[p]) <= Progress(r.next)
                          /\ r.next.state \in {"PingExchanging", "Handshaking", "Failed"}
<1>. DEFINE s == session[p]
<1>1. s \in SessionType /\ Progress(s) \in Nat
  BY ProgressIs DEF Types
<1>2. Pings \in Nat \ {0} /\ s.pings \in Nat /\ s.pings < Pings
  BY <1>1, PingsAre
<1>3. CASE s.state = "PingExchanging"
  <2>1. r \in PingDone(p, s)
    BY <1>3 DEF AfterTimeout
  <2>2. /\ p = "host" => Speech(s, r)
        /\ p # "host" => Progress(s) + 1 <= Progress(r.next)
                         /\ r.next.state \in {"PingExchanging", "Handshaking"}
    BY <1>1, <1>3, <2>1, PingDoneSpeech
  <2>3. r.next \in SessionType
    BY <1>1, <1>3, <2>1, PingDoneIs DEF Handled
  <2>4. Progress(r.next) \in Nat
    BY <2>3, ProgressIs
  <2>. QED BY <1>1, <2>2, <2>4
<1>4. CASE s.state = "Handshaking" /\ s.phase = 1
  <2>1. r = ToPings(s) /\ Waits(s, "Handshaking", 1)
    BY <1>4 DEF AfterTimeout, Waits
  <2>2. r.next.state = "PingExchanging" /\ r.next.pings = 0
    BY <1>1, <2>1, GoesOn
  <2>3. Progress(s) = 2 /\ Progress(r.next) = 3 + r.next.pings
    BY <1>4, <2>2 DEF Progress
  <2>. QED BY <1>1, <2>1, <2>2, <2>3, ToPingsSpeech
<1>5. CASE s.state # "PingExchanging" /\ ~ (s.state = "Handshaking" /\ s.phase = 1)
  <2>1. r = [next |-> Failed(s), out |-> << >>]
    BY <1>5 DEF AfterTimeout
  <2>2. ~ Speaks(Failed(s)) /\ Progress(Failed(s)) = 4 + Pings /\ Failed(s).state = "Failed"
    BY <1>1, FailedStops
  <2>3. Progress(s) <= 4 + Pings
    BY <1>2 DEF Progress
  <2>. QED BY <2>1, <2>2, <2>3, StopsIs
<1>. QED BY <1>3, <1>4, <1>5

(* The host makes of any event but a connection what it says next. *)
LEMMA OutcomeSpeech ==
  ASSUME NEW s \in SessionType, NEW e \in Events, e.tag # "Connected",
         NEW r \in Outcome("host", s, e)
  PROVE  Speech(s, r) /\ r.out # << Message("Version") >>
<1>. DEFINE dropped == [next |-> s, out |-> << >>]
<1>0. "host" \in Launchers
  BY RouteFields
<1>1. CASE r = dropped
  BY <1>1 DEF Speech
<1>2. CASE e.tag = "Disconnected" /\ r # dropped
  <2>1. r = [next |-> Failed(s), out |-> << >>]
    BY <1>2 DEF Outcome
  <2>. QED BY <2>1, FailedStops, StopsIs
<1>3. CASE e.tag = "Version" /\ r # dropped
  <2>1. r = ToNames(s) /\ Waits(s, "Handshaking", 0)
    BY <1>3 DEF Outcome
  <2>2. r.out = << Message("Name") >> /\ Message("Name") # Message("Version")
    BY <2>1, Ranks DEF ToNames
  <2>. QED BY <2>1, <2>2, ToNamesSpeech
<1>4. CASE e.tag = "Name" /\ r # dropped
  <2>1. r = ToPings(s) /\ Waits(s, "Handshaking", 1)
    BY <1>4 DEF Outcome
  <2>2. r.out[1].tag = "Ping" /\ << Message("Version") >>[1].tag = "Version"
    BY <2>1, Ranks DEF ToPings
  <2>. QED BY <2>1, <2>2, ToPingsSpeech
<1>5. CASE e.tag = "Ping" /\ r # dropped
  <2>1. r \in PingDone("host", s) /\ s.state = "PingExchanging"
    BY <1>5 DEF Outcome
  <2>2. r.out # << Message("Version") >>
    <3>1. r.out = << >> \/ \E x : r.out = << PingMessage(x) >>
      BY <2>1 DEF PingDone
    <3>2. \A x : << PingMessage(x) >>[1].tag = "Ping" /\ << Message("Version") >>[1].tag = "Version"
      BY Ranks
    <3>. QED BY <3>1, <3>2, Z3
  <2>. QED BY <1>0, <2>1, <2>2, PingDoneSpeech
<1>6. CASE e.tag = "Config" /\ r # dropped
  BY <1>6 DEF Outcome, IsHost
<1>7. CASE e.tag = "Confirm" /\ r # dropped
  <2>. DEFINE next == [s EXCEPT !.state = "Launching"]
  <2>1. r = [next |-> next, out |-> << >>]
    BY <1>7 DEF Outcome
  <2>2. next.state = "Launching"
    BY Changed
  <2>3. ~ Speaks(next)
    BY <2>2 DEF Speaks
  <2>. HIDE DEF next
  <2>. QED BY <2>1, <2>3, StopsIs
<1>. QED BY <1>1, <1>2, <1>3, <1>4, <1>5, <1>6, <1>7, EventTags

(* A guest that reads what its progress allows is past it. *)
LEMMA OutcomeProgress ==
  ASSUME NEW g \in Joiners, NEW s \in SessionType, NEW e \in Events,
         s.state \notin {"Listening", "WaitingConfirmation"},
         NEW r \in Outcome(g, s, e)
  PROVE  /\ r.next.state \in {s.state, "Handshaking", "PingExchanging", "Launching", "Failed"}
         /\ e.tag = "Connected" => r.next.state # "Connecting"
         /\ e.tag = "Disconnected" => r.next.state = "Failed"
         /\ e.tag \notin {"Confirm", "Disconnected"} /\ Rank(e) <= Progress(s) =>
              Rank(e) + 1 <= Progress(r.next)
         /\ e.tag = "Config" /\ Rank(e) <= Progress(s) /\ Polls(s) => r.next.state = "Launching"
<1>. DEFINE dropped == [next |-> s, out |-> << >>]
<1>1. /\ Pings \in Nat \ {0} /\ s.pings \in Nat /\ s.pings < Pings
      /\ s.phase \in {0, 1, 3} /\ g # "host" /\ g \in Launchers
  BY PingsAre, Fields, RouteFields
<1>2. CASE e.tag = "Connected"
  <2>1. Rank(e) = 0
    BY <1>2 DEF Rank
  <2>2. CASE s.state = "Connecting"
    <3>1. r = Greet(s)
      BY <1>2, <2>2 DEF Outcome
    <3>2. r.next.state = "Handshaking" /\ r.next.phase = 0
      BY <3>1, GoesOn
    <3>3. Progress(r.next) = 1
      BY <3>2 DEF Progress
    <3>. QED BY <1>2, <2>1, <3>2, <3>3
  <2>3. CASE s.state # "Connecting"
    <3>1. r = dropped
      BY <1>2, <2>3 DEF Outcome
    <3>2. 1 <= Progress(s)
      BY <1>1, <2>3 DEF Progress
    <3>. QED BY <1>2, <2>1, <2>3, <3>1, <3>2
  <2>. QED BY <2>2, <2>3
<1>3. CASE e.tag = "Disconnected"
  <2>1. r = [next |-> Failed(s), out |-> << >>]
    BY <1>3 DEF Outcome
  <2>. QED BY <1>3, <2>1, FailedStops
<1>4. CASE e.tag = "Version"
  <2>1. Rank(e) = 1
    BY <1>4 DEF Rank
  <2>2. CASE Waits(s, "Handshaking", 0)
    <3>1. r = ToNames(s)
      BY <1>4, <2>2 DEF Outcome
    <3>2. r.next.state = "Handshaking" /\ r.next.phase = 1
      BY <2>2, <3>1, GoesOn DEF Waits
    <3>3. Progress(r.next) = 2
      BY <3>2 DEF Progress
    <3>. QED BY <1>4, <2>1, <3>2, <3>3
  <2>3. CASE ~ Waits(s, "Handshaking", 0)
    <3>1. r = dropped
      BY <1>4, <2>3 DEF Outcome
    <3>2. 1 <= Progress(s) => 2 <= Progress(s)
      BY <1>1, <2>3 DEF Progress, Waits
    <3>. QED BY <1>4, <2>1, <3>1, <3>2
  <2>. QED BY <2>2, <2>3
<1>5. CASE e.tag = "Name"
  <2>1. Rank(e) = 2
    BY <1>5 DEF Rank
  <2>2. CASE Waits(s, "Handshaking", 1)
    <3>1. r = ToPings(s)
      BY <1>5, <2>2 DEF Outcome
    <3>2. r.next.state = "PingExchanging" /\ r.next.pings = 0
      BY <3>1, GoesOn
    <3>3. Progress(r.next) = 3
      BY <3>2 DEF Progress
    <3>. QED BY <1>5, <2>1, <3>2, <3>3
  <2>3. CASE ~ Waits(s, "Handshaking", 1)
    <3>1. r = dropped
      BY <1>5, <2>3 DEF Outcome
    <3>2. 2 <= Progress(s) => 3 <= Progress(s)
      BY <1>1, <2>3 DEF Progress, Waits
    <3>. QED BY <1>5, <2>1, <3>1, <3>2
  <2>. QED BY <2>2, <2>3
<1>6. CASE e.tag = "Ping"
  <2>1. Rank(e) = 3 + e.number /\ e.number \in Nat /\ e.number < Pings
    <3>1. e.number \in 0 .. Pings - 1
      BY <1>6 DEF Events, Message, ConfigMessage
    <3>. QED BY <1>1, <1>6, <3>1 DEF Rank
  <2>2. CASE s.state = "PingExchanging"
    <3>1. r \in PingDone(g, s)
      BY <1>6, <2>2 DEF Outcome
    <3>2. /\ Progress(s) + 1 <= Progress(r.next)
          /\ r.next.state \in {"PingExchanging", "Handshaking"}
      BY <1>1, <2>2, <3>1, PingDoneSpeech
    <3>3. Progress(s) \in Nat /\ Progress(r.next) \in Nat
      <4>1. r.next \in SessionType
        BY <1>1, <2>2, <3>1, PingDoneIs DEF Handled
      <4>. QED BY <4>1, ProgressIs
    <3>. QED BY <1>6, <2>1, <3>2, <3>3
  <2>3. CASE s.state # "PingExchanging"
    <3>1. r = dropped
      BY <1>6, <2>3 DEF Outcome
    <3>2. 3 + e.number <= Progress(s) => 4 + e.number <= Progress(s)
      BY <1>1, <2>1, <2>3 DEF Progress
    <3>. QED BY <1>6, <2>1, <3>1, <3>2
  <2>. QED BY <2>2, <2>3
<1>7. CASE e.tag = "Config"
  <2>1. Rank(e) = 3 + Pings
    BY <1>7 DEF Rank
  <2>2. CASE Waits(s, "Handshaking", 3)
    <3>1. r = [next |-> [s EXCEPT !.state = "Launching", !.config = e.value],
               out |-> << Message("Confirm") >>]
      BY <1>1, <1>7, <2>2 DEF Outcome, IsHost
    <3>2. r.next.state = "Launching"
      BY <3>1, GoesOn
    <3>3. Progress(r.next) = 4 + Pings
      BY <3>2 DEF Progress
    <3>. QED BY <1>1, <1>7, <2>1, <3>2, <3>3
  <2>3. CASE ~ Waits(s, "Handshaking", 3)
    <3>1. r = dropped
      BY <1>7, <2>3 DEF Outcome
    <3>2. 3 + Pings <= Progress(s) =>
            /\ 4 + Pings <= Progress(s)
            /\ s.state \notin {"Connecting", "Handshaking", "PingExchanging"}
      BY <1>1, <2>3 DEF Progress, Waits
    <3>3. 3 + Pings <= Progress(s) => ~ Polls(s)
      BY <3>2 DEF Polls
    <3>. QED BY <1>1, <1>7, <2>1, <3>1, <3>2, <3>3
  <2>. QED BY <2>2, <2>3
<1>8. CASE e.tag = "Confirm"
  <2>1. r = dropped
    BY <1>1, <1>8 DEF Outcome, IsHost
  <2>. QED BY <1>8, <2>1
<1>. QED BY <1>2, <1>3, <1>4, <1>5, <1>6, <1>7, <1>8, EventTags
-----------------------------------------------------------------------------
(* The worker *)

LEMMA ElseSent ==
  ASSUME IInv, NEW g \in Joiners, NEW ch \in [Routes -> Seq(Events)], NEW p \in Launchers,
         NEW q \in {NoPeer, "host"} \cup Guests, NEW msgs \in Seq(Events)
  PROVE  /\ p = "host" \/ Sent(ch, p, q, msgs)[<< "host", g >>] = ch[<< "host", g >>]
         /\ p = g \/ Sent(ch, p, q, msgs)[<< g, "host" >>] = ch[<< g, "host" >>]
         /\ \/ Sent(ch, p, q, msgs)[<< g, "host" >>] = ch[<< g, "host" >>]
            \/ Sent(ch, p, q, msgs)[<< g, "host" >>] = ch[<< g, "host" >>] \o msgs
<1>1. /\ << "host", g >> \in Routes /\ << g, "host" >> \in Routes
  BY GuestFields
<1>2. \A r \in Routes : \/ Sent(ch, p, q, msgs)[r] = ch[r] \o msgs /\ r = << p, q >>
                        \/ Sent(ch, p, q, msgs)[r] = ch[r]
  <2>. DEFINE cond(r) == /\ q # NoPeer /\ r = << p, q >>
                         /\ GuestOf(p, q) \in linked /\ Reads(q)
  <2>1. \A r \in Routes : Sent(ch, p, q, msgs)[r] = IF cond(r) THEN ch[r] \o msgs ELSE ch[r]
    BY SentAt
  <2>2. \A r : cond(r) => r = << p, q >>
    OBVIOUS
  <2>. HIDE DEF cond
  <2>. QED BY <2>1, <2>2
<1>3. << "host", g >> = << p, q >> => p = "host"
  OBVIOUS
<1>4. << g, "host" >> = << p, q >> => p = g
  OBVIOUS

<1>. QED BY <1>1, <1>2, <1>3, <1>4

LEMMA WroteAt ==
  ASSUME IInv, NEW g \in Joiners, NEW ch \in [Routes -> Seq(Events)], NEW p \in Launchers,
         NEW q \in {NoPeer, "host"} \cup Guests, NEW msgs \in Seq(Events),
         channel' = Read(Sent(ch, p, q, msgs))
  PROVE  /\ Down(g)' = IF Polls(session'[g]) THEN Sent(ch, p, q, msgs)[<< "host", g >>] ELSE << >>
         /\ Up(g)' = IF Polls(session'["host"]) THEN Sent(ch, p, q, msgs)[<< g, "host" >>] ELSE << >>
<1>. DEFINE sent == Sent(ch, p, q, msgs)
<1>1. /\ << "host", g >> \in Routes /\ << g, "host" >> \in Routes
      /\ g \notin Spectators /\ "host" \notin Spectators
  BY GuestFields, SessionAssumption
<1>2. \A r \in Routes : Read(sent)[r] =
        IF r[2] \notin Spectators /\ Polls(session'[r[2]]) THEN sent[r] ELSE << >>
  BY DEF Read
<1>3. channel' = Read(sent)
  OBVIOUS
<1>. HIDE DEF sent
<1>4. << "host", g >>[2] = g /\ << g, "host" >>[2] = "host"
  OBVIOUS
<1>5. /\ Down(g)' = IF Polls(session'[g]) THEN sent[<< "host", g >>] ELSE << >>
      /\ Up(g)' = IF Polls(session'["host"]) THEN sent[<< g, "host" >>] ELSE << >>
  BY <1>1, <1>2, <1>3, <1>4 DEF Up, Down
<1>. QED BY <1>5 DEF sent

(* Another guest's worker. *)
LEMMA OtherWorks ==
  ASSUME IInv, IInv', NEW g \in Joiners, Hears(g), NEW p \in Launchers, p \notin {"host", g},
         NEW next, session' = [session EXCEPT ![p] = next],
         NEW ch \in [Routes -> Seq(Events)],
         ch[<< "host", g >>] = Down(g), ch[<< g, "host" >>] = Up(g),
         NEW q \in {NoPeer, "host"} \cup Guests, NEW msgs \in Seq(Events),
         channel' = Read(Sent(ch, p, q, msgs)),
         UNCHANGED << ui, linked, greeted >>
  PROVE  Hears(g)'
<1>1. session'[g] = session[g] /\ session'["host"] = session["host"] /\ g # NoPeer
  BY GuestFields, RouteFields
<1>2. /\ Down(g)' = IF Polls(session[g]) THEN Down(g) ELSE << >>
      /\ Up(g)' = IF Polls(session["host"]) THEN Up(g) ELSE << >>
  <2>1. /\ Down(g)' = IF Polls(session'[g]) THEN Sent(ch, p, q, msgs)[<< "host", g >>] ELSE << >>
        /\ Up(g)' = IF Polls(session'["host"]) THEN Sent(ch, p, q, msgs)[<< g, "host" >>] ELSE << >>
    BY WroteAt
  <2>2. /\ Sent(ch, p, q, msgs)[<< "host", g >>] = Down(g)
        /\ Sent(ch, p, q, msgs)[<< g, "host" >>] = Up(g)
    <3>1. p # "host" /\ p # g
      OBVIOUS
    <3>. QED BY <3>1, ElseSent
  <2>. QED BY <1>1, <2>1, <2>2
<1>3. Down(g)' = Down(g)
  BY <1>2 DEF Hears, ConnectsOnce
<1>4. CallsFirst(Up(g))' /\ (Knocks(g)' => Knocks(g))
  <2>1. Up(g)' = Up(g) \/ Up(g)' = << >>
    BY <1>2
  <2>. QED BY <2>1 DEF Hears, ConnectsOnce, Knocks, Calls, CallsFirst
<1>5. ListsMild(g)
  BY <1>1, <1>3, <1>4 DEF ListsMild, Hears, ConnectsOnce
<1>. QED BY <1>1, <1>4, <1>5, SameGuest, SameHost, MildPreserves

(* What a guest writes does not announce a connection. *)
LEMMA WritesSilently ==
  ASSUME NEW p, NEW s, NEW e,
         NEW r \in AfterTimeout(p) \cup Outcome(p, s, e), r.out \in Seq(Events), e \in Events
  PROVE  Silent(r.out)
<1>. DEFINE Mute(out) == out = << >> \/ \E m : out = << m >> /\ m.tag # "Connected"
<1>1. \A x : Mute(Greet(x).out) /\ Mute(ToNames(x).out) /\ Mute(ToPings(x).out)
  BY Ranks DEF Greet, ToNames, ToPings
<1>2. \A x : \A y \in PingDone(p, x) : Mute(y.out)
  BY Ranks DEF PingDone
<1>3. Mute(<< >>) /\ Mute(<< Message("Confirm") >>)
  BY Messages
<1>. HIDE DEF Mute
<1>4. r \in AfterTimeout(p) => Mute(r.out)
  BY <1>1, <1>2, <1>3 DEF AfterTimeout
<1>5. r \in Outcome(p, s, e) => Mute(r.out)
  BY <1>1, <1>2, <1>3, EventTags DEF Outcome
<1>6. Mute(r.out)
  BY <1>4, <1>5
<1>. QED BY <1>6 DEF Mute, Silent

LEMMA NoCalls == CallsFirst(<< >>) /\ ~ Calls(<< >>)
BY DEF CallsFirst, Calls

LEMMA UpIsSilent ==
  ASSUME IInv, NEW g \in Joiners, Hears(g), NEW msgs \in Seq(Events), Silent(msgs),
         Up(g)' \in {Up(g), Up(g) \o msgs, << >>}
  PROVE  CallsFirst(Up(g))' /\ (Knocks(g)' => Knocks(g))
<1>1. Up(g) \in Seq(Events) /\ CallsFirst(Up(g))
  BY GuestFields DEF Hears, ConnectsOnce
<1>2. CASE Up(g)' = Up(g) \o msgs
  BY <1>1, <1>2, CallsAppend DEF Knocks
<1>3. CASE Up(g)' # Up(g) \o msgs
  <2>1. Up(g)' = Up(g) \/ Up(g)' = << >>
    BY <1>3
  <2>. QED BY <1>1, <2>1 DEF Knocks, Calls, CallsFirst
<1>. QED BY <1>2, <1>3

LEMMA TimeoutHears ==
  ASSUME IInv, IInv', NEW g \in Joiners, Hears(g), NEW p \in Launchers, Timeout(p)
  PROVE  Hears(g)'
<1>1. PICK r \in AfterTimeout(p) :
        /\ session' = [session EXCEPT ![p] = r.next]
        /\ channel' = Read(Sent(channel, p, r.next.peer, r.out))
  BY DEF Timeout
<1>2. /\ ui' = ui /\ linked' = linked /\ greeted' = greeted /\ Deadline(p) /\ Types
  BY DEF Timeout, uiVars, IInv
<1>3. Handled(p, session[p], r) /\ Polls(session[p])
  BY <1>2, TimeoutIs
<1>9. r.out \in Seq(Events) /\ r.next.peer \in {NoPeer, "host"} \cup Guests
  <2>1. r.next \in SessionType /\ r.out \in Seq(Events)
    BY <1>3 DEF Handled
  <2>. QED BY <2>1, Fields
<1>4. /\ g # NoPeer /\ g # "host" /\ "host" \in Launchers /\ g \in Launchers
      /\ session \in [Launchers -> SessionType] /\ channel \in [Routes -> Seq(Events)]
  BY GuestFields, RouteFields
<1>5. channel[<< "host", g >>] = Down(g) /\ channel[<< g, "host" >>] = Up(g)
  BY DEF Up, Down
<1>6. CASE p \notin {"host", g}
  BY <1>1, <1>2, <1>4, <1>5, <1>6, <1>9, OtherWorks
<1>7. CASE p = "host"
  <2>1. session'["host"] = r.next /\ session'[g] = session[g]
    BY <1>1, <1>4, <1>7
  <2>2. r.next.peer = session["host"].peer
    BY <1>3, <1>7 DEF Handled
  <2>3. Speech(session["host"], r)
    BY <1>2, <1>7, TimeoutSpeech
  <2>4. /\ Down(g)' = IF Polls(session[g])
                      THEN Sent(channel, "host", r.next.peer, r.out)[<< "host", g >>] ELSE << >>
        /\ Up(g)' \in {Up(g), << >>}
    <3>. DEFINE sent == Sent(channel, p, r.next.peer, r.out)
    <3>1. /\ Down(g)' = IF Polls(session'[g]) THEN sent[<< "host", g >>] ELSE << >>
          /\ Up(g)' = IF Polls(session'["host"]) THEN sent[<< g, "host" >>] ELSE << >>
      BY <1>1, <1>4, <1>9, WroteAt
    <3>2. sent[<< g, "host" >>] = Up(g)
      BY <1>4, <1>5, <1>7, <1>9, ElseSent
    <3>3. sent = Sent(channel, "host", r.next.peer, r.out)
      BY <1>7
    <3>. HIDE DEF sent
    <3>. QED BY <2>1, <3>1, <3>2, <3>3
  <2>5. CallsFirst(Up(g))' /\ (Knocks(g)' => Knocks(g))
    BY <2>4 DEF Hears, ConnectsOnce, Knocks, Calls, CallsFirst
  <2>. QED BY <1>2, <1>4, <1>5, <1>9, <2>1, <2>2, <2>3, <2>4, <2>5, SpeechHears
<1>8. CASE p = g
  <2>1. session'[g] = r.next /\ session'["host"] = session["host"]
    BY <1>1, <1>4, <1>8
  <2>2. r.out \in Seq(Events) /\ Silent(r.out)
    <3>1. r.out \in Seq(Events) /\ Message("Connected") \in Events
      BY <1>3, Messages DEF Handled
    <3>. QED BY <3>1, WritesSilently
  <2>3. /\ Down(g)' = IF Polls(r.next) THEN Down(g) ELSE << >>
        /\ Up(g)' \in {Up(g), Up(g) \o r.out, << >>}
    <3>. DEFINE sent == Sent(channel, p, r.next.peer, r.out)
    <3>1. /\ Down(g)' = IF Polls(session'[g]) THEN sent[<< "host", g >>] ELSE << >>
          /\ Up(g)' = IF Polls(session'["host"]) THEN sent[<< g, "host" >>] ELSE << >>
      BY <1>1, <1>4, <1>9, WroteAt
    <3>2. sent[<< g, "host" >>] = Up(g) \/ sent[<< g, "host" >>] = Up(g) \o r.out
      <4>1. \/ sent[<< g, "host" >>] = channel[<< g, "host" >>]
            \/ sent[<< g, "host" >>] = channel[<< g, "host" >>] \o r.out
        BY <1>4, <1>9, ElseSent
      <4>. QED BY <1>5, <4>1
    <3>3. sent[<< "host", g >>] = Down(g)
      BY <1>4, <1>5, <1>8, <1>9, ElseSent
    <3>. HIDE DEF sent
    <3>. QED BY <2>1, <3>1, <3>2, <3>3
  <2>4. CallsFirst(Up(g))' /\ (Knocks(g)' => Knocks(g))
    BY <2>2, <2>3, UpIsSilent
  <2>5. ListsMild(g)
    BY <1>2, <2>1, <2>3, <2>4 DEF ListsMild
  <2>6. /\ Progress(session[g]) <= Progress(r.next)
        /\ r.next.state \in {"PingExchanging", "Handshaking", "Failed"}
    BY <1>2, <1>4, <1>8, TimeoutSpeech
  <2>7. GuestMild(g)
    BY <1>2, <1>3, <1>8, <2>1, <2>6 DEF GuestMild
  <2>8. HostMild(g)
    BY <1>2, <1>4, <2>1, <2>4, SameHost
  <2>. QED BY <2>5, <2>7, <2>8, MildPreserves
<1>. QED BY <1>6, <1>7, <1>8

LEMMA CancelledHears ==
  ASSUME IInv, IInv', NEW g \in Joiners, Hears(g), NEW p \in Launchers, Cancelled(p)
  PROVE  Hears(g)'
<1>. DEFINE next == [session[p] EXCEPT !.state = "Cancelled"]
<1>1. /\ session' = [session EXCEPT ![p].state = "Cancelled"] /\ channel' = Read(channel)
      /\ ui' = ui /\ linked' = linked /\ greeted' = greeted
  BY DEF Cancelled, uiVars
<1>2. /\ g # NoPeer /\ g # "host" /\ "host" \in Launchers /\ g \in Launchers
      /\ session \in [Launchers -> SessionType] /\ channel \in [Routes -> Seq(Events)]
      /\ session[p] \in SessionType /\ << >> \in Seq(Events)
  BY GuestFields, RouteFields, InNone
<1>3. session' = [session EXCEPT ![p] = next]
  BY <1>1, <1>2
<1>4. channel' = Read(Sent(channel, p, NoPeer, << >>))
  BY <1>1 DEF Sent
<1>5. channel[<< "host", g >>] = Down(g) /\ channel[<< g, "host" >>] = Up(g)
  BY DEF Up, Down
<1>6. next.state = "Cancelled" /\ next.peer = session[p].peer
  BY <1>2, Changed
<1>7. ~ Speaks(next) /\ Progress(next) = 4 + Pings /\ ~ Polls(next)
  BY <1>6 DEF Speaks, Progress, Polls
<1>8. Sent(channel, p, NoPeer, << >>) = channel
  BY DEF Sent
<1>9. /\ Down(g)' = IF Polls(session'[g]) THEN Down(g) ELSE << >>
      /\ Up(g)' = IF Polls(session'["host"]) THEN Up(g) ELSE << >>
  <2>. DEFINE sent == Sent(channel, p, NoPeer, << >>)
  <2>1. /\ Down(g)' = IF Polls(session'[g]) THEN sent[<< "host", g >>] ELSE << >>
        /\ Up(g)' = IF Polls(session'["host"]) THEN sent[<< g, "host" >>] ELSE << >>
    BY <1>2, <1>4, WroteAt
  <2>. QED BY <1>5, <1>8, <2>1
<1>10. CallsFirst(Up(g))' /\ (Knocks(g)' => Knocks(g))
  <2>1. Up(g)' = Up(g) \/ Up(g)' = << >>
    BY <1>9
  <2>. QED BY <2>1 DEF Hears, ConnectsOnce, Knocks, Calls, CallsFirst
<1>. HIDE DEF next
<1>11. CASE p = "host"
  <2>1. session'["host"] = next /\ session'[g] = session[g]
    BY <1>2, <1>3, <1>11
  <2>2. Down(g)' = Down(g)
    BY <1>9, <2>1 DEF Hears, ConnectsOnce
  <2>3. ListsMild(g)
    BY <1>1, <1>10, <2>1, <2>2 DEF ListsMild, Hears, ConnectsOnce
  <2>4. GuestMild(g)
    BY <1>1, <2>1, SameGuest
  <2>5. HostMild(g)
    BY <1>1, <1>2, <1>6, <1>7, <1>10, <1>11, <2>1, SameHost
  <2>. QED BY <2>3, <2>4, <2>5, MildPreserves
<1>12. CASE p = g
  <2>1. session'[g] = next /\ session'["host"] = session["host"]
    BY <1>2, <1>3, <1>12
  <2>2. ListsMild(g)
    BY <1>1, <1>7, <1>9, <1>10, <2>1 DEF ListsMild
  <2>3. GuestMild(g)
    <3>1. Progress(session[g]) <= 4 + Pings
      <4>1. session[g] \in SessionType
        BY <1>2, <1>12
      <4>2. Pings \in Nat \ {0} /\ session[g].pings \in Nat /\ session[g].pings < Pings
        BY <4>1, PingsAre
      <4>. QED BY <4>2 DEF Progress
    <3>. QED BY <1>1, <1>6, <1>7, <2>1, <3>1 DEF GuestMild
  <2>4. HostMild(g)
    BY <1>1, <1>2, <1>10, <2>1, SameHost
  <2>. QED BY <2>2, <2>3, <2>4, MildPreserves
<1>13. CASE p \notin {"host", g}
  <2>1. UNCHANGED << ui, linked, greeted >>
    BY <1>1
  <2>. QED BY <1>2, <1>3, <1>4, <1>5, <1>13, <2>1, OtherWorks
<1>. QED BY <1>11, <1>12, <1>13

LEMMA PolledIs ==
  ASSUME NEW s \in SessionType, NEW q \in {NoPeer, "host"} \cup Guests, NEW e \in Events
  PROVE  /\ Polled(s, q, e.tag) \in SessionType /\ Polled(s, q, e.tag).state = s.state
         /\ Polled(s, q, e.tag).phase = s.phase /\ Polled(s, q, e.tag).pings = s.pings
         /\ Polled(s, q, e.tag).peer = IF e.tag = "Connected" THEN q
                                     ELSE IF e.tag = "Disconnected" THEN NoPeer ELSE s.peer
<1>. DEFINE peer == IF e.tag = "Connected" THEN q
                    ELSE IF e.tag = "Disconnected" THEN NoPeer ELSE s.peer
<1>1. peer \in {NoPeer, "host"} \cup Guests
  BY Fields
<1>2. Polled(s, q, e.tag) = [s EXCEPT !.peer = peer]
  BY DEF Polled
<1>. HIDE DEF peer
<1>3. [s EXCEPT !.peer = peer] \in SessionType
  BY <1>1, Fields
<1>4. /\ [s EXCEPT !.peer = peer].state = s.state /\ [s EXCEPT !.peer = peer].phase = s.phase
      /\ [s EXCEPT !.peer = peer].peer = peer /\ [s EXCEPT !.peer = peer].pings = s.pings
  BY Changed, ChangedPings
<1>. QED BY <1>2, <1>3, <1>4 DEF peer

LEMMA AsPolled ==
  ASSUME NEW s, NEW t, s.state = t.state, s.phase = t.phase, s.pings = t.pings
  PROVE  /\ Progress(s) = Progress(t) /\ Says(s) = Says(t)
         /\ (Speaks(s) <=> Speaks(t)) /\ (Polls(s) <=> Polls(t))
BY DEF Progress, Says, Speaks, Polls

(* The event that a step finds, what is left, and what the launcher makes of it. *)
Reacts(p, q, e, s, rest) ==
  \E r \in Outcome(p, s, e) :
    /\ session' = [session EXCEPT ![p] = r.next]
    /\ channel' = Read(Sent(rest, p, r.next.peer, r.out))
    /\ greeted' = IF IsHost(p) /\ r.out = << Message("Version") >>
                  THEN greeted \cup {q} ELSE greeted
    /\ r.out \in Seq(Events) /\ r.next.peer = s.peer
    /\ r.next.peer \in {NoPeer, "host"} \cup Guests /\ r.next \in SessionType

LEMMA ReceiveIs ==
  ASSUME IInv, NEW p \in Launchers, NEW q \in Peers(p), Receive(p, q)
  PROVE  LET e == Head(channel[<< q, p >>])
             s == Polled(session[p], q, e.tag)
             rest == [channel EXCEPT ![<< q, p >>] = Tail(@)]
         IN  /\ q \in {NoPeer, "host"} \cup Guests /\ << q, p >> \in Routes
             /\ channel[<< q, p >>] \in Seq(Events) /\ channel[<< q, p >>] # << >>
             /\ e \in Events /\ session[p] \in SessionType /\ Polls(session[p])
             /\ s \in SessionType /\ Polls(s) /\ s.state = session[p].state
             /\ s.phase = session[p].phase /\ s.pings = session[p].pings
             /\ s.peer = (IF e.tag = "Connected" THEN q
                          ELSE IF e.tag = "Disconnected" THEN NoPeer ELSE session[p].peer)
             /\ rest \in [Routes -> Seq(Events)]
             /\ \A r \in Routes : rest[r] = IF r = << q, p >> THEN Tail(channel[<< q, p >>])
                                            ELSE channel[r]
             /\ Reacts(p, q, e, s, rest)
             /\ ui' = ui /\ linked' = linked
<1>. DEFINE e == Head(channel[<< q, p >>])
            s == Polled(session[p], q, e.tag)
            rest == [channel EXCEPT ![<< q, p >>] = Tail(@)]
<1>1. /\ session[p] \in SessionType /\ channel \in [Routes -> Seq(Events)]
      /\ << q, p >> \in Routes /\ channel[<< q, p >>] \in Seq(Events)
      /\ q \in {NoPeer, "host"} \cup Guests
  BY RouteFields DEF IInv, Types, TypeOK
<1>2. channel[<< q, p >>] # << >> /\ Polls(session[p])
  BY DEF Receive
<1>3. e \in Events /\ Tail(channel[<< q, p >>]) \in Seq(Events)
  BY <1>1, <1>2, InTail
<1>4. /\ rest \in [Routes -> Seq(Events)]
      /\ \A x \in Routes : rest[x] = IF x = << q, p >> THEN Tail(channel[<< q, p >>])
                                     ELSE channel[x]
  BY <1>1, <1>3, Updates
<1>5. /\ s \in SessionType /\ s.state = session[p].state
      /\ s.phase = session[p].phase /\ s.pings = session[p].pings
      /\ s.peer = (IF e.tag = "Connected" THEN q
                   ELSE IF e.tag = "Disconnected" THEN NoPeer ELSE session[p].peer)
  <2>. HIDE DEF e
  <2>. QED BY <1>1, <1>3, PolledIs
<1>6. Polls(s)
  BY <1>2, <1>5 DEF Polls
<1>7. PICK r \in Outcome(p, s, e) :
        /\ session' = [session EXCEPT ![p] = r.next]
        /\ channel' = Read(Sent(rest, p, r.next.peer, r.out))
        /\ greeted' = IF IsHost(p) /\ r.out = << Message("Version") >>
                      THEN greeted \cup {q} ELSE greeted
  BY DEF Receive
<1>8. ui' = ui /\ linked' = linked
  BY DEF Receive, uiVars
<1>. HIDE DEF e, s, rest
<1>9. Handled(p, s, r)
  BY <1>3, <1>5, <1>6, <1>7, OutcomeIs
<1>10. /\ r.out \in Seq(Events) /\ r.next.peer = s.peer /\ r.next \in SessionType
  BY <1>9 DEF Handled
<1>11. r.next.peer \in {NoPeer, "host"} \cup Guests
  BY <1>10, Fields
<1>12. Reacts(p, q, e, s, rest)
  BY <1>7, <1>10, <1>11 DEF Reacts
<1>. QED BY <1>1, <1>2, <1>3, <1>4, <1>5, <1>6, <1>8, <1>12 DEF e, s, rest

(* What comes next moves a guest on, and leaves it no further behind. *)
LEMMA GuestReceiveHears ==
  ASSUME IInv, IInv', NEW g \in Joiners, Hears(g), Receive(g, "host")
  PROVE  /\ Hears(g)'
         /\ g \in greeted /\ Head(Down(g)).tag = "Config" => session'[g].state = "Launching"
<1>. DEFINE e == Head(channel[<< "host", g >>])
            s == Polled(session[g], "host", e.tag)
            rest == [channel EXCEPT ![<< "host", g >>] = Tail(@)]
<1>1. /\ g # NoPeer /\ g # "host" /\ "host" \in Launchers /\ g \in Launchers
      /\ << "host", g >> \in Routes /\ << g, "host" >> \in Routes
      /\ Down(g) \in Seq(Events) /\ Up(g) \in Seq(Events)
      /\ session \in [Launchers -> SessionType] /\ "host" \in Peers(g)
  BY GuestFields, RouteFields DEF Peers, IsHost
<1>2. Down(g) = channel[<< "host", g >>] /\ Up(g) = channel[<< g, "host" >>]
  BY DEF Up, Down
<1>14. /\ channel[<< "host", g >>] # << >> /\ e \in Events
       /\ session[g] \in SessionType /\ Polls(session[g])
       /\ s \in SessionType /\ s.state = session[g].state /\ Polls(s)
       /\ s.phase = session[g].phase /\ s.pings = session[g].pings
       /\ rest \in [Routes -> Seq(Events)]
       /\ \A r \in Routes : rest[r] = IF r = << "host", g >> THEN Tail(channel[<< "host", g >>])
                                      ELSE channel[r]
       /\ ui' = ui /\ linked' = linked
  BY <1>1, ReceiveIs
<1>3. /\ Down(g) # << >> /\ e \in Events /\ session[g] \in SessionType /\ Polls(session[g])
      /\ s \in SessionType /\ s.state = session[g].state /\ Polls(s)
      /\ s.phase = session[g].phase /\ s.pings = session[g].pings
      /\ rest \in [Routes -> Seq(Events)]
      /\ rest[<< "host", g >>] = Tail(Down(g)) /\ rest[<< g, "host" >>] = Up(g)
      /\ ui' = ui /\ linked' = linked
  <2>. HIDE DEF e, s, rest
  <2>1. << g, "host" >> # << "host", g >>
    BY <1>1
  <2>. QED BY <1>1, <1>2, <1>14, <2>1
<1>4. PICK r \in Outcome(g, s, e) :
        /\ session' = [session EXCEPT ![g] = r.next]
        /\ channel' = Read(Sent(rest, g, r.next.peer, r.out))
        /\ greeted' = greeted /\ r.out \in Seq(Events) /\ r.next \in SessionType
        /\ r.next.peer \in {NoPeer, "host"} \cup Guests
  <2>1. Reacts(g, "host", e, s, rest)
    BY <1>1, ReceiveIs
  <2>. HIDE DEF e, s, rest
  <2>. QED BY <1>1, <2>1 DEF Reacts, IsHost
<1>. HIDE DEF e, s, rest
<1>5. session'[g] = r.next /\ session'["host"] = session["host"]
  BY <1>1, <1>4
<1>6. /\ Down(g)' = IF Polls(r.next) THEN Tail(Down(g)) ELSE << >>
      /\ Up(g)' \in {Up(g), Up(g) \o r.out, << >>}
  <2>. DEFINE sent == Sent(rest, g, r.next.peer, r.out)
  <2>1. /\ Down(g)' = IF Polls(session'[g]) THEN sent[<< "host", g >>] ELSE << >>
        /\ Up(g)' = IF Polls(session'["host"]) THEN sent[<< g, "host" >>] ELSE << >>
    BY <1>1, <1>3, <1>4, WroteAt
  <2>2. /\ sent[<< "host", g >>] = rest[<< "host", g >>]
        /\ \/ sent[<< g, "host" >>] = rest[<< g, "host" >>]
           \/ sent[<< g, "host" >>] = rest[<< g, "host" >>] \o r.out
    BY <1>1, <1>3, <1>4, ElseSent
  <2>. HIDE DEF sent
  <2>. QED BY <1>3, <1>5, <2>1, <2>2
<1>7. CallsFirst(Up(g))' /\ (Knocks(g)' => Knocks(g))
  <2>1. Silent(r.out)
    BY <1>3, <1>4, WritesSilently
  <2>. QED BY <1>4, <1>6, <2>1, UpIsSilent
<1>8. /\ Progress(s) = Progress(session[g]) /\ s.state \notin {"Listening", "WaitingConfirmation"}
      /\ s.state # "RelayConnecting"
  BY <1>3, AsPolled DEF Hears, ConnectsOnce, Polls
<1>9. /\ r.next.state \in {s.state, "Handshaking", "PingExchanging", "Launching", "Failed"}
      /\ e.tag = "Connected" => r.next.state # "Connecting"
      /\ e.tag = "Disconnected" => r.next.state = "Failed"
      /\ e.tag \notin {"Confirm", "Disconnected"} /\ Rank(e) <= Progress(s) =>
           Rank(e) + 1 <= Progress(r.next)
      /\ e.tag = "Config" /\ Rank(e) <= Progress(s) => r.next.state = "Launching"
  BY <1>3, <1>4, <1>8, OutcomeProgress
<1>15. e = Head(Down(g))
  BY <1>2 DEF e
<1>10. /\ Tail(Down(g)) \in Seq(Events) /\ e = Down(g)[1]
       /\ Len(Down(g)) \in Nat \ {0} /\ Len(Tail(Down(g))) = Len(Down(g)) - 1
       /\ 1 \in DOMAIN Down(g)
       /\ \A n \in DOMAIN Tail(Down(g)) :
            n \in Nat \ {0} /\ n + 1 \in DOMAIN Down(g) /\ Tail(Down(g))[n] = Down(g)[n + 1]
  BY <1>1, <1>3, <1>15, TailIs
<1>11. ConnectsOnce(g)'
  <2>1. r.next.state # "Connecting"
    <3>1. s.state = "Connecting" => e.tag \in {"Connected", "Disconnected"}
      BY <1>3, <1>10 DEF Hears, ConnectsOnce
    <3>. QED BY <1>9, <3>1
  <2>2. Known(g)' => Entered(g)'
    <3>1. Known(g)' => Known(g)
      BY <1>3, <1>4, <1>5, <1>7 DEF Known
    <3>2. Known(g) => ui[g] # "menu"
      BY DEF Hears, ConnectsOnce, Entered
    <3>3. r.next.state # "RelayConnecting"
      BY <1>8, <1>9
    <3>. QED BY <1>3, <1>5, <2>1, <3>1, <3>2, <3>3 DEF Entered
  <2>3. Knocks(g)' => g \notin greeted' /\ session'["host"].peer # g
    BY <1>4, <1>5, <1>7 DEF Hears, ConnectsOnce
  <2>4. g \in linked' => \A n \in DOMAIN Down(g)' : Down(g)'[n].tag # "Disconnected"
    BY <1>3, <1>6, <1>10 DEF Hears, ConnectsOnce
  <2>. QED BY <1>5, <1>6, <1>7, <1>8, <1>9, <2>1, <2>2, <2>3, <2>4 DEF ConnectsOnce
<1>12. ASSUME g \in greeted \/ Knocks(g)
       PROVE  /\ \E b \in 0 .. Progress(r.next) : InOrder(g, b)'
              /\ e.tag = "Config" => r.next.state = "Launching"
  <2>1. PICK b \in 0 .. Progress(session[g]) : InOrder(g, b)
    BY <1>12 DEF Hears, KeepsUp
  <2>2. Progress(session[g]) \in Nat /\ Progress(r.next) \in Nat
    BY <1>3, <1>4, ProgressIs
  <2>3. b \in Nat /\ b <= Progress(s)
    BY <1>8, <2>1, <2>2
  <2>4. e.tag = "Disconnected" \/ Rank(e) = b
    <3>1. e.tag = "Disconnected" \/ Rank(e) = b + 1 - 1
      BY <1>10, <2>1 DEF InOrder
    <3>. QED BY <2>3, <3>1
  <2>5. e.tag = "Config" => r.next.state = "Launching"
    BY <1>9, <2>3, <2>4
  <2>6. CASE ~ Polls(r.next)
    <3>1. Down(g)' = << >>
      BY <1>6, <2>6
    <3>2. InOrder(g, 0)'
      BY <1>5, <2>6, <3>1 DEF InOrder
    <3>. QED BY <2>2, <2>5, <3>2
  <2>7. CASE Polls(r.next)
    <3>1. Down(g)' = Tail(Down(g))
      BY <1>6, <2>7
    <3>2. e.tag # "Disconnected"
      BY <1>9, <2>7 DEF Polls
    <3>3. e.tag # "Confirm"
      <4>1. e.tag = "Confirm" => Rank(e) = -1
        BY DEF Rank
      <4>. QED BY <2>3, <2>4, <3>2, <4>1
    <3>4. b + 1 \in 0 .. Progress(r.next)
      BY <1>9, <2>2, <2>3, <2>4, <3>2, <3>3
    <3>5. \A n \in DOMAIN Down(g)' :
            Down(g)'[n].tag = "Disconnected" \/ Rank(Down(g)'[n]) = (b + 1) + n - 1
      <4>. SUFFICES ASSUME NEW n \in DOMAIN Tail(Down(g)), Tail(Down(g))[n].tag # "Disconnected"
                    PROVE  Rank(Tail(Down(g))[n]) = (b + 1) + n - 1
        BY <3>1
      <4>1. n \in Nat \ {0} /\ n + 1 \in DOMAIN Down(g) /\ Tail(Down(g))[n] = Down(g)[n + 1]
        BY <1>10
      <4>2. Rank(Tail(Down(g))[n]) = b + (n + 1) - 1
        BY <2>1, <4>1 DEF InOrder
      <4>. QED BY <2>3, <4>1, <4>2
    <3>6. ASSUME g \in linked'
          PROVE  /\ Knocks(g)' => (b + 1) + Len(Down(g)') = 1
                 /\ g \in greeted' /\ session'["host"].peer = g /\ Speaks(session'["host"]) =>
                      (b + 1) + Len(Down(g)') = Says(session'["host"])
      <4>1. /\ Knocks(g) => b + Len(Down(g)) = 1
            /\ g \in greeted /\ session["host"].peer = g /\ Speaks(session["host"]) =>
                 b + Len(Down(g)) = Says(session["host"])
        BY <1>3, <2>1, <3>6 DEF InOrder
      <4>2. (b + 1) + Len(Down(g)') = b + Len(Down(g))
        BY <1>10, <2>3, <3>1
      <4>. QED BY <1>4, <1>5, <1>7, <4>1, <4>2
    <3>7. InOrder(g, b + 1)'
      BY <3>5, <3>6 DEF InOrder
    <3>. QED BY <2>5, <3>4, <3>7
  <2>. QED BY <2>6, <2>7
<1>13. KeepsUp(g)'
  BY <1>4, <1>5, <1>7, <1>12 DEF KeepsUp
<1>. QED BY <1>5, <1>11, <1>12, <1>13, <1>15 DEF Hears

(* The host hears of a connection: it greets the guest, or takes it for its peer. *)
LEMMA HostReceiveHears ==
  ASSUME IInv, IInv', NEW g \in Joiners, Hears(g), NEW q \in Guests, Receive("host", q)
  PROVE  Hears(g)'
<1>. DEFINE e == Head(channel[<< q, "host" >>])
            s == Polled(session["host"], q, e.tag)
            rest == [channel EXCEPT ![<< q, "host" >>] = Tail(@)]
<1>1. /\ g # NoPeer /\ g # "host" /\ "host" \in Launchers /\ g \in Launchers
      /\ << "host", g >> \in Routes /\ << g, "host" >> \in Routes
      /\ Down(g) \in Seq(Events) /\ Up(g) \in Seq(Events)
      /\ session \in [Launchers -> SessionType] /\ q \in Peers("host")
  BY GuestFields, RouteFields DEF Peers, IsHost
<1>2. Down(g) = channel[<< "host", g >>] /\ Up(g) = channel[<< g, "host" >>]
  BY DEF Up, Down
<1>3. /\ q \in {NoPeer, "host"} \cup Guests /\ << q, "host" >> \in Routes
      /\ channel[<< q, "host" >>] \in Seq(Events) /\ channel[<< q, "host" >>] # << >>
      /\ e \in Events /\ session["host"] \in SessionType
      /\ s \in SessionType /\ Polls(s) /\ s.state = session["host"].state
      /\ s.phase = session["host"].phase /\ s.pings = session["host"].pings
      /\ s.peer = (IF e.tag = "Connected" THEN q
                   ELSE IF e.tag = "Disconnected" THEN NoPeer ELSE session["host"].peer)
      /\ rest \in [Routes -> Seq(Events)]
      /\ \A r \in Routes : rest[r] = IF r = << q, "host" >> THEN Tail(channel[<< q, "host" >>])
                                     ELSE channel[r]
      /\ ui' = ui /\ linked' = linked
  BY <1>1, ReceiveIs
<1>4. PICK r \in Outcome("host", s, e) :
        /\ session' = [session EXCEPT !["host"] = r.next]
        /\ channel' = Read(Sent(rest, "host", r.next.peer, r.out))
        /\ greeted' = IF r.out = << Message("Version") >>
                      THEN greeted \cup {q} ELSE greeted
        /\ r.out \in Seq(Events) /\ r.next.peer = s.peer
        /\ r.next.peer \in {NoPeer, "host"} \cup Guests /\ r.next \in SessionType
  <2>1. Reacts("host", q, e, s, rest)
    BY <1>1, ReceiveIs
  <2>. HIDE DEF e, s, rest
  <2>. QED BY <2>1 DEF Reacts, IsHost
<1>. HIDE DEF s, rest
<1>5. session'["host"] = r.next /\ session'[g] = session[g]
  BY <1>1, <1>4
<1>. DEFINE sent == Sent(rest, "host", r.next.peer, r.out)
<1>6. /\ Down(g)' = IF Polls(session[g]) THEN sent[<< "host", g >>] ELSE << >>
      /\ Up(g)' = IF Polls(session'["host"]) THEN rest[<< g, "host" >>] ELSE << >>
      /\ rest[<< "host", g >>] = Down(g)
  <2>1. /\ Down(g)' = IF Polls(session'[g]) THEN sent[<< "host", g >>] ELSE << >>
        /\ Up(g)' = IF Polls(session'["host"]) THEN sent[<< g, "host" >>] ELSE << >>
    BY <1>1, <1>3, <1>4, WroteAt
  <2>2. sent[<< g, "host" >>] = rest[<< g, "host" >>]
    BY <1>1, <1>3, <1>4, ElseSent
  <2>3. << "host", g >> # << q, "host" >>
    BY <1>1
  <2>. HIDE DEF sent, e
  <2>. QED BY <1>1, <1>2, <1>3, <1>5, <2>1, <2>2, <2>3
<1>. HIDE DEF sent
<1>7. /\ CallsFirst(Up(g))' /\ (Knocks(g)' => Knocks(g))
      /\ q = g => ~ Knocks(g)'
  <2>1. CallsFirst(Up(g))
    BY DEF Hears, ConnectsOnce
  <2>2. CASE q = g
    <3>1. Up(g)' = Tail(Up(g)) \/ Up(g)' = << >>
      BY <1>1, <1>2, <1>3, <1>6, <2>2
    <3>2. Up(g) # << >>
      BY <1>2, <1>3, <2>2
    <3>3. CallsFirst(Tail(Up(g))) /\ ~ Calls(Tail(Up(g)))
      BY <1>1, <2>1, <3>2, CallsTail
    <3>. QED BY <3>1, <3>3, NoCalls DEF Knocks
  <2>3. CASE q # g
    <3>1. << g, "host" >> # << q, "host" >>
      BY <2>3
    <3>2. Up(g)' = Up(g) \/ Up(g)' = << >>
      BY <1>1, <1>2, <1>3, <1>6, <3>1
    <3>. QED BY <2>1, <2>3, <3>2, NoCalls DEF Knocks
  <2>. QED BY <2>2, <2>3
<1>8. CASE e.tag # "Connected"
  <2>1. Speech(s, r) /\ r.out # << Message("Version") >>
    BY <1>3, <1>4, <1>8, OutcomeSpeech
  <2>2. Speech(session["host"], r)
    <3>1. Says(s) = Says(session["host"]) /\ (Speaks(s) <=> Speaks(session["host"]))
      BY <1>3, AsPolled
    <3>. QED BY <2>1, <3>1 DEF Speech
  <2>3. greeted' = greeted
    BY <1>4, <2>1
  <2>4. r.next.peer = session["host"].peer \/ r.next.peer = NoPeer
    BY <1>3, <1>4, <1>8
  <2>5. Down(g)' = IF Polls(session[g])
                   THEN Sent(rest, "host", r.next.peer, r.out)[<< "host", g >>] ELSE << >>
    BY <1>6 DEF sent
  <2>. QED BY <1>3, <1>4, <1>5, <1>6, <1>7, <2>2, <2>3, <2>4, <2>5, SpeechHears
<1>9. CASE e.tag = "Connected" /\ q # g
  <2>1. r.next.peer # g
    BY <1>3, <1>4, <1>9
  <2>2. Down(g)' = Down(g)
    <3>1. sent[<< "host", g >>] = Down(g)
      BY <1>3, <1>4, <1>6, <2>1, SentDown DEF sent
    <3>. QED BY <1>6, <3>1 DEF Hears, ConnectsOnce
  <2>3. ListsMild(g)
    BY <1>3, <1>5, <1>7, <2>2 DEF ListsMild, Hears, ConnectsOnce
  <2>4. GuestMild(g)
    BY <1>3, <1>5, SameGuest
  <2>5. g \in greeted' => g \in greeted
    BY <1>4, <1>9
  <2>6. HostMild(g)
    <3>1. Known(g)' => Known(g)
      BY <1>3, <1>5, <1>7, <2>1, <2>5 DEF Known
    <3>2. Knocks(g)' => g \notin greeted' /\ session'["host"].peer # g
      BY <1>5, <1>7, <2>1, <2>5 DEF Hears, ConnectsOnce
    <3>. QED BY <1>5, <2>1, <2>5, <3>1, <3>2 DEF HostMild
  <2>. QED BY <2>3, <2>4, <2>6, MildPreserves
<1>10. CASE e.tag = "Connected" /\ q = g
  <2>1. Knocks(g) /\ ~ Knocks(g)' /\ g \notin greeted /\ r.next.peer = g
    <3>1. Up(g) # << >> /\ e = Head(Up(g))
      BY <1>2, <1>3, <1>10
    <3>2. e = Up(g)[1] /\ 1 \in DOMAIN Up(g)
      BY <1>1, <3>1, TailIs
    <3>3. Knocks(g)
      BY <1>10, <3>2 DEF Knocks, Calls
    <3>. QED BY <1>3, <1>4, <1>7, <1>10, <3>3 DEF Hears, ConnectsOnce
  <2>. DEFINE told == g \in linked /\ Polls(session[g])
  <2>2. Down(g)' = IF told THEN Down(g) \o r.out ELSE Down(g)
    <3>2. sent[<< "host", g >>] = IF told THEN Down(g) \o r.out ELSE Down(g)
      <4>1. sent[<< "host", g >>] =
              IF r.next.peer = g /\ g \in linked /\ Polls(session[g])
              THEN rest[<< "host", g >>] \o r.out ELSE rest[<< "host", g >>]
        BY <1>3, <1>4, SentDown DEF sent
      <4>. QED BY <1>6, <2>1, <4>1
    <3>. QED BY <1>6, <3>2 DEF Hears, ConnectsOnce
  <2>3. \/ r.out = << >> /\ g \notin greeted'
        \/ r = Greet(s)
    <3>1. CASE s.state \in {"Listening", "Connecting"}
      BY <1>4, <1>10, <3>1 DEF Outcome
    <3>2. CASE s.state \notin {"Listening", "Connecting"}
      <4>1. r.out = << >>
        BY <1>4, <1>10, <3>2 DEF Outcome
      <4>2. << >> # << Message("Version") >>
        OBVIOUS
      <4>. QED BY <1>4, <2>1, <4>1, <4>2
    <3>. QED BY <3>1, <3>2
  <2>4. CASE r.out = << >> \/ ~ told
    <3>1. Down(g)' = Down(g)
      <4>1. Down(g) \o << >> = Down(g)
        BY <1>1, ConcatEmptySeq
      <4>. QED BY <2>2, <2>4, <4>1
    <3>2. ListsMild(g)
      BY <1>3, <1>5, <1>7, <3>1 DEF ListsMild, Hears, ConnectsOnce
    <3>3. GuestMild(g)
      BY <1>3, <1>5, SameGuest
    <3>4. g \in linked' /\ Polls(session'[g]) => g \notin greeted'
      <4>1. Greet(s).out # << >>
        BY DEF Greet
      <4>. QED BY <1>3, <1>5, <2>3, <2>4, <4>1
    <3>5. HostMild(g)
      BY <2>1, <3>4 DEF HostMild, Known
    <3>. QED BY <3>2, <3>3, <3>5, MildPreserves
  <2>5. CASE r.out # << >> /\ told
    <3>1. r = Greet(s) /\ Greet(s).out = << Message("Version") >>
      BY <2>3, <2>5 DEF Greet
    <3>2. Says(r.next) = 2
      <4>1. r.next.state = "Handshaking" /\ r.next.phase = 0
        BY <1>3, <3>1, GoesOn
      <4>. QED BY <4>1 DEF Says
    <3>3. Message("Version") \in Events /\ Message("Version").tag = "Version"
          /\ Rank(Message("Version")) = 1
      BY Messages, Ranks
    <3>4. PICK m \in Events : m = Message("Version")
      BY <3>3
    <3>5. Down(g)' = Down(g) \o << m >> /\ Says(session'["host"]) = Rank(m) + 1
      BY <1>5, <2>2, <2>5, <3>1, <3>2, <3>3, <3>4
    <3>6. m.tag \notin {"Connected", "Disconnected"} /\ Rank(m) = 1
      BY <3>3, <3>4
    <3>7. session'["host"].peer = g
      BY <1>5, <2>1
    <3>. QED BY <1>3, <1>5, <1>7, <2>1, <2>5, <3>5, <3>6, <3>7, SpeaksPreserves
  <2>. QED BY <2>4, <2>5
<1>. QED BY <1>8, <1>9, <1>10

LEMMA ReceiveHears ==
  ASSUME IInv, IInv', NEW g \in Joiners, Hears(g), NEW p \in Launchers, NEW q \in Peers(p),
         Receive(p, q)
  PROVE  Hears(g)'
<1>1. CASE p = "host"
  <2>1. q \in Guests
    BY <1>1 DEF Peers, IsHost
  <2>. QED BY <1>1, <2>1, HostReceiveHears
<1>2. CASE p # "host"
  <2>1. q = "host" /\ p \in Joiners
    BY <1>2, RouteFields DEF Peers, IsHost
  <2>2. CASE p = g
    BY <2>1, <2>2, GuestReceiveHears
  <2>3. CASE p # g
    <3>. DEFINE e == Head(channel[<< "host", p >>])
                s == Polled(session[p], "host", e.tag)
                rest == [channel EXCEPT ![<< "host", p >>] = Tail(@)]
    <3>1. Receive(p, "host") /\ "host" \in Peers(p)
      BY <2>1
    <3>2. /\ rest \in [Routes -> Seq(Events)]
          /\ \A r \in Routes : rest[r] = IF r = << "host", p >> THEN Tail(channel[<< "host", p >>])
                                         ELSE channel[r]
          /\ ui' = ui /\ linked' = linked
      BY <3>1, ReceiveIs
    <3>3. PICK r \in Outcome(p, s, e) :
            /\ session' = [session EXCEPT ![p] = r.next]
            /\ channel' = Read(Sent(rest, p, r.next.peer, r.out))
            /\ greeted' = greeted /\ r.out \in Seq(Events)
            /\ r.next.peer \in {NoPeer, "host"} \cup Guests
      <4>1. Reacts(p, "host", e, s, rest)
        BY <3>1, ReceiveIs
      <4>. HIDE DEF e, s, rest
      <4>. QED BY <1>2, <4>1 DEF Reacts, IsHost
    <3>. HIDE DEF rest
    <3>4. rest[<< "host", g >>] = Down(g) /\ rest[<< g, "host" >>] = Up(g)
      <4>1. << "host", g >> \in Routes /\ << g, "host" >> \in Routes /\ g # "host"
        BY GuestFields
      <4>2. << "host", g >> # << "host", p >> /\ << g, "host" >> # << "host", p >>
        BY <2>3, <4>1
      <4>. QED BY <3>2, <4>1, <4>2 DEF Up, Down
    <3>. QED BY <1>2, <2>3, <3>2, <3>3, <3>4, OtherWorks
  <2>. QED BY <2>2, <2>3
<1>. QED BY <1>1, <1>2
-----------------------------------------------------------------------------
(* The commands *)

LEMMA ConfirmHears ==
  ASSUME IInv, IInv', NEW g \in Joiners, Hears(g), Obey("host"),
         session["host"].state = "WaitingConfirmation",
         session' = [session EXCEPT !["host"].state = "Handshaking", !["host"].phase = 3],
         channel' = Sent(channel, "host", session["host"].peer,
                         << ConfigMessage(session["host"].config) >>),
         UNCHANGED << ui, linked, greeted >>
  PROVE  Hears(g)'
<1>. DEFINE s == session["host"]
            next == [s EXCEPT !.state = "Handshaking", !.phase = 3]
            m == ConfigMessage(s.config)
            r == [next |-> next, out |-> << m >>]
<1>1. /\ g # NoPeer /\ g # "host" /\ "host" \in Launchers /\ g \in Launchers
      /\ << "host", g >> \in Routes /\ << g, "host" >> \in Routes
      /\ session \in [Launchers -> SessionType] /\ channel \in [Routes -> Seq(Events)]
      /\ s \in SessionType
  BY GuestFields, RouteFields
<1>2. session' = [session EXCEPT !["host"] = next]
  BY <1>1
<1>3. next.state = "Handshaking" /\ next.phase = 3 /\ next.peer = s.peer
  BY <1>1, Changed
<1>4. /\ s.config \in Configs /\ s.peer \in {NoPeer, "host"} \cup Guests
  BY <1>1, Fields
<1>5. m \in Events /\ m.tag = "Config" /\ Rank(m) = 3 + Pings
  BY <1>4, Messages, Ranks
<1>6. s.state = "WaitingConfirmation"
  OBVIOUS
<1>7. channel' = Sent(channel, "host", s.peer, << m >>)
  OBVIOUS
<1>8. s = session["host"] /\ r.next = next /\ r.out = << m >>
  OBVIOUS
<1>. HIDE DEF s, next, m, r
<1>9. Speaks(s) /\ Says(s) = 3 + Pings /\ Says(next) = 4 + Pings
  BY <1>3, <1>6 DEF Speaks, Says
<1>10. Speech(s, r)
  <2>1. Says(next) = Rank(m) + 1
    BY <1>5, <1>9, SessionAssumption
  <2>2. Speech(s, [next |-> next, out |-> << m >>])
    BY <1>1, <1>5, <1>9, <2>1, SaysIs
  <2>. QED BY <2>2 DEF r
<1>11. << m >> \in Seq(Events)
  BY <1>5, InOne
<1>12. Down(g)' = IF Polls(session[g])
                  THEN Sent(channel, "host", s.peer, << m >>)[<< "host", g >>] ELSE << >>
  <2>1. Down(g)' = Sent(channel, "host", s.peer, << m >>)[<< "host", g >>]
    BY <1>7 DEF Down
  <2>2. CASE ~ Polls(session[g])
    <3>1. Sent(channel, "host", s.peer, << m >>)[<< "host", g >>] =
            IF s.peer = g /\ g \in linked /\ Polls(session[g])
            THEN channel[<< "host", g >>] \o << m >> ELSE channel[<< "host", g >>]
      BY <1>1, <1>4, <1>11, SentDown
    <3>2. Down(g)' = Down(g)
      BY <2>1, <2>2, <3>1 DEF Down
    <3>. QED BY <2>2, <3>2 DEF Hears, ConnectsOnce
  <2>. QED BY <2>1, <2>2
<1>13. Up(g)' = Up(g)
  <2>1. Sent(channel, "host", s.peer, << m >>)[<< g, "host" >>] = channel[<< g, "host" >>]
    BY <1>1, <1>4, <1>11, ElseSent
  <2>. QED BY <1>7, <2>1 DEF Up
<1>14. CallsFirst(Up(g))' /\ (Knocks(g)' => Knocks(g))
  BY <1>13 DEF Hears, ConnectsOnce, Knocks
<1>15. session'["host"] = r.next /\ session'[g] = session[g]
  BY <1>1, <1>2, <1>8
<1>16. channel[<< "host", g >>] = Down(g)
  BY DEF Down
<1>17. r.out \in Seq(Events) /\ r.next.peer = s.peer
  BY <1>3, <1>8, <1>11
<1>18. Down(g)' = IF Polls(session[g])
                  THEN Sent(channel, "host", r.next.peer, r.out)[<< "host", g >>] ELSE << >>
  BY <1>8, <1>12, <1>17
<1>19. Speech(session["host"], r) /\ r.next.peer = session["host"].peer
       /\ r.next.peer \in {NoPeer, "host"} \cup Guests
  BY <1>4, <1>8, <1>10, <1>17
<1>. QED BY <1>1, <1>14, <1>15, <1>16, <1>17, <1>18, <1>19, SpeechHears

LEMMA DeinitHears ==
  ASSUME IInv, IInv', NEW g \in Joiners, Hears(g), NEW p \in Launchers,
         session' = [session EXCEPT ![p] = Fresh], TornDown(p),
         ui[p] \notin {"menu", "game", "away"},
         ui' = [ui EXCEPT ![p] = IF @ = "launching" THEN "game"
                                 ELSE IF IsHost(p) THEN "menu" ELSE "away"],
         greeted' = IF IsHost(p) THEN {} ELSE greeted
  PROVE  Hears(g)'
<1>1. /\ g # NoPeer /\ g # "host" /\ "host" \in Launchers /\ g \in Launchers
      /\ session \in [Launchers -> SessionType] /\ session[g] \in SessionType
      /\ DOMAIN ui = Launchers /\ g \in Guests /\ "host" \notin Guests
  BY GuestFields, RouteFields DEF IInv, Types, TypeOK
<1>2. PICK guests : /\ guests = (IF p = "host" THEN Guests ELSE {p}) /\ Cut(guests, p)
  BY DEF TornDown, IsHost
<1>3. guests \in SUBSET Guests /\ (p \in {"host", g} => g \in guests)
  BY <1>1, <1>2, RouteFields
<1>4. /\ Fresh.state = "Idle" /\ Fresh.peer = NoPeer
  BY DEF Fresh
<1>5. ~ Polls(Fresh) /\ ~ Speaks(Fresh) /\ Progress(Fresh) = 4 + Pings
  BY <1>4 DEF Polls, Speaks, Progress
<1>6. /\ session'[p] = Fresh /\ \A x \in Launchers : x # p => session'[x] = session[x]
      /\ \A x \in Launchers : x # p => ui'[x] = ui[x]
      /\ ui'[p] # "menu" \/ p = "host"
  BY <1>1 DEF IsHost
<1>7. ListsMild(g)
  <2>1. IF p = g THEN ~ Polls(session'[g]) ELSE session'[g] = session[g]
    BY <1>1, <1>5, <1>6
  <2>2. p \in {NoPeer} \cup Launchers
    OBVIOUS
  <2>. QED BY <1>2, <1>3, <2>1, <2>2, CutMild
<1>8. (Knocks(g)' => Knocks(g)) /\ (g \in linked' => g \in linked)
  BY <1>7 DEF ListsMild
<1>9. CASE p = "host"
  <2>1. session'["host"].peer = NoPeer /\ g \notin greeted' /\ session'[g] = session[g]
        /\ ui'[g] = ui[g]
    BY <1>1, <1>4, <1>6, <1>9 DEF IsHost
  <2>2. GuestMild(g)
    BY <2>1, SameGuest
  <2>3. HostMild(g)
    BY <1>1, <1>8, <2>1 DEF HostMild, Known
  <2>. QED BY <1>7, <2>2, <2>3, MildPreserves
<1>10. CASE p # "host"
  <2>1. session'["host"] = session["host"] /\ greeted' = greeted
    BY <1>1, <1>6, <1>10 DEF IsHost
  <2>2. GuestMild(g)
    <3>1. CASE p = g
      <4>1. Pings \in Nat \ {0} /\ session[g].pings \in Nat /\ session[g].pings < Pings
        BY <1>1, PingsAre
      <4>2. Progress(session[g]) <= 4 + Pings
        BY <4>1 DEF Progress
      <4>. QED BY <1>4, <1>5, <1>6, <1>10, <3>1, <4>2 DEF GuestMild
    <3>2. CASE p # g
      BY <1>1, <1>6, <3>2, SameGuest
    <3>. QED BY <3>1, <3>2
  <2>3. HostMild(g)
    BY <1>1, <1>8, <2>1, SameHost
  <2>. QED BY <1>7, <2>2, <2>3, MildPreserves
<1>. QED BY <1>9, <1>10

LEMMA ObeyHears ==
  ASSUME IInv, IInv', NEW g \in Joiners, Hears(g), NEW p \in Launchers, Obey(p)
  PROVE  Hears(g)'
<1>. DEFINE s == session[p]
            c == Head(commands[p])
<1>1. /\ commands[p] \in Orders /\ commands[p] # << >>
      /\ session \in [Launchers -> SessionType] /\ s \in SessionType
      /\ ui[p] \notin {"menu", "game", "away"}
  BY ObeysIs
<1>2. c.name \in {"Set", "Confirm", "Cancel", "Deinit"}
  BY <1>1, OrderIs
<1>3. p # "host" => c.name = "Deinit"
  <2>1. p # "host" => commands[p] = << Do("Deinit") >>
    BY <1>1 DEF IInv, OrdersFit
  <2>. QED BY <2>1 DEF Do
<1>4. ASSUME NEW next, session' = [session EXCEPT !["host"] = next], p = "host",
             next.state = s.state, next.phase = s.phase, next.pings = s.pings,
             next.peer = s.peer, UNCHANGED << ui, channel, linked, greeted >>
      PROVE  Hears(g)'
  <2>1. g # NoPeer /\ g # "host" /\ "host" \in Launchers /\ g \in Launchers
    BY GuestFields, RouteFields
  <2>2. session'["host"] = next /\ session'[g] = session[g]
    BY <1>1, <1>4, <2>1
  <2>3. Says(next) = Says(s) /\ (Speaks(next) <=> Speaks(s))
    BY <1>4, AsPolled
  <2>4. Up(g)' = Up(g) /\ Down(g)' = Down(g) /\ Knocks(g)' = Knocks(g)
    BY <1>4 DEF Up, Down, Knocks
  <2>. QED BY <1>4, <2>1, <2>2, <2>3, <2>4, SameGuest, SameHost, SameLists, MildPreserves
<1>5. CASE c.name = "Set"
  <2>. DEFINE next == [s EXCEPT !.config = c.value, !.manual = TRUE]
  <2>1. session' = [session EXCEPT ![p].config = c.value, ![p].manual = TRUE]
        /\ UNCHANGED << ui, channel, linked, greeted >>
    BY <1>5 DEF Obey
  <2>2. session' = [session EXCEPT ![p] = next] /\ p = "host"
    BY <1>1, <1>3, <1>5, <2>1
  <2>3. next.state = s.state /\ next.phase = s.phase /\ next.peer = s.peer
        /\ next.pings = s.pings
    BY <1>1 DEF SessionType
  <2>. HIDE DEF next, s
  <2>. QED BY <1>4, <2>1, <2>2, <2>3
<1>6. CASE c.name = "Confirm" /\ s.state = "WaitingConfirmation"
  <2>1. /\ session' = [session EXCEPT ![p].state = "Handshaking", ![p].phase = 3]
        /\ channel' = Sent(channel, p, s.peer, << ConfigMessage(s.config) >>)
        /\ UNCHANGED << ui, linked, greeted >>
    BY <1>6 DEF Obey
  <2>2. p = "host"
    BY <1>3, <1>6
  <2>. QED BY <1>6, <2>1, <2>2, ConfirmHears
<1>7. CASE c.name = "Confirm" /\ s.state # "WaitingConfirmation"
  <2>1. UNCHANGED << session, ui, channel, linked, greeted >>
    BY <1>7 DEF Obey
  <2>. QED BY <2>1, PagesHear
<1>8. CASE c.name = "Cancel"
  <2>. DEFINE next == [s EXCEPT !.cancel = TRUE]
  <2>1. session' = [session EXCEPT ![p].cancel = TRUE]
        /\ UNCHANGED << ui, channel, linked, greeted >>
    BY <1>8 DEF Obey
  <2>2. session' = [session EXCEPT ![p] = next] /\ p = "host"
    BY <1>1, <1>3, <1>8, <2>1
  <2>3. next.state = s.state /\ next.phase = s.phase /\ next.peer = s.peer
        /\ next.pings = s.pings
    BY <1>1 DEF SessionType
  <2>. HIDE DEF next, s
  <2>. QED BY <1>4, <2>1, <2>2, <2>3
<1>9. CASE c.name = "Deinit"
  <2>1. /\ session' = [session EXCEPT ![p] = Fresh] /\ TornDown(p)
        /\ ui' = [ui EXCEPT ![p] = IF @ = "launching" THEN "game"
                                   ELSE IF IsHost(p) THEN "menu" ELSE "away"]
        /\ greeted' = IF IsHost(p) THEN {} ELSE greeted
    BY <1>9 DEF Obey
  <2>. QED BY <1>1, <2>1, DeinitHears
<1>. QED BY <1>2, <1>5, <1>6, <1>7, <1>8, <1>9
-----------------------------------------------------------------------------
HearInv == IInv /\ \A g \in Joiners : Hears(g)

LEMMA InitHears == Init => HearInv
<1>. SUFFICES ASSUME Init PROVE HearInv
  OBVIOUS
<1>1. ASSUME NEW g \in Joiners PROVE Hears(g)
  <2>1. /\ g # NoPeer /\ g # "host" /\ "host" \in Launchers /\ g \in Launchers
        /\ << "host", g >> \in Routes /\ << g, "host" >> \in Routes
    BY RouteFields, SessionAssumption DEF NoPeer
  <2>2. /\ Down(g) = << >> /\ Up(g) = << >> /\ g \notin linked /\ g \notin greeted
        /\ session["host"].peer = NoPeer /\ session[g].state = "Idle"
    BY <2>1 DEF Init, Fresh, Up, Down
  <2>3. CallsFirst(Up(g)) /\ ~ Knocks(g)
    BY <2>2, NoCalls DEF Knocks
  <2>. QED BY <2>1, <2>2, <2>3 DEF Hears, ConnectsOnce, KeepsUp, Known
<1>. QED BY <1>1, InitEstablishes DEF HearInv

LEMMA NextHears ==
  ASSUME HearInv, [Next]_vars
  PROVE  HearInv'
<1>1. IInv /\ IInv'
  BY NextPreserves DEF HearInv
<1>. SUFFICES ASSUME NEW g \in Joiners PROVE Hears(g)'
  BY <1>1 DEF HearInv
<1>2. Hears(g)
  BY DEF HearInv
<1>3. ASSUME NEW x \in Joiners, Join(x) \/ Connect(x) \/ RelayEnds(x) PROVE Hears(g)'
  BY <1>1, <1>2, <1>3, EntersHears, ConnectHears
<1>4. ASSUME NEW x \in Spectators, Knock(x) PROVE Hears(g)'
  BY <1>1, <1>2, <1>4, KnockHears
<1>5. ASSUME NEW x \in Guests, Break(x) PROVE Hears(g)'
  BY <1>1, <1>2, <1>5, BreakHears
<1>6. ASSUME NEW r \in Routes, Lose(r) PROVE Hears(g)'
  BY <1>1, <1>2, <1>6, LoseHears
<1>7. ASSUME NEW p \in Launchers, Timeout(p) \/ Cancelled(p) \/ Obey(p) PROVE Hears(g)'
  BY <1>1, <1>2, <1>7, TimeoutHears, CancelledHears, ObeyHears
<1>8. ASSUME NEW p \in Launchers, NEW q \in Peers(p), Receive(p, q) PROVE Hears(g)'
  BY <1>1, <1>2, <1>8, ReceiveHears
<1>9. ASSUME Host PROVE Hears(g)'
  BY <1>1, <1>2, <1>9, HostHears
<1>10. ASSUME NEW p \in Launchers, Leave(p) \/ Launch(p) PROVE Hears(g)'
  <2>1. g \in Launchers /\ DOMAIN ui = Launchers
    BY <1>1, RouteFields DEF IInv, Types, TypeOK
  <2>2. /\ UNCHANGED << session, channel, linked, greeted >>
        /\ \E x \in {"leaving", "launching"} : ui' = [ui EXCEPT ![p] = x]
    BY <1>10 DEF Leave, Launch, Queue
  <2>3. ui'[g] = ui[g] \/ ui'[g] # "menu"
    BY <2>1, <2>2
  <2>. QED BY <1>1, <1>2, <2>2, <2>3, PagesHear
<1>11. ASSUME StartMatch \/ CancelAndWait PROVE Hears(g)'
  <2>1. UNCHANGED << session, channel, linked, greeted, ui >>
    BY <1>11 DEF StartMatch, CancelAndWait, Queue
  <2>. QED BY <1>1, <1>2, <2>1, PagesHear
<1>12. CASE UNCHANGED vars
  <2>1. UNCHANGED << session, channel, linked, greeted, ui >>
    BY <1>12 DEF vars
  <2>. QED BY <1>1, <1>2, <2>1, PagesHear
<1>. QED BY <1>3, <1>4, <1>5, <1>6, <1>7, <1>8, <1>9, <1>10, <1>11, <1>12 DEF Next

(* What the host says to a guest, and what the guest does with it, keep step whichever *)
(* pings were answered and whichever timed out: a guest that reads the configuration   *)
(* has done with its pings, and plays (step_wait_config_confirm).                      *)
THEOREM GuestsHearTheConfiguration == Spec => ConfigIsHeard
<1>1. Init => HearInv
  BY InitHears
<1>2. HearInv /\ [Next]_vars => HearInv'
  BY NextHears
<1>3. HearInv /\ [Next]_vars =>
        [\A g \in greeted \cap Joiners :
           /\ channel[<< "host", g >>] # << >> /\ Receive(g, "host")
           /\ Head(channel[<< "host", g >>]).tag = "Config"
           => session'[g].state = "Launching"]_vars
  <2>. SUFFICES ASSUME HearInv, [Next]_vars, NEW g \in greeted \cap Joiners,
                       Receive(g, "host"), Head(channel[<< "host", g >>]).tag = "Config"
                PROVE  session'[g].state = "Launching"
    OBVIOUS
  <2>1. IInv /\ IInv' /\ Hears(g)
    BY NextPreserves DEF HearInv
  <2>2. Head(Down(g)).tag = "Config"
    BY DEF Down
  <2>. QED BY <2>1, <2>2, GuestReceiveHears
<1>. QED BY <1>1, <1>2, <1>3, PTL DEF Spec, ConfigIsHeard
=============================================================================
