------------------------------ MODULE Session ------------------------------
(***************************************************************************)
(* The launchers' handshake.  A host listens, a guest connects directly or *)
(* through the relay; they exchange versions and names, time Pings pings,  *)
(* and the guest waits for the host's player to press "Start Match", which *)
(* sends the match configuration; the guest confirms it and both start     *)
(* their games.  Each launcher has a worker thread that obeys the commands *)
(* its user interface queues and takes one step of the handshake at a      *)
(* time, with at most one event of the transport.                          *)
(*                                                                         *)
(* A guest is one connection: who joins again is another guest.  A match   *)
(* configuration (delay, rollback, seed) is a member of Values.  Of time   *)
(* nothing is known: any limit that runs may be the one that expires.  The *)
(* host's relay client, beside its listening socket, leaves no trace in    *)
(* the handshake, whichever way it ends.                                   *)
(*                                                                         *)
(* Code: NetplaySession (exe/session/session.cpp), EnetTransport           *)
(* (common/net/enet_transport.cpp), the waiting page                       *)
(* (exe/pages/waiting_for_peer.cpp, main_menu.cpp) and the command-line    *)
(* driver (exe/cli.cpp), which confirms at once.                           *)
(***************************************************************************)
EXTENDS Integers, Sequences, FiniteSets

CONSTANTS
  Joiners,       \* launchers that may join the host
  Spectators,    \* spectators' games, which connect without a handshake of launchers
  Values,        \* match configurations: measured, or typed by the host's player
  Overrides,     \* those that --delay may ask for
  Pings,         \* 5, see step_ping_exchanging
  MaxPeers,      \* peers an ENet host that listens has room for
  MaxHosted      \* bound: sessions the host opens

NoPeer == "none"
NoValue == "unset"

ASSUME SessionAssumption ==
  /\ {"host", NoPeer} \cap (Joiners \cup Spectators) = {} /\ Joiners \cap Spectators = {}
  /\ Overrides \subseteq Values
  /\ Pings \in Nat \ {0} /\ MaxPeers \in Nat \ {0} /\ MaxHosted \in Nat \ {0}

Guests == Joiners \cup Spectators
Launchers == {"host"} \cup Joiners

VARIABLES
  session,    \* NetplaySession of each launcher
  commands,   \* commands_: what the user interface has queued
  ui,         \* what the user interface is doing
  game,       \* the configuration the game was started with
  channel,    \* events on their way between the transports, by <<from, to>>
  linked,     \* guests whose connection is alive
  hosted,     \* sessions the host has opened
  knocked,    \* spectators that have connected to the launcher
  greeted,    \* history: guests this session of the host has sent its version to
  confirmed   \* history: the configuration a guest has confirmed

vars == << session, commands, ui, game, channel, linked, hosted, knocked, greeted, confirmed >>
uiVars == << commands, ui, game, hosted >>

Fresh ==
  [state |-> "Idle", phase |-> 0, cancel |-> FALSE, pings |-> 0,
   config |-> NoValue, manual |-> FALSE, peer |-> NoPeer]

Message(tag) == [tag |-> tag]
ConfigMessage(v) == [tag |-> "Config", value |-> v]
PingMessage(s) == [tag |-> "Ping", number |-> s.pings]
Routes == ({"host"} \X Guests) \cup (Guests \X {"host"})

Init ==
  /\ session = [p \in Launchers |-> Fresh]
  /\ commands = [p \in Launchers |-> << >>]
  /\ ui = [p \in Launchers |-> "menu"]
  /\ game = [p \in Launchers |-> NoValue]
  /\ channel = [r \in Routes |-> << >>]
  /\ linked = {} /\ knocked = {} /\ hosted = 0
  /\ greeted = {} /\ confirmed = [g \in Joiners |-> NoValue]

-----------------------------------------------------------------------------
(* The transport *)

IsHost(p) == p = "host"
GuestOf(p, q) == IF IsHost(p) THEN q ELSE p
Peers(p) == IF IsHost(p) THEN Guests ELSE {"host"}

(* The states whose step polls the transport.  What comes for a launcher in another one *)
(* stays unread until it tears the transport down, and is left out.                     *)
Polls(s) == s.state \in {"Listening", "Connecting", "Handshaking", "PingExchanging",
                         "WaitingConfirmation"}
Reads(q) == q \notin Spectators /\ Polls(session[q])
Read(ch) == [r \in Routes |-> IF r[2] \notin Spectators /\ Polls(session'[r[2]]) THEN ch[r] ELSE << >>]

(* send_reliable: nothing without a peer; what goes to a dead connection is lost, and a *)
(* game that spectates makes nothing of a launcher's messages.                          *)
Sent(ch, p, q, msgs) ==
  IF q = NoPeer THEN ch
  ELSE IF GuestOf(p, q) \notin linked \/ ~ Reads(q) THEN ch
  ELSE [ch EXCEPT ![<< p, q >>] = @ \o msgs]

(* The guests' connections end: both sides are told or notice, but for a leaver.  What  *)
(* was on its way may still come, or be lost (Lose).                                    *)
Cut(guests, leaver) ==
  /\ linked' = linked \ guests
  /\ channel' = [r \in Routes |->
                   IF r[2] = leaver THEN << >>
                   ELSE IF {r[1], r[2]} \cap guests \cap linked = {} \/ ~ Reads(r[2])
                        THEN channel[r]
                   ELSE Append(channel[r], Message("Disconnected"))]

(* ENet connects a guest that is trying, if the host listens and has room. *)
Connect(g) ==
  /\ session[g].state = "Connecting" /\ g \notin linked
  /\ channel[<< "host", g >>] = << >>
  /\ Polls(session["host"]) /\ Cardinality(linked) < MaxPeers
  /\ linked' = linked \cup {g}
  /\ channel' = [r \in Routes |->
                   IF g \in {r[1], r[2]} THEN << Message("Connected") >> ELSE channel[r]]
  /\ UNCHANGED << session, uiVars, knocked, greeted, confirmed >>

(* A spectator's launcher starts its game at once (StartSpectate); if the host is not   *)
(* playing yet, that game connects to the launcher.                                     *)
Knock(g) ==
  /\ g \notin knocked
  /\ Polls(session["host"]) /\ Cardinality(linked) < MaxPeers
  /\ knocked' = knocked \cup {g}
  /\ linked' = linked \cup {g}
  /\ channel' = [channel EXCEPT ![<< g, "host" >>] = << Message("Connected") >>]
  /\ UNCHANGED << session, uiVars, greeted, confirmed >>

(* A connection breaks, or a packet of a broken one is lost. *)
Break(g) ==
  /\ g \in linked
  /\ Cut({g}, NoPeer)
  /\ UNCHANGED << session, uiVars, knocked, greeted, confirmed >>

Lose(r) ==
  /\ Len(channel[r]) > 1 /\ channel[r][Len(channel[r])] = Message("Disconnected")
  /\ channel' = [channel EXCEPT
       ![r] = Append(SubSeq(@, 1, Len(@) - 2), Message("Disconnected"))]
  /\ UNCHANGED << session, uiVars, linked, knocked, greeted, confirmed >>

-----------------------------------------------------------------------------
(* The worker: steps of the handshake *)

Failed(s) == [s EXCEPT !.state = "Failed"]

(* start_version_exchange, start_name_exchange, start_ping_exchange: the phase that     *)
(* follows, with the message it opens with.                                             *)
Greet(s) == [next |-> [s EXCEPT !.state = "Handshaking", !.phase = 0],
             out |-> << Message("Version") >>]
ToNames(s) == [next |-> [s EXCEPT !.phase = 1], out |-> << Message("Name") >>]

(* Mutant: the first ping is left to the first timeout. *)
ToPings_Silent(s) ==
  [next |-> [s EXCEPT !.state = "PingExchanging", !.pings = 0], out |-> << >>]

ToPings(s) ==
  LET start == [s EXCEPT !.state = "PingExchanging", !.pings = 0]
  IN  [next |-> start, out |-> << PingMessage(start) >>]

(* finish_ping_exchange: the host takes what the pings suggest, unless it is overridden, *)
(* and waits for its player; the guest waits for the configuration.                     *)
Finished(p, s) ==
  IF IsHost(p)
  THEN {[s EXCEPT !.state = "WaitingConfirmation", !.config = v] :
          v \in IF s.manual THEN {s.config} ELSE Values}
  ELSE {[s EXCEPT !.state = "Handshaking", !.phase = 3]}

(* One ping more is done, answered or timed out. *)
PingDone(p, s) ==
  IF s.pings + 1 = Pings THEN {[next |-> f, out |-> << >>] : f \in Finished(p, s)}
  ELSE LET more == [s EXCEPT !.pings = @ + 1]
       IN  {[next |-> more, out |-> << PingMessage(more) >>]}

(* Mutant: the host waits for the confirmation without a limit. *)
Deadline_NoneForConfirm(p) ==
  LET s == session[p] IN
  \/ s.state \in {"Listening", "Connecting", "PingExchanging"}
  \/ s.state = "Handshaking" /\ s.phase \in {0, 1}

(* The states a time limit runs in; a guest that waits for the configuration has none.  *)
Deadline(p) ==
  LET s == session[p] IN
  \/ s.state \in {"Listening", "Connecting", "PingExchanging"}
  \/ s.state = "Handshaking" /\ (s.phase \in {0, 1} \/ IsHost(p))

(* phase_timed_out: fatal, except that names are not needed and a ping may go unanswered. *)
AfterTimeout(p) ==
  LET s == session[p] IN
  IF s.state = "PingExchanging" THEN PingDone(p, s)
  ELSE IF s.state = "Handshaking" /\ s.phase = 1 THEN {ToPings(s)}
  ELSE {[next |-> Failed(s), out |-> << >>]}

Timeout(p) ==
  /\ ~ session[p].cancel /\ Deadline(p)
  /\ \E r \in AfterTimeout(p) :
       /\ session' = [session EXCEPT ![p] = r.next]
       /\ channel' = Read(Sent(channel, p, r.next.peer, r.out))
  /\ UNCHANGED << uiVars, linked, knocked, greeted, confirmed >>

(* poll: whoever connects becomes the peer, and whoever disconnects leaves none. *)
Polled(s, q, tag) ==
  [s EXCEPT !.peer = IF tag = "Connected" THEN q ELSE IF tag = "Disconnected" THEN NoPeer ELSE @]

Waits(s, state, phase) == s.state = state /\ s.phase = phase

(* What a launcher makes of an event; a message that is not the one expected now is     *)
(* dropped.                                                                             *)
Outcome(p, s, e) ==
  LET dropped == {[next |-> s, out |-> << >>]}
  IN  CASE e.tag = "Connected" ->
             IF s.state \in {"Listening", "Connecting"} THEN {Greet(s)} ELSE dropped
        [] e.tag = "Disconnected" ->
             IF s.state = "Listening" THEN dropped ELSE {[next |-> Failed(s), out |-> << >>]}
        [] e.tag = "Version" -> IF Waits(s, "Handshaking", 0) THEN {ToNames(s)} ELSE dropped
        [] e.tag = "Name" -> IF Waits(s, "Handshaking", 1) THEN {ToPings(s)} ELSE dropped
        [] e.tag = "Ping" ->
             IF s.state = "PingExchanging" THEN PingDone(p, s)
             ELSE dropped
        [] e.tag = "Config" ->
             IF Waits(s, "Handshaking", 3) /\ ~ IsHost(p)
             THEN {[next |-> [s EXCEPT !.state = "Launching", !.config = e.value],
                    out |-> << Message("Confirm") >>]}
             ELSE dropped
        [] e.tag = "Confirm" ->
             IF Waits(s, "Handshaking", 3) /\ IsHost(p)
             THEN {[next |-> [s EXCEPT !.state = "Launching"], out |-> << >>]}
             ELSE dropped

(* A step that finds an event. *)
Receive(p, q) ==
  /\ ~ session[p].cancel /\ Polls(session[p]) /\ channel[<< q, p >>] # << >>
  /\ LET e == Head(channel[<< q, p >>])
         rest == [channel EXCEPT ![<< q, p >>] = Tail(@)]
     IN  \E r \in Outcome(p, Polled(session[p], q, e.tag), e) :
           /\ session' = [session EXCEPT ![p] = r.next]
           /\ channel' = Read(Sent(rest, p, r.next.peer, r.out))
           /\ greeted' = IF IsHost(p) /\ r.out = << Message("Version") >>
                         THEN greeted \cup {q} ELSE greeted
           /\ confirmed' = IF r.out = << Message("Confirm") >>
                           THEN [confirmed EXCEPT ![p] = e.value] ELSE confirmed
  /\ UNCHANGED << uiVars, linked, knocked >>

(* A step that finds the session cancelled. *)
Cancelled(p) ==
  /\ session[p].cancel /\ session[p].state \notin {"Launching", "Failed", "Cancelled"}
  /\ session' = [session EXCEPT ![p].state = "Cancelled"]
  /\ channel' = Read(channel)
  /\ UNCHANGED << uiVars, linked, knocked, greeted, confirmed >>

(* The relay has told a guest where the host is, or has given up. *)
RelayEnds(g) ==
  /\ session[g].state = "RelayConnecting"
  /\ \E s \in {"Connecting", "Failed"} : session' = [session EXCEPT ![g].state = s]
  /\ UNCHANGED << uiVars, channel, linked, knocked, greeted, confirmed >>

-----------------------------------------------------------------------------
(* The worker: commands.  Set stands for SetManualDelay and SetRollback. *)

Do(name) == [name |-> name, value |-> NoValue]
Set(v) == [name |-> "Set", value |-> v]

(* transport_.deinit *)
TornDown(p) == Cut(IF IsHost(p) THEN Guests ELSE {p}, p)

Obey(p) ==
  /\ commands[p] # << >>
  /\ commands' = [commands EXCEPT ![p] = Tail(@)]
  /\ LET c == Head(commands[p])
         s == session[p]
     IN  \/ /\ c.name = "Set"
            /\ session' = [session EXCEPT ![p].config = c.value, ![p].manual = TRUE]
            /\ UNCHANGED << ui, channel, linked, greeted >>
         \/ /\ c.name = "Confirm"
            /\ IF s.state = "WaitingConfirmation"
               THEN /\ session' = [session EXCEPT ![p].state = "Handshaking", ![p].phase = 3]
                    /\ channel' = Sent(channel, p, s.peer, << ConfigMessage(s.config) >>)
               ELSE UNCHANGED << session, channel >>
            /\ UNCHANGED << ui, linked, greeted >>
         \/ /\ c.name = "Cancel"
            /\ session' = [session EXCEPT ![p].cancel = TRUE]
            /\ UNCHANGED << ui, channel, linked, greeted >>
         \/ /\ c.name = "Deinit"
            /\ session' = [session EXCEPT ![p] = Fresh]
            /\ TornDown(p)
            /\ ui' = [ui EXCEPT ![p] = IF @ = "launching" THEN "game"
                                       ELSE IF IsHost(p) THEN "menu" ELSE "away"]
            /\ greeted' = IF IsHost(p) THEN {} ELSE greeted
  /\ UNCHANGED << game, hosted, knocked, confirmed >>

-----------------------------------------------------------------------------
(* The user interface.  It acts on the state it last saw, and what it queues is obeyed  *)
(* any number of steps later; it is quick enough to see a command obeyed before its     *)
(* next one.                                                                            *)

Seen(p, state) == ui[p] = "waiting" /\ commands[p] = << >> /\ session[p].state = state

Opened(p, new) ==
  /\ ui[p] = "menu"
  /\ ui' = [ui EXCEPT ![p] = "waiting"]
  /\ session' = [session EXCEPT ![p] = new]
  /\ UNCHANGED << commands, game, channel, linked, knocked, greeted, confirmed >>

(* StartSmartHost, with --delay or without. *)
Host ==
  /\ hosted < MaxHosted /\ hosted' = hosted + 1
  /\ \E v \in Overrides \cup {NoValue}, state \in {"Listening", "Failed"} :
       Opened("host", [Fresh EXCEPT !.state = state, !.config = v, !.manual = v # NoValue])

(* StartJoin, StartRelayJoin. *)
Join(g) ==
  /\ \E state \in {"Connecting", "RelayConnecting", "Failed"} :
       Opened(g, [Fresh EXCEPT !.state = state])
  /\ UNCHANGED hosted

Queue(p, list) ==
  /\ commands' = [commands EXCEPT ![p] = list]
  /\ UNCHANGED << session, game, channel, linked, hosted, knocked, greeted, confirmed >>

(* Mutant: the edited values follow the confirmation. *)
StartMatch_SetsLast ==
  /\ Seen("host", "WaitingConfirmation")
  /\ \/ Queue("host", << Do("Confirm") >>)
     \/ \E v \in Values : Queue("host", << Do("Confirm"), Set(v) >>)
  /\ UNCHANGED ui

(* "Start Match", as suggested (the command line, the training page) or as edited. *)
StartMatch ==
  /\ Seen("host", "WaitingConfirmation")
  /\ \/ Queue("host", << Do("Confirm") >>)
     \/ \E v \in Values : Queue("host", << Set(v), Do("Confirm") >>)
  /\ UNCHANGED ui

(* The training page, the host's, cancels and waits for the worker's word. *)
CancelAndWait ==
  /\ ui["host"] = "waiting" /\ commands["host"] = << >> /\ ~ session["host"].cancel
  /\ Queue("host", << Do("Cancel") >>)
  /\ UNCHANGED ui

(* end_session: the waiting page's "Cancel", or a session that has ended. *)
Leave(p) ==
  /\ ui[p] = "waiting" /\ commands[p] = << >> /\ session[p].state # "Launching"
  /\ ui' = [ui EXCEPT ![p] = "leaving"]
  /\ Queue(p, << Do("Deinit") >>)

Launch(p) ==
  /\ Seen(p, "Launching")
  /\ ui' = [ui EXCEPT ![p] = "launching"]
  /\ game' = [game EXCEPT ![p] = session[p].config]
  /\ commands' = [commands EXCEPT ![p] = << Do("Deinit") >>]
  /\ UNCHANGED << session, channel, linked, hosted, knocked, greeted, confirmed >>

LeaveEnded(p) == (Seen(p, "Failed") \/ Seen(p, "Cancelled")) /\ Leave(p)
Decide == StartMatch \/ (Seen("host", "WaitingConfirmation") /\ Leave("host"))

Next ==
  \/ \E g \in Joiners : Join(g) \/ Connect(g) \/ RelayEnds(g)
  \/ \E g \in Spectators : Knock(g)
  \/ \E g \in Guests : Break(g)
  \/ \E r \in Routes : Lose(r)
  \/ \E p \in Launchers :
       \/ Timeout(p) \/ Cancelled(p) \/ Obey(p)
       \/ Leave(p) \/ Launch(p)
       \/ \E q \in Peers(p) : Receive(p, q)
  \/ Host
  \/ StartMatch
  \/ CancelAndWait

Spec == Init /\ [][Next]_vars

(* A worker keeps stepping, its limits and the relay client's expire, the page sees a   *)
(* session that has ended, and the host's player presses one button or the other.  No   *)
(* connection is promised to come about, or to last.                                    *)
Fairness ==
  /\ \A p \in Launchers :
       /\ WF_vars(Timeout(p)) /\ WF_vars(Cancelled(p)) /\ WF_vars(Obey(p))
       /\ WF_vars(LeaveEnded(p)) /\ WF_vars(Launch(p))
       /\ WF_vars(\E q \in Peers(p) : Receive(p, q))
  /\ \A g \in Joiners : WF_vars(RelayEnds(g))
  /\ WF_vars(Decide)

FairSpec == Spec /\ Fairness

-----------------------------------------------------------------------------
(* Properties *)

States == {"Idle", "Listening", "RelayConnecting", "Connecting", "Handshaking",
           "PingExchanging", "WaitingConfirmation", "Launching", "Failed", "Cancelled"}
Configs == Values \cup {NoValue}
Events == {Message(t) : t \in {"Connected", "Disconnected", "Version", "Name", "Confirm"}}
          \cup {ConfigMessage(v) : v \in Configs}
          \cup [tag : {"Ping"}, number : 0 .. Pings - 1]

(* A connection has a transport at the host, and every launcher what its role allows.   *)
TypeOK ==
  /\ \A p \in Launchers :
       /\ session[p].state \in States /\ session[p].phase \in {0, 1, 3}
       /\ session[p].pings \in 0 .. Pings - 1
       /\ session[p].config \in Configs /\ session[p].manual \in BOOLEAN
       /\ session[p].cancel \in BOOLEAN /\ session[p].peer \in {NoPeer} \cup Peers(p)
  /\ ui \in [Launchers -> {"menu", "waiting", "leaving", "launching", "game", "away"}]
  /\ game \in [Launchers -> Configs]
  /\ channel \in [Routes -> Seq(Events)]
  /\ linked \subseteq Guests /\ (linked # {} => session["host"].state # "Idle")
  /\ hosted \in 0 .. MaxHosted /\ greeted \subseteq Guests /\ knocked \subseteq Spectators
  /\ confirmed \in [Joiners -> Configs]

(* What the host starts its game with, once it is to start it. *)
HostPlays == IF ui["host"] \in {"launching", "game"} THEN game["host"]
             ELSE session["host"].config

(* The host starts its game only with a configuration that a guest it has been talking  *)
(* to has confirmed: nobody who connects meanwhile, no edit and no cancel makes it play  *)
(* another.                                                                              *)
LaunchedAlike ==
  session["host"].state = "Launching" \/ ui["host"] \in {"launching", "game"} =>
    \E g \in Joiners : confirmed[g] = HostPlays

(* Every launcher is in a state its role allows, and the games are started alike.        *)
Inv == TypeOK /\ LaunchedAlike

(* A guest the host has greeted reads the configuration when it waits for it: whichever *)
(* pings were answered and whichever timed out, it is never still counting, and drops   *)
(* what will not be sent again.                                                         *)
ConfigIsHeard ==
  [][\A g \in greeted \cap Joiners :
       /\ channel[<< "host", g >>] # << >> /\ Receive(g, "host")
       /\ Head(channel[<< "host", g >>]).tag = "Config"
       => session'[g].state = "Launching"]_vars

(* Nobody waits for ever, whoever leaves, though a guest that waits for the             *)
(* configuration has no limit of its own.                                               *)
Ends == \A p \in Launchers : ui[p] = "waiting" ~> ui[p] # "waiting"

(* "Based on RTT (avg ping)" (session.cpp:1072): when a launcher measures its ping        *)
(* number n, the ping it has read was sent by a peer that had done with n.  (A peer      *)
(* that has read ping n of its partner has itself done with its own n.)                  *)
SampleIsRoundTrip ==
  [][\A p \in Launchers : \A q \in Peers(p) :
       /\ session[p].state = "PingExchanging" /\ Receive(p, q)
       /\ Head(channel[<< q, p >>]).tag = "Ping"
       => Head(channel[<< q, p >>]).number > session[p].pings]_vars
=============================================================================
