--------------------------- MODULE NetplayProofs ---------------------------
(***************************************************************************)
(* Two netplay sessions take the same route, from the same generator, side *)
(* by side, whatever the delays, the rounds and the faults.                *)
(*                                                                         *)
(* What the peers have gone through is one script that the peer ahead      *)
(* writes and the other follows: they only choose where to go in the retry *)
(* menu.  A peer leaves a state that waits for its opponent when that is   *)
(* there, which bounds the drift; so the choice it has heard is of the     *)
(* menu it is in, though no message says so, and the generator states come *)
(* in the order of the indices.  From the same invariant and what has been *)
(* sent at each gate follows that the two never wait for each other.       *)
(***************************************************************************)
EXTENDS NetplayFsm, SequenceTheorems, TLAPS

(* One state of a session, with the rounds and the matches begun. *)
Scenes == [st : States, rd : 0 .. Rounds, gm : Nat]
Scripts == [0 .. MaxIndex -> Scenes]

SceneAfter(c, s) ==
  [st |-> s,
   rd |-> IF s = "InGame" THEN c.rd + 1 ELSE IF s = "Loading" THEN 0 ELSE c.rd,
   gm |-> IF s = "Loading" THEN c.gm + 1 ELSE c.gm]

(* Where the game may go from a scene. *)
Leads(c, s) ==
  \/ c.st = "Initial" /\ s = "CharaSelect"
  \/ c.st = "CharaSelect" /\ s = "Loading"
  \/ c.st = "Loading" /\ s = "CharaIntro"
  \/ c.st = "CharaIntro" /\ s = "InGame"
  \/ c.st = "InGame" /\ s = "Skippable"
  \/ c.st = "Skippable" /\ c.rd < Rounds /\ s = "InGame"
  \/ c.st = "Skippable" /\ ~ c.rd < Rounds /\ s = "RetryMenu"
  \/ c.st = "RetryMenu" /\ s \in {"CharaSelect", "Loading"}

IsMenu(sc, m) == sc[m].st = "RetryMenu"

(* A script of n changes of state: the matches are counted, and each has one menu. *)
IsScript(sc, n) ==
  /\ sc \in Scripts
  /\ sc[0].st = "Initial"
  /\ \A i \in 1 .. n : Leads(sc[i - 1], sc[i].st) /\ sc[i] = SceneAfter(sc[i - 1], sc[i].st)
  /\ \A i \in 1 .. n : sc[i].st # "Initial"
  /\ \A i \in 0 .. n : sc[i].st \in {"Loading", "CharaIntro"} => sc[i].rd = 0
  /\ \A j \in 0 .. n : \A i \in 0 .. j : sc[i].gm <= sc[j].gm
  /\ \A j \in 0 .. n : \A i \in 0 .. j - 1 :
       IsMenu(sc, i) /\ sc[j].st # "CharaSelect" => sc[i].gm < sc[j].gm

Furthest(n) == (\A p \in Peers : index[p] <= n) /\ \E p \in Peers : index[p] = n

Follows(sc) ==
  \A p \in Peers :
    /\ Len(route[p]) = index[p] /\ \A i \in 1 .. index[p] : route[p][i] = sc[i].st
    /\ state[p] = sc[index[p]].st /\ round[p] = sc[index[p]].rd

(* Who has left a state that waits found the opponent there, or further. *)
Blocking == {"CharaSelect", "InGame", "RetryMenu"}
SideBySide(sc) ==
  \A p \in Peers : \A i \in 0 .. MaxIndex :
    i < index[p] /\ sc[i].st \in Blocking => i <= index[Other(p)]

-----------------------------------------------------------------------------
(* The gate *)

KnownIsReached ==
  \A p \in Peers :
    /\ announced[p] = index[p]
    /\ \A i \in 0 .. MaxIndex : sentEnd[p][i] > 0 => i <= index[p]
    /\ remote[p] # << >> => RemoteIndex(p) <= index[Other(p)]

PassedIsReached ==
  \A p \in Peers : state[p] \in Gated /\ frame[p] > 0 => index[p] <= index[Other(p)]

-----------------------------------------------------------------------------
(* The retry menu *)

(* The opponent's choice, heard or on its way. *)
Pending(p) == {c \in Choices : heard[p] = c \/ menus[p] = << c >>}

(* Peer p is past menu m, or has sent its choice there; of one that stopped nothing is known. *)
HasChosen(p, m) == index[p] > m \/ (index[p] = m /\ (menuSent[p] \/ ~ Running(p)))

OfThisMatch(sc, p) ==
  Pending(p) # {} =>
    \E m \in 0 .. index[Other(p)] :
      IsMenu(sc, m) /\ HasChosen(Other(p), m) /\ sc[m].gm = sc[index[p]].gm

AtMostOne(p) ==
  /\ menus[p] = << >> \/ \E c \in Choices : menus[p] = << c >>
  /\ heard[p] # None => menus[p] = << >>

BothChose(sc, p) ==
  Running(Other(p)) =>
    \A m \in 0 .. MaxIndex : m < index[p] /\ IsMenu(sc, m) => HasChosen(Other(p), m)

IsOpponents(p) ==
  Running(Other(p)) /\ state[Other(p)] = "RetryMenu" =>
    \A c \in Pending(p) : menuSent[Other(p)] /\ choice[Other(p)] = c

ChoiceKept(p) ==
  /\ state[p] = "RetryMenu" /\ menuSent[p] => choice[p] # None
  /\ target[p] # None =>
       state[p] = "RetryMenu" /\ choice[p] # None /\ heard[p] # None /\ target[p] = RetryTarget(p)
  /\ state[p] = "CharaSelect" => index[p] = 1 \/ heard[p] # None

(* Where the opponent went is where this peer will go. *)
Entry(a, b) == IF a = 0 /\ b = 0 THEN "CharaSelect" ELSE "Loading"
WillFollow(sc, p) ==
  state[p] = "RetryMenu" /\ index[Other(p)] > index[p] =>
    choice[p] # None /\ \A c \in Pending(p) : sc[index[p] + 1].st = Entry(choice[p], c)

MenuInv(sc) ==
  \A p \in Peers : Running(p) =>
    /\ OfThisMatch(sc, p) /\ AtMostOne(p) /\ BothChose(sc, p)
    /\ IsOpponents(p) /\ ChoiceKept(p) /\ WillFollow(sc, p)

-----------------------------------------------------------------------------
(* The generator *)

(* The index that entry k of the list is of. *)
IndexOf(p, k) == startIndex[p] + k - 1
Held(j) == \E k \in DOMAIN rngStates[Client] : IndexOf(Client, k) = j /\ rngStates[Client][k] = j
Queued(j) == \E n \in DOMAIN rngs[Client] : rngs[Client][n] = j

(* The host has sent the state of index j. *)
Snapped(j) == j < index[Host] \/ (j = index[Host] /\ (pc[Host] # "input" \/ ~ shouldSync[Host]))

AsksOnce ==
  \A p \in Peers : Running(p) =>
    /\ shouldSync[p] <=> state[p] \in Synced /\ frame[p] = 0
    /\ pc[p] = "callback" => ~ shouldSync[p]

HostHolds ==
  /\ rngs[Host] = << >> /\ startIndex[Host] = 0
  /\ pc[Host] = "gate" /\ shouldSync[Host] => seed[Host] = index[Host] /\ RngOf(Host) # None

InOrder ==
  /\ \A k \in DOMAIN rngStates[Client] :
       /\ rngStates[Client][k] \in {None, IndexOf(Client, k)}
       /\ rngStates[Client][k] = None => k + 1 \in DOMAIN rngStates[Client]
       /\ Snapped(IndexOf(Client, k))
  /\ \A n \in DOMAIN rngs[Client] :
       /\ Snapped(rngs[Client][n])
       /\ \A k \in DOMAIN rngStates[Client] : IndexOf(Client, k) < rngs[Client][n]
       /\ \A m \in DOMAIN rngs[Client] : m < n => rngs[Client][m] < rngs[Client][n]

NoneIsLost(sc) ==
  Running(Client) =>
    \A j \in startIndex[Client] .. index[Host] :
      /\ sc[j].st \in Synced
      /\ j < index[Host] \/ (connected[Host] /\ (pc[Host] = "gate" \/ ~ shouldSync[Host]))
      => Queued(j) \/ Held(j)

RngInv(sc) == AsksOnce /\ HostHolds /\ InOrder /\ NoneIsLost(sc) /\ RngAgreed

-----------------------------------------------------------------------------
(* The types, each variable for itself *)

Types ==
  /\ pc \in [Peers -> {"callback", "input", "gate", "stopped"}]
  /\ state \in [Peers -> States] /\ index \in [Peers -> 0 .. MaxIndex]
  /\ frame \in [Peers -> Nat] /\ round \in [Peers -> 0 .. Rounds]
  /\ startIndex \in [Peers -> Nat] /\ route \in [Peers -> Seq(States)]
  /\ remote \in [Peers -> Seq(Ends)] /\ sentEnd \in [Peers -> [0 .. MaxIndex -> Ends]]
  /\ choice \in [Peers -> Choices \cup {None}] /\ heard \in [Peers -> Choices \cup {None}]
  /\ target \in [Peers -> Choices \cup {None}] /\ menuSent \in [Peers -> BOOLEAN]
  /\ lazy \in [Peers -> BOOLEAN] /\ shouldSync \in [Peers -> BOOLEAN]
  /\ rngStates \in [Peers -> Seq(0 .. MaxIndex \cup {None})]
  /\ seed \in [Peers -> 0 .. MaxIndex \cup {None}] /\ connected \in [Peers -> BOOLEAN]
  /\ announced \in [Peers -> 0 .. MaxIndex] /\ menus \in [Peers -> Seq(Choices)]
  /\ rngs \in [Peers -> Seq(0 .. MaxIndex)]

Fits ==
  \A p \in Peers :
    /\ frame[p] <= Lasts(state[p]) /\ startIndex[p] <= index[p]
    /\ startIndex[p] + Len(remote[p]) <= MaxIndex + 1

Scripted(sc) ==
  Follows(sc) /\ SideBySide(sc) /\ MenuInv(sc) /\ RngInv(sc)

IInv ==
  /\ Types /\ Fits /\ KnownIsReached /\ PassedIsReached
  /\ \E n \in 0 .. MaxIndex : Furthest(n) /\ \E sc \in Scripts : IsScript(sc, n) /\ Scripted(sc)
LEMMA Bounds ==
  /\ Delay \in Nat /\ Rollback \in Nat /\ SelectFrames \in Nat \ {0} /\ RoundFrames \in Nat \ {0}
  /\ Rounds \in Nat \ {0} /\ MaxIndex \in Nat \ {0}
BY ConstantsAssumption

LEMMA Two ==
  /\ Host \in Peers /\ Client \in Peers /\ Host # Client
  /\ Other(Host) = Client /\ Other(Client) = Host
  /\ \A p \in Peers : /\ Other(p) \in Peers /\ Other(p) # p /\ Other(Other(p)) = p
                      /\ \A q \in Peers : q = p \/ q = Other(p)
BY DEF Peers, Other, Host, Client

LEMMA LastsAre ==
  \A s \in States : Lasts(s) \in Nat \ {0} /\ Lasts(s) + Delay + 1 \in Ends
<1>1. \A s \in States : \/ s = "CharaSelect" /\ Lasts(s) = SelectFrames
                        \/ s = "InGame" /\ Lasts(s) = RoundFrames
                        \/ Lasts(s) = 1
  BY DEF Lasts, States
<1>. QED BY <1>1, Bounds DEF Ends

LEMMA EndsAre == Ends \subseteq Nat /\ 0 \in Ends /\ \A e \in Ends : \A k \in 0 .. e : k \in Ends
BY Bounds DEF Ends

(* The lists *)

LEMMA ReachIs ==
  ASSUME NEW S, NEW s \in Seq(S), NEW n \in Nat, NEW fill \in S
  PROVE  /\ Reach(s, n, fill) \in Seq(S)
         /\ Len(Reach(s, n, fill)) = IF n > Len(s) THEN n ELSE Len(s)
<1>. DEFINE size == IF n > Len(s) THEN n ELSE Len(s)
<1>1. Len(s) \in Nat /\ DOMAIN s = 1 .. Len(s) /\ size \in Nat /\ \A k \in 1 .. Len(s) : s[k] \in S
  BY LenProperties, ElementOfSeq
<1>2. Reach(s, n, fill) = [k \in 1 .. size |-> IF k <= Len(s) THEN s[k] ELSE fill]
  BY DEF Reach
<1>3. \A k \in 1 .. size : (IF k <= Len(s) THEN s[k] ELSE fill) \in S
  BY <1>1
<1>. HIDE DEF size
<1>4. Reach(s, n, fill) \in Seq(S) /\ Len(Reach(s, n, fill)) = size
  BY <1>1, <1>2, <1>3
<1>. QED BY <1>4 DEF size

(* List t is list s with entry k written. *)
Writes(s, k, i, t) ==
  /\ t \in Seq(0 .. MaxIndex \cup {None}) /\ Len(t) = IF k > Len(s) THEN k ELSE Len(s)
  /\ k \in DOMAIN t /\ t[k] = i
  /\ \A j \in DOMAIN s : j # k => j \in DOMAIN t /\ t[j] = s[j]
  /\ \A j \in DOMAIN t : j # k => j \in DOMAIN s \/ t[j] = None

LEMMA SetRngIs ==
  ASSUME NEW s \in Seq(0 .. MaxIndex \cup {None}), NEW k \in Nat \ {0}, NEW i \in 0 .. MaxIndex
  PROVE  Writes(s, k, i, SetRng(s, k, i))
<1>. DEFINE S == 0 .. MaxIndex \cup {None}
            size == IF k > Len(s) THEN k ELSE Len(s)
            r == Reach(s, k, None)
            t == SetRng(s, k, i)
<1>1. /\ Len(s) \in Nat /\ DOMAIN s = 1 .. Len(s) /\ size \in Nat /\ k \in 1 .. size
      /\ \A j \in 1 .. Len(s) : s[j] \in S /\ j \in 1 .. size
  BY LenProperties, ElementOfSeq
<1>2. r = [j \in 1 .. size |-> IF j <= Len(s) THEN s[j] ELSE None]
  BY DEF Reach
<1>3. t = [r EXCEPT ![k] = i]
  BY DEF SetRng
<1>4. \A j \in 1 .. size : (IF j <= Len(s) THEN s[j] ELSE None) \in S
  BY <1>1
<1>. HIDE DEF S, size, r, t
<1>5. /\ r \in Seq(S) /\ Len(r) = size /\ DOMAIN r = 1 .. size
      /\ \A j \in 1 .. size : r[j] = IF j <= Len(s) THEN s[j] ELSE None
  BY <1>1, <1>2, <1>4
<1>6. i \in S
  BY DEF S
<1>7. t \in Seq(S) /\ Len(t) = size /\ DOMAIN t = 1 .. size
  BY <1>1, <1>3, <1>5, <1>6
<1>8. t[k] = i /\ \A j \in 1 .. size : j # k => t[j] = r[j]
  BY <1>1, <1>3, <1>5
<1>9. /\ \A j \in DOMAIN s : j # k => j \in DOMAIN t /\ t[j] = s[j]
      /\ \A j \in DOMAIN t : j # k => j \in DOMAIN s \/ t[j] = None
  BY <1>1, <1>5, <1>7, <1>8
<1>. QED BY <1>1, <1>7, <1>8, <1>9 DEF Writes, t, S, size

LEMMA CutIs ==
  ASSUME NEW S, NEW s \in Seq(S), NEW offset \in Nat
  PROVE  LET t == SubSeq(s, offset + 1, Len(s))
         IN  /\ t \in Seq(S) /\ Len(t) = IF offset <= Len(s) THEN Len(s) - offset ELSE 0
             /\ \A k \in DOMAIN t : k + offset \in DOMAIN s /\ t[k] = s[k + offset]
             /\ \A k \in DOMAIN s : k > offset => k - offset \in DOMAIN t /\ t[k - offset] = s[k]
<1>. DEFINE t == SubSeq(s, offset + 1, Len(s))
<1>1. Len(s) \in Nat /\ DOMAIN s = 1 .. Len(s)
  BY LenProperties
<1>2. CASE offset < Len(s)
  <2>1. /\ offset + 1 \in Int /\ Len(s) \in Int /\ offset + 1 <= Len(s)
        /\ Len(s) - (offset + 1) + 1 = Len(s) - offset
        /\ \A k \in offset + 1 .. Len(s) : k \in 1 .. Len(s)
    BY <1>1, <1>2
  <2>2. /\ t \in Seq(S) /\ Len(t) = Len(s) - offset
        /\ \A k \in 1 .. Len(s) - offset : t[k] = s[offset + 1 + k - 1]
    <3>1. \A k \in offset + 1 .. Len(s) : s[k] \in S
      BY <1>1, <2>1, ElementOfSeq
    <3>2. /\ t \in Seq(S)
          /\ Len(t) = IF offset + 1 <= Len(s) THEN Len(s) - (offset + 1) + 1 ELSE 0
          /\ \A k \in 1 .. Len(s) - (offset + 1) + 1 : t[k] = s[offset + 1 + k - 1]
      BY <2>1, <3>1, SubSeqProperties
    <3>. QED BY <2>1, <3>2
  <2>. HIDE DEF t
  <2>3. DOMAIN t = 1 .. Len(s) - offset
    BY <2>2, LenProperties
  <2>4. \A k \in 1 .. Len(s) - offset : k + offset \in 1 .. Len(s) /\ offset + 1 + k - 1 = k + offset
    BY <1>1, <1>2
  <2>5. \A k \in 1 .. Len(s) - offset : k + offset \in 1 .. Len(s) /\ t[k] = s[k + offset]
    BY <2>2, <2>4
  <2>6. \A k \in 1 .. Len(s) : k > offset =>
          k - offset \in 1 .. Len(s) - offset /\ (k - offset) + offset = k
    BY <1>1
  <2>7. \A k \in 1 .. Len(s) : k > offset => t[k - offset] = s[k]
    BY <2>5, <2>6
  <2>8. offset <= Len(s)
    BY <1>1, <1>2
  <2>9. /\ t \in Seq(S) /\ Len(t) = IF offset <= Len(s) THEN Len(s) - offset ELSE 0
        /\ \A k \in DOMAIN t : k + offset \in DOMAIN s /\ t[k] = s[k + offset]
        /\ \A k \in DOMAIN s : k > offset => k - offset \in DOMAIN t /\ t[k - offset] = s[k]
    BY <1>1, <2>2, <2>3, <2>5, <2>6, <2>7, <2>8, Zenon
  <2>. QED BY <2>9 DEF t
<1>3. CASE ~ offset < Len(s)
  <2>1. t = << >>
    BY <1>1, <1>3
  <2>. HIDE DEF t
  <2>2. t \in Seq(S) /\ Len(t) = 0 /\ DOMAIN t = {}
    BY <2>1
  <2>3. \A k \in DOMAIN s : ~ k > offset
    BY <1>1, <1>3
  <2>4. \A size \in Nat : ~ offset < size /\ offset <= size => size - offset = 0
    OBVIOUS
  <2>5. offset <= Len(s) => Len(s) - offset = 0
    BY <1>1, <1>3, <2>4
  <2>. QED BY <2>2, <2>3, <2>5 DEF t
<1>. QED BY <1>2, <1>3

LEMMA TailIs ==
  ASSUME NEW S, NEW s \in Seq(S), s # << >>
  PROVE  /\ Tail(s) \in Seq(S) /\ Head(s) \in S /\ 1 \in DOMAIN s /\ Head(s) = s[1]
         /\ \A n \in DOMAIN Tail(s) : n + 1 \in DOMAIN s /\ Tail(s)[n] = s[n + 1]
         /\ \A n \in DOMAIN s : n # 1 => n - 1 \in DOMAIN Tail(s) /\ Tail(s)[n - 1] = s[n]
<1>1. /\ Tail(s) \in Seq(S) /\ Len(Tail(s)) = Len(s) - 1 /\ Len(s) \in Nat \ {0}
      /\ \A n \in 1 .. Len(s) - 1 : Tail(s)[n] = s[n + 1]
      /\ DOMAIN Tail(s) = 1 .. Len(s) - 1 /\ DOMAIN s = 1 .. Len(s) /\ Head(s) = s[1]
  BY HeadTailProperties, LenProperties, EmptySeq
<1>2. \A n \in 1 .. Len(s) - 1 : n + 1 \in 1 .. Len(s)
  BY <1>1
<1>3. \A n \in 1 .. Len(s) : n # 1 => n - 1 \in 1 .. Len(s) - 1 /\ (n - 1) + 1 = n
  BY <1>1
<1>4. 1 \in DOMAIN s /\ s[1] \in S
  BY <1>1, ElementOfSeq
<1>. QED BY <1>1, <1>2, <1>3, <1>4

LEMMA AppendIs ==
  ASSUME NEW S, NEW s \in Seq(S), NEW e \in S
  PROVE  /\ Append(s, e) \in Seq(S) /\ Len(Append(s, e)) = Len(s) + 1
         /\ DOMAIN Append(s, e) = 1 .. Len(s) + 1 /\ DOMAIN s = 1 .. Len(s) /\ Len(s) \in Nat
         /\ Append(s, e)[Len(s) + 1] = e /\ Len(s) + 1 \in DOMAIN Append(s, e)
         /\ \A n \in DOMAIN s : n \in DOMAIN Append(s, e) /\ Append(s, e)[n] = s[n]
         /\ \A n \in DOMAIN Append(s, e) : n \in DOMAIN s \/ n = Len(s) + 1
BY AppendProperties, LenProperties

-----------------------------------------------------------------------------
(* Scripts *)

LEMMA SceneAfterIs ==
  ASSUME NEW c \in Scenes, NEW s, Leads(c, s), c.st \in {"Loading", "CharaIntro"} => c.rd = 0
  PROVE  /\ SceneAfter(c, s) \in Scenes /\ SceneAfter(c, s).st = s /\ s \in States \ {"Initial"}
         /\ SceneAfter(c, s).gm >= c.gm
         /\ s = "Loading" => SceneAfter(c, s).gm > c.gm
         /\ s # "Loading" => SceneAfter(c, s).gm = c.gm
         /\ s \in {"Loading", "CharaIntro"} => SceneAfter(c, s).rd = 0
<1>. DEFINE rd == IF s = "InGame" THEN c.rd + 1 ELSE IF s = "Loading" THEN 0 ELSE c.rd
            gm == IF s = "Loading" THEN c.gm + 1 ELSE c.gm
<1>1. c.st \in States /\ c.rd \in 0 .. Rounds /\ c.gm \in Nat /\ Rounds \in Nat \ {0}
  BY Bounds DEF Scenes
<1>2. s \in States \ {"Initial"}
  BY DEF Leads, States
<1>3. rd \in 0 .. Rounds
  <2>1. CASE s = "InGame"
    <3>1. c.rd + 1 \in 0 .. Rounds
      BY <1>1, <2>1 DEF Leads
    <3>. QED BY <2>1, <3>1
  <2>2. CASE s # "InGame"
    BY <1>1, <2>2
  <2>. QED BY <2>1, <2>2
<1>4. gm \in Nat /\ gm >= c.gm /\ (s = "Loading" => gm > c.gm) /\ (s # "Loading" => gm = c.gm)
  BY <1>1
<1>5. s \in {"Loading", "CharaIntro"} => rd = 0
  BY DEF Leads
<1>6. SceneAfter(c, s) = [st |-> s, rd |-> rd, gm |-> gm]
  BY DEF SceneAfter
<1>. HIDE DEF rd, gm
<1>. QED BY <1>2, <1>3, <1>4, <1>5, <1>6 DEF Scenes

LEMMA ScriptGrows ==
  ASSUME NEW n \in 0 .. MaxIndex, NEW sc, IsScript(sc, n), n < MaxIndex,
         NEW s, Leads(sc[n], s)
  PROVE  \E sc2 \in Scripts :
           /\ IsScript(sc2, n + 1) /\ sc2[n + 1] = SceneAfter(sc[n], s)
           /\ \A i \in 0 .. n : sc2[i] = sc[i]
<1>. DEFINE d == SceneAfter(sc[n], s)
            sc2 == [sc EXCEPT ![n + 1] = d]
<1>1. /\ sc \in Scripts /\ n \in Nat /\ n + 1 \in 0 .. MaxIndex /\ n \in 0 .. n
      /\ MaxIndex \in Nat /\ 0 .. n \subseteq 0 .. MaxIndex
  BY Bounds DEF IsScript
<1>2. sc[n] \in Scenes
  BY <1>1 DEF Scripts
<1>3. /\ d \in Scenes /\ d.st = s /\ s \in States \ {"Initial"} /\ d.gm >= sc[n].gm
      /\ (s = "Loading" => d.gm > sc[n].gm) /\ (s # "Loading" => d.gm = sc[n].gm)
      /\ (s \in {"Loading", "CharaIntro"} => d.rd = 0)
  BY <1>1, <1>2, SceneAfterIs DEF IsScript
<1>. HIDE DEF d
<1>4. sc2 \in Scripts /\ sc2[n + 1] = d /\ \A i \in 0 .. n : sc2[i] = sc[i]
  BY <1>1, <1>3 DEF Scripts
<1>. HIDE DEF sc2
<1>5. \A i \in 0 .. n : sc[i] \in Scenes /\ sc[i].gm \in Nat
  BY <1>1 DEF Scripts, Scenes
<1>6. sc2[0].st = "Initial"
  BY <1>1, <1>4 DEF IsScript
<1>7. \A i \in 1 .. n + 1 :
        /\ Leads(sc2[i - 1], sc2[i].st) /\ sc2[i] = SceneAfter(sc2[i - 1], sc2[i].st)
        /\ sc2[i].st # "Initial"
  <2>1. ASSUME NEW i \in 1 .. n PROVE i - 1 \in 0 .. n /\ i \in 0 .. n
    BY <1>1
  <2>2. \A i \in 1 .. n : /\ Leads(sc2[i - 1], sc2[i].st) /\ sc2[i] = SceneAfter(sc2[i - 1], sc2[i].st)
                          /\ sc2[i].st # "Initial"
    BY <1>4, <2>1 DEF IsScript
  <2>3. (n + 1) - 1 = n /\ \A i \in 1 .. n + 1 : i \in 1 .. n \/ i = n + 1
    BY <1>1
  <2>4. /\ Leads(sc2[n], sc2[n + 1].st) /\ sc2[n + 1] = SceneAfter(sc2[n], sc2[n + 1].st)
        /\ sc2[n + 1].st # "Initial"
    BY <1>1, <1>3, <1>4 DEF d
  <2>. QED BY <2>2, <2>3, <2>4
<1>8. \A i \in 0 .. n + 1 : i \in 0 .. n \/ i = n + 1
  BY <1>1
<1>9. \A i \in 0 .. n + 1 : sc2[i].st \in {"Loading", "CharaIntro"} => sc2[i].rd = 0
  BY <1>3, <1>4, <1>8 DEF IsScript
<1>10. \A j \in 0 .. n + 1 : \A i \in 0 .. j : sc2[i].gm <= sc2[j].gm
  <2>1. \A j \in 0 .. n : \A i \in 0 .. j : i \in 0 .. n
    BY <1>1
  <2>2. \A j \in 0 .. n : \A i \in 0 .. j : sc2[i].gm <= sc2[j].gm
    BY <1>4, <2>1 DEF IsScript
  <2>3. \A i \in 0 .. n : sc[i].gm <= sc[n].gm
    BY <1>1 DEF IsScript
  <2>4. d.gm \in Nat
    BY <1>3 DEF Scenes
  <2>5. \A i \in 0 .. n + 1 : sc2[i].gm <= d.gm
    BY <1>1, <1>3, <1>4, <1>5, <1>8, <2>3, <2>4
  <2>. QED BY <1>4, <1>8, <2>2, <2>5
<1>11. \A j \in 0 .. n + 1 : \A i \in 0 .. j - 1 :
        IsMenu(sc2, i) /\ sc2[j].st # "CharaSelect" => sc2[i].gm < sc2[j].gm
  <2>1. \A j \in 0 .. n : \A i \in 0 .. j - 1 : i \in 0 .. n
    BY <1>1
  <2>2. \A j \in 0 .. n : \A i \in 0 .. j - 1 :
          IsMenu(sc2, i) /\ sc2[j].st # "CharaSelect" => sc2[i].gm < sc2[j].gm
    BY <1>4, <2>1 DEF IsScript, IsMenu
  <2>3. ASSUME NEW i \in 0 .. n, IsMenu(sc, i), s # "CharaSelect" PROVE sc[i].gm < d.gm
    <3>1. sc[i].gm \in Nat /\ sc[n].gm \in Nat /\ d.gm \in Nat /\ sc[i].gm <= sc[n].gm
      BY <1>1, <1>3, <1>5 DEF IsScript, Scenes
    <3>2. CASE s = "Loading"
      BY <1>3, <3>1, <3>2
    <3>3. CASE s # "Loading"
      <4>1. sc[n].st \notin {"RetryMenu", "CharaSelect", "Initial"}
        BY <2>3, <3>3 DEF Leads
      <4>2. i # n
        BY <2>3, <4>1 DEF IsMenu
      <4>3. i \in 0 .. n - 1
        BY <1>1, <4>2
      <4>4. sc[i].gm < sc[n].gm
        BY <1>1, <2>3, <4>1, <4>3 DEF IsScript
      <4>. QED BY <1>3, <3>3, <4>4
    <3>. QED BY <3>2, <3>3
  <2>4. \A i \in 0 .. (n + 1) - 1 : i \in 0 .. n
    BY <1>1
  <2>. QED BY <1>3, <1>4, <1>8, <2>2, <2>3, <2>4 DEF IsMenu
<1>12. IsScript(sc2, n + 1)
  BY <1>4, <1>6, <1>7, <1>9, <1>10, <1>11 DEF IsScript
<1>. QED BY <1>4, <1>12 DEF d

LEMMA ShorterScript ==
  ASSUME NEW n \in Nat, NEW m \in 0 .. n, NEW sc, IsScript(sc, n)
  PROVE  IsScript(sc, m)
<1>1. 1 .. m \subseteq 1 .. n /\ 0 .. m \subseteq 0 .. n
  OBVIOUS
<1>. QED BY <1>1 DEF IsScript

LEMMA OneMenu ==
  ASSUME NEW n \in 0 .. MaxIndex, NEW sc, IsScript(sc, n), NEW i \in 0 .. n, NEW j \in 0 .. n,
         IsMenu(sc, i), IsMenu(sc, j), sc[i].gm = sc[j].gm
  PROVE  i = j
<1>1. sc[i].gm \in Nat /\ i \in 0 .. MaxIndex /\ j \in 0 .. MaxIndex /\ n \in Nat
  BY Bounds DEF IsScript, Scripts, Scenes
<1>2. ASSUME NEW a \in 0 .. n, NEW b \in 0 .. n, a < b, IsMenu(sc, a), IsMenu(sc, b)
      PROVE  sc[a].gm < sc[b].gm
  <2>1. a \in 0 .. b - 1
    BY <1>1, <1>2
  <2>2. sc[b].st # "CharaSelect"
    BY <1>2 DEF IsMenu
  <2>. QED BY <1>2, <2>1, <2>2 DEF IsScript
<1>3. ~ i < j /\ ~ j < i
  BY <1>1, <1>2
<1>. QED BY <1>1, <1>3

(* What comes before what. *)
LEMMA CameFrom ==
  ASSUME NEW n \in 0 .. MaxIndex, NEW sc, IsScript(sc, n), NEW i \in 1 .. n
  PROVE  /\ i - 1 \in 0 .. n /\ sc[i].st \in States \ {"Initial"} /\ sc[i - 1].st \in States
         /\ sc[i].st = "Loading" => sc[i - 1].st \in Blocking
         /\ sc[i].st = "CharaIntro" => sc[i - 1].st = "Loading"
         /\ sc[i].st = "InGame" => sc[i - 1].st \in {"CharaIntro", "Skippable"}
         /\ sc[i].st = "Skippable" => sc[i - 1].st = "InGame"
         /\ sc[i].st = "RetryMenu" => sc[i - 1].st = "Skippable"
         /\ sc[i].st = "CharaSelect" => sc[i - 1].st \in {"Initial", "RetryMenu"}
         /\ sc[i].st # "Loading" => sc[i].gm = sc[i - 1].gm
         /\ sc[i].st = "Loading" => sc[i].gm > sc[i - 1].gm
<1>1. i - 1 \in 0 .. n /\ i \in 0 .. n /\ 0 .. n \subseteq 0 .. MaxIndex
  BY Bounds
<1>2. sc[i] \in Scenes /\ sc[i - 1] \in Scenes
  BY <1>1 DEF IsScript, Scripts
<1>3. Leads(sc[i - 1], sc[i].st) /\ sc[i] = SceneAfter(sc[i - 1], sc[i].st) /\ sc[i].st # "Initial"
  BY DEF IsScript
<1>4. sc[i - 1].st \in {"Loading", "CharaIntro"} => sc[i - 1].rd = 0
  BY <1>1 DEF IsScript
<1>5. /\ sc[i].st # "Loading" => sc[i].gm = sc[i - 1].gm
      /\ sc[i].st = "Loading" => sc[i].gm > sc[i - 1].gm
  BY <1>2, <1>3, <1>4, SceneAfterIs
<1>6. sc[i].st \in States \ {"Initial"} /\ sc[i - 1].st \in States
  BY <1>2, <1>3 DEF Scenes
<1>. QED BY <1>1, <1>3, <1>5, <1>6 DEF Leads, Blocking
LEMMA SceneIs ==
  ASSUME NEW n \in 0 .. MaxIndex, NEW sc, IsScript(sc, n), NEW i \in 0 .. n
  PROVE  i \in 0 .. MaxIndex /\ sc[i].st \in States /\ sc[i].rd \in 0 .. Rounds /\ sc[i].gm \in Nat
<1>1. i \in 0 .. MaxIndex
  BY Bounds
<1>. QED BY <1>1 DEF IsScript, Scripts, Scenes

(* Of three states in a row one waits for the opponent. *)
LEMMA OneWaits ==
  ASSUME NEW n \in 0 .. MaxIndex, NEW sc, IsScript(sc, n), NEW i \in 4 .. n
  PROVE  \E j \in i - 3 .. i - 1 : sc[j].st \in Blocking
<1>1. /\ n \in Nat /\ i \in Nat /\ i - 1 \in 1 .. n /\ i - 2 \in 1 .. n /\ (i - 1) - 1 = i - 2
      /\ (i - 2) - 1 = i - 3
      /\ i - 1 \in i - 3 .. i - 1 /\ i - 2 \in i - 3 .. i - 1 /\ i - 3 \in i - 3 .. i - 1
  BY Bounds
<1>2. CASE sc[i - 1].st = "CharaIntro"
  <2>1. sc[i - 2].st = "Loading"
    BY <1>1, <1>2, CameFrom
  <2>2. sc[i - 3].st \in Blocking
    BY <1>1, <2>1, CameFrom
  <2>. QED BY <1>1, <2>2
<1>3. CASE sc[i - 1].st \in {"Loading", "Skippable"}
  <2>1. sc[i - 2].st \in Blocking
    BY <1>1, <1>3, CameFrom DEF Blocking
  <2>. QED BY <1>1, <2>1
<1>4. CASE sc[i - 1].st \notin {"Loading", "Skippable", "CharaIntro"}
  <2>1. sc[i - 1].st \in Blocking
    BY <1>1, <1>4, CameFrom DEF Blocking, States
  <2>. QED BY <1>1, <2>1
<1>. QED BY <1>2, <1>3, <1>4

LEMMA DriftIsBounded ==
  ASSUME Types, NEW n \in 0 .. MaxIndex, Furthest(n), NEW sc, IsScript(sc, n), SideBySide(sc)
  PROVE  DriftBounded
<1>1. \A p \in Peers : index[p] \in 0 .. MaxIndex /\ index[p] \in Nat /\ index[p] <= n
  BY Bounds DEF Types, Furthest
<1>2. ASSUME NEW p \in Peers PROVE index[p] - index[Other(p)] <= 3
  <2>1. CASE index[p] <= 3
    BY <1>1, <2>1, Two
  <2>2. CASE ~ index[p] <= 3
    <3>1. index[p] \in 4 .. n
      BY <1>1, <2>2, Bounds
    <3>2. PICK j \in index[p] - 3 .. index[p] - 1 : sc[j].st \in Blocking
      BY <3>1, OneWaits
    <3>3. j \in 0 .. MaxIndex /\ j < index[p] /\ index[p] - 3 <= j
      BY <1>1, <3>1, <3>2, Bounds
    <3>4. j <= index[Other(p)]
      BY <3>2, <3>3 DEF SideBySide
    <3>. QED BY <1>1, <3>1, <3>3, <3>4, Two
  <2>. QED BY <2>1, <2>2
<1>3. index[Host] - index[Client] <= 3 /\ index[Client] - index[Host] <= 3
  BY <1>2, Two
<1>. QED BY <1>1, <1>3, Two DEF DriftBounded, MaxDrift

(* Who has reached a menu left its opponent in that match, at least. *)
LEMMA InThatMatch ==
  ASSUME Types, NEW n \in 0 .. MaxIndex, Furthest(n), NEW sc, IsScript(sc, n), SideBySide(sc),
         NEW p \in Peers, NEW m \in 0 .. index[p], sc[m].st \in {"Skippable", "RetryMenu"}
  PROVE  sc[m].gm <= sc[index[Other(p)]].gm
<1>. DEFINE i == index[Other(p)]
<1>1. /\ index[p] \in Nat /\ index[p] <= n /\ i \in 0 .. n /\ m \in Nat /\ m \in 0 .. n
      /\ n \in Nat /\ m <= index[p]
  <2>1. \A q \in Peers : index[q] \in 0 .. MaxIndex /\ index[q] <= n
    BY DEF Types, Furthest
  <2>2. n \in Nat /\ \A q \in Peers : index[q] \in Nat /\ index[q] \in 0 .. n
    BY <2>1, Bounds
  <2>3. m \in Nat /\ m <= index[p] /\ m \in 0 .. n
    BY <2>2
  <2>. QED BY <2>2, <2>3, Two
<1>2. \A a \in 0 .. n : \A b \in 0 .. a : sc[b].gm <= sc[a].gm
  BY DEF IsScript
<1>. HIDE DEF i
<1>3. m # 0
  BY DEF IsScript
<1>4. m \in 1 .. n /\ m - 1 \in 0 .. MaxIndex /\ m - 1 < index[p] /\ m - 1 \in Nat
  BY <1>1, <1>3, Bounds
<1>5. ASSUME NEW k \in 0 .. MaxIndex, k < index[p], sc[k].st = "InGame" PROVE k \in 0 .. i
  <2>1. k <= i
    BY <1>5 DEF SideBySide, Blocking, i
  <2>. QED BY <2>1, <1>1
<1>6. CASE sc[m].st = "Skippable"
  <2>1. sc[m - 1].st = "InGame" /\ sc[m].gm = sc[m - 1].gm
    BY <1>4, <1>6, CameFrom
  <2>2. m - 1 \in 0 .. i
    BY <1>4, <1>5, <2>1
  <2>. QED BY <1>1, <1>2, <2>1, <2>2 DEF i
<1>7. CASE sc[m].st = "RetryMenu"
  <2>1. sc[m - 1].st = "Skippable" /\ sc[m].gm = sc[m - 1].gm
    BY <1>4, <1>7, CameFrom
  <2>2. m - 1 # 0
    BY <2>1 DEF IsScript
  <2>3. m \in Nat /\ m >= 2 /\ m <= n /\ n \in Nat /\ n <= MaxIndex /\ MaxIndex \in Nat
        /\ m <= index[p] /\ index[p] \in Nat
    BY <1>1, <1>4, <2>2, Bounds
  <2>4. m - 1 \in 1 .. n /\ (m - 1) - 1 = m - 2 /\ m - 2 \in 0 .. MaxIndex /\ m - 2 < index[p]
    BY <2>3
  <2>5. sc[m - 2].st = "InGame" /\ sc[m - 1].gm = sc[m - 2].gm
    BY <2>1, <2>4, CameFrom
  <2>6. m - 2 \in 0 .. i
    BY <1>5, <2>4, <2>5
  <2>. QED BY <1>1, <1>2, <2>1, <2>5, <2>6 DEF i
<1>. QED BY <1>6, <1>7

-----------------------------------------------------------------------------
(* What the invariant says *)

LEMMA TypesAre == Types /\ Fits => TypeOK
<1>. SUFFICES ASSUME Types, Fits PROVE TypeOK
  OBVIOUS
<1>1. /\ pc \in [Peers -> {"callback", "input", "gate", "stopped"}]
      /\ state \in [Peers -> States] /\ index \in [Peers -> 0 .. MaxIndex]
      /\ frame \in [Peers -> Nat] /\ round \in [Peers -> 0 .. Rounds]
      /\ announced \in [Peers -> 0 .. MaxIndex] /\ seed \in [Peers -> 0 .. MaxIndex \cup {None}]
  BY DEF Types
<1>2. /\ {choice, heard, target} \subseteq [Peers -> Choices \cup {None}]
      /\ {menuSent, lazy, shouldSync, connected} \subseteq [Peers -> BOOLEAN]
  BY DEF Types
<1>3. ASSUME NEW p \in Peers
      PROVE  /\ frame[p] <= Lasts(state[p]) /\ startIndex[p] \in 0 .. index[p]
             /\ remote[p] \in Seq(Ends) /\ startIndex[p] + Len(remote[p]) <= MaxIndex + 1
             /\ rngStates[p] \in Seq(0 .. MaxIndex \cup {None}) /\ sentEnd[p] \in [0 .. MaxIndex -> Ends]
  <2>1. startIndex[p] \in Nat /\ index[p] \in Nat /\ startIndex[p] <= index[p]
    BY Bounds DEF Types, Fits
  <2>. QED BY <2>1 DEF Types, Fits
<1>. QED BY <1>1, <1>2, <1>3 DEF TypeOK

LEMMA InvFollows == IInv => Inv /\ SameRoute /\ RngAgreed
<1>. SUFFICES ASSUME IInv PROVE Inv /\ SameRoute /\ RngAgreed
  OBVIOUS
<1>1. PICK n \in 0 .. MaxIndex : Furthest(n) /\ \E sc \in Scripts : IsScript(sc, n) /\ Scripted(sc)
  BY DEF IInv
<1>2. PICK sc \in Scripts : IsScript(sc, n) /\ Scripted(sc)
  BY <1>1
<1>3. Inv
  BY <1>1, <1>2, TypesAre, DriftIsBounded DEF IInv, Inv, Scripted
<1>4. SameRoute
  <2>1. ASSUME NEW i \in 1 .. MaxIndex, \A p \in Peers : i <= Len(route[p])
        PROVE  route[Host][i] = route[Client][i]
    <3>1. \A p \in Peers : i \in 1 .. index[p] /\ \A k \in 1 .. index[p] : route[p][k] = sc[k].st
      BY <1>2, <2>1 DEF Scripted, Follows, IInv, Types
    <3>. QED BY <3>1, Two
  <2>. QED BY <2>1 DEF SameRoute
<1>. QED BY <1>2, <1>3, <1>4 DEF Scripted, RngInv

LEMMA InitEstablishes == Init => IInv
<1>. SUFFICES ASSUME Init PROVE IInv
  OBVIOUS
<1>. DEFINE sc == [i \in 0 .. MaxIndex |-> [st |-> "Initial", rd |-> 0, gm |-> 0]]
<1>1. /\ MaxIndex \in Nat \ {0} /\ Rounds \in Nat /\ 0 \in 0 .. MaxIndex
      /\ \A k \in 0 .. 0 : k = 0 /\ 1 .. 0 = {} /\ 0 .. 0 - 1 = {}
  BY Bounds
<1>2. /\ sc \in Scripts /\ sc[0].st = "Initial" /\ sc[0].rd = 0 /\ sc[0].gm = 0
      /\ \A i \in 0 .. MaxIndex : sc[i].st = "Initial"
  BY <1>1 DEF Scripts, Scenes, States
<1>. HIDE DEF sc
<1>3. IsScript(sc, 0)
  BY <1>1, <1>2 DEF IsScript
<1>4. Types
  BY <1>1, EndsAre DEF Init, Types, States, Choices, None
<1>5. Fits
  BY LastsAre, Bounds DEF Init, Fits, States
<1>6. KnownIsReached /\ PassedIsReached /\ Furthest(0)
  BY Two, Bounds DEF Init, KnownIsReached, PassedIsReached, Furthest
<1>7. Follows(sc) /\ SideBySide(sc)
  BY <1>1, <1>2 DEF Init, Follows, SideBySide
<1>8. MenuInv(sc)
  <2>1. \A p \in Peers : Pending(p) = {}
    BY DEF Init, Pending, Choices, None
  <2>. QED BY <1>2, <2>1, Two
    DEF Init, MenuInv, OfThisMatch, AtMostOne, BothChose, IsOpponents, ChoiceKept, WillFollow
<1>9. RngInv(sc)
  BY <1>1, <1>2, Two DEF Init, RngInv, AsksOnce, HostHolds, InOrder, NoneIsLost, RngAgreed, Synced
<1>. QED BY <1>1, <1>2, <1>3, <1>4, <1>5, <1>6, <1>7, <1>8, <1>9 DEF IInv, Scripted

-----------------------------------------------------------------------------
(* What a step leaves alone *)

LEMMA StaysPut ==
  ASSUME IInv, UNCHANGED << index, state, round, route >>,
         Types', Fits', KnownIsReached', PassedIsReached',
         \A sc \in Scripts : \A n \in 0 .. MaxIndex :
           Furthest(n) /\ IsScript(sc, n) /\ Scripted(sc) => MenuInv(sc)' /\ RngInv(sc)'
  PROVE  IInv'
<1>1. PICK n \in 0 .. MaxIndex : Furthest(n) /\ \E sc \in Scripts : IsScript(sc, n) /\ Scripted(sc)
  BY DEF IInv
<1>2. PICK sc \in Scripts : IsScript(sc, n) /\ Scripted(sc)
  BY <1>1
<1>3. Furthest(n)'
  BY <1>1 DEF Furthest
<1>4. Follows(sc)'
  BY <1>2 DEF Follows, Scripted
<1>5. SideBySide(sc)'
  BY <1>2 DEF SideBySide, Scripted
<1>6. MenuInv(sc)' /\ RngInv(sc)'
  BY <1>1, <1>2
<1>. QED BY <1>2, <1>3, <1>4, <1>5, <1>6 DEF IInv, Scripted

LEMMA GatesKept ==
  ASSUME UNCHANGED << index, state, frame, startIndex, remote, sentEnd, announced >>
  PROVE  /\ Fits => Fits' /\ (KnownIsReached => KnownIsReached')
         /\ PassedIsReached => PassedIsReached'
BY DEF Fits, KnownIsReached, PassedIsReached, RemoteIndex

LEMMA MenuKept ==
  ASSUME UNCHANGED << index, state, choice, heard, target, menuSent, menus >>,
         \A p \in Peers : (Running(p))' <=> Running(p), NEW sc, MenuInv(sc)
  PROVE  MenuInv(sc)'
<1>1. ASSUME NEW p \in Peers
      PROVE  /\ (Running(p))' <=> Running(p)
             /\ (Running(Other(p)))' <=> Running(Other(p))
             /\ (Pending(p))' = Pending(p) /\ (RetryTarget(p))' = RetryTarget(p)
             /\ \A m : (HasChosen(Other(p), m))' <=> HasChosen(Other(p), m)
  BY Two DEF Pending, RetryTarget, HasChosen
<1>2. ASSUME NEW p \in Peers, (Running(p))'
      PROVE  (/\ OfThisMatch(sc, p) /\ AtMostOne(p) /\ BothChose(sc, p)
              /\ IsOpponents(p) /\ ChoiceKept(p) /\ WillFollow(sc, p))'
  <2>1. /\ OfThisMatch(sc, p) /\ AtMostOne(p) /\ BothChose(sc, p)
        /\ IsOpponents(p) /\ ChoiceKept(p) /\ WillFollow(sc, p)
    BY <1>1, <1>2 DEF MenuInv
  <2>2. (OfThisMatch(sc, p))' /\ (AtMostOne(p))' /\ (BothChose(sc, p))'
    BY <1>1, <2>1 DEF OfThisMatch, AtMostOne, BothChose
  <2>3. (IsOpponents(p))' /\ (ChoiceKept(p))' /\ (WillFollow(sc, p))'
    BY <1>1, <2>1 DEF IsOpponents, ChoiceKept, WillFollow
  <2>. QED BY <2>2, <2>3
<1>. QED BY <1>2 DEF MenuInv

LEMMA RngKept ==
  ASSUME UNCHANGED << index, state, frame, startIndex, shouldSync, rngStates, seed, rngs >>,
         \A p \in Peers : (Running(p))' <=> Running(p),
         \A p \in Peers : /\ connected'[p] => connected[p]
                          /\ pc'[p] = "callback" => pc[p] = "callback",
         pc'[Host] = pc[Host] \/ ~ shouldSync[Host], NEW sc, RngInv(sc)
  PROVE  RngInv(sc)'
<1>1. AsksOnce'
  BY DEF RngInv, AsksOnce
<1>2. HostHolds'
  BY DEF RngInv, HostHolds, RngOf
<1>3. \A j : /\ Snapped(j) => (Snapped(j))'
             /\ (Queued(j))' <=> Queued(j)
             /\ (Held(j))' <=> Held(j)
  BY DEF Snapped, Queued, Held, IndexOf
<1>4. InOrder'
  BY <1>3 DEF RngInv, InOrder, IndexOf
<1>5. (NoneIsLost(sc))'
  <2>1. SUFFICES ASSUME (Running(Client))', NEW j \in startIndex'[Client] .. index'[Host],
                        sc[j].st \in Synced,
                        \/ j < index'[Host]
                        \/ connected'[Host] /\ (pc'[Host] = "gate" \/ ~ shouldSync'[Host])
                 PROVE  (Queued(j))' \/ (Held(j))'
    BY DEF NoneIsLost
  <2>2. Running(Client) /\ (connected'[Host] => connected[Host])
    BY <2>1, Two
  <2>3. Queued(j) \/ Held(j)
    BY <2>1, <2>2 DEF RngInv, NoneIsLost
  <2>. QED BY <1>3, <2>3
<1>6. RngAgreed'
  BY DEF RngInv, RngAgreed
<1>. QED BY <1>1, <1>2, <1>4, <1>5, <1>6 DEF RngInv

LEMMA StayPreserves ==
  ASSUME IInv, NEW p \in Peers, Stay(p)
  PROVE  IInv'
<1>1. /\ pc[p] = "callback" /\ pc' = [pc EXCEPT ![p] = "input"]
      /\ UNCHANGED << index, state, round, route, frame, startIndex, remote, sentEnd, choice, heard,
                      target, menuSent, lazy, shouldSync, rngStates, seed, connected, announced,
                      menus, rngs >>
  BY DEF Stay, fsm, menu, rng, net
<1>2. Types /\ Types'
  BY <1>1 DEF IInv, Types
<1>3. \A q \in Peers : /\ (Running(q))' <=> Running(q)
                       /\ pc'[q] = "callback" => pc[q] = "callback"
  BY <1>1, <1>2 DEF Running, Types
<1>4. Fits' /\ KnownIsReached' /\ PassedIsReached'
  BY <1>1, GatesKept DEF IInv
<1>5. ASSUME NEW sc, Scripted(sc) PROVE MenuInv(sc)' /\ RngInv(sc)'
  <2>1. pc'[Host] = pc[Host] \/ ~ shouldSync[Host]
    BY <1>1, <1>2, <1>5, Two DEF Scripted, RngInv, AsksOnce, Running, Types
  <2>2. MenuInv(sc)'
    BY <1>1, <1>3, <1>5, MenuKept DEF Scripted
  <2>3. RngInv(sc)'
    BY <1>1, <1>3, <1>5, <2>1, RngKept DEF Scripted
  <2>. QED BY <2>2, <2>3
<1>. QED BY <1>1, <1>2, <1>4, <1>5, StaysPut

LEMMA LosePreserves ==
  ASSUME IInv, NEW p \in Peers, LoseConnection(p)
  PROVE  IInv'
<1>1. /\ connected' = [connected EXCEPT ![p] = FALSE]
      /\ UNCHANGED << pc, index, state, round, route, frame, startIndex, remote, sentEnd, choice,
                      heard, target, menuSent, lazy, shouldSync, rngStates, seed, announced,
                      menus, rngs >>
  BY DEF LoseConnection, fsm, menu, rng
<1>2. Types /\ Types'
  BY <1>1 DEF IInv, Types
<1>3. \A q \in Peers : ((Running(q))' <=> Running(q)) /\ (connected'[q] => connected[q])
  BY <1>1, <1>2 DEF Running, Types
<1>4. Fits' /\ KnownIsReached' /\ PassedIsReached'
  BY <1>1, GatesKept DEF IInv
<1>5. ASSUME NEW sc, Scripted(sc) PROVE MenuInv(sc)' /\ RngInv(sc)'
  <2>1. MenuInv(sc)'
    BY <1>1, <1>3, <1>5, MenuKept DEF Scripted
  <2>2. RngInv(sc)'
    BY <1>1, <1>3, <1>5, RngKept DEF Scripted
  <2>. QED BY <2>1, <2>2
<1>. QED BY <1>1, <1>2, <1>4, <1>5, StaysPut
-----------------------------------------------------------------------------
(* What the network brings *)

LEMMA RemotePreserves ==
  ASSUME IInv, NEW p \in Peers, NEW r \in Seq(Ends), remote' = [remote EXCEPT ![p] = r],
         startIndex[p] + Len(r) <= MaxIndex + 1,
         r # << >> => startIndex[p] + Len(r) - 1 <= index[Other(p)],
         UNCHANGED << pc, fsm, sentEnd, menu, lazy, rng, net >>
  PROVE  IInv'
<1>1. UNCHANGED << pc, index, state, round, route, frame, startIndex, sentEnd, choice, heard, target,
                   menuSent, lazy, shouldSync, rngStates, seed, connected, announced, menus, rngs >>
  BY DEF fsm, menu, rng, net
<1>2. Types /\ Types'
  BY <1>1 DEF IInv, Types
<1>3. remote'[p] = r /\ \A q \in Peers : q # p => remote'[q] = remote[q]
  BY <1>2 DEF Types
<1>4. Fits'
  BY <1>1, <1>3 DEF IInv, Fits
<1>5. KnownIsReached'
  BY <1>1, <1>3 DEF IInv, KnownIsReached, RemoteIndex
<1>6. PassedIsReached'
  BY <1>1 DEF IInv, PassedIsReached
<1>7. ASSUME NEW sc, Scripted(sc) PROVE MenuInv(sc)' /\ RngInv(sc)'
  <2>1. \A q \in Peers : (Running(q))' <=> Running(q)
    BY <1>1 DEF Running
  <2>2. MenuInv(sc)'
    BY <1>1, <1>7, <2>1, MenuKept DEF Scripted
  <2>3. RngInv(sc)'
    BY <1>1, <1>7, <2>1, RngKept DEF Scripted
  <2>. QED BY <2>2, <2>3
<1>. QED BY <1>1, <1>2, <1>4, <1>5, <1>6, <1>7, StaysPut

LEMMA DeliverIndexPreserves ==
  ASSUME IInv, NEW p \in Peers, NEW i \in 1 .. MaxIndex, DeliverIndex(p, i)
  PROVE  IInv'
<1>. DEFINE r == SetRemoteIndex(p, i)
<1>1. /\ remote[p] \in Seq(Ends) /\ startIndex[p] \in Nat /\ index[Other(p)] \in Nat /\ i \in Nat
      /\ index[Other(p)] <= MaxIndex /\ startIndex[p] + Len(remote[p]) <= MaxIndex + 1
      /\ Len(remote[p]) \in Nat /\ MaxIndex \in Nat
  BY Two, Bounds, LenProperties DEF IInv, Types, Fits
<1>2. i <= index[Other(p)] /\ startIndex[p] + Len(remote[p]) - 1 < i
  BY Two DEF DeliverIndex, IInv, KnownIsReached, RemoteIndex
<1>3. CASE i < startIndex[p]
  <2>1. r = remote[p] /\ remote[p] = << >>
    BY <1>1, <1>2, <1>3, EmptySeq DEF SetRemoteIndex
  <2>2. remote' = [remote EXCEPT ![p] = remote[p]]
    BY <2>1 DEF DeliverIndex
  <2>. QED BY <1>1, <2>1, <2>2, RemotePreserves DEF DeliverIndex
<1>4. CASE ~ i < startIndex[p]
  <2>1. r = Reach(remote[p], i - startIndex[p] + 1, 0) /\ i - startIndex[p] + 1 \in Nat
    BY <1>1, <1>4 DEF SetRemoteIndex
  <2>. HIDE DEF r
  <2>2. r \in Seq(Ends) /\ Len(r) = i - startIndex[p] + 1
    <3>. DEFINE k == i - startIndex[p] + 1
    <3>1. k \in Nat /\ r = Reach(remote[p], k, 0) /\ k > Len(remote[p]) /\ 0 \in Ends
      BY <1>1, <1>2, <2>1, EndsAre
    <3>. HIDE DEF k
    <3>2. Reach(remote[p], k, 0) \in Seq(Ends) /\ Len(Reach(remote[p], k, 0)) = k
      BY <1>1, <3>1, ReachIs
    <3>. QED BY <3>1, <3>2 DEF k
  <2>3. startIndex[p] + Len(r) <= MaxIndex + 1 /\ startIndex[p] + Len(r) - 1 <= index[Other(p)]
    BY <1>1, <1>2, <2>2
  <2>4. remote' = [remote EXCEPT ![p] = r]
    BY DEF DeliverIndex, r
  <2>. QED BY <2>2, <2>3, <2>4, RemotePreserves DEF DeliverIndex
<1>. QED BY <1>3, <1>4

LEMMA DeliverInputsPreserves ==
  ASSUME IInv, NEW p \in Peers, NEW i \in 0 .. MaxIndex, NEW end \in Ends, DeliverInputs(p, i, end)
  PROVE  IInv'
<1>. DEFINE k == i - startIndex[p] + 1
            t == Reach(remote[p], k, 0)
            r == [t EXCEPT ![k] = IF end > t[k] THEN end ELSE t[k]]
<1>1. /\ remote[p] \in Seq(Ends) /\ startIndex[p] \in Nat /\ index[Other(p)] \in Nat /\ i \in Nat
      /\ index[Other(p)] <= MaxIndex /\ startIndex[p] + Len(remote[p]) <= MaxIndex + 1
      /\ Len(remote[p]) \in Nat /\ index[p] \in Nat /\ startIndex[p] <= index[p]
  BY Two, Bounds, LenProperties DEF IInv, Types, Fits
<1>2. i <= index[Other(p)] /\ k \in Nat \ {0} /\ startIndex[p] + k - 1 = i
  <2>1. sentEnd[Other(p)][i] \in Nat /\ end \in 1 .. sentEnd[Other(p)][i] /\ i >= index[p]
    <3>1. sentEnd[Other(p)] \in [0 .. MaxIndex -> Ends]
      BY Two DEF IInv, Types
    <3>2. sentEnd[Other(p)][i] \in Ends
      BY <3>1
    <3>. QED BY <3>2, EndsAre DEF DeliverInputs
  <2>2. sentEnd[Other(p)][i] > 0
    BY <2>1
  <2>3. i <= index[Other(p)]
    BY <1>1, <2>2, Two DEF IInv, KnownIsReached
  <2>4. startIndex[p] <= i
    BY <1>1, <2>1
  <2>. QED BY <1>1, <2>3, <2>4
<1>3. remote' = [remote EXCEPT ![p] = r]
  BY DEF DeliverInputs
<1>4. t \in Seq(Ends) /\ Len(t) = IF k > Len(remote[p]) THEN k ELSE Len(remote[p])
  <2>1. k \in Nat /\ 0 \in Ends
    BY <1>2, EndsAre
  <2>2. remote[p] \in Seq(Ends)
    BY <1>1
  <2>. HIDE DEF k
  <2>. QED BY <2>1, <2>2, ReachIs DEF t
<1>. HIDE DEF t, k
<1>5. r \in Seq(Ends) /\ Len(r) = Len(t)
  <2>1. k \in 1 .. Len(t) /\ Len(t) \in Nat /\ DOMAIN t = 1 .. Len(t)
    BY <1>1, <1>2, <1>4, LenProperties
  <2>2. (IF end > t[k] THEN end ELSE t[k]) \in Ends
    BY <1>4, <2>1, ElementOfSeq
  <2>. QED BY <1>4, <2>1, <2>2
<1>6. remote[p] # << >> => startIndex[p] + Len(remote[p]) - 1 <= index[Other(p)]
  BY DEF IInv, KnownIsReached, RemoteIndex
<1>7. Len(remote[p]) > 0 => remote[p] # << >>
  BY <1>1, EmptySeq
<1>8. startIndex[p] + Len(r) <= MaxIndex + 1 /\ startIndex[p] + Len(r) - 1 <= index[Other(p)]
  <2>1. CASE k > Len(remote[p])
    BY <1>1, <1>2, <1>4, <1>5, <2>1, Bounds
  <2>2. CASE ~ k > Len(remote[p])
    <3>1. Len(r) = Len(remote[p]) /\ Len(remote[p]) > 0
      BY <1>1, <1>2, <1>4, <1>5, <2>2
    <3>. QED BY <1>1, <1>6, <1>7, <3>1, Bounds
  <2>. QED BY <2>1, <2>2
<1>. HIDE DEF r
<1>. QED BY <1>3, <1>5, <1>8, RemotePreserves DEF DeliverInputs

LEMMA DeliverMenuPreserves ==
  ASSUME IInv, NEW p \in Peers, DeliverMenu(p)
  PROVE  IInv'
<1>1. /\ Running(p) /\ menus[p] # << >>
      /\ heard' = [heard EXCEPT ![p] = Head(menus[p])]
      /\ menus' = [menus EXCEPT ![p] = Tail(menus[p])]
      /\ UNCHANGED << pc, index, state, round, route, frame, startIndex, remote, sentEnd, choice,
                      target, menuSent, lazy, shouldSync, rngStates, seed, connected, announced, rngs >>
  BY DEF DeliverMenu, fsm, rng, IInv, Types
<1>2. Types
  BY DEF IInv
<1>3. Head(menus[p]) \in Choices /\ Tail(menus[p]) \in Seq(Choices)
  BY <1>1, <1>2, TailIs DEF Types
<1>4. Types'
  BY <1>1, <1>2, <1>3 DEF Types
<1>5. Fits' /\ KnownIsReached' /\ PassedIsReached'
  BY <1>1, GatesKept DEF IInv
<1>6. \A q \in Peers : (Running(q))' <=> Running(q)
  BY <1>1 DEF Running
<1>7. ASSUME NEW sc, Scripted(sc) PROVE MenuInv(sc)'
  <2>1. PICK c \in Choices : menus[p] = << c >>
    BY <1>1, <1>7 DEF Scripted, MenuInv, AtMostOne
  <2>2. heard[p] = None /\ c # None
    BY <1>1, <1>7, <2>1 DEF Scripted, MenuInv, AtMostOne, Choices, None
  <2>3. heard'[p] = c /\ menus'[p] = << >>
    BY <1>1, <1>2, <2>1 DEF Types
  <2>4. \A q \in Peers : q # p => heard'[q] = heard[q] /\ menus'[q] = menus[q]
    BY <1>1, <1>2 DEF Types
  <2>5. \A q \in Peers : (Pending(q))' = Pending(q)
    <3>1. (Pending(p))' = {c} /\ Pending(p) = {c}
      BY <2>1, <2>2, <2>3 DEF Pending, None, Choices
    <3>. QED BY <2>4, <3>1 DEF Pending
  <2>6. target[p] = None
    BY <1>1, <1>7, <2>2 DEF Scripted, MenuInv, ChoiceKept
  <2>7. ASSUME NEW q \in Peers, (Running(q))'
        PROVE  (/\ OfThisMatch(sc, q) /\ AtMostOne(q) /\ BothChose(sc, q)
                /\ IsOpponents(q) /\ ChoiceKept(q) /\ WillFollow(sc, q))'
    <3>1. /\ OfThisMatch(sc, q) /\ AtMostOne(q) /\ BothChose(sc, q)
          /\ IsOpponents(q) /\ ChoiceKept(q) /\ WillFollow(sc, q)
      BY <1>6, <1>7, <2>7 DEF Scripted, MenuInv
    <3>2. /\ (Running(Other(q)))' <=> Running(Other(q))
          /\ \A m : (HasChosen(Other(q), m))' <=> HasChosen(Other(q), m)
      BY <1>1, <1>6, Two DEF HasChosen
    <3>3. (OfThisMatch(sc, q))' /\ (BothChose(sc, q))'
      BY <1>1, <2>5, <3>1, <3>2 DEF OfThisMatch, BothChose
    <3>4. (AtMostOne(q))'
      BY <2>3, <2>4, <3>1 DEF AtMostOne
    <3>5. (IsOpponents(q))' /\ (WillFollow(sc, q))'
      BY <1>1, <2>5, <3>1, <3>2 DEF IsOpponents, WillFollow
    <3>6. (ChoiceKept(q))'
      BY <1>1, <2>2, <2>3, <2>4, <2>6, <3>1 DEF ChoiceKept, RetryTarget
    <3>. QED BY <3>3, <3>4, <3>5, <3>6
  <2>. QED BY <2>7 DEF MenuInv
<1>8. ASSUME NEW sc, Scripted(sc) PROVE RngInv(sc)'
  BY <1>1, <1>6, <1>8, RngKept DEF Scripted
<1>. QED BY <1>1, <1>4, <1>5, <1>7, <1>8, StaysPut
LEMMA DeliverRngPreserves ==
  ASSUME IInv, NEW p \in Peers, DeliverRng(p)
  PROVE  IInv'
<1>. DEFINE i == Head(rngs[p])
            start == startIndex[p]
            drop == i = 0 \/ i < start
            list == rngStates[p]
            new == IF drop THEN list ELSE SetRng(list, i - start + 1, i)
<1>1. /\ Running(p) /\ rngs[p] # << >>
      /\ rngStates' = [rngStates EXCEPT ![p] = new]
      /\ rngs' = [rngs EXCEPT ![p] = Tail(rngs[p])]
      /\ UNCHANGED << pc, index, state, round, route, frame, startIndex, remote, sentEnd, choice, heard,
                      target, menuSent, lazy, shouldSync, seed, connected, announced, menus >>
  BY DEF DeliverRng, fsm, menu, IInv, Types
<1>2. /\ Types /\ rngs[p] \in Seq(0 .. MaxIndex) /\ list \in Seq(0 .. MaxIndex \cup {None})
      /\ start \in Nat /\ index[Host] \in 0 .. MaxIndex /\ MaxIndex \in Nat
  BY Two, Bounds DEF IInv, Types
<1>3. i \in 0 .. MaxIndex /\ Tail(rngs[p]) \in Seq(0 .. MaxIndex)
  BY <1>1, <1>2, TailIs
<1>4. ~ drop => i - start + 1 \in Nat \ {0} /\ start + (i - start + 1) - 1 = i
  BY <1>2, <1>3
<1>5. new \in Seq(0 .. MaxIndex \cup {None})
  <2>1. CASE drop
    BY <1>2, <2>1
  <2>2. CASE ~ drop
    <3>1. Writes(list, i - start + 1, i, SetRng(list, i - start + 1, i))
      BY <1>2, <1>3, <1>4, <2>2, SetRngIs
    <3>2. new = SetRng(list, i - start + 1, i)
      BY <2>2
    <3>. QED BY <3>1, <3>2 DEF Writes
  <2>. QED BY <2>1, <2>2
<1>. HIDE DEF new
<1>6. Types'
  BY <1>1, <1>2, <1>3, <1>5 DEF Types
<1>7. Fits' /\ KnownIsReached' /\ PassedIsReached'
  BY <1>1, GatesKept DEF IInv
<1>8. \A q \in Peers : (Running(q))' <=> Running(q)
  BY <1>1 DEF Running
<1>9. ASSUME NEW sc \in Scripts, NEW n \in 0 .. MaxIndex, IsScript(sc, n), Scripted(sc)
      PROVE  RngInv(sc)'
  <2>1. p = Client /\ p # Host
    BY <1>1, <1>9, Two DEF Scripted, RngInv, HostHolds
  <2>2. /\ rngs'[Client] = Tail(rngs[Client]) /\ rngStates'[Client] = new
        /\ rngs'[Host] = rngs[Host] /\ rngStates'[Host] = rngStates[Host]
    BY <1>1, <1>2, <2>1, Two DEF Types
  <2>3. AsksOnce' /\ HostHolds' /\ RngAgreed'
    BY <1>1, <1>8, <1>9, <2>2 DEF Scripted, RngInv, AsksOnce, HostHolds, RngOf, RngAgreed
  <2>4. \A j : Snapped(j) <=> (Snapped(j))'
    BY <1>1 DEF Snapped
  <2>5. /\ 1 \in DOMAIN rngs[p] /\ i = rngs[p][1]
        /\ \A m \in DOMAIN Tail(rngs[p]) : m + 1 \in DOMAIN rngs[p] /\ Tail(rngs[p])[m] = rngs[p][m + 1]
        /\ \A m \in DOMAIN rngs[p] : m # 1 => m - 1 \in DOMAIN Tail(rngs[p]) /\ Tail(rngs[p])[m - 1] = rngs[p][m]
        /\ \A m \in DOMAIN Tail(rngs[p]) : m \in Nat \ {0}
    <3>. DEFINE s == rngs[p]
    <3>1. s \in Seq(0 .. MaxIndex) /\ s # << >> /\ Tail(s) \in Seq(0 .. MaxIndex)
      BY <1>1, <1>2, <1>3
    <3>. HIDE DEF s
    <3>2. /\ 1 \in DOMAIN s /\ Head(s) = s[1]
          /\ \A m \in DOMAIN Tail(s) : m + 1 \in DOMAIN s /\ Tail(s)[m] = s[m + 1]
          /\ \A m \in DOMAIN s : m # 1 => m - 1 \in DOMAIN Tail(s) /\ Tail(s)[m - 1] = s[m]
      BY <3>1, TailIs
    <3>3. \A m \in DOMAIN Tail(s) : m \in Nat \ {0}
      BY <3>1, LenProperties
    <3>. QED BY <3>2, <3>3 DEF s
  <2>6. /\ Snapped(i) /\ i <= index[Host]
        /\ \A k \in DOMAIN list : start + k - 1 < i /\ Snapped(start + k - 1)
                                  /\ list[k] \in {None, start + k - 1}
                                  /\ (list[k] = None => k + 1 \in DOMAIN list)
    BY <1>2, <1>9, <2>1, <2>5 DEF Scripted, RngInv, InOrder, IndexOf, Snapped
  <2>7. \A m \in DOMAIN Tail(rngs[p]) : /\ Snapped(Tail(rngs[p])[m]) /\ i < Tail(rngs[p])[m]
                                        /\ \A k \in DOMAIN Tail(rngs[p]) : k < m => Tail(rngs[p])[k] < Tail(rngs[p])[m]
    <3>1. ASSUME NEW m \in DOMAIN Tail(rngs[p])
          PROVE  /\ m + 1 \in DOMAIN rngs[p] /\ 1 < m + 1
                 /\ \A k \in DOMAIN Tail(rngs[p]) : k < m => k + 1 \in DOMAIN rngs[p] /\ k + 1 < m + 1
      BY <2>5
    <3>. QED BY <1>9, <2>1, <2>5, <3>1 DEF Scripted, RngInv, InOrder
  <2>8. /\ \A k \in DOMAIN new : \/ k \in DOMAIN list /\ new[k] = list[k]
                                 \/ ~ drop /\ start + k - 1 = i /\ new[k] = i
                                 \/ ~ drop /\ start + k - 1 < i /\ new[k] = None /\ k + 1 \in DOMAIN new
        /\ \A k \in DOMAIN list : k \in DOMAIN new /\ new[k] = list[k]
        /\ ~ drop => \E k \in DOMAIN new : start + k - 1 = i /\ new[k] = i
    <3>1. CASE drop
      BY <3>1 DEF new
    <3>2. CASE ~ drop
      <4>. DEFINE k == i - start + 1
                  t == SetRng(list, k, i)
      <4>1. k \in Nat \ {0} /\ start + k - 1 = i /\ new = t
        BY <1>4, <3>2 DEF new
      <4>. HIDE DEF k
      <4>2. Writes(list, k, i, t)
        BY <1>2, <1>3, <4>1, SetRngIs
      <4>. HIDE DEF t
      <4>3. /\ t \in Seq(0 .. MaxIndex \cup {None}) /\ Len(t) = IF k > Len(list) THEN k ELSE Len(list)
            /\ k \in DOMAIN t /\ t[k] = i
            /\ \A j \in DOMAIN list : j # k => j \in DOMAIN t /\ t[j] = list[j]
            /\ \A j \in DOMAIN t : j # k => j \in DOMAIN list \/ t[j] = None
        BY <4>2 DEF Writes
      <4>4. Len(list) \in Nat /\ DOMAIN list = 1 .. Len(list) /\ DOMAIN t = 1 .. Len(t)
        BY <1>2, <4>3, LenProperties
      <4>5. k > Len(list) /\ k \notin DOMAIN list /\ Len(t) = k
        <5>1. k \notin DOMAIN list
          BY <1>2, <1>3, <2>6, <4>1
        <5>2. k > Len(list)
          BY <4>1, <4>4, <5>1
        <5>. QED BY <4>3, <5>1, <5>2
      <4>6. \A j \in DOMAIN t : j # k => start + j - 1 < i /\ j + 1 \in DOMAIN t
        <5>1. /\ DOMAIN t = 1 .. k /\ k \in Nat /\ start \in Nat /\ start + k - 1 = i
          BY <1>2, <4>1, <4>4, <4>5
        <5>. HIDE DEF start, i
        <5>. QED BY <5>1
      <4>. QED BY <3>2, <4>1, <4>3, <4>5, <4>6
    <3>. QED BY <3>1, <3>2
  <2>9. InOrder'
    <3>1. \A k \in DOMAIN new : k \in Nat /\ start + k - 1 \in Int
      BY <1>2, <1>5, LenProperties
    <3>2. ASSUME NEW k \in DOMAIN new
          PROVE  /\ new[k] \in {None, start + k - 1} /\ Snapped(start + k - 1)
                 /\ new[k] = None => k + 1 \in DOMAIN new
      <4>1. CASE k \in DOMAIN list /\ new[k] = list[k]
        BY <2>6, <2>8, <4>1
      <4>2. CASE start + k - 1 = i /\ new[k] = i
        BY <1>3, <2>6, <4>2 DEF None
      <4>3. CASE start + k - 1 < i /\ new[k] = None /\ k + 1 \in DOMAIN new
        <5>1. i \in Nat /\ index[Host] \in Nat /\ start + k - 1 \in Int
          BY <1>2, <1>3, <3>1
        <5>2. i <= index[Host]
          BY <2>6
        <5>. HIDE DEF i, start, new
        <5>3. start + k - 1 < index[Host]
          BY <4>3, <5>1, <5>2
        <5>. QED BY <4>3, <5>3 DEF Snapped
      <4>. QED BY <2>8, <4>1, <4>2, <4>3
    <3>3. \A k \in DOMAIN new : \A m \in DOMAIN Tail(rngs[p]) : start + k - 1 < Tail(rngs[p])[m]
      <4>1. \A rest \in Seq(0 .. MaxIndex) : \A m \in DOMAIN rest : rest[m] \in Nat
        BY Bounds
      <4>2. i \in Nat /\ \A m \in DOMAIN Tail(rngs[p]) : Tail(rngs[p])[m] \in Nat
        <5>. DEFINE rest == Tail(rngs[p])
        <5>1. rest \in Seq(0 .. MaxIndex) /\ i \in 0 .. MaxIndex
          BY <1>3
        <5>. HIDE DEF rest, i
        <5>2. i \in Nat
          BY <5>1
        <5>3. \A m \in DOMAIN rest : rest[m] \in Nat
          BY <4>1, <5>1
        <5>. QED BY <5>2, <5>3 DEF rest
      <4>3. ASSUME NEW k \in DOMAIN new PROVE start + k - 1 \in Int /\ start + k - 1 <= i
        <5>1. start + k - 1 < i \/ start + k - 1 = i
          BY <2>6, <2>8
        <5>. QED BY <3>1, <4>2, <5>1
      <4>. QED BY <2>7, <4>2, <4>3
    <3>. QED BY <1>1, <2>1, <2>2, <2>4, <2>7, <3>2, <3>3 DEF InOrder, IndexOf
  <2>10. (NoneIsLost(sc))'
    <3>1. SUFFICES ASSUME (Running(Client))', NEW j \in startIndex'[Client] .. index'[Host],
                          sc[j].st \in Synced,
                          \/ j < index'[Host]
                          \/ connected'[Host] /\ (pc'[Host] = "gate" \/ ~ shouldSync'[Host])
                   PROVE  (Queued(j))' \/ (Held(j))'
      BY DEF NoneIsLost
    <3>2. Queued(j) \/ Held(j)
      BY <1>1, <1>8, <3>1, Two, <1>9 DEF Scripted, RngInv, NoneIsLost
    <3>3. j \in Nat /\ start <= j /\ j # 0
      BY <1>1, <1>2, <1>9, <2>1, <3>1 DEF IsScript, Synced
    <3>4. CASE Held(j)
      BY <1>1, <2>1, <2>2, <2>8, <3>4 DEF Held, IndexOf
    <3>5. CASE Queued(j)
      <4>1. PICK m \in DOMAIN rngs[p] : rngs[p][m] = j
        BY <2>1, <3>5 DEF Queued
      <4>2. CASE m = 1
        <5>1. i = j /\ ~ drop
          BY <1>2, <2>5, <3>3, <4>1, <4>2
        <5>. QED BY <1>1, <2>1, <2>2, <2>8, <5>1 DEF Held, IndexOf
      <4>3. CASE m # 1
        BY <2>1, <2>2, <2>5, <4>1, <4>3, Z3 DEF Queued
      <4>. QED BY <4>2, <4>3
    <3>. QED BY <3>2, <3>4, <3>5
  <2>. QED BY <2>3, <2>9, <2>10 DEF RngInv
<1>10. ASSUME NEW sc, Scripted(sc) PROVE MenuInv(sc)'
  BY <1>1, <1>8, <1>10, MenuKept DEF Scripted
<1>. QED BY <1>1, <1>6, <1>7, <1>9, <1>10, StaysPut
-----------------------------------------------------------------------------
(* What is sent *)

(* Whose opponent is in a menu and has not chosen there has heard nothing, and is not past it. *)
LEMMA NothingPending ==
  ASSUME Types, NEW n \in 0 .. MaxIndex, Furthest(n), NEW sc, IsScript(sc, n), Scripted(sc),
         NEW p \in Peers, state[p] = "RetryMenu", Running(p), ~ menuSent[p], Running(Other(p))
  PROVE  LET o == Other(p)
         IN  /\ Pending(o) = {} /\ heard[o] = None /\ menus[o] = << >>
             /\ IsMenu(sc, index[p]) /\ sc[index[p]].gm = sc[index[o]].gm
             /\ state[o] = "RetryMenu" => index[p] <= index[o]
<1>. DEFINE o == Other(p)
            m0 == index[p]
<1>1. /\ o \in Peers /\ Other(o) = p /\ m0 \in Nat /\ index[o] \in Nat /\ m0 \in 0 .. n /\ index[o] \in 0 .. n
      /\ m0 \in 0 .. index[p] /\ m0 \in 0 .. MaxIndex
  <2>1. \A q \in Peers : index[q] \in 0 .. MaxIndex /\ index[q] <= n
    BY DEF Types, Furthest
  <2>2. n \in Nat /\ \A q \in Peers : index[q] \in Nat /\ index[q] \in 0 .. n
    BY <2>1, Bounds
  <2>. QED BY <2>1, <2>2, Two
<1>2. IsMenu(sc, m0) /\ state[o] = sc[index[o]].st
  BY <1>1 DEF Scripted, Follows, IsMenu
<1>3. sc[m0].gm <= sc[index[o]].gm
  BY <1>1, <1>2, InThatMatch DEF Scripted, IsMenu
<1>4. /\ OfThisMatch(sc, o) /\ AtMostOne(o) /\ BothChose(sc, o)
  BY <1>1 DEF Scripted, MenuInv
<1>5. \A m \in 0 .. n : sc[m].gm \in Nat
  BY SceneIs
<1>. HIDE DEF o, m0
<1>6. ASSUME NEW m \in 0 .. n, IsMenu(sc, m), m < m0 PROVE sc[m].gm < sc[m0].gm
  <2>1. m \in 0 .. m0 - 1
    BY <1>1, <1>6
  <2>2. sc[m0].st # "CharaSelect"
    BY <1>2 DEF IsMenu
  <2>. QED BY <1>1, <1>6, <2>1, <2>2 DEF IsScript
<1>7. Pending(o) = {}
  <2>1. SUFFICES ASSUME Pending(o) # {} PROVE FALSE
    OBVIOUS
  <2>2. PICK m \in 0 .. index[p] : IsMenu(sc, m) /\ HasChosen(p, m) /\ sc[m].gm = sc[index[o]].gm
    BY <1>1, <1>4, <2>1 DEF OfThisMatch
  <2>3. m < m0 /\ m \in 0 .. n
    BY <1>1, <2>2 DEF HasChosen, m0
  <2>4. sc[m].gm < sc[m0].gm
    BY <1>6, <2>2, <2>3
  <2>. QED BY <1>1, <1>3, <1>5, <2>2, <2>3, <2>4
<1>8. heard[o] = None
  <2>1. heard[o] \in Choices \cup {None} /\ heard[o] \notin Choices
    BY <1>1, <1>7 DEF Types, Pending
  <2>. QED BY <2>1
<1>9. menus[o] = << >>
  BY <1>4, <1>7 DEF AtMostOne, Pending
<1>10. index[o] <= m0
  <2>1. SUFFICES ASSUME m0 < index[o] PROVE FALSE
    BY <1>1
  <2>2. HasChosen(p, m0)
    BY <1>1, <1>2, <1>4, <2>1 DEF BothChose
  <2>. QED BY <1>1, <2>2 DEF HasChosen, m0
<1>11. sc[index[o]].gm <= sc[m0].gm
  <2>1. index[o] \in 0 .. m0
    BY <1>1, <1>10
  <2>. QED BY <1>1, <2>1 DEF IsScript
<1>12. state[o] = "RetryMenu" => m0 <= index[o]
  <2>1. SUFFICES ASSUME state[o] = "RetryMenu", index[o] < m0 PROVE FALSE
    BY <1>1
  <2>2. sc[index[o]].gm < sc[m0].gm
    BY <1>1, <1>2, <1>6, <2>1 DEF IsMenu
  <2>. QED BY <1>1, <1>3, <1>5, <2>2
<1>13. sc[m0].gm = sc[index[o]].gm
  BY <1>1, <1>3, <1>5, <1>11
<1>. QED BY <1>2, <1>7, <1>8, <1>9, <1>12, <1>13 DEF o, m0

LEMMA SendChoicePreserves ==
  ASSUME IInv, NEW p \in Peers, SendChoice(p)
  PROVE  IInv'
<1>. DEFINE o == Other(p)
            sends == choice[p] # None /\ ~ menuSent[p]
<1>1. /\ pc[p] = "input" /\ state[p] = "RetryMenu" /\ (choice[p] # None => connected[p])
      /\ menus' = IF sends THEN Send(menus, p, choice[p]) ELSE menus
      /\ menuSent' = [menuSent EXCEPT ![p] = menuSent[p] \/ choice[p] # None]
      /\ pc' = [pc EXCEPT ![p] = "gate"]
      /\ UNCHANGED << index, state, round, route, frame, startIndex, remote, sentEnd, choice, heard,
                      target, lazy, shouldSync, rngStates, seed, connected, announced, rngs >>
  BY DEF SendChoice, fsm, rng
<1>2. Types /\ o \in Peers /\ Other(o) = p /\ o # p
  BY Two DEF IInv
<1>3. Send(menus, p, choice[p]) = IF connected[p] /\ Running(o)
                                  THEN [menus EXCEPT ![o] = Append(menus[o], choice[p])] ELSE menus
  BY DEF Send
<1>. HIDE DEF o, sends
<1>4. ASSUME sends PROVE choice[p] \in Choices /\ Append(menus[o], choice[p]) \in Seq(Choices)
  <2>1. choice[p] \in Choices /\ menus[o] \in Seq(Choices)
    BY <1>2, <1>4 DEF Types, sends
  <2>. QED BY <2>1, AppendIs
<1>5. menus' \in [Peers -> Seq(Choices)]
  <2>1. menus \in [Peers -> Seq(Choices)]
    BY <1>2 DEF Types
  <2>2. CASE sends
    <3>1. menus' = menus \/ menus' = [menus EXCEPT ![o] = Append(menus[o], choice[p])]
      BY <1>1, <1>3, <2>2
    <3>. QED BY <1>4, <2>1, <2>2, <3>1
  <2>3. CASE ~ sends
    BY <1>1, <2>1, <2>3
  <2>. QED BY <2>2, <2>3
<1>6. Types'
  <2>1. menuSent' \in [Peers -> BOOLEAN] /\ pc' \in [Peers -> {"callback", "input", "gate", "stopped"}]
    BY <1>1, <1>2 DEF Types
  <2>. QED BY <1>1, <1>2, <1>5, <2>1 DEF Types
<1>7. Fits' /\ KnownIsReached' /\ PassedIsReached'
  BY <1>1, GatesKept DEF IInv
<1>8. \A q \in Peers : /\ (Running(q))' <=> Running(q)
                       /\ pc'[q] = "callback" => pc[q] = "callback"
  BY <1>1, <1>2 DEF Running, Types
<1>9. Running(p)
  BY <1>1 DEF Running
<1>10. ASSUME NEW sc, Scripted(sc) PROVE RngInv(sc)'
  <2>1. ~ shouldSync[p] /\ (p # Host => pc'[Host] = pc[Host])
    BY <1>1, <1>2, <1>9, <1>10, Two DEF Scripted, RngInv, AsksOnce, Synced, Types
  <2>. QED BY <1>1, <1>8, <1>10, <2>1, RngKept DEF Scripted
<1>11. ASSUME NEW sc \in Scripts, NEW n \in 0 .. MaxIndex, Furthest(n), IsScript(sc, n), Scripted(sc)
       PROVE  MenuInv(sc)'
  <2>1. CASE ~ sends
    <3>1. menuSent' = menuSent
      BY <1>1, <1>2, <2>1 DEF Types, sends
    <3>. QED BY <1>1, <1>8, <1>11, <2>1, <3>1, MenuKept DEF Scripted
  <2>2. CASE sends
    <3>1. /\ menuSent'[p] /\ choice[p] # None /\ ~ menuSent[p] /\ connected[p]
          /\ menuSent'[o] = menuSent[o] /\ menus'[p] = menus[p]
          /\ Running(o) => menus'[o] = Append(menus[o], choice[p])
      BY <1>1, <1>2, <1>3, <2>2 DEF Types, sends
    <3>2. (Pending(p))' = Pending(p)
      BY <1>1, <3>1 DEF Pending
    <3>3. ASSUME NEW m, HasChosen(p, m) PROVE (HasChosen(p, m))'
      BY <1>1, <3>1, <3>3, <1>8 DEF HasChosen
    <3>4. \A m : (HasChosen(o, m))' <=> HasChosen(o, m)
      BY <1>1, <1>2, <1>8, <3>1 DEF HasChosen
    <3>5. (/\ OfThisMatch(sc, p) /\ AtMostOne(p) /\ BothChose(sc, p)
           /\ IsOpponents(p) /\ ChoiceKept(p) /\ WillFollow(sc, p))'
      <4>1. /\ OfThisMatch(sc, p) /\ AtMostOne(p) /\ BothChose(sc, p)
            /\ IsOpponents(p) /\ ChoiceKept(p) /\ WillFollow(sc, p)
        BY <1>9, <1>11 DEF Scripted, MenuInv
      <4>2. (OfThisMatch(sc, p))' /\ (AtMostOne(p))' /\ (BothChose(sc, p))'
        BY <1>1, <1>2, <1>8, <3>1, <3>2, <3>4, <4>1 DEF OfThisMatch, AtMostOne, BothChose, o
      <4>3. (IsOpponents(p))' /\ (WillFollow(sc, p))'
        BY <1>1, <1>2, <1>8, <3>1, <3>2, <4>1 DEF IsOpponents, WillFollow, o
      <4>4. (ChoiceKept(p))'
        BY <1>1, <3>1, <4>1 DEF ChoiceKept, RetryTarget
      <4>. QED BY <4>2, <4>3, <4>4
    <3>6. ASSUME (Running(o))'
          PROVE  (/\ OfThisMatch(sc, o) /\ AtMostOne(o) /\ BothChose(sc, o)
                  /\ IsOpponents(o) /\ ChoiceKept(o) /\ WillFollow(sc, o))'
      <4>1. Running(o)
        BY <1>2, <1>8, <3>6
      <4>2. /\ Pending(o) = {} /\ heard[o] = None /\ menus[o] = << >>
            /\ IsMenu(sc, index[p]) /\ sc[index[p]].gm = sc[index[o]].gm
            /\ state[o] = "RetryMenu" => index[p] <= index[o]
        BY <1>1, <1>2, <1>9, <1>11, <3>1, <4>1, NothingPending DEF o
      <4>3. menus'[o] = << choice[p] >> /\ heard'[o] = None /\ choice[p] \in Choices
        BY <1>1, <1>4, <2>2, <3>1, <4>1, <4>2
      <4>4. (Pending(o))' = {choice[p]}
        BY <4>3 DEF Pending, Choices, None
      <4>5. /\ OfThisMatch(sc, o) /\ AtMostOne(o) /\ BothChose(sc, o)
            /\ IsOpponents(o) /\ ChoiceKept(o) /\ WillFollow(sc, o)
        BY <1>2, <1>11, <4>1 DEF Scripted, MenuInv
      <4>6. (OfThisMatch(sc, o))'
        <5>1. (HasChosen(p, index[p]))' /\ index'[p] = index[p] /\ index'[o] = index[o]
          BY <1>1, <3>1 DEF HasChosen
        <5>2. index[p] \in 0 .. index[p]
          BY <1>2, Bounds DEF Types
        <5>. QED BY <1>2, <4>2, <5>1, <5>2 DEF OfThisMatch
      <4>7. (AtMostOne(o))'
        BY <4>3 DEF AtMostOne
      <4>8. (BothChose(sc, o))'
        BY <1>1, <1>2, <1>8, <3>3, <4>5 DEF BothChose
      <4>9. (IsOpponents(o))'
        BY <1>1, <1>2, <3>1, <4>4 DEF IsOpponents
      <4>10. (ChoiceKept(o))'
        BY <1>1, <3>1, <4>5 DEF ChoiceKept, RetryTarget
      <4>11. (WillFollow(sc, o))'
        <5>1. index[p] \in Nat /\ index[o] \in Nat
          BY <1>2, Bounds DEF Types
        <5>. QED BY <1>1, <1>2, <4>2, <5>1 DEF WillFollow
      <4>. QED BY <4>6, <4>7, <4>8, <4>9, <4>10, <4>11
    <3>7. \A q \in Peers : q = p \/ q = o
      BY Two DEF o
    <3>. QED BY <3>5, <3>6, <3>7 DEF MenuInv
  <2>. QED BY <2>1, <2>2
<1>. QED BY <1>1, <1>6, <1>7, <1>10, <1>11, StaysPut

LEMMA SendInputsPreserves ==
  ASSUME IInv, NEW p \in Peers, SendInputs(p)
  PROVE  IInv'
<1>. DEFINE i == index[p]
            end == frame[p] + Delay + 1
            takes == p = Host /\ shouldSync[p]
            list == rngStates[p]
            new == SetRng(list, i - startIndex[p] + 1, i)
<1>1. /\ pc[p] = "input" /\ pc' = [pc EXCEPT ![p] = "gate"]
      /\ sentEnd' = sentEnd \/ (/\ state[p] \in Gated
                             /\ sentEnd' = [sentEnd EXCEPT ![p] = [sentEnd[p] EXCEPT ![i] = end]])
      /\ takes => /\ rngStates' = [rngStates EXCEPT ![p] = new]
                  /\ seed' = [seed EXCEPT ![p] = i] /\ rngs' = Send(rngs, p, i)
      /\ ~ takes => UNCHANGED << rngStates, seed, rngs >>
      /\ UNCHANGED << index, state, round, route, frame, startIndex, remote, choice, heard, target,
                      menuSent, lazy, shouldSync, connected, announced, menus >>
  BY DEF SendInputs, fsm, menu
<1>2. /\ Types /\ i \in 0 .. MaxIndex /\ i \in Nat /\ list \in Seq(0 .. MaxIndex \cup {None})
      /\ startIndex[p] \in Nat /\ startIndex[p] <= i
  <2>1. Types /\ i \in 0 .. MaxIndex /\ list \in Seq(0 .. MaxIndex \cup {None}) /\ startIndex[p] \in Nat
    BY DEF IInv, Types
  <2>2. startIndex[p] <= i
    BY DEF IInv, Fits
  <2>. QED BY <2>1, <2>2, Bounds
<1>3. end \in Ends
  <2>1. frame[p] \in Nat /\ frame[p] <= Lasts(state[p]) /\ state[p] \in States
    BY DEF IInv, Types, Fits
  <2>2. Lasts(state[p]) \in Nat /\ Lasts(state[p]) + Delay + 1 \in Ends
    BY <2>1, LastsAre
  <2>3. end \in 0 .. Lasts(state[p]) + Delay + 1
    BY <2>1, <2>2, Bounds
  <2>. QED BY <2>2, <2>3, EndsAre
<1>4. i - startIndex[p] + 1 \in Nat \ {0}
  BY <1>2
<1>5. Writes(list, i - startIndex[p] + 1, i, new)
  BY <1>2, <1>4, SetRngIs
<1>6. takes => rngs' = rngs \/ rngs' = [rngs EXCEPT ![Client] = Append(rngs[Client], i)]
  BY <1>1, Two DEF Send
<1>. HIDE DEF end, new
<1>7. Append(rngs[Client], i) \in Seq(0 .. MaxIndex)
  <2>1. rngs[Client] \in Seq(0 .. MaxIndex)
    BY Two DEF IInv, Types
  <2>. QED BY <1>2, <2>1, AppendIs
<1>8. Types'
  <2>1. sentEnd' \in [Peers -> [0 .. MaxIndex -> Ends]]
    <3>1. sentEnd \in [Peers -> [0 .. MaxIndex -> Ends]]
      BY <1>2 DEF Types
    <3>. HIDE DEF i, takes
    <3>2. [sentEnd[p] EXCEPT ![i] = end] \in [0 .. MaxIndex -> Ends]
      BY <1>2, <1>3, <3>1
    <3>. QED BY <1>1, <3>1, <3>2
  <2>2. /\ rngStates' \in [Peers -> Seq(0 .. MaxIndex \cup {None})]
        /\ seed' \in [Peers -> 0 .. MaxIndex \cup {None}] /\ rngs' \in [Peers -> Seq(0 .. MaxIndex)]
    <3>1. new \in Seq(0 .. MaxIndex \cup {None}) /\ i \in 0 .. MaxIndex \cup {None}
      BY <1>2, <1>5 DEF Writes
    <3>2. /\ rngStates \in [Peers -> Seq(0 .. MaxIndex \cup {None})]
          /\ seed \in [Peers -> 0 .. MaxIndex \cup {None}] /\ rngs \in [Peers -> Seq(0 .. MaxIndex)]
      BY <1>2 DEF Types
    <3>. HIDE DEF i, takes, list
    <3>. QED BY <1>1, <1>6, <1>7, <3>1, <3>2
  <2>3. pc' \in [Peers -> {"callback", "input", "gate", "stopped"}]
    BY <1>1, <1>2 DEF Types
  <2>. QED BY <1>1, <1>2, <2>1, <2>2, <2>3 DEF Types
<1>9. Fits' /\ PassedIsReached'
  BY <1>1 DEF IInv, Fits, PassedIsReached
<1>10. KnownIsReached'
  <2>1. \A q \in Peers : \A j \in 0 .. MaxIndex :
          sentEnd'[q][j] = sentEnd[q][j] \/ (q = p /\ j = index[p])
    <3>1. sentEnd \in [Peers -> [0 .. MaxIndex -> Ends]]
      BY <1>2 DEF Types
    <3>. DEFINE row == [sentEnd[p] EXCEPT ![i] = end]
    <3>2. \A j \in 0 .. MaxIndex : row[j] = sentEnd[p][j] \/ j = index[p]
      BY <1>2, <3>1
    <3>3. sentEnd' = sentEnd \/ sentEnd' = [sentEnd EXCEPT ![p] = row]
      BY <1>1
    <3>. HIDE DEF row
    <3>. QED BY <3>1, <3>2, <3>3
  <2>2. ASSUME NEW q \in Peers, NEW j \in 0 .. MaxIndex, sentEnd'[q][j] > 0 PROVE j <= index[q]
    BY <1>2, <2>1, <2>2 DEF IInv, KnownIsReached
  <2>. QED BY <1>1, <2>2 DEF IInv, KnownIsReached, RemoteIndex
<1>11. \A q \in Peers : /\ (Running(q))' <=> Running(q)
                        /\ pc'[q] = "callback" => pc[q] = "callback"
  BY <1>1, <1>2 DEF Running, Types
<1>12. ASSUME NEW sc, Scripted(sc) PROVE MenuInv(sc)'
  BY <1>1, <1>11, <1>12, MenuKept DEF Scripted
<1>13. ASSUME NEW sc, Scripted(sc) PROVE RngInv(sc)'
  <2>1. CASE ~ takes
    <3>1. pc'[Host] = pc[Host] \/ ~ shouldSync[Host]
      BY <1>1, <1>2, <2>1, Two DEF Types
    <3>. QED BY <1>1, <1>11, <1>13, <2>1, <3>1, RngKept DEF Scripted
  <2>2. CASE takes
    <3>1. /\ p = Host /\ shouldSync[Host] /\ pc[Host] = "input" /\ pc'[Host] = "gate"
          /\ rngStates' = [rngStates EXCEPT ![Host] = new] /\ seed' = [seed EXCEPT ![Host] = i]
          /\ rngs' = Send(rngs, Host, i) /\ index[Host] = i
      BY <1>1, <1>2, <2>2 DEF Types
    <3>2. rngStates'[Host] = new /\ seed'[Host] = i /\ rngStates'[Client] = rngStates[Client]
          /\ rngs'[Host] = rngs[Host] /\ seed'[Client] = seed[Client]
      <4>1. /\ rngStates \in [Peers -> Seq(0 .. MaxIndex \cup {None})]
            /\ seed \in [Peers -> 0 .. MaxIndex \cup {None}] /\ rngs \in [Peers -> Seq(0 .. MaxIndex)]
        BY <1>2 DEF Types
      <4>2. rngs'[Host] = rngs[Host]
        BY <1>6, <2>2, <4>1, Two
      <4>3. /\ rngStates'[Host] = new /\ seed'[Host] = i
            /\ rngStates'[Client] = rngStates[Client] /\ seed'[Client] = seed[Client]
        BY <3>1, <4>1, Two
      <4>. QED BY <4>2, <4>3
    <3>3. \A j : /\ Snapped(j) => (Snapped(j))'
                 /\ Snapped(j) => j < i
      BY <1>1, <3>1 DEF Snapped
    <3>4. (Snapped(i))'
      BY <1>1, <3>1 DEF Snapped
    <3>5. AsksOnce'
      BY <1>1, <1>11, <1>13 DEF Scripted, RngInv, AsksOnce
    <3>6. HostHolds'
      <4>1. startIndex[Host] = 0 /\ rngs[Host] = << >>
        BY <1>13 DEF Scripted, RngInv, HostHolds
      <4>2. /\ i - startIndex[p] + 1 = i - startIndex'[Host] + 1 /\ index'[Host] = i
            /\ i - startIndex[p] + 1 \in DOMAIN new /\ new[i - startIndex[p] + 1] = i
        BY <1>1, <1>5, <3>1 DEF Writes
      <4>3. DOMAIN new = 1 .. Len(new) /\ Len(new) \in Nat
        BY <1>5, LenProperties DEF Writes
      <4>4. (RngOf(Host))' = i
        BY <1>4, <3>2, <4>2, <4>3 DEF RngOf
      <4>5. i # None
        BY <1>2 DEF None
      <4>. QED BY <1>1, <3>1, <3>2, <4>1, <4>4, <4>5 DEF HostHolds
    <3>7. rngs'[Client] = rngs[Client] \/ rngs'[Client] = Append(rngs[Client], i)
      BY <1>2, <1>6, <2>2, Two DEF Types
    <3>8. /\ DOMAIN Append(rngs[Client], i) = 1 .. Len(rngs[Client]) + 1 /\ Len(rngs[Client]) \in Nat
          /\ DOMAIN rngs[Client] = 1 .. Len(rngs[Client])
          /\ Append(rngs[Client], i)[Len(rngs[Client]) + 1] = i
          /\ \A n \in DOMAIN rngs[Client] : Append(rngs[Client], i)[n] = rngs[Client][n]
                                            /\ n \in DOMAIN Append(rngs[Client], i)
      <4>1. rngs[Client] \in Seq(0 .. MaxIndex)
        BY <1>2, Two DEF Types
      <4>. QED BY <1>2, <4>1, AppendIs
    <3>9. \A j : Queued(j) => (Queued(j))'
      BY <3>7, <3>8 DEF Queued
    <3>10. \A j : Held(j) => (Held(j))'
      BY <1>1, <3>2 DEF Held, IndexOf
    <3>11. InOrder'
      <4>1. \A k \in DOMAIN rngStates[Client] :
              /\ rngStates[Client][k] \in {None, IndexOf(Client, k)}
              /\ rngStates[Client][k] = None => k + 1 \in DOMAIN rngStates[Client]
              /\ Snapped(IndexOf(Client, k))
        BY <1>13 DEF Scripted, RngInv, InOrder
      <4>2. \A n \in DOMAIN rngs[Client] :
              /\ Snapped(rngs[Client][n])
              /\ \A k \in DOMAIN rngStates[Client] : IndexOf(Client, k) < rngs[Client][n]
              /\ \A m \in DOMAIN rngs[Client] : m < n => rngs[Client][m] < rngs[Client][n]
        BY <1>13 DEF Scripted, RngInv, InOrder
      <4>3. \A k : (IndexOf(Client, k))' = IndexOf(Client, k)
        BY <1>1 DEF IndexOf
      <4>4. CASE rngs'[Client] = rngs[Client]
        BY <3>2, <3>3, <4>1, <4>2, <4>3, <4>4 DEF InOrder
      <4>5. CASE rngs'[Client] = Append(rngs[Client], i)
        <5>1. \A n \in DOMAIN rngs'[Client] :
                \/ n \in DOMAIN rngs[Client] /\ rngs'[Client][n] = rngs[Client][n]
                \/ n = Len(rngs[Client]) + 1 /\ rngs'[Client][n] = i
          BY <3>8, <4>5
        <5>2. \A n \in DOMAIN rngs'[Client] :
                \/ rngs'[Client][n] < index'[Host]
                \/ rngs'[Client][n] = index'[Host] /\ pc'[Host] # "input"
          BY <1>1, <3>1, <3>3, <4>2, <5>1
        <5>3. \A n \in DOMAIN rngs'[Client] : \A k \in DOMAIN rngStates[Client] :
                IndexOf(Client, k) < rngs'[Client][n]
          BY <3>3, <4>1, <4>2, <5>1
        <5>4. ASSUME NEW n \in DOMAIN rngs'[Client], NEW m \in DOMAIN rngs'[Client], m < n
              PROVE  rngs'[Client][m] < rngs'[Client][n]
          <6>1. m \in DOMAIN rngs[Client] /\ rngs'[Client][m] = rngs[Client][m]
            BY <3>8, <5>1, <5>4
          <6>2. rngs[Client][m] < i
            BY <3>3, <4>2, <6>1
          <6>. QED BY <4>2, <5>1, <5>4, <6>1, <6>2
        <5>. QED BY <3>2, <3>3, <4>1, <4>3, <5>2, <5>3, <5>4 DEF InOrder, Snapped
      <4>. QED BY <3>7, <4>4, <4>5
    <3>12. (NoneIsLost(sc))'
      <4>1. SUFFICES ASSUME (Running(Client))', NEW j \in startIndex'[Client] .. index'[Host],
                            sc[j].st \in Synced,
                            \/ j < index'[Host]
                            \/ connected'[Host] /\ (pc'[Host] = "gate" \/ ~ shouldSync'[Host])
                     PROVE  (Queued(j))' \/ (Held(j))'
        BY DEF NoneIsLost
      <4>2. Running(Client)
        BY <1>11, <4>1, Two
      <4>3. CASE j < index[Host]
        <5>1. Queued(j) \/ Held(j)
          BY <1>1, <1>13, <4>1, <4>2, <4>3 DEF Scripted, RngInv, NoneIsLost
        <5>. QED BY <3>9, <3>10, <5>1
      <4>4. CASE ~ j < index[Host]
        <5>1. j = i /\ connected[Host]
          BY <1>1, <1>2, <3>1, <4>1, <4>4
        <5>2. rngs'[Client] = Append(rngs[Client], i)
          BY <1>2, <3>1, <4>2, <5>1, Two DEF Send, Types
        <5>. QED BY <3>8, <5>1, <5>2 DEF Queued
      <4>. QED BY <4>3, <4>4
    <3>13. RngAgreed'
      BY <1>1, <1>13, <3>1, <3>2, Two DEF Scripted, RngInv, RngAgreed
    <3>. QED BY <3>5, <3>6, <3>11, <3>12, <3>13 DEF RngInv
  <2>. QED BY <2>1, <2>2
<1>. QED BY <1>1, <1>8, <1>9, <1>10, <1>12, <1>13, StaysPut

-----------------------------------------------------------------------------
(* The gate opens *)

(* The generator state is there when the client's gate opens, though the gate looks at the length only. *)
LEMMA RngIsThere ==
  ASSUME IInv, NEW sc, Scripted(sc), Running(Client), shouldSync[Client], RngReady(Client)
  PROVE  RngOf(Client) = index[Client]
<1>. DEFINE list == rngStates[Client]
            k == index[Client] - startIndex[Client] + 1
            j == index[Client]
<1>1. /\ index[Client] \in Nat /\ index[Host] \in Nat /\ startIndex[Client] \in Nat
      /\ startIndex[Client] <= index[Client] /\ list \in Seq(0 .. MaxIndex \cup {None})
  <2>1. /\ index[Client] \in 0 .. MaxIndex /\ index[Host] \in 0 .. MaxIndex /\ startIndex[Client] \in Nat
        /\ list \in Seq(0 .. MaxIndex \cup {None})
    BY Two DEF IInv, Types
  <2>2. startIndex[Client] <= index[Client]
    BY Two DEF IInv, Fits
  <2>. QED BY <2>1, <2>2, Bounds
<1>2. state[Client] \in Synced /\ sc[j].st = state[Client]
  BY Two DEF Scripted, RngInv, AsksOnce, Follows
<1>3. startIndex[Client] + Len(list) - 1 >= j
  BY <1>2, Two DEF RngReady, Synced
<1>4. Len(list) \in Nat /\ DOMAIN list = 1 .. Len(list)
  BY <1>1, LenProperties
<1>5. k \in DOMAIN list /\ IndexOf(Client, k) = j /\ k <= Len(list) /\ k \in Nat
  BY <1>1, <1>3, <1>4, Z3 DEF IndexOf
<1>6. RngOf(Client) = list[k]
  BY <1>5 DEF RngOf
<1>. HIDE DEF list, k
<1>7. list[k] # None
  <2>1. SUFFICES ASSUME list[k] = None PROVE FALSE
    OBVIOUS
  <2>2. k + 1 \in DOMAIN list /\ Snapped(IndexOf(Client, k + 1))
    BY <1>5, <2>1 DEF Scripted, RngInv, InOrder, list
  <2>3. j < index[Host] /\ j \in startIndex[Client] .. index[Host]
    BY <1>1, <1>5, <2>2 DEF Snapped, IndexOf
  <2>4. Queued(j) \/ Held(j)
    BY <1>2, <2>3 DEF Scripted, RngInv, NoneIsLost
  <2>5. ~ Queued(j)
    <3>1. ASSUME NEW n \in DOMAIN rngs[Client] PROVE j < rngs[Client][n]
      BY <1>5 DEF Scripted, RngInv, InOrder, list
    <3>. QED BY <1>1, <3>1 DEF Queued
  <2>6. ASSUME NEW m \in DOMAIN list, IndexOf(Client, m) = j PROVE m = k
    BY <1>1, <1>4, <1>5, <2>6 DEF IndexOf
  <2>7. j # None
    BY <1>1 DEF None
  <2>. QED BY <2>1, <2>4, <2>5, <2>6, <2>7 DEF Held, list
<1>8. list[k] \in {None, j}
  BY <1>5 DEF Scripted, RngInv, InOrder, list
<1>. QED BY <1>6, <1>7, <1>8

LEMMA PassKeepsMenu ==
  ASSUME IInv, NEW p \in Peers, Pass(p), NEW sc, Scripted(sc)
  PROVE  MenuInv(sc)'
<1>1. /\ pc[p] = "gate" /\ pc' = [pc EXCEPT ![p] = "callback"]
      /\ UNCHANGED << index, state, heard, menuSent, menus >>
  BY DEF Pass, net
<1>2. Types
  BY DEF IInv
<1>3. \A q \in Peers : ((Running(q))' <=> Running(q)) /\ Running(p)
  BY <1>1, <1>2 DEF Running, Types
<1>4. /\ \/ UNCHANGED << choice, target >>
         \/ /\ state[p] = "RetryMenu" /\ target[p] = None /\ choice[p] # None /\ choice' = choice
            /\ target' = [target EXCEPT ![p] = IF heard[p] # None THEN RetryTarget(p) ELSE None]
         \/ /\ state[p] = "RetryMenu" /\ target[p] = None /\ choice[p] = None /\ target' = target
            /\ \E c : choice' = [choice EXCEPT ![p] = c]
  BY DEF Pass, RetryMenuInput
<1>5. /\ \A q \in Peers : q # p => choice'[q] = choice[q] /\ target'[q] = target[q]
      /\ choice[p] # None => choice'[p] = choice[p]
      /\ \/ choice'[p] = choice[p] /\ target'[p] = target[p]
         \/ /\ choice'[p] = choice[p] /\ choice[p] # None /\ state[p] = "RetryMenu"
            /\ target'[p] = IF heard[p] # None THEN RetryTarget(p) ELSE None
         \/ choice[p] = None /\ target'[p] = None
  BY <1>2, <1>4 DEF Types
<1>6. ASSUME NEW q \in Peers, (Running(q))'
      PROVE  (/\ OfThisMatch(sc, q) /\ AtMostOne(q) /\ BothChose(sc, q)
              /\ IsOpponents(q) /\ ChoiceKept(q) /\ WillFollow(sc, q))'
  <2>1. /\ OfThisMatch(sc, q) /\ AtMostOne(q) /\ BothChose(sc, q)
        /\ IsOpponents(q) /\ ChoiceKept(q) /\ WillFollow(sc, q)
    BY <1>3, <1>6 DEF Scripted, MenuInv
  <2>2. /\ (Running(Other(q)))' <=> Running(Other(q))
        /\ (Pending(q))' = Pending(q)
        /\ \A m : (HasChosen(Other(q), m))' <=> HasChosen(Other(q), m)
    BY <1>1, <1>3, Two DEF Pending, HasChosen
  <2>3. (OfThisMatch(sc, q))' /\ (AtMostOne(q))' /\ (BothChose(sc, q))'
    BY <1>1, <2>1, <2>2 DEF OfThisMatch, AtMostOne, BothChose
  <2>4. (IsOpponents(q))'
    <3>1. \A c \in Choices : choice[Other(q)] = c => choice'[Other(q)] = c
      BY <1>5, Two DEF Choices, None
    <3>2. Pending(q) \subseteq Choices
      BY DEF Pending
    <3>. QED BY <1>1, <2>1, <2>2, <3>1, <3>2 DEF IsOpponents
  <2>5. (ChoiceKept(q))'
    <3>1. (RetryTarget(q))' = RetryTarget(q) \/ (q = p /\ choice[p] = None)
      BY <1>1, <1>5 DEF RetryTarget
    <3>. QED BY <1>1, <1>5, <2>1, <3>1 DEF ChoiceKept
  <2>6. (WillFollow(sc, q))'
    BY <1>1, <1>5, <2>1, <2>2 DEF WillFollow
  <2>. QED BY <2>3, <2>4, <2>5, <2>6
<1>. QED BY <1>6 DEF MenuInv

LEMMA PassKeepsRng ==
  ASSUME IInv, NEW p \in Peers, Pass(p), NEW sc, Scripted(sc)
  PROVE  RngInv(sc)'
<1>. DEFINE apply == shouldSync[p] /\ RngOf(p) # None
            moved == IF frame[p] < Lasts(state[p]) THEN frame[p] + 1 ELSE frame[p]
<1>1. /\ pc[p] = "gate" /\ pc' = [pc EXCEPT ![p] = "callback"] /\ RngReady(p)
      /\ shouldSync' = [shouldSync EXCEPT ![p] = shouldSync[p] /\ ~ apply]
      /\ seed' = [seed EXCEPT ![p] = IF state[p] \notin Synced THEN None
                                     ELSE IF apply /\ p = Client THEN RngOf(p) ELSE seed[p]]
      /\ frame' = [frame EXCEPT ![p] = moved]
      /\ UNCHANGED << index, state, startIndex, rngStates, connected, rngs >>
  BY DEF Pass, ApplyRng, Ready, net, IInv, Types
<1>2. Types
  BY DEF IInv
<1>3. \A q \in Peers : ((Running(q))' <=> Running(q)) /\ Running(p)
  BY <1>1, <1>2 DEF Running, Types
<1>4. moved \in Nat /\ moved > 0
  <2>1. frame[p] \in Nat /\ state[p] \in States
    BY <1>2 DEF Types
  <2>2. Lasts(state[p]) \in Nat \ {0} /\ frame[p] <= Lasts(state[p])
    BY <2>1, LastsAre DEF IInv, Fits
  <2>. QED BY <2>1, <2>2
<1>5. shouldSync[p] => /\ state[p] \in Synced /\ RngOf(p) # None
                       /\ p = Client => RngOf(p) = index[p]
                       /\ p = Host => seed[p] = index[p]
  <2>1. shouldSync[p] => state[p] \in Synced
    BY <1>3 DEF Scripted, RngInv, AsksOnce
  <2>2. p = Host => (shouldSync[p] => seed[p] = index[p] /\ RngOf(p) # None)
    BY <1>1 DEF Scripted, RngInv, HostHolds
  <2>3. p = Client => (shouldSync[p] => RngOf(p) = index[p])
    BY <1>1, <1>3, RngIsThere
  <2>4. index[p] # None
    BY <1>2, Bounds DEF Types, None
  <2>. QED BY <2>1, <2>2, <2>3, <2>4, Two
<1>. HIDE DEF moved
<1>6. ~ shouldSync'[p] /\ frame'[p] > 0 /\ \A q \in Peers : q # p => shouldSync'[q] = shouldSync[q]
                                              /\ frame'[q] = frame[q] /\ seed'[q] = seed[q] /\ pc'[q] = pc[q]
  BY <1>1, <1>2, <1>4, <1>5 DEF Types
<1>7. AsksOnce'
  <2>1. ASSUME NEW q \in Peers, (Running(q))'
        PROVE  /\ shouldSync'[q] <=> state'[q] \in Synced /\ frame'[q] = 0
               /\ pc'[q] = "callback" => ~ shouldSync'[q]
    BY <1>1, <1>3, <1>6, <2>1 DEF Scripted, RngInv, AsksOnce
  <2>. QED BY <2>1 DEF AsksOnce
<1>8. HostHolds'
  <2>1. pc'[Host] = "gate" => p # Host
    BY <1>1, <1>2 DEF Types
  <2>. QED BY <1>1, <1>6, <2>1, Two DEF Scripted, RngInv, HostHolds, RngOf
<1>9. \A j : /\ Snapped(j) => (Snapped(j))'
             /\ (Queued(j))' <=> Queued(j)
             /\ (Held(j))' <=> Held(j)
  BY <1>1, <1>2, <1>6, Two DEF Snapped, Queued, Held, IndexOf, Types
<1>10. InOrder'
  BY <1>1, <1>9 DEF Scripted, RngInv, InOrder, IndexOf
<1>11. (NoneIsLost(sc))'
  <2>1. SUFFICES ASSUME (Running(Client))', NEW j \in startIndex'[Client] .. index'[Host],
                        sc[j].st \in Synced,
                        \/ j < index'[Host]
                        \/ connected'[Host] /\ (pc'[Host] = "gate" \/ ~ shouldSync'[Host])
                 PROVE  (Queued(j))' \/ (Held(j))'
    BY DEF NoneIsLost
  <2>2. Running(Client)
    BY <1>3, <2>1, Two
  <2>3. \/ j < index[Host]
        \/ connected[Host] /\ (pc[Host] = "gate" \/ ~ shouldSync[Host])
    BY <1>1, <1>6, <2>1, Two
  <2>4. Queued(j) \/ Held(j)
    BY <1>1, <2>1, <2>2, <2>3 DEF Scripted, RngInv, NoneIsLost
  <2>. QED BY <1>9, <2>4
<1>12. RngAgreed'
  <2>1. ASSUME state[p] \in Synced PROVE seed'[p] = index[p]
    <3>1. ASSUME ~ shouldSync[p] PROVE seed[p] = index[p]
      <4>1. frame[p] > 0
        BY <1>2, <1>3, <2>1, <3>1 DEF Scripted, RngInv, AsksOnce, Types
      <4>. QED BY <2>1, <4>1 DEF Scripted, RngInv, RngAgreed
    <3>. QED
      <4>1. seed \in [Peers -> 0 .. MaxIndex \cup {None}]
        BY <1>2 DEF Types
      <4>2. seed'[p] = IF apply /\ p = Client THEN RngOf(p) ELSE seed[p]
        BY <1>1, <2>1, <4>1
      <4>3. p # Client => p = Host
        BY Two
      <4>. QED BY <1>5, <3>1, <4>2, <4>3
  <2>. QED BY <1>1, <1>6, <2>1 DEF Scripted, RngInv, RngAgreed
<1>. QED BY <1>7, <1>8, <1>10, <1>11, <1>12 DEF RngInv

LEMMA PassPreserves ==
  ASSUME IInv, NEW p \in Peers, Pass(p)
  PROVE  IInv'
<1>. DEFINE moved == IF frame[p] < Lasts(state[p]) THEN frame[p] + 1 ELSE frame[p]
<1>1. /\ UNCHANGED << index, state, round, route, startIndex, remote, sentEnd, heard, menuSent, lazy,
                      rngStates, connected, announced, menus, rngs >>
      /\ frame' = [frame EXCEPT ![p] = moved] /\ InputsReady(p)
      /\ pc' = [pc EXCEPT ![p] = "callback"]
  BY DEF Pass, net, Ready, IInv, Types
<1>2. Types
  BY DEF IInv
<1>3. /\ frame[p] \in Nat /\ state[p] \in States /\ index[p] \in Nat /\ index[Other(p)] \in Nat
      /\ Lasts(state[p]) \in Nat /\ frame[p] <= Lasts(state[p]) /\ startIndex[p] \in Nat
      /\ Len(remote[p]) \in Nat
  <2>1. /\ frame[p] \in Nat /\ state[p] \in States /\ index[p] \in 0 .. MaxIndex
        /\ index[Other(p)] \in 0 .. MaxIndex /\ startIndex[p] \in Nat /\ remote[p] \in Seq(Ends)
    BY <1>2, Two DEF Types
  <2>. QED BY <2>1, LastsAre, Bounds, LenProperties DEF IInv, Fits
<1>4. moved \in Nat /\ moved <= Lasts(state[p])
  BY <1>3
<1>. HIDE DEF moved
<1>5. Types'
  <2>1. /\ frame' \in [Peers -> Nat] /\ pc' \in [Peers -> {"callback", "input", "gate", "stopped"}]
    BY <1>1, <1>2, <1>4 DEF Types
  <2>2. shouldSync' \in [Peers -> BOOLEAN]
    <3>1. \E b \in BOOLEAN : shouldSync' = [shouldSync EXCEPT ![p] = b]
      BY <1>2 DEF Pass, ApplyRng, Types
    <3>. QED BY <1>2, <3>1 DEF Types
  <2>3. seed' \in [Peers -> 0 .. MaxIndex \cup {None}]
    <3>1. RngOf(p) \in 0 .. MaxIndex \cup {None}
      <4>1. rngStates[p] \in Seq(0 .. MaxIndex \cup {None}) /\ startIndex[p] <= index[p]
        BY <1>2 DEF Types, IInv, Fits
      <4>2. index[p] - startIndex[p] + 1 \in Nat \ {0}
        BY <1>3, <4>1
      <4>. QED BY <4>1, <4>2, ElementOfSeq, LenProperties DEF RngOf
    <3>2. \E v \in 0 .. MaxIndex \cup {None} : seed' = [seed EXCEPT ![p] = v]
      BY <1>2, <3>1 DEF Pass, ApplyRng, Types
    <3>. QED BY <1>2, <3>2 DEF Types
  <2>4. /\ choice' \in [Peers -> Choices \cup {None}] /\ target' \in [Peers -> Choices \cup {None}]
    <3>1. RetryTarget(p) \in Choices \/ heard[p] = None
      BY <1>2 DEF RetryTarget, Types, Choices, None
    <3>2. \/ choice' = choice
          \/ \E c \in Choices \cup {None} : choice' = [choice EXCEPT ![p] = c]
      BY DEF Pass, RetryMenuInput
    <3>3. \/ target' = target
          \/ \E c \in Choices \cup {None} : target' = [target EXCEPT ![p] = c]
      BY <3>1 DEF Pass, RetryMenuInput
    <3>4. choice \in [Peers -> Choices \cup {None}] /\ target \in [Peers -> Choices \cup {None}]
      BY <1>2 DEF Types
    <3>. QED BY <3>2, <3>3, <3>4
  <2>. QED BY <1>1, <1>2, <2>1, <2>2, <2>3, <2>4 DEF Types
<1>6. Fits'
  BY <1>1, <1>2, <1>4 DEF IInv, Fits, Types
<1>7. KnownIsReached'
  BY <1>1 DEF IInv, KnownIsReached, RemoteIndex
<1>8. PassedIsReached'
  <2>1. ASSUME state[p] \in Gated PROVE index[p] <= index[Other(p)]
    <3>1. remote[p] # << >> /\ RemoteIndex(p) >= index[p]
      BY <1>1, <1>3, <2>1 DEF InputsReady, RemoteIndex
    <3>2. RemoteIndex(p) <= index[Other(p)] /\ RemoteIndex(p) \in Int
      BY <1>3, <3>1 DEF IInv, KnownIsReached, RemoteIndex
    <3>. QED BY <1>3, <3>1, <3>2
  <2>2. ASSUME NEW q \in Peers, q # p PROVE frame'[q] = frame[q]
    BY <1>1, <1>2, <2>2 DEF Types
  <2>. QED BY <1>1, <2>1, <2>2 DEF IInv, PassedIsReached
<1>. QED BY <1>1, <1>5, <1>6, <1>7, <1>8, PassKeepsMenu, PassKeepsRng, StaysPut

-----------------------------------------------------------------------------
(* A peer stops *)

LEMMA StopPreserves ==
  ASSUME IInv, NEW p \in Peers, Stop(p)
  PROVE  IInv'
<1>. DEFINE o == Other(p)
<1>1. UNCHANGED << state, index, round, startIndex, sentEnd, announced, route >>
  BY DEF Stop
<1>2. Types /\ o \in Peers /\ Other(o) = p /\ o # p /\ \A q \in Peers : q = p \/ q = o
  BY Two DEF IInv
<1>. HIDE DEF o
<1>3. Types'
  <2>1. << >> \in Seq(Ends) /\ << >> \in Seq(Choices) /\ << >> \in Seq(0 .. MaxIndex)
        /\ << >> \in Seq(0 .. MaxIndex \cup {None}) /\ 0 \in Nat
    OBVIOUS
  <2>2. /\ pc' \in [Peers -> {"callback", "input", "gate", "stopped"}] /\ frame' \in [Peers -> Nat]
        /\ remote' \in [Peers -> Seq(Ends)] /\ menus' \in [Peers -> Seq(Choices)]
        /\ rngs' \in [Peers -> Seq(0 .. MaxIndex)]
        /\ rngStates' \in [Peers -> Seq(0 .. MaxIndex \cup {None})]
    BY <1>2, <2>1 DEF Stop, Types
  <2>3. /\ choice' \in [Peers -> Choices \cup {None}] /\ heard' \in [Peers -> Choices \cup {None}]
        /\ target' \in [Peers -> Choices \cup {None}] /\ seed' \in [Peers -> 0 .. MaxIndex \cup {None}]
    BY <1>2 DEF Stop, Types
  <2>4. /\ menuSent' \in [Peers -> BOOLEAN] /\ lazy' \in [Peers -> BOOLEAN]
        /\ shouldSync' \in [Peers -> BOOLEAN] /\ connected' \in [Peers -> BOOLEAN]
    BY <1>2 DEF Stop, Types
  <2>. QED BY <1>1, <1>2, <2>2, <2>3, <2>4 DEF Types
<1>4. /\ pc'[p] = "stopped" /\ frame'[p] = 0 /\ remote'[p] = << >> /\ rngStates'[p] = << >>
      /\ rngs'[p] = << >> /\ connected'[p] = FALSE
  BY <1>2 DEF Stop, Types
<1>5. /\ pc'[o] = pc[o] /\ frame'[o] = frame[o] /\ remote'[o] = remote[o] /\ choice'[o] = choice[o]
      /\ heard'[o] = heard[o] /\ target'[o] = target[o] /\ menuSent'[o] = menuSent[o]
      /\ shouldSync'[o] = shouldSync[o] /\ rngStates'[o] = rngStates[o] /\ seed'[o] = seed[o]
      /\ connected'[o] = connected[o] /\ menus'[o] = menus[o] /\ rngs'[o] = rngs[o]
  BY <1>2 DEF Stop, Types
<1>6. Fits'
  <2>1. /\ 0 <= Lasts(state[p]) /\ startIndex[p] <= index[p]
        /\ startIndex[p] + Len(<< >>) <= MaxIndex + 1
    <3>1. state[p] \in States /\ startIndex[p] \in Nat /\ index[p] \in 0 .. MaxIndex
      BY <1>2 DEF Types
    <3>. QED BY <3>1, LastsAre, Bounds DEF IInv, Fits
  <2>2. /\ frame[o] <= Lasts(state[o]) /\ startIndex[o] <= index[o]
        /\ startIndex[o] + Len(remote[o]) <= MaxIndex + 1
    BY <1>2 DEF IInv, Fits
  <2>3. \A q \in Peers : /\ frame'[q] <= Lasts(state'[q]) /\ startIndex'[q] <= index'[q]
                         /\ startIndex'[q] + Len(remote'[q]) <= MaxIndex + 1
    BY <1>1, <1>2, <1>4, <1>5, <2>1, <2>2
  <2>. QED BY <2>3 DEF Fits
<1>7. KnownIsReached' /\ PassedIsReached'
  <2>1. ASSUME NEW q \in Peers
        PROVE  /\ remote'[q] = << >> \/ remote'[q] = remote[q]
               /\ frame'[q] = 0 \/ frame'[q] = frame[q]
    BY <1>2, <1>4, <1>5
  <2>. QED BY <1>1, <2>1 DEF IInv, KnownIsReached, PassedIsReached, RemoteIndex
<1>8. ~ (Running(p))' /\ ((Running(o))' <=> Running(o))
  BY <1>4, <1>5 DEF Running
<1>9. ASSUME NEW sc, Scripted(sc) PROVE MenuInv(sc)'
  <2>1. SUFFICES ASSUME (Running(o))'
                 PROVE  (/\ OfThisMatch(sc, o) /\ AtMostOne(o) /\ BothChose(sc, o)
                         /\ IsOpponents(o) /\ ChoiceKept(o) /\ WillFollow(sc, o))'
    BY <1>2, <1>8 DEF MenuInv
  <2>2. /\ OfThisMatch(sc, o) /\ AtMostOne(o) /\ BothChose(sc, o)
        /\ IsOpponents(o) /\ ChoiceKept(o) /\ WillFollow(sc, o)
    BY <1>2, <1>8, <1>9, <2>1 DEF Scripted, MenuInv
  <2>3. /\ (Pending(o))' = Pending(o) /\ (RetryTarget(o))' = RetryTarget(o)
        /\ \A m : HasChosen(p, m) => (HasChosen(p, m))'
    BY <1>1, <1>5, <1>8 DEF Pending, RetryTarget, HasChosen
  <2>4. (OfThisMatch(sc, o))' /\ (AtMostOne(o))' /\ (BothChose(sc, o))'
    BY <1>1, <1>2, <1>5, <1>8, <2>2, <2>3 DEF OfThisMatch, AtMostOne, BothChose
  <2>5. (IsOpponents(o))' /\ (ChoiceKept(o))' /\ (WillFollow(sc, o))'
    BY <1>1, <1>2, <1>5, <1>8, <2>2, <2>3 DEF IsOpponents, ChoiceKept, WillFollow
  <2>. QED BY <2>4, <2>5
<1>10. ASSUME NEW sc, Scripted(sc) PROVE RngInv(sc)'
  <2>1. AsksOnce'
    BY <1>1, <1>2, <1>5, <1>8, <1>10 DEF Scripted, RngInv, AsksOnce
  <2>2. HostHolds'
    <3>1. rngs'[Host] = << >> /\ startIndex'[Host] = 0
      BY <1>1, <1>2, <1>4, <1>5, <1>10, Two DEF Scripted, RngInv, HostHolds
    <3>2. pc'[Host] = "gate" => Host = o
      BY <1>2, <1>4, Two
    <3>. QED BY <1>1, <1>5, <1>10, <3>1, <3>2 DEF Scripted, RngInv, HostHolds, RngOf
  <2>3. \A j : Snapped(j) => (Snapped(j))'
    <3>1. CASE p = Host
      BY <1>1, <1>4, <3>1 DEF Snapped
    <3>2. CASE o = Host
      BY <1>1, <1>5, <3>2 DEF Snapped
    <3>. QED BY <1>2, <3>1, <3>2, Two
  <2>4. InOrder'
    <3>1. CASE p = Client
      BY <1>4, <3>1 DEF InOrder
    <3>2. CASE o = Client
      BY <1>1, <1>5, <1>10, <2>3, <3>2 DEF Scripted, RngInv, InOrder, IndexOf
    <3>. QED BY <1>2, <3>1, <3>2, Two
  <2>5. (NoneIsLost(sc))'
    <3>1. SUFFICES ASSUME (Running(Client))', NEW j \in startIndex'[Client] .. index'[Host],
                          sc[j].st \in Synced,
                          \/ j < index'[Host]
                          \/ connected'[Host] /\ (pc'[Host] = "gate" \/ ~ shouldSync'[Host])
                   PROVE  (Queued(j))' \/ (Held(j))'
      BY DEF NoneIsLost
    <3>2. o = Client /\ p = Host
      BY <1>2, <1>8, <3>1, Two
    <3>3. Queued(j) \/ Held(j)
      BY <1>1, <1>4, <1>8, <1>10, <3>1, <3>2 DEF Scripted, RngInv, NoneIsLost
    <3>. QED BY <1>1, <1>5, <3>2, <3>3 DEF Queued, Held, IndexOf
  <2>6. RngAgreed'
    <3>1. ~ frame'[p] > 0
      BY <1>4
    <3>. QED BY <1>1, <1>2, <1>5, <1>10, <3>1 DEF Scripted, RngInv, RngAgreed
  <2>. QED BY <2>1, <2>2, <2>4, <2>5, <2>6 DEF RngInv
<1>. QED BY <1>1, <1>3, <1>6, <1>7, <1>9, <1>10, StaysPut
-----------------------------------------------------------------------------
(* A peer goes on *)

(* The peer enters the next scene of script sc, of which the session has seen n and then m. *)
Onward(p, sc, n, m) ==
  /\ Enter(p) /\ Furthest(n) /\ n <= m /\ index[p] + 1 <= m
  /\ \A q \in Peers : index'[q] <= m
  /\ \E q \in Peers : index'[q] = m
  /\ IsScript(sc, n) /\ IsScript(sc, m) /\ Scripted(sc)
  /\ Leads(sc[index[p]], GameGoes(p))
  /\ sc[index[p] + 1] = SceneAfter(sc[index[p]], GameGoes(p))

(* The invariant reads the script as far as the peer ahead has come. *)
LEMMA ScriptsAgree ==
  ASSUME Types, NEW n \in 0 .. MaxIndex, Furthest(n), NEW sc, Scripted(sc), NEW sc2,
         \A i \in 0 .. n : sc2[i] = sc[i]
  PROVE  Scripted(sc2)
<1>1. \A p \in Peers : index[p] \in 0 .. n /\ index[p] \in Nat /\ index[p] <= n /\ index[Other(p)] \in 0 .. n
  <2>1. \A p \in Peers : index[p] \in 0 .. MaxIndex /\ index[p] <= n
    BY DEF Types, Furthest
  <2>. QED BY <2>1, Two, Bounds
<1>2. \A p \in Peers : \A i \in 0 .. index[p] : sc2[i] = sc[i]
  <2>1. \A p \in Peers : \A i \in 0 .. index[p] : i \in 0 .. n
    BY <1>1, Bounds
  <2>. QED BY <2>1
<1>3. Follows(sc2)
  <2>1. \A p \in Peers : index[p] \in 0 .. index[p] /\ \A i \in 1 .. index[p] : i \in 0 .. index[p]
    BY <1>1
  <2>. QED BY <1>2, <2>1 DEF Scripted, Follows
<1>4. SideBySide(sc2)
  <2>1. ASSUME NEW p \in Peers, NEW i \in 0 .. MaxIndex, i < index[p], sc2[i].st \in Blocking
        PROVE  i <= index[Other(p)]
    <3>1. i \in 0 .. index[p]
      BY <1>1, <2>1, Bounds
    <3>. QED BY <1>2, <2>1, <3>1 DEF Scripted, SideBySide
  <2>. QED BY <2>1 DEF SideBySide
<1>5. MenuInv(sc2)
  <2>1. ASSUME NEW p \in Peers, Running(p)
        PROVE  /\ OfThisMatch(sc2, p) /\ AtMostOne(p) /\ BothChose(sc2, p)
               /\ IsOpponents(p) /\ ChoiceKept(p) /\ WillFollow(sc2, p)
    <3>1. /\ OfThisMatch(sc, p) /\ AtMostOne(p) /\ BothChose(sc, p)
          /\ IsOpponents(p) /\ ChoiceKept(p) /\ WillFollow(sc, p)
      BY <2>1 DEF Scripted, MenuInv
    <3>2. OfThisMatch(sc2, p)
      BY <1>1, <1>2, <3>1, Two DEF OfThisMatch, IsMenu
    <3>3. BothChose(sc2, p)
      <4>1. ASSUME NEW i \in 0 .. MaxIndex, i < index[p] PROVE IsMenu(sc2, i) <=> IsMenu(sc, i)
        <5>1. i \in 0 .. index[p]
          BY <1>1, <4>1, Bounds
        <5>. QED BY <1>2, <5>1 DEF IsMenu
      <4>. QED BY <3>1, <4>1 DEF BothChose
    <3>4. WillFollow(sc2, p)
      <4>1. index[Other(p)] > index[p] => sc2[index[p] + 1] = sc[index[p] + 1]
        BY <1>1, Two
      <4>. QED BY <3>1, <4>1 DEF WillFollow
    <3>. QED BY <3>1, <3>2, <3>3, <3>4
  <2>. QED BY <2>1 DEF MenuInv
<1>6. RngInv(sc2)
  <2>1. NoneIsLost(sc2)
    <3>1. \A j \in startIndex[Client] .. index[Host] : j \in 0 .. index[Host]
      <4>1. startIndex[Client] \in Nat /\ index[Host] \in Nat
        BY <1>1, Two DEF Types
      <4>. QED BY <4>1
    <3>. QED BY <1>2, <3>1, Two DEF Scripted, RngInv, NoneIsLost
  <2>. QED BY <2>1 DEF Scripted, RngInv
<1>. QED BY <1>3, <1>4, <1>5, <1>6 DEF Scripted

(* Only in its retry menu has a peer a choice of where the game goes. *)
LEMMA GameLeads ==
  ASSUME Types, NEW p \in Peers, GameMoves(p), NEW sc, Follows(sc)
  PROVE  /\ Leads(sc[index[p]], GameGoes(p))
         /\ state[p] # "RetryMenu" =>
              \A s : Leads(sc[index[p]], s) => s = GameGoes(p)
<1>1. sc[index[p]].st = state[p] /\ sc[index[p]].rd = round[p]
  BY DEF Follows
<1>2. state[p] \in States
  BY DEF Types
<1>. QED BY <1>1, <1>2 DEF Leads, GameGoes, States

LEMMA NextScene ==
  ASSUME IInv, NEW p \in Peers, Enter(p)
  PROVE  \E sc \in Scripts : \E n, m \in 0 .. MaxIndex : Onward(p, sc, n, m)
<1>1. PICK n \in 0 .. MaxIndex : Furthest(n) /\ \E sc \in Scripts : IsScript(sc, n) /\ Scripted(sc)
  BY DEF IInv
<1>2. PICK sc \in Scripts : IsScript(sc, n) /\ Scripted(sc)
  BY <1>1
<1>. DEFINE s == GameGoes(p)
            o == Other(p)
            i == index[p]
<1>3. /\ Types /\ i \in Nat /\ i < MaxIndex /\ i <= n /\ MaxIndex \in Nat /\ n \in Nat
      /\ index' = [index EXCEPT ![p] = i + 1] /\ GameMoves(p) /\ pc[p] = "callback" /\ Running(p)
  <2>1. i \in 0 .. MaxIndex /\ i <= n /\ i < MaxIndex
    BY <1>1 DEF IInv, Types, Furthest, Enter, GameMoves
  <2>. QED BY <2>1, Bounds DEF IInv, Enter, Running
<1>4. Leads(sc[i], s)
  BY <1>2, <1>3, GameLeads DEF Scripted
<1>5. /\ \A q \in Peers : index'[q] = IF q = p THEN i + 1 ELSE index[q]
      /\ \A q \in Peers : index[q] \in Nat /\ index[q] <= n
  <2>1. \A q \in Peers : index[q] \in 0 .. MaxIndex /\ index[q] <= n
    BY <1>1, <1>3 DEF Types, Furthest
  <2>. QED BY <1>3, <2>1, Bounds DEF Types
<1>6. CASE i = n
  <2>1. PICK sc2 \in Scripts : /\ IsScript(sc2, n + 1) /\ sc2[n + 1] = SceneAfter(sc[n], s)
                               /\ \A k \in 0 .. n : sc2[k] = sc[k]
    BY <1>2, <1>3, <1>4, <1>6, ScriptGrows
  <2>2. Scripted(sc2)
    BY <1>1, <1>2, <1>3, <2>1, ScriptsAgree
  <2>3. n + 1 \in 0 .. MaxIndex /\ n \in 0 .. n + 1 /\ n \in 0 .. n
    BY <1>3, <1>6
  <2>4. IsScript(sc2, n)
    BY <2>1, <2>3, ShorterScript
  <2>5. /\ \A q \in Peers : index'[q] <= n + 1
        /\ index'[p] = n + 1 /\ i + 1 <= n + 1 /\ n <= n + 1
    BY <1>3, <1>5, <1>6
  <2>6. Onward(p, sc2, n, n + 1)
    BY <1>1, <1>4, <1>6, <2>1, <2>2, <2>3, <2>4, <2>5 DEF Onward
  <2>. QED BY <2>3, <2>6
<1>7. CASE i # n
  <2>1. index[o] = n /\ i + 1 <= n /\ o # p /\ o \in Peers /\ i + 1 \in 1 .. n /\ (i + 1) - 1 = i
    BY <1>1, <1>3, <1>7, Two DEF Furthest
  <2>2. Leads(sc[i], sc[i + 1].st) /\ sc[i + 1] = SceneAfter(sc[i], sc[i + 1].st)
    BY <1>2, <2>1 DEF IsScript
  <2>3. sc[i + 1].st = s
    <3>1. CASE state[p] # "RetryMenu"
      BY <1>2, <1>3, <2>2, <3>1, GameLeads DEF Scripted
    <3>2. CASE state[p] = "RetryMenu"
      <4>1. /\ target[p] # None /\ choice[p] # None /\ heard[p] # None /\ target[p] = RetryTarget(p)
            /\ WillFollow(sc, p)
        BY <1>2, <1>3, <3>2 DEF Scripted, MenuInv, ChoiceKept, GameMoves
      <4>2. choice[p] \in Choices /\ heard[p] \in Choices /\ heard[p] \in Pending(p)
        BY <1>3, <4>1 DEF Types, Pending
      <4>3. index[o] > index[p]
        BY <1>3, <1>7, <2>1
      <4>4. sc[i + 1].st = Entry(choice[p], heard[p])
        BY <3>2, <4>1, <4>2, <4>3 DEF WillFollow
      <4>5. s = Entry(choice[p], heard[p])
        BY <3>2, <4>1, <4>2 DEF GameGoes, Entry, RetryTarget, Choices
      <4>. QED BY <4>4, <4>5
    <3>. QED BY <3>1, <3>2
  <2>4. (\A q \in Peers : index'[q] <= n) /\ index'[o] = n /\ n <= n
    BY <1>3, <1>5, <2>1
  <2>5. Onward(p, sc, n, n)
    BY <1>1, <1>2, <1>4, <2>1, <2>2, <2>3, <2>4 DEF Onward
  <2>. QED BY <2>5
<1>. QED BY <1>6, <1>7

(* What entering a state does. *)
LEMMA EnterIs ==
  ASSUME IInv, NEW p \in Peers, NEW sc, NEW n \in 0 .. MaxIndex, NEW m \in 0 .. MaxIndex,
         Onward(p, sc, n, m)
  PROVE  LET s == GameGoes(p)
             i == index[p] + 1
         IN  /\ i \in Nat /\ i \in 1 .. m /\ i <= MaxIndex /\ index[p] \in 0 .. n /\ index[p] \in 0 .. m
             /\ index[Other(p)] \in 0 .. n /\ index[Other(p)] \in 0 .. m /\ index[p] \in Nat
             /\ index[Other(p)] \in Nat /\ index'[p] = i /\ index'[Other(p)] = index[Other(p)]
             /\ sc[index[p]].st = state[p] /\ sc[index[p]].rd = round[p]
             /\ sc[index[Other(p)]].st = state[Other(p)]
             /\ sc[i].st = s /\ s \in States \ {"Initial"} /\ state'[p] = s
             /\ state'[Other(p)] = state[Other(p)] /\ round'[Other(p)] = round[Other(p)]
             /\ sc[i].rd = round'[p] /\ sc[i].rd \in 0 .. Rounds
             /\ s # "Loading" => sc[i].gm = sc[index[p]].gm
             /\ Running(p) /\ connected[p] /\ ~ shouldSync[p] /\ frame[p] > 0
<1>. DEFINE s == GameGoes(p)
            i == index[p] + 1
            o == Other(p)
<1>1. /\ Enter(p) /\ Furthest(n) /\ i <= m /\ IsScript(sc, n) /\ IsScript(sc, m) /\ Scripted(sc)
      /\ Leads(sc[index[p]], s) /\ sc[i] = SceneAfter(sc[index[p]], s)
  BY DEF Onward
<1>2. /\ pc[p] = "callback" /\ connected[p] /\ frame[p] = Lasts(state[p])
      /\ state' = [state EXCEPT ![p] = s] /\ index' = [index EXCEPT ![p] = i]
      /\ round' = [round EXCEPT ![p] = IF s = "InGame" THEN round[p] + 1
                                       ELSE IF s = "Loading" THEN 0 ELSE round[p]]
  BY <1>1 DEF Enter, GameMoves, IInv, Types
<1>3. Types /\ o \in Peers /\ o # p
  BY Two DEF IInv
<1>4. \A q \in Peers : index[q] \in 0 .. MaxIndex /\ index[q] <= n
  BY <1>1, <1>3 DEF Types, Furthest
<1>5. /\ i \in Nat /\ i \in 1 .. m /\ i <= MaxIndex /\ index[p] \in 0 .. n /\ index[p] \in 0 .. m
      /\ index[o] \in 0 .. n /\ index[p] \in Nat /\ index[o] \in Nat /\ n \in Nat /\ m \in Nat
      /\ index[o] \in 0 .. m
  BY <1>1, <1>3, <1>4, Bounds DEF Onward
<1>6. sc[index[p]].st = state[p] /\ sc[index[p]].rd = round[p] /\ sc[index[o]].st = state[o]
  BY <1>1, <1>3 DEF Scripted, Follows
<1>7. /\ sc[index[p]] \in Scenes
      /\ sc[index[p]].st \in {"Loading", "CharaIntro"} => sc[index[p]].rd = 0
  BY <1>1, <1>4, <1>5 DEF IsScript, Scripts
<1>8. /\ sc[i] \in Scenes /\ sc[i].st = s /\ s \in States \ {"Initial"}
      /\ s # "Loading" => sc[i].gm = sc[index[p]].gm
  BY <1>1, <1>7, SceneAfterIs
<1>9. sc[i].rd = round'[p] /\ sc[i].rd \in 0 .. Rounds
  <2>1. SceneAfter(sc[index[p]], s).rd = IF s = "InGame" THEN round[p] + 1
                                         ELSE IF s = "Loading" THEN 0 ELSE round[p]
    BY <1>6 DEF SceneAfter
  <2>2. round'[p] = IF s = "InGame" THEN round[p] + 1 ELSE IF s = "Loading" THEN 0 ELSE round[p]
    BY <1>2, <1>3 DEF Types
  <2>. QED BY <1>1, <1>8, <2>1, <2>2 DEF Scenes
<1>10. /\ index'[p] = i /\ index'[o] = index[o] /\ state'[p] = s /\ state'[o] = state[o]
       /\ round'[o] = round[o]
  BY <1>2, <1>3 DEF Types
<1>11. Running(p) /\ ~ shouldSync[p]
  BY <1>1, <1>2 DEF Running, Scripted, RngInv, AsksOnce
<1>12. frame[p] > 0
  <2>1. state[p] \in States
    BY <1>3 DEF Types
  <2>2. Lasts(state[p]) \in Nat \ {0}
    BY <2>1, LastsAre
  <2>. QED BY <1>2, <2>2
<1>. QED BY <1>2, <1>5, <1>6, <1>8, <1>9, <1>10, <1>11, <1>12

(* Who leaves a state that waits finds the opponent there, and in the menu its choice. *)
LEMMA OpponentIsThere ==
  ASSUME IInv, NEW p \in Peers, NEW sc, NEW n \in 0 .. MaxIndex, NEW m \in 0 .. MaxIndex,
         Onward(p, sc, n, m)
  PROVE  /\ state[p] \in Blocking => index[p] <= index[Other(p)]
         /\ state[p] = "RetryMenu" => /\ HasChosen(Other(p), index[p])
                                      /\ heard[p] \in Choices /\ choice[p] \in Choices
                                      /\ target[p] = RetryTarget(p) /\ menus[p] = << >>
<1>1. /\ index[p] \in 0 .. n /\ index[Other(p)] \in 0 .. n /\ index[p] \in Nat /\ Running(p)
      /\ index[Other(p)] \in Nat /\ sc[index[p]].st = state[p] /\ frame[p] > 0
  BY EnterIs
<1>2. Enter(p) /\ IsScript(sc, n) /\ Scripted(sc)
  BY DEF Onward
<1>3. state[p] \in Gated => index[p] <= index[Other(p)]
  BY <1>1 DEF IInv, PassedIsReached
<1>4. ASSUME state[p] = "RetryMenu"
      PROVE  /\ index[p] <= index[Other(p)] /\ HasChosen(Other(p), index[p])
             /\ heard[p] \in Choices /\ choice[p] \in Choices /\ target[p] = RetryTarget(p)
             /\ menus[p] = << >>
  <2>1. OfThisMatch(sc, p) /\ AtMostOne(p) /\ ChoiceKept(p)
    BY <1>1, <1>2 DEF Scripted, MenuInv
  <2>2. /\ target[p] # None /\ choice[p] # None /\ heard[p] # None /\ target[p] = RetryTarget(p)
        /\ menus[p] = << >>
    BY <1>2, <1>4, <2>1 DEF Enter, GameMoves, ChoiceKept, AtMostOne
  <2>3. choice[p] \in Choices /\ heard[p] \in Choices /\ heard[p] \in Pending(p)
    BY <2>2 DEF IInv, Types, Pending
  <2>4. PICK k \in 0 .. index[Other(p)] :
          IsMenu(sc, k) /\ HasChosen(Other(p), k) /\ sc[k].gm = sc[index[p]].gm
    BY <2>1, <2>3 DEF OfThisMatch
  <2>5. k \in 0 .. n /\ k <= index[Other(p)]
    BY <1>1, <2>4
  <2>6. k = index[p]
    BY <1>1, <1>2, <1>4, <2>4, <2>5, OneMenu DEF IsMenu
  <2>. QED BY <2>2, <2>3, <2>4, <2>5, <2>6
<1>. QED BY <1>3, <1>4 DEF Blocking, Gated

LEMMA EnterFollows ==
  ASSUME IInv, NEW p \in Peers, NEW sc, NEW n \in 0 .. MaxIndex, NEW m \in 0 .. MaxIndex,
         Onward(p, sc, n, m)
  PROVE  Follows(sc)' /\ SideBySide(sc)'
<1>. DEFINE s == GameGoes(p)
            i == index[p] + 1
            o == Other(p)
<1>1. /\ i \in Nat /\ index[p] \in Nat /\ index[o] \in Nat /\ index'[p] = i /\ index'[o] = index[o]
      /\ sc[i].st = s /\ state'[p] = s /\ sc[i].rd = round'[p] /\ s \in States
      /\ state'[o] = state[o] /\ round'[o] = round[o] /\ sc[index[p]].st = state[p]
  BY EnterIs
<1>2. /\ Types /\ o \in Peers /\ o # p /\ Other(o) = p /\ \A q \in Peers : q = p \/ q = o
      /\ Follows(sc) /\ SideBySide(sc) /\ route' = [route EXCEPT ![p] = Append(route[p], s)]
  BY Two DEF IInv, Onward, Scripted, Enter, Types
<1>. HIDE DEF o, s
<1>3. Follows(sc)'
  <2>1. /\ Len(route[p]) = index[p] /\ \A k \in 1 .. index[p] : route[p][k] = sc[k].st
        /\ Len(route[o]) = index[o] /\ \A k \in 1 .. index[o] : route[o][k] = sc[k].st
        /\ state[o] = sc[index[o]].st /\ round[o] = sc[index[o]].rd
    BY <1>2 DEF Follows
  <2>2. route'[p] = Append(route[p], s) /\ route'[o] = route[o] /\ route[p] \in Seq(States)
    BY <1>2 DEF Types
  <2>3. /\ Len(route'[p]) = i /\ route'[p][i] = s
        /\ \A k \in 1 .. index[p] : route'[p][k] = route[p][k]
    BY <1>1, <2>1, <2>2, AppendIs
  <2>4. \A k \in 1 .. i : route'[p][k] = sc[k].st
    <3>1. \A k \in 1 .. i : k \in 1 .. index[p] \/ k = i
      BY <1>1
    <3>. QED BY <1>1, <2>1, <2>3, <3>1
  <2>5. /\ Len(route'[p]) = index'[p] /\ \A k \in 1 .. index'[p] : route'[p][k] = sc[k].st
        /\ state'[p] = sc[index'[p]].st /\ round'[p] = sc[index'[p]].rd
    BY <1>1, <2>3, <2>4
  <2>6. /\ Len(route'[o]) = index'[o] /\ \A k \in 1 .. index'[o] : route'[o][k] = sc[k].st
        /\ state'[o] = sc[index'[o]].st /\ round'[o] = sc[index'[o]].rd
    BY <1>1, <2>1, <2>2
  <2>. QED BY <1>2, <2>5, <2>6 DEF Follows
<1>4. SideBySide(sc)'
  <2>1. ASSUME NEW k \in 0 .. MaxIndex, k < i, sc[k].st \in Blocking PROVE k <= index[o]
    <3>1. k < index[p] \/ k = index[p]
      BY <1>1, <2>1, Bounds
    <3>2. k = index[p] => k <= index[o]
      BY <1>1, <2>1, OpponentIsThere DEF o
    <3>. QED BY <1>2, <2>1, <3>1, <3>2 DEF SideBySide, o
  <2>2. ASSUME NEW k \in 0 .. MaxIndex, k < index[o], sc[k].st \in Blocking PROVE k <= i
    <3>1. k <= index[p]
      BY <1>2, <2>2 DEF SideBySide
    <3>. QED BY <1>1, <3>1, Bounds
  <2>3. /\ \A k \in 0 .. MaxIndex : k < index'[p] /\ sc[k].st \in Blocking => k <= index'[Other(p)]
        /\ \A k \in 0 .. MaxIndex : k < index'[o] /\ sc[k].st \in Blocking => k <= index'[Other(o)]
    BY <1>1, <1>2, <2>1, <2>2 DEF o
  <2>. QED BY <1>2, <2>3 DEF SideBySide
<1>. QED BY <1>3, <1>4

(* What is erased: the host's lists keep everything, the client's are cut at the front. *)
LEMMA CollectIs ==
  ASSUME IInv, NEW p \in Peers, NEW s, NEW i \in Nat, i = index[p] + 1, i <= MaxIndex, CollectOld(p, s, i)
  PROVE  \E offset \in Nat : \E r \in Seq(Ends) :
           /\ startIndex[p] + offset <= i /\ (p = Host => offset = 0)
           /\ startIndex' = [startIndex EXCEPT ![p] = startIndex[p] + offset]
           /\ rngStates' = [rngStates EXCEPT ![p] = SubSeq(rngStates[p], offset + 1, Len(rngStates[p]))]
           /\ remote' = [remote EXCEPT ![p] = r]
           /\ r = << >> \/ (remote[p] # << >> /\ offset + Len(r) = Len(remote[p]))
<1>. DEFINE start == NewStartIndex(p, i)
            offset == IF s = "Loading" /\ start > startIndex[p] THEN start - startIndex[p] ELSE 0
            kept == IF offset = 0 THEN remote[p] ELSE ErasedInputs(remote[p], offset)
            left == i - startIndex[p] - offset
            r == [k \in DOMAIN kept |-> IF k <= left THEN 0 ELSE kept[k]]
<1>1. /\ startIndex' = [startIndex EXCEPT ![p] = startIndex[p] + offset]
      /\ rngStates' = [rngStates EXCEPT ![p] = SubSeq(rngStates[p], offset + 1, Len(rngStates[p]))]
      /\ remote' = [remote EXCEPT ![p] = r]
  BY DEF CollectOld, ErasedRngs, IInv, Types
<1>2. startIndex[p] \in Nat /\ index[p] \in Nat /\ startIndex[p] <= index[p] /\ remote[p] \in Seq(Ends)
  BY Bounds DEF IInv, Types, Fits
<1>3. start \in Nat /\ start <= i /\ (p = Host => start = 0)
  BY Bounds DEF NewStartIndex, Preserved
<1>. HIDE DEF start
<1>4. offset \in Nat /\ startIndex[p] + offset <= i /\ (p = Host => offset = 0)
  BY <1>2, <1>3
<1>. HIDE DEF offset
<1>5. kept \in Seq(Ends) /\ (kept = << >> \/ offset + Len(kept) = Len(remote[p]))
  <2>1. CASE offset = 0
    BY <1>2, <2>1, LenProperties
  <2>2. CASE offset # 0
    <3>1. kept = ErasedInputs(remote[p], offset)
      BY <2>2
    <3>2. CASE offset + 1 >= Len(remote[p])
      <4>1. kept = << >>
        BY <3>1, <3>2 DEF ErasedInputs
      <4>. HIDE DEF kept
      <4>. QED BY <4>1
    <3>3. CASE ~ offset + 1 >= Len(remote[p])
      <4>. DEFINE t == SubSeq(remote[p], offset + 1, Len(remote[p]))
      <4>1. kept = t
        BY <3>1, <3>3 DEF ErasedInputs
      <4>2. t \in Seq(Ends) /\ Len(t) = IF offset <= Len(remote[p]) THEN Len(remote[p]) - offset ELSE 0
        BY <1>2, <1>4, CutIs
      <4>3. Len(remote[p]) \in Nat
        BY <1>2, LenProperties
      <4>. HIDE DEF t, kept
      <4>4. Len(t) = Len(remote[p]) - offset
        BY <1>4, <3>3, <4>2, <4>3
      <4>. QED BY <1>4, <4>1, <4>2, <4>3, <4>4
    <3>. QED BY <3>2, <3>3
  <2>. QED BY <2>1, <2>2
<1>6. remote[p] # << >> \/ kept = << >>
  <2>1. CASE remote[p] = << >>
    <3>1. ErasedInputs(remote[p], offset) = << >>
      BY <1>4, <2>1 DEF ErasedInputs
    <3>. QED BY <2>1, <3>1
  <2>. QED BY <2>1
<1>. HIDE DEF kept, left
<1>7. r \in Seq(Ends) /\ Len(r) = Len(kept) /\ (kept = << >> => r = << >>)
  <2>1. Len(kept) \in Nat /\ DOMAIN kept = 1 .. Len(kept) /\ \A k \in 1 .. Len(kept) : kept[k] \in Ends
    BY <1>5, LenProperties, ElementOfSeq
  <2>2. \A k \in 1 .. Len(kept) : (IF k <= left THEN 0 ELSE kept[k]) \in Ends
    BY <2>1, EndsAre
  <2>3. r = [k \in 1 .. Len(kept) |-> IF k <= left THEN 0 ELSE kept[k]]
    BY <2>1
  <2>. HIDE DEF r
  <2>4. r \in Seq(Ends) /\ Len(r) = Len(kept)
    BY <2>1, <2>2, <2>3
  <2>5. kept = << >> => Len(r) = 0
    BY <2>4, EmptySeq
  <2>. QED BY <2>4, <2>5, EmptySeq
<1>. HIDE DEF r
<1>8. r = << >> \/ (remote[p] # << >> /\ offset + Len(r) = Len(remote[p]))
  BY <1>5, <1>6, <1>7
<1>. QED BY <1>1, <1>4, <1>7, <1>8

LEMMA EnterFits ==
  ASSUME IInv, NEW p \in Peers, NEW sc, NEW n \in 0 .. MaxIndex, NEW m \in 0 .. MaxIndex,
         Onward(p, sc, n, m)
  PROVE  Types' /\ Fits' /\ KnownIsReached' /\ PassedIsReached'
<1>. DEFINE s == GameGoes(p)
            i == index[p] + 1
            o == Other(p)
<1>1. /\ i \in Nat /\ i \in 1 .. m /\ i <= MaxIndex /\ index[p] \in Nat /\ index[o] \in Nat
      /\ index'[p] = i /\ index'[o] = index[o] /\ s \in States /\ state'[p] = s
      /\ state'[o] = state[o] /\ sc[i].rd = round'[p] /\ sc[i].rd \in 0 .. Rounds
      /\ round'[o] = round[o]
  BY EnterIs
<1>2. /\ Enter(p) /\ Types /\ o \in Peers /\ o # p /\ Other(o) = p /\ \A q \in Peers : q = p \/ q = o
  BY Two DEF IInv, Onward
<1>3. PICK offset \in Nat : \E r \in Seq(Ends) :
        /\ startIndex[p] + offset <= i /\ (p = Host => offset = 0)
        /\ startIndex' = [startIndex EXCEPT ![p] = startIndex[p] + offset]
        /\ rngStates' = [rngStates EXCEPT ![p] = SubSeq(rngStates[p], offset + 1, Len(rngStates[p]))]
        /\ remote' = [remote EXCEPT ![p] = r]
        /\ r = << >> \/ (remote[p] # << >> /\ offset + Len(r) = Len(remote[p]))
  <2>1. CollectOld(p, s, i)
    BY <1>2 DEF Enter
  <2>. HIDE DEF s
  <2>2. i \in Nat /\ i <= MaxIndex
    BY <1>1
  <2>. QED BY <2>1, <2>2, CollectIs
<1>4. PICK r \in Seq(Ends) :
        /\ startIndex[p] + offset <= i
        /\ startIndex' = [startIndex EXCEPT ![p] = startIndex[p] + offset]
        /\ rngStates' = [rngStates EXCEPT ![p] = SubSeq(rngStates[p], offset + 1, Len(rngStates[p]))]
        /\ remote' = [remote EXCEPT ![p] = r]
        /\ r = << >> \/ (remote[p] # << >> /\ offset + Len(r) = Len(remote[p]))
  BY <1>3
<1>. HIDE DEF s, o
<1>5. /\ frame' = [frame EXCEPT ![p] = 0] /\ announced' = [announced EXCEPT ![p] = i]
      /\ UNCHANGED << sentEnd, seed, connected, menus, rngs >>
  BY <1>2 DEF Enter
<1>6. Types'
  <2>1. /\ startIndex' \in [Peers -> Nat] /\ remote' \in [Peers -> Seq(Ends)]
        /\ rngStates' \in [Peers -> Seq(0 .. MaxIndex \cup {None})]
    <3>1. rngStates[p] \in Seq(0 .. MaxIndex \cup {None})
      BY <1>2 DEF Types
    <3>. DEFINE t == SubSeq(rngStates[p], offset + 1, Len(rngStates[p]))
    <3>2. t \in Seq(0 .. MaxIndex \cup {None})
      BY <3>1, CutIs
    <3>3. startIndex[p] + offset \in Nat
      <4>1. startIndex[p] \in Nat
        BY <1>2 DEF Types
      <4>. QED BY <4>1
    <3>4. rngStates' = [rngStates EXCEPT ![p] = t]
      BY <1>4
    <3>. HIDE DEF t
    <3>5. /\ startIndex \in [Peers -> Nat] /\ remote \in [Peers -> Seq(Ends)]
          /\ rngStates \in [Peers -> Seq(0 .. MaxIndex \cup {None})]
      BY <1>2 DEF Types
    <3>6. startIndex' \in [Peers -> Nat]
      BY <1>4, <3>3, <3>5
    <3>7. remote' \in [Peers -> Seq(Ends)]
      BY <1>4, <3>5
    <3>8. rngStates' \in [Peers -> Seq(0 .. MaxIndex \cup {None})]
      BY <3>2, <3>4, <3>5
    <3>. QED BY <3>6, <3>7, <3>8
  <2>2. /\ choice' \in [Peers -> Choices \cup {None}] /\ heard' \in [Peers -> Choices \cup {None}]
        /\ target' \in [Peers -> Choices \cup {None}]
    <3>1. /\ \E c \in Choices \cup {None} : choice' = [choice EXCEPT ![p] = c]
          /\ \E c \in Choices \cup {None} : heard' = [heard EXCEPT ![p] = c]
          /\ \E c \in Choices \cup {None} : target' = [target EXCEPT ![p] = c]
      BY <1>2 DEF Enter, ResetMenu, Types
    <3>2. /\ choice \in [Peers -> Choices \cup {None}] /\ heard \in [Peers -> Choices \cup {None}]
          /\ target \in [Peers -> Choices \cup {None}]
      BY <1>2 DEF Types
    <3>. QED BY <3>1, <3>2
  <2>3. /\ menuSent' \in [Peers -> BOOLEAN] /\ lazy' \in [Peers -> BOOLEAN]
        /\ shouldSync' \in [Peers -> BOOLEAN]
    <3>1. /\ \E b \in BOOLEAN : menuSent' = [menuSent EXCEPT ![p] = b]
          /\ \E b \in BOOLEAN : lazy' = [lazy EXCEPT ![p] = b]
          /\ \E b \in BOOLEAN : shouldSync' = [shouldSync EXCEPT ![p] = b]
      BY <1>2 DEF Enter, ResetMenu, Types
    <3>. QED BY <1>2, <3>1 DEF Types
  <2>4. /\ pc' \in [Peers -> {"callback", "input", "gate", "stopped"}]
        /\ state' \in [Peers -> States] /\ index' \in [Peers -> 0 .. MaxIndex]
        /\ frame' \in [Peers -> Nat] /\ announced' \in [Peers -> 0 .. MaxIndex]
    <3>1. i \in 0 .. MaxIndex
      BY <1>1, Bounds
    <3>2. state' = [state EXCEPT ![p] = s] /\ index' = [index EXCEPT ![p] = i] /\ pc' = [pc EXCEPT ![p] = "input"]
      BY <1>2 DEF Enter, s
    <3>. QED BY <1>1, <1>2, <1>5, <3>1, <3>2 DEF Types
  <2>5. round' \in [Peers -> 0 .. Rounds] /\ route' \in [Peers -> Seq(States)]
    <3>1. \E v : round' = [round EXCEPT ![p] = v]
      BY <1>2 DEF Enter, Types
    <3>2. round' \in [Peers -> 0 .. Rounds]
      BY <1>1, <1>2, <3>1 DEF Types
    <3>3. route' = [route EXCEPT ![p] = Append(route[p], s)] /\ route[p] \in Seq(States)
      BY <1>2 DEF Enter, Types, s
    <3>4. Append(route[p], s) \in Seq(States)
      BY <1>1, <3>3, AppendIs
    <3>. QED BY <1>2, <3>2, <3>3, <3>4 DEF Types
  <2>. QED BY <1>2, <1>5, <2>1, <2>2, <2>3, <2>4, <2>5 DEF Types
<1>7. /\ startIndex'[p] = startIndex[p] + offset /\ remote'[p] = r /\ frame'[p] = 0
      /\ startIndex'[o] = startIndex[o] /\ remote'[o] = remote[o] /\ frame'[o] = frame[o]
      /\ announced'[p] = i /\ announced'[o] = announced[o]
      /\ startIndex[p] \in Nat /\ Len(r) \in Nat /\ Len(remote[p]) \in Nat
  BY <1>2, <1>4, <1>5, LenProperties DEF Types
<1>8. Fits'
  <2>1. startIndex[p] + Len(remote[p]) <= MaxIndex + 1
    BY DEF IInv, Fits
  <2>2. startIndex[p] + offset + Len(r) <= MaxIndex + 1
    <3>1. CASE r = << >>
      BY <1>1, <1>4, <1>7, <3>1, Bounds
    <3>2. CASE r # << >>
      BY <1>4, <1>7, <2>1, <3>2
    <3>. QED BY <3>1, <3>2
  <2>3. /\ frame'[p] <= Lasts(state'[p]) /\ startIndex'[p] <= index'[p]
        /\ startIndex'[p] + Len(remote'[p]) <= MaxIndex + 1
    BY <1>1, <1>4, <1>7, <2>2, LastsAre
  <2>4. /\ frame'[o] <= Lasts(state'[o]) /\ startIndex'[o] <= index'[o]
        /\ startIndex'[o] + Len(remote'[o]) <= MaxIndex + 1
    BY <1>1, <1>2, <1>7 DEF IInv, Fits
  <2>. QED BY <1>2, <2>3, <2>4 DEF Fits
<1>9. KnownIsReached'
  <2>1. /\ announced[o] = index[o]
        /\ \A k \in 0 .. MaxIndex : sentEnd[p][k] > 0 => k <= index[p]
        /\ \A k \in 0 .. MaxIndex : sentEnd[o][k] > 0 => k <= index[o]
        /\ remote[p] # << >> => startIndex[p] + Len(remote[p]) - 1 <= index[o]
        /\ remote[o] # << >> => startIndex[o] + Len(remote[o]) - 1 <= index[p]
    BY <1>2 DEF IInv, KnownIsReached, RemoteIndex, o
  <2>2. \A k \in 0 .. MaxIndex : sentEnd'[p][k] > 0 => k <= index'[p]
    <3>1. \A k \in 0 .. MaxIndex : k <= index[p] => k <= i
      BY <1>1, Bounds
    <3>. QED BY <1>1, <1>5, <2>1, <3>1
  <2>3. remote'[p] # << >> => startIndex'[p] + Len(remote'[p]) - 1 <= index'[o]
    <3>1. remote'[p] = r /\ startIndex'[p] = startIndex[p] + offset /\ index'[o] = index[o]
      BY <1>1, <1>7
    <3>2. ASSUME r # << >> PROVE startIndex[p] + offset + Len(r) - 1 <= index[o]
      <4>1. offset + Len(r) = Len(remote[p]) /\ startIndex[p] + Len(remote[p]) - 1 <= index[o]
        BY <1>4, <2>1, <3>2
      <4>2. startIndex[p] \in Nat /\ Len(r) \in Nat /\ Len(remote[p]) \in Nat /\ index[o] \in Nat
        BY <1>1, <1>7
      <4>. DEFINE a == Len(r)
                  b == Len(remote[p])
                  c == startIndex[p]
      <4>3. c \in Nat /\ a \in Nat /\ b \in Nat /\ offset + a = b /\ c + b - 1 <= index[o]
        BY <4>1, <4>2
      <4>. HIDE DEF a, b, c
      <4>4. c + offset + a - 1 <= index[o]
        BY <4>2, <4>3
      <4>. QED BY <4>4 DEF a, c
    <3>. QED BY <3>1, <3>2
  <2>4. remote'[o] # << >> => startIndex'[o] + Len(remote'[o]) - 1 <= index'[p]
    <3>1. startIndex[o] \in Nat /\ Len(remote[o]) \in Nat
      BY <1>2, LenProperties DEF Types
    <3>. QED BY <1>1, <1>7, <2>1, <3>1
  <2>5. \A k \in 0 .. MaxIndex : sentEnd'[o][k] > 0 => k <= index'[o]
    BY <1>1, <1>5, <2>1
  <2>6. announced'[p] = index'[p] /\ announced'[o] = index'[o]
    BY <1>1, <1>7, <2>1
  <2>. QED BY <1>2, <2>2, <2>3, <2>4, <2>5, <2>6 DEF KnownIsReached, RemoteIndex, o
<1>10. PassedIsReached'
  <2>1. state'[o] \in Gated /\ frame'[o] > 0 => index'[o] <= index'[p]
    BY <1>1, <1>2, <1>7 DEF IInv, PassedIsReached
  <2>2. ~ frame'[p] > 0
    BY <1>7
  <2>. QED BY <1>2, <2>1, <2>2 DEF PassedIsReached, o
<1>. QED BY <1>6, <1>8, <1>9, <1>10

(* No choice is on its way to who enters a loading screen, and leaves the last one behind. *)
LEMMA NothingOnTheWay ==
  ASSUME IInv, NEW p \in Peers, NEW sc, NEW n \in 0 .. MaxIndex, NEW m \in 0 .. MaxIndex,
         Onward(p, sc, n, m), GameGoes(p) = "Loading"
  PROVE  menus[p] = << >>
<1>. DEFINE i == index[p]
<1>1. /\ i \in 0 .. n /\ index[Other(p)] \in 0 .. n /\ i \in Nat /\ sc[i].st = state[p] /\ Running(p)
      /\ index[Other(p)] \in Nat
  BY EnterIs
<1>2. IsScript(sc, n) /\ Scripted(sc) /\ Leads(sc[i], "Loading")
  BY DEF Onward
<1>3. OfThisMatch(sc, p) /\ AtMostOne(p) /\ ChoiceKept(p)
  BY <1>1, <1>2 DEF Scripted, MenuInv
<1>4. CASE state[p] = "RetryMenu"
  BY <1>4, OpponentIsThere
<1>5. CASE state[p] # "RetryMenu"
  <2>1. state[p] = "CharaSelect"
    BY <1>1, <1>2, <1>5 DEF Leads
  <2>2. CASE heard[p] # None
    BY <1>3, <2>2 DEF AtMostOne
  <2>3. CASE heard[p] = None
    <3>1. i = 1
      BY <1>3, <2>1, <2>3 DEF ChoiceKept
    <3>2. SUFFICES ASSUME menus[p] # << >> PROVE FALSE
      OBVIOUS
    <3>3. Pending(p) # {}
      BY <1>3, <3>2 DEF AtMostOne, Pending
    <3>4. PICK k \in 0 .. index[Other(p)] : IsMenu(sc, k) /\ sc[k].gm = sc[i].gm
      BY <1>3, <3>3 DEF OfThisMatch
    <3>5. k # 0 /\ k # 1
      BY <1>1, <1>2, <2>1, <3>1, <3>4 DEF IsScript, IsMenu
    <3>6. k \in 2 .. n /\ 2 \in 1 .. n /\ k \in 0 .. n /\ 2 \in 0 .. k /\ 2 - 1 = i /\ 2 \in 0 .. n
      BY <1>1, <3>1, <3>4, <3>5, Bounds
    <3>7. sc[2].st = "Loading" /\ sc[2].gm > sc[i].gm
      <4>1. Leads(sc[2 - 1], sc[2].st)
        BY <1>2, <3>6 DEF IsScript
      <4>2. sc[2].st = "Loading"
        BY <1>1, <2>1, <3>6, <4>1 DEF Leads
      <4>. QED BY <1>2, <3>6, <4>2, CameFrom
    <3>8. sc[2].gm <= sc[k].gm
      BY <1>2, <3>6 DEF IsScript
    <3>9. sc[2].gm \in Nat /\ sc[i].gm \in Nat
      BY <1>1, <1>2, <3>6, SceneIs
    <3>. QED BY <3>4, <3>7, <3>8, <3>9
  <2>. QED BY <2>2, <2>3
<1>. QED BY <1>4, <1>5

(* Nor to the opponent of who enters the retry menu. *)
LEMMA NothingHeard ==
  ASSUME IInv, NEW p \in Peers, NEW sc, NEW n \in 0 .. MaxIndex, NEW m \in 0 .. MaxIndex,
         Onward(p, sc, n, m), GameGoes(p) = "RetryMenu", Running(Other(p))
  PROVE  Pending(Other(p)) = {}
<1>. DEFINE i == index[p]
            o == Other(p)
<1>1. /\ i \in 0 .. n /\ index[o] \in 0 .. n /\ i \in Nat /\ sc[i].st = state[p] /\ i + 1 \in 1 .. m
      /\ i \in 0 .. m /\ sc[i + 1].st = "RetryMenu" /\ sc[i + 1].gm = sc[i].gm
  BY EnterIs
<1>2. /\ IsScript(sc, n) /\ IsScript(sc, m) /\ Scripted(sc) /\ Leads(sc[i], "RetryMenu") /\ Furthest(n)
      /\ Types /\ o \in Peers /\ Other(o) = p
  BY Two DEF Onward, IInv
<1>3. OfThisMatch(sc, o)
  BY <1>2 DEF Scripted, MenuInv
<1>4. state[p] = "Skippable" /\ i \in 0 .. index[p]
  BY <1>1, <1>2 DEF Leads
<1>5. sc[i].gm <= sc[index[o]].gm
  BY <1>1, <1>2, <1>4, InThatMatch DEF Scripted
<1>6. SUFFICES ASSUME Pending(o) # {} PROVE FALSE
  OBVIOUS
<1>7. PICK k \in 0 .. index[p] : IsMenu(sc, k) /\ sc[k].gm = sc[index[o]].gm
  BY <1>2, <1>3, <1>6 DEF OfThisMatch
<1>8. k \in 0 .. (i + 1) - 1 /\ i + 1 \in 0 .. m
  BY <1>1, <1>7
<1>9. sc[k].gm < sc[i + 1].gm
  BY <1>1, <1>2, <1>7, <1>8 DEF IsScript
<1>10. sc[k].gm \in Nat /\ sc[i].gm \in Nat /\ sc[index[o]].gm \in Nat
  BY <1>1, <1>2, <1>7, SceneIs
<1>. QED BY <1>1, <1>5, <1>7, <1>9, <1>10

LEMMA EnterMenu ==
  ASSUME IInv, NEW p \in Peers, NEW sc, NEW n \in 0 .. MaxIndex, NEW m \in 0 .. MaxIndex,
         Onward(p, sc, n, m)
  PROVE  MenuInv(sc)'
<1>. DEFINE s == GameGoes(p)
            i == index[p] + 1
            o == Other(p)
<1>1. /\ i \in Nat /\ i <= MaxIndex /\ index[p] \in Nat /\ index[o] \in Nat /\ index'[p] = i
      /\ index'[o] = index[o] /\ sc[i].st = s /\ state'[p] = s /\ s \in States \ {"Initial"} /\ state'[o] = state[o]
      /\ sc[index[p]].st = state[p] /\ sc[index[o]].st = state[o] /\ Running(p)
      /\ s # "Loading" => sc[i].gm = sc[index[p]].gm
  BY EnterIs
<1>2. /\ Enter(p) /\ Types /\ o \in Peers /\ o # p /\ Other(o) = p /\ \A q \in Peers : q = p \/ q = o
      /\ Leads(sc[index[p]], s) /\ Scripted(sc) /\ IsScript(sc, m)
  BY Two DEF IInv, Onward
<1>3. /\ choice'[p] = IF s = "Loading" THEN None ELSE choice[p]
      /\ heard'[p] = IF s = "Loading" THEN None ELSE heard[p]
      /\ target'[p] = None /\ (menuSent'[p] => s # "RetryMenu") /\ menus' = menus
      /\ pc'[p] # "stopped"
  BY <1>2 DEF Enter, ResetMenu, Types
<1>4. /\ choice'[o] = choice[o] /\ heard'[o] = heard[o] /\ target'[o] = target[o]
      /\ menuSent'[o] = menuSent[o] /\ pc'[o] = pc[o]
  BY <1>2 DEF Enter, ResetMenu, Types
<1>5. (Running(p))' /\ ((Running(o))' <=> Running(o))
  BY <1>3, <1>4 DEF Running
<1>6. (Pending(p))' \subseteq Pending(p) /\ (s = "Loading" => (Pending(p))' = {})
  <2>1. s = "Loading" => menus[p] = << >>
    BY NothingOnTheWay
  <2>2. s = "Loading" => (Pending(p))' = {}
    BY <1>3, <2>1 DEF Pending, Choices, None
  <2>3. s # "Loading" => (Pending(p))' = Pending(p)
    BY <1>3 DEF Pending
  <2>. QED BY <2>2, <2>3
<1>7. (Pending(o))' = Pending(o) /\ (RetryTarget(o))' = RetryTarget(o)
  BY <1>3, <1>4 DEF Pending, RetryTarget
<1>8. /\ \A k \in Nat : HasChosen(p, k) => (HasChosen(p, k))'
      /\ \A k : (HasChosen(o, k))' <=> HasChosen(o, k)
  BY <1>1, <1>4, <1>5 DEF HasChosen
<1>9. /\ state[p] \in Blocking => index[p] <= index[o]
      /\ state[p] = "RetryMenu" => /\ HasChosen(o, index[p]) /\ heard[p] \in Choices /\ choice[p] \in Choices
                                   /\ target[p] = RetryTarget(p)
  BY OpponentIsThere
<1>10. /\ OfThisMatch(sc, p) /\ AtMostOne(p) /\ BothChose(sc, p)
       /\ IsOpponents(p) /\ ChoiceKept(p) /\ WillFollow(sc, p)
  BY <1>1, <1>2 DEF Scripted, MenuInv
<1>11. s = "RetryMenu" /\ Running(o) => Pending(o) = {}
  BY NothingHeard
<1>12. /\ state[p] = "Initial" => index[p] = 0
       /\ s = "CharaSelect" => state[p] \in {"Initial", "RetryMenu"}
       /\ state[p] = "RetryMenu" => s = Entry(choice[p], heard[p])
  <2>1. state[p] = "Initial" => index[p] = 0
    <3>1. index[p] \in 0 .. m
      BY EnterIs
    <3>2. index[p] # 0 => index[p] \in 1 .. m
      BY <1>1, <3>1, Bounds
    <3>. QED BY <1>1, <1>2, <3>2 DEF IsScript
  <2>2. s = "CharaSelect" => state[p] \in {"Initial", "RetryMenu"}
    BY <1>1, <1>2 DEF Leads
  <2>3. state[p] = "RetryMenu" => s = Entry(choice[p], heard[p])
    BY <1>9 DEF GameGoes, Entry, RetryTarget, Choices
  <2>. QED BY <2>1, <2>2, <2>3
<1>. HIDE DEF o, s
<1>13. (/\ OfThisMatch(sc, p) /\ AtMostOne(p) /\ BothChose(sc, p)
        /\ IsOpponents(p) /\ ChoiceKept(p) /\ WillFollow(sc, p))'
  <2>1. (OfThisMatch(sc, p))'
    <3>1. SUFFICES ASSUME (Pending(p))' # {}
                   PROVE  \E k \in 0 .. index'[o] :
                            IsMenu(sc, k) /\ (HasChosen(o, k))' /\ sc[k].gm = sc[i].gm
      BY <1>1, <1>2 DEF OfThisMatch, IsMenu, o
    <3>2. s # "Loading" /\ Pending(p) # {}
      BY <1>6, <3>1
    <3>3. PICK k \in 0 .. index[o] : IsMenu(sc, k) /\ HasChosen(o, k) /\ sc[k].gm = sc[index[p]].gm
      BY <1>10, <3>2 DEF OfThisMatch, o
    <3>. QED BY <1>1, <1>8, <3>2, <3>3
  <2>2. (AtMostOne(p))'
    BY <1>3, <1>10 DEF AtMostOne
  <2>3. (BothChose(sc, p))'
    <3>1. SUFFICES ASSUME (Running(o))', NEW k \in 0 .. MaxIndex, k < i, IsMenu(sc, k)
                   PROVE  (HasChosen(o, k))'
      BY <1>1, <1>2 DEF BothChose, IsMenu, o
    <3>2. CASE k < index[p]
      BY <1>5, <1>8, <1>10, <3>1, <3>2 DEF BothChose, o
    <3>3. CASE k = index[p]
      BY <1>1, <1>8, <1>9, <3>1, <3>3 DEF IsMenu
    <3>. QED BY <1>1, <3>1, <3>2, <3>3, Bounds
  <2>4. (IsOpponents(p))'
    BY <1>1, <1>4, <1>5, <1>6, <1>10 DEF IsOpponents, o
  <2>5. (ChoiceKept(p))'
    <3>1. s = "CharaSelect" => i = 1 \/ heard'[p] # None
      BY <1>1, <1>3, <1>9, <1>12 DEF Choices, None
    <3>. QED BY <1>1, <1>3, <3>1 DEF ChoiceKept
  <2>6. (WillFollow(sc, p))'
    <3>1. ~ (s = "RetryMenu" /\ index[o] > i)
      <4>1. SUFFICES ASSUME s = "RetryMenu", index[o] > i PROVE FALSE
        OBVIOUS
      <4>2. i \in 0 .. MaxIndex /\ i < index[o] /\ sc[i].st \in Blocking
        BY <1>1, <4>1, Bounds DEF Blocking
      <4>3. i <= index[p]
        BY <1>2, <4>2 DEF Scripted, SideBySide
      <4>. QED BY <1>1, <4>3
    <3>. QED BY <1>1, <3>1 DEF WillFollow, o
  <2>. QED BY <2>1, <2>2, <2>3, <2>4, <2>5, <2>6
<1>14. ASSUME (Running(o))'
       PROVE  (/\ OfThisMatch(sc, o) /\ AtMostOne(o) /\ BothChose(sc, o)
               /\ IsOpponents(o) /\ ChoiceKept(o) /\ WillFollow(sc, o))'
  <2>1. /\ OfThisMatch(sc, o) /\ AtMostOne(o) /\ BothChose(sc, o)
        /\ IsOpponents(o) /\ ChoiceKept(o) /\ WillFollow(sc, o) /\ Running(o)
    BY <1>2, <1>5, <1>14 DEF Scripted, MenuInv
  <2>2. (OfThisMatch(sc, o))'
    <3>1. SUFFICES ASSUME Pending(o) # {}
                   PROVE  \E k \in 0 .. i :
                            IsMenu(sc, k) /\ (HasChosen(p, k))' /\ sc[k].gm = sc[index[o]].gm
      BY <1>1, <1>2, <1>7 DEF OfThisMatch, IsMenu
    <3>2. PICK k \in 0 .. index[p] : IsMenu(sc, k) /\ HasChosen(p, k) /\ sc[k].gm = sc[index[o]].gm
      BY <1>2, <2>1, <3>1 DEF OfThisMatch
    <3>3. k \in Nat /\ k \in 0 .. i
      BY <1>1, <3>2
    <3>. QED BY <1>8, <3>2, <3>3
  <2>3. (AtMostOne(o))'
    BY <1>3, <1>4, <2>1 DEF AtMostOne
  <2>4. (BothChose(sc, o))'
    <3>1. \A k \in 0 .. MaxIndex : k \in Nat
      BY Bounds
    <3>2. \A k \in 0 .. MaxIndex : k < index[o] /\ IsMenu(sc, k) => (HasChosen(p, k))'
      BY <1>1, <1>2, <1>8, <2>1, <3>1 DEF BothChose
    <3>. QED BY <1>1, <1>2, <3>2 DEF BothChose, IsMenu
  <2>5. (IsOpponents(o))'
    <3>1. SUFFICES ASSUME s = "RetryMenu" PROVE (Pending(o))' = {}
      <4>1. s # "RetryMenu" => (IsOpponents(o))'
        BY <1>1, <1>2 DEF IsOpponents
      <4>2. (Pending(o))' = {} => (IsOpponents(o))'
        BY DEF IsOpponents
      <4>. QED BY <4>1, <4>2
    <3>. QED BY <1>7, <1>11, <2>1, <3>1
  <2>6. (ChoiceKept(o))'
    BY <1>1, <1>4, <1>7, <2>1 DEF ChoiceKept
  <2>7. (WillFollow(sc, o))'
    <3>1. SUFFICES ASSUME state[o] = "RetryMenu", i > index[o]
                   PROVE  choice[o] # None /\ \A c \in Pending(o) : sc[index[o] + 1].st = Entry(choice[o], c)
      BY <1>1, <1>2, <1>4, <1>7 DEF WillFollow
    <3>2. CASE index[p] > index[o]
      BY <1>2, <2>1, <3>1, <3>2 DEF WillFollow
    <3>3. CASE ~ index[p] > index[o]
      <4>1. index[p] = index[o] /\ state[p] = "RetryMenu"
        BY <1>1, <3>1, <3>3
      <4>2. heard[p] \in Choices /\ heard[p] \in Pending(p) /\ choice[p] \in Choices
        BY <1>9, <4>1 DEF Pending
      <4>3. choice[o] = heard[p]
        BY <1>10, <2>1, <3>1, <4>2 DEF IsOpponents, o
      <4>4. \A c \in Pending(o) : choice[p] = c
        BY <1>1, <1>2, <2>1, <4>1 DEF IsOpponents
      <4>5. sc[index[o] + 1].st = Entry(choice[p], choice[o])
        BY <1>1, <1>12, <4>1, <4>3
      <4>6. Entry(choice[p], choice[o]) = Entry(choice[o], choice[p])
        BY DEF Entry
      <4>7. choice[o] # None
        BY <4>2, <4>3 DEF Choices, None
      <4>. QED BY <4>4, <4>5, <4>6, <4>7
    <3>. QED BY <3>2, <3>3
  <2>. QED BY <2>2, <2>3, <2>4, <2>5, <2>6, <2>7
<1>. QED BY <1>2, <1>13, <1>14 DEF MenuInv

LEMMA EnterRng ==
  ASSUME IInv, NEW p \in Peers, NEW sc, NEW n \in 0 .. MaxIndex, NEW m \in 0 .. MaxIndex,
         Onward(p, sc, n, m)
  PROVE  RngInv(sc)'
<1>. DEFINE s == GameGoes(p)
            i == index[p] + 1
            o == Other(p)
<1>1. /\ i \in Nat /\ i <= MaxIndex /\ index[p] \in Nat /\ index[o] \in Nat /\ index'[p] = i
      /\ index'[o] = index[o] /\ sc[i].st = s /\ state'[p] = s /\ state'[o] = state[o]
      /\ connected[p] /\ ~ shouldSync[p] /\ Running(p)
  BY EnterIs
<1>2. /\ Enter(p) /\ Types /\ o \in Peers /\ o # p /\ \A q \in Peers : q = p \/ q = o
      /\ Scripted(sc) /\ Types'
  BY Two, EnterFits DEF IInv, Onward
<1>3. /\ shouldSync'[p] = (shouldSync[p] \/ s \in Synced) /\ frame'[p] = 0 /\ pc'[p] = "input"
      /\ UNCHANGED << seed, connected, rngs >>
      /\ shouldSync'[o] = shouldSync[o] /\ frame'[o] = frame[o] /\ pc'[o] = pc[o]
  BY <1>2 DEF Enter, NeedsRng, Types
<1>4. PICK offset \in Nat : \E r \in Seq(Ends) :
        /\ startIndex[p] + offset <= i /\ (p = Host => offset = 0)
        /\ startIndex' = [startIndex EXCEPT ![p] = startIndex[p] + offset]
        /\ rngStates' = [rngStates EXCEPT ![p] = SubSeq(rngStates[p], offset + 1, Len(rngStates[p]))]
        /\ remote' = [remote EXCEPT ![p] = r]
        /\ r = << >> \/ (remote[p] # << >> /\ offset + Len(r) = Len(remote[p]))
  <2>1. CollectOld(p, s, i)
    BY <1>2 DEF Enter
  <2>. HIDE DEF s
  <2>2. i \in Nat /\ i <= MaxIndex
    BY <1>1
  <2>. QED BY <2>1, <2>2, CollectIs
<1>5. /\ startIndex'[p] = startIndex[p] + offset /\ startIndex'[o] = startIndex[o]
      /\ rngStates'[p] = SubSeq(rngStates[p], offset + 1, Len(rngStates[p]))
      /\ rngStates'[o] = rngStates[o]
      /\ p = Host => offset = 0
  BY <1>2, <1>4 DEF Types
<1>. HIDE DEF s, o
<1>6. AsksOnce'
  <2>1. ASSUME (Running(o))'
        PROVE  /\ shouldSync'[o] <=> state'[o] \in Synced /\ frame'[o] = 0
               /\ pc'[o] = "callback" => ~ shouldSync'[o]
    BY <1>1, <1>2, <1>3, <2>1 DEF Running, Scripted, RngInv, AsksOnce
  <2>2. /\ shouldSync'[p] <=> state'[p] \in Synced /\ frame'[p] = 0
        /\ pc'[p] # "callback"
    BY <1>1, <1>3
  <2>. QED BY <1>2, <2>1, <2>2 DEF AsksOnce
<1>7. HostHolds'
  <2>1. startIndex[Host] = 0 /\ rngs[Host] = << >>
    BY <1>2 DEF Scripted, RngInv, HostHolds
  <2>2. CASE p = Host
    BY <1>3, <1>5, <2>1, <2>2 DEF HostHolds
  <2>3. CASE o = Host
    <3>1. /\ startIndex'[Host] = startIndex[Host] /\ rngStates'[Host] = rngStates[Host]
          /\ index'[Host] = index[Host] /\ pc'[Host] = pc[Host] /\ shouldSync'[Host] = shouldSync[Host]
      BY <1>1, <1>3, <1>5, <2>3
    <3>. QED BY <1>2, <1>3, <3>1 DEF Scripted, RngInv, HostHolds, RngOf
  <2>. QED BY <1>2, <2>2, <2>3, Two
<1>8. \A j \in Int : Snapped(j) => (Snapped(j))'
  <2>1. CASE p = Host
    <3>1. ASSUME NEW j \in Int, Snapped(j) PROVE j < i
      BY <1>1, <2>1, <3>1 DEF Snapped
    <3>. QED BY <1>1, <2>1, <3>1 DEF Snapped
  <2>2. CASE o = Host
    BY <1>1, <1>3, <2>2 DEF Snapped
  <2>. QED BY <1>2, <2>1, <2>2, Two
<1>9. /\ \A k \in DOMAIN rngStates[Client] :
           /\ rngStates[Client][k] \in {None, IndexOf(Client, k)}
           /\ rngStates[Client][k] = None => k + 1 \in DOMAIN rngStates[Client]
           /\ Snapped(IndexOf(Client, k))
      /\ \A k \in DOMAIN rngs[Client] :
           /\ Snapped(rngs[Client][k])
           /\ \A l \in DOMAIN rngStates[Client] : IndexOf(Client, l) < rngs[Client][k]
           /\ \A l \in DOMAIN rngs[Client] : l < k => rngs[Client][l] < rngs[Client][k]
  BY <1>2 DEF Scripted, RngInv, InOrder
(* What is left of the client's list, entry by entry. *)
<1>10. \E cut \in Nat :
         /\ startIndex'[Client] = startIndex[Client] + cut
         /\ \A k \in DOMAIN rngStates'[Client] : /\ k + cut \in DOMAIN rngStates[Client]
                                                 /\ rngStates'[Client][k] = rngStates[Client][k + cut]
         /\ \A k \in DOMAIN rngStates[Client] :
              k > cut => /\ k - cut \in DOMAIN rngStates'[Client]
                         /\ rngStates'[Client][k - cut] = rngStates[Client][k]
  <2>1. rngStates[Client] \in Seq(0 .. MaxIndex \cup {None}) /\ startIndex[Client] \in Nat
    BY <1>2, Two DEF Types
  <2>2. CASE p = Client
    <3>. DEFINE list == rngStates[Client]
                t == SubSeq(list, offset + 1, Len(list))
    <3>1. /\ \A k \in DOMAIN t : k + offset \in DOMAIN list /\ t[k] = list[k + offset]
          /\ \A k \in DOMAIN list : k > offset => k - offset \in DOMAIN t /\ t[k - offset] = list[k]
      <4>. DEFINE S == 0 .. MaxIndex \cup {None}
      <4>1. list \in Seq(S)
        BY <2>1
      <4>. HIDE DEF S, list
      <4>. QED BY <4>1, CutIs
    <3>2. rngStates'[Client] = t
      BY <1>5, <2>2
    <3>. HIDE DEF t
    <3>. QED BY <1>5, <2>2, <3>1, <3>2
  <2>3. CASE o = Client
    <3>1. \A k \in DOMAIN rngStates[Client] : k + 0 = k /\ k - 0 = k
      BY <2>1, LenProperties
    <3>2. startIndex'[Client] = startIndex[Client] + 0 /\ rngStates'[Client] = rngStates[Client]
      BY <1>5, <2>1, <2>3
    <3>. QED BY <3>1, <3>2
  <2>. QED BY <1>2, <2>2, <2>3, Two
<1>11. PICK cut \in Nat :
         /\ startIndex'[Client] = startIndex[Client] + cut
         /\ \A k \in DOMAIN rngStates'[Client] : /\ k + cut \in DOMAIN rngStates[Client]
                                                 /\ rngStates'[Client][k] = rngStates[Client][k + cut]
         /\ \A k \in DOMAIN rngStates[Client] :
              k > cut => /\ k - cut \in DOMAIN rngStates'[Client]
                         /\ rngStates'[Client][k - cut] = rngStates[Client][k]
  BY <1>10
<1>12. /\ startIndex[Client] \in Nat
       /\ \A k \in DOMAIN rngStates[Client] : k \in Nat
       /\ \A k \in DOMAIN rngStates'[Client] : k \in Nat
  <2>1. /\ rngStates[Client] \in Seq(0 .. MaxIndex \cup {None}) /\ startIndex[Client] \in Nat
        /\ rngStates'[Client] \in Seq(0 .. MaxIndex \cup {None})
    BY <1>2, Two DEF Types
  <2>. QED BY <2>1, LenProperties
<1>13. \A k \in DOMAIN rngStates'[Client] : (IndexOf(Client, k))' = IndexOf(Client, k + cut)
  BY <1>11, <1>12 DEF IndexOf
<1>14. InOrder'
  <2>1. ASSUME NEW k \in DOMAIN rngStates'[Client]
        PROVE  /\ rngStates'[Client][k] \in {None, (IndexOf(Client, k))'}
               /\ rngStates'[Client][k] = None => k + 1 \in DOMAIN rngStates'[Client]
               /\ Snapped(IndexOf(Client, k + cut))
    <3>1. k + cut \in DOMAIN rngStates[Client] /\ rngStates'[Client][k] = rngStates[Client][k + cut]
      BY <1>11
    <3>2. ASSUME rngStates'[Client][k] = None PROVE k + 1 \in DOMAIN rngStates'[Client]
      <4>1. (k + cut) + 1 \in DOMAIN rngStates[Client]
        BY <1>9, <3>1, <3>2
      <4>2. (k + cut) + 1 > cut /\ ((k + cut) + 1) - cut = k + 1
        BY <1>12
      <4>. QED BY <1>11, <4>1, <4>2
    <3>. QED BY <1>9, <1>13, <3>1, <3>2
  <2>2. \A k \in DOMAIN rngs[Client] : \A l \in DOMAIN rngStates'[Client] :
          IndexOf(Client, l + cut) < rngs[Client][k]
    BY <1>9, <1>11
  <2>3. /\ \A k \in DOMAIN rngStates'[Client] : IndexOf(Client, k + cut) \in Int
        /\ \A k \in DOMAIN rngs[Client] : rngs[Client][k] \in Int
    <3>1. rngs[Client] \in Seq(0 .. MaxIndex)
      BY <1>2, Two DEF Types
    <3>2. \A k \in DOMAIN rngs[Client] : rngs[Client][k] \in 0 .. MaxIndex
      BY <3>1, ElementOfSeq, LenProperties
    <3>. QED BY <1>12, <3>2 DEF IndexOf
  <2>. QED BY <1>3, <1>8, <1>9, <1>13, <2>1, <2>2, <2>3 DEF InOrder
<1>15. (NoneIsLost(sc))'
  <2>1. SUFFICES ASSUME (Running(Client))', NEW j \in startIndex'[Client] .. index'[Host],
                        sc[j].st \in Synced,
                        \/ j < index'[Host]
                        \/ connected'[Host] /\ (pc'[Host] = "gate" \/ ~ shouldSync'[Host])
                 PROVE  (Queued(j))' \/ (Held(j))'
    BY DEF NoneIsLost
  <2>2. Running(Client)
    <3>1. (Running(o))' => Running(o)
      BY <1>3 DEF Running
    <3>. QED BY <1>1, <1>2, <2>1, <3>1, Two
  <2>3. /\ index[Host] \in Nat /\ index'[Host] \in Nat /\ j \in Nat /\ startIndex[Client] <= j
        /\ startIndex'[Client] <= j /\ j <= index'[Host]
    <3>1. index[Host] \in 0 .. MaxIndex /\ index'[Host] \in 0 .. MaxIndex
      BY <1>2, Two DEF Types
    <3>. QED BY <1>11, <1>12, <2>1, <3>1, Bounds
  <2>4. /\ j \in startIndex[Client] .. index[Host]
        /\ j < index[Host] \/ (connected[Host] /\ (pc[Host] = "gate" \/ ~ shouldSync[Host]))
    <3>1. CASE p = Host
      <4>1. j # i
        <5>1. SUFFICES ASSUME j = i PROVE FALSE
          OBVIOUS
        <5>2. shouldSync'[Host] /\ pc'[Host] = "input" /\ ~ j < index'[Host]
          <6>1. shouldSync'[Host] /\ pc'[Host] = "input"
            BY <1>1, <1>3, <2>1, <3>1, <5>1
          <6>2. index'[Host] = i /\ ~ i < i
            BY <1>1, <3>1
          <6>. QED BY <5>1, <6>1, <6>2
        <5>. QED BY <2>1, <5>2
      <4>2. j <= index[Host]
        BY <1>1, <2>3, <3>1, <4>1
      <4>. QED BY <1>1, <1>12, <2>3, <3>1, <4>2
    <3>2. CASE o = Host
      BY <1>1, <1>3, <1>12, <2>1, <2>3, <3>2
    <3>. QED BY <1>2, <3>1, <3>2, Two
  <2>5. Queued(j) \/ Held(j)
    BY <1>2, <2>1, <2>2, <2>4 DEF Scripted, RngInv, NoneIsLost
  <2>6. Queued(j) => (Queued(j))'
    BY <1>3 DEF Queued
  <2>7. Held(j) => (Held(j))'
    <3>1. SUFFICES ASSUME Held(j) PROVE (Held(j))'
      OBVIOUS
    <3>2. PICK k \in DOMAIN rngStates[Client] : IndexOf(Client, k) = j /\ rngStates[Client][k] = j
      BY <3>1 DEF Held
    <3>3. k > cut
      BY <1>11, <1>12, <2>3, <3>2 DEF IndexOf
    <3>4. k - cut \in DOMAIN rngStates'[Client] /\ rngStates'[Client][k - cut] = j
      BY <1>11, <3>2, <3>3
    <3>5. (IndexOf(Client, k - cut))' = j
      BY <1>11, <1>12, <3>2 DEF IndexOf
    <3>. QED BY <3>4, <3>5 DEF Held
  <2>. QED BY <2>5, <2>6, <2>7
<1>16. RngAgreed'
  <2>1. ~ frame'[p] > 0
    BY <1>3
  <2>2. state'[o] \in Synced /\ frame'[o] > 0 => seed'[o] = index'[o]
    BY <1>1, <1>2, <1>3 DEF Scripted, RngInv, RngAgreed
  <2>. QED BY <1>2, <2>1, <2>2 DEF RngAgreed
<1>. QED BY <1>6, <1>7, <1>14, <1>15, <1>16 DEF RngInv

LEMMA EnterPreserves ==
  ASSUME IInv, NEW p \in Peers, Enter(p)
  PROVE  IInv'
<1>1. PICK sc \in Scripts : \E n, m \in 0 .. MaxIndex : Onward(p, sc, n, m)
  BY NextScene
<1>2. PICK n \in 0 .. MaxIndex, m \in 0 .. MaxIndex : Onward(p, sc, n, m)
  BY <1>1
<1>3. Types' /\ Fits' /\ KnownIsReached' /\ PassedIsReached'
  BY <1>2, EnterFits
<1>4. Scripted(sc)'
  BY <1>2, EnterFollows, EnterMenu, EnterRng DEF Scripted
<1>5. Furthest(m)' /\ IsScript(sc, m)
  BY <1>2 DEF Onward, Furthest
<1>. QED BY <1>3, <1>4, <1>5 DEF IInv

-----------------------------------------------------------------------------
(* The theorems *)

LEMMA NextPreserves == IInv /\ Next => IInv'
<1>. SUFFICES ASSUME IInv, Next PROVE IInv'
  OBVIOUS
<1>1. PICK p \in Peers :
        \/ FrameStep(p) \/ TimeOut(p) \/ DeliverMenu(p) \/ DeliverRng(p)
        \/ \E i \in 1 .. MaxIndex : DeliverIndex(p, i)
        \/ \E i \in 0 .. MaxIndex, end \in Ends : DeliverInputs(p, i, end)
        \/ LoseConnection(p)
  BY DEF Next
<1>2. CASE FrameStep(p)
  <2>1. CASE StopAtCallback(p) \/ StopInMenu(p) \/ PeerGone(p)
    BY <2>1, StopPreserves DEF StopAtCallback, StopInMenu, PeerGone
  <2>2. CASE Enter(p) \/ Stay(p)
    BY <2>2, EnterPreserves, StayPreserves
  <2>3. CASE SendChoice(p) \/ SendInputs(p) \/ Pass(p)
    BY <2>3, SendChoicePreserves, SendInputsPreserves, PassPreserves
  <2>. QED BY <1>2, <2>1, <2>2, <2>3 DEF FrameStep
<1>3. CASE TimeOut(p)
  BY <1>3, StopPreserves DEF TimeOut
<1>4. CASE DeliverMenu(p) \/ DeliverRng(p)
  BY <1>4, DeliverMenuPreserves, DeliverRngPreserves
<1>5. ASSUME NEW i \in 1 .. MaxIndex, DeliverIndex(p, i) PROVE IInv'
  BY <1>5, DeliverIndexPreserves
<1>6. ASSUME NEW i \in 0 .. MaxIndex, NEW end \in Ends, DeliverInputs(p, i, end) PROVE IInv'
  BY <1>6, DeliverInputsPreserves
<1>7. CASE LoseConnection(p)
  BY <1>7, LosePreserves
<1>. QED BY <1>1, <1>2, <1>3, <1>4, <1>5, <1>6, <1>7

LEMMA StutterPreserves == IInv /\ UNCHANGED vars => IInv'
<1>. SUFFICES ASSUME IInv, UNCHANGED vars PROVE IInv'
  OBVIOUS
<1>1. UNCHANGED << pc, index, state, round, route, frame, startIndex, remote, sentEnd, choice, heard,
                   target, menuSent, lazy, shouldSync, rngStates, seed, connected, announced, menus, rngs >>
  BY DEF vars, fsm, menu, rng, net
<1>2. Types'
  BY <1>1 DEF IInv, Types
<1>3. Fits' /\ KnownIsReached' /\ PassedIsReached'
  BY <1>1, GatesKept DEF IInv
<1>4. \A q \in Peers : (Running(q))' <=> Running(q)
  BY <1>1 DEF Running
<1>5. ASSUME NEW sc, Scripted(sc) PROVE MenuInv(sc)' /\ RngInv(sc)'
  BY <1>1, <1>4, <1>5, MenuKept, RngKept DEF Scripted
<1>. QED BY <1>1, <1>2, <1>3, <1>5, StaysPut

LEMMA Invariance == Spec => []IInv
<1>1. Init => IInv
  BY InitEstablishes
<1>2. IInv /\ [Next]_vars => IInv'
  BY NextPreserves, StutterPreserves
<1>. QED BY <1>1, <1>2, PTL DEF Spec

(* Neither the containers nor the indices of the two peers run away from each other: *)
(* no peer is ever more than three changes of state ahead (manager.cpp, where the    *)
(* states that wait for the opponent's inputs, and the retry menu, hold it back).    *)
THEOREM SessionsStayTogether == Spec => []Inv
BY Invariance, InvFollows, PTL

(* Index i is the same state for both, to the end of the session: both leave every   *)
(* retry menu by the same entry, though each chose for itself and the message of the *)
(* choice does not say which menu it answers.                                        *)
THEOREM RouteIsShared == Spec => []SameRoute
BY Invariance, InvFollows, PTL

(* A character select or a round past its first frame runs, on both sides, from the  *)
(* generator state the host took for that very index: the client's gate looks at the *)
(* length of its list only, and the entry is there all the same.                     *)
THEOREM GeneratorIsShared == Spec => []RngAgreed
BY Invariance, InvFollows, PTL

-----------------------------------------------------------------------------
(* Nobody hangs *)

(* What was chosen at menu m was sent: its peer is past the menu, or has marked it so. *)
ChoiceSent(p, m) == m < index[p] \/ (m = index[p] /\ menuSent[p])

(* A choice for the menu of the match a peer is in has reached it, or is on its way. *)
ChoiceArrives(p) ==
  LET o == Other(p)
  IN  Running(p) /\ connected[o] =>
        \A m \in 1 .. MaxIndex :
          /\ index[p] <= m /\ m <= index[o] /\ route[o][m] = "RetryMenu" /\ ChoiceSent(o, m)
          /\ \A k \in 1 .. m : index[p] < k => route[o][k] # "Loading"
          => Pending(p) # {}

(* No peer navigates, or passes the gate a second time, with its choice unsent. *)
ChoiceFirst(p) ==
  Running(p) =>
    /\ state[p] = "RetryMenu" /\ pc[p] = "gate" /\ choice[p] # None => menuSent[p]
    /\ target[p] # None => menuSent[p]

(* At the gate the window of the frame has been sent. *)
WindowSent(p) ==
  connected[p] /\ pc[p] = "gate" /\ state[p] \in Gated =>
    sentEnd[p][index[p]] = frame[p] + Delay + 1

HangInv == \A p \in Peers : ChoiceArrives(p) /\ ChoiceFirst(p) /\ WindowSent(p)

(* The choices depend on what Pass, SendInputs and most messages leave alone. *)
LEMMA ChoicesKept ==
  ASSUME UNCHANGED << index, route, heard, menuSent, menus >>,
         \A q \in Peers : ((Running(q))' <=> Running(q)) /\ (connected'[q] => connected[q]),
         NEW q \in Peers, ChoiceArrives(q)
  PROVE  (ChoiceArrives(q))'
<1>. DEFINE o == Other(q)
<1>1. o \in Peers
  BY Two
<1>2. (Pending(q))' = Pending(q) /\ \A m : (ChoiceSent(o, m))' <=> ChoiceSent(o, m)
  BY DEF Pending, ChoiceSent
<1>3. (Running(q))' /\ connected'[o] => Running(q) /\ connected[o]
  BY <1>1
<1>. QED BY <1>2, <1>3 DEF ChoiceArrives

(* What a step does not change of the peer that does not take it. *)
SameOf(q) ==
  /\ pc'[q] = pc[q] /\ state'[q] = state[q] /\ index'[q] = index[q] /\ frame'[q] = frame[q]
  /\ route'[q] = route[q] /\ sentEnd'[q] = sentEnd[q] /\ connected'[q] = connected[q]
  /\ choice'[q] = choice[q] /\ heard'[q] = heard[q] /\ target'[q] = target[q]
  /\ menuSent'[q] = menuSent[q]

LEMMA SameIsKept ==
  ASSUME NEW q \in Peers, SameOf(q)
  PROVE  /\ ChoiceFirst(q) => (ChoiceFirst(q))'
         /\ WindowSent(q) => (WindowSent(q))'
BY DEF SameOf, ChoiceFirst, WindowSent, Running

LEMMA InitHangs == Init => HangInv
<1>. SUFFICES ASSUME Init, NEW p \in Peers
              PROVE  ChoiceArrives(p) /\ ChoiceFirst(p) /\ WindowSent(p)
  BY DEF HangInv
<1>1. Other(p) \in Peers /\ index[Other(p)] = 0 /\ pc[p] = "callback" /\ target[p] = None
  BY Two DEF Init
<1>2. \A m \in 1 .. MaxIndex : ~ m <= 0
  BY Bounds
<1>. QED BY <1>1, <1>2 DEF ChoiceArrives, ChoiceFirst, WindowSent

(* A peer that stops hears nothing, and is not connected. *)
LEMMA StopHangs ==
  ASSUME IInv, HangInv, NEW p \in Peers, Stop(p)
  PROVE  HangInv'
<1>. DEFINE o == Other(p)
<1>1. Types /\ o \in Peers /\ o # p /\ Other(o) = p /\ \A q \in Peers : q = p \/ q = o
  BY Two DEF IInv
<1>. HIDE DEF o
<1>2. pc'[p] = "stopped" /\ connected'[p] = FALSE
  BY <1>1 DEF Stop, Types
<1>3. SameOf(o)
  BY <1>1 DEF Stop, Types, SameOf
<1>4. (ChoiceArrives(p))' /\ (ChoiceFirst(p))' /\ (WindowSent(p))'
  BY <1>2 DEF ChoiceArrives, ChoiceFirst, WindowSent, Running
<1>5. (ChoiceFirst(o))' /\ (WindowSent(o))'
  BY <1>1, <1>3, SameIsKept DEF HangInv
<1>6. (ChoiceArrives(o))'
  BY <1>1, <1>2 DEF ChoiceArrives
<1>. QED BY <1>1, <1>4, <1>5, <1>6 DEF HangInv

(* Steps that touch neither the menu nor the windows. *)
LEMMA QuietHangs ==
  ASSUME IInv, HangInv,
         UNCHANGED << state, index, frame, route, sentEnd, choice, heard, target, menuSent, menus >>,
         \A q \in Peers : /\ pc'[q] = pc[q] \/ (pc[q] = "callback" /\ pc'[q] = "input")
                          /\ connected'[q] => connected[q]
  PROVE  HangInv'
<1>. SUFFICES ASSUME NEW q \in Peers
              PROVE  (ChoiceArrives(q) /\ ChoiceFirst(q) /\ WindowSent(q))'
  BY DEF HangInv
<1>1. \A r \in Peers : (Running(r))' <=> Running(r)
  BY DEF Running
<1>2. (ChoiceArrives(q))'
  BY <1>1, ChoicesKept DEF HangInv
<1>3. (ChoiceFirst(q))'
  BY <1>1 DEF HangInv, ChoiceFirst
<1>4. (WindowSent(q))'
  BY DEF HangInv, WindowSent
<1>. QED BY <1>2, <1>3, <1>4

LEMMA PassHangs ==
  ASSUME IInv, HangInv, NEW p \in Peers, Pass(p)
  PROVE  HangInv'
<1>. DEFINE o == Other(p)
<1>1. Types /\ o \in Peers /\ o # p /\ Other(o) = p /\ \A q \in Peers : q = p \/ q = o
  BY Two DEF IInv
<1>. HIDE DEF o
<1>2. /\ pc[p] = "gate" /\ pc' = [pc EXCEPT ![p] = "callback"]
      /\ UNCHANGED << index, state, route, sentEnd, heard, menuSent, connected, menus >>
  BY DEF Pass, net
<1>3. /\ pc'[p] = "callback" /\ pc'[o] = pc[o]
      /\ \A q \in Peers : (Running(q))' <=> Running(q)
  BY <1>1, <1>2 DEF Running, Types
<1>4. SameOf(o)
  <2>1. frame'[o] = frame[o]
    BY <1>1 DEF Pass, Types
  <2>2. choice'[o] = choice[o] /\ target'[o] = target[o]
    BY <1>1 DEF Pass, RetryMenuInput, Types
  <2>. QED BY <1>2, <1>3, <2>1, <2>2 DEF SameOf
<1>5. \A q \in Peers : (ChoiceArrives(q))'
  BY <1>2, <1>3, ChoicesKept DEF HangInv
<1>6. (ChoiceFirst(p))' /\ (WindowSent(p))'
  <2>1. \/ target'[p] = target[p]
        \/ state[p] = "RetryMenu" /\ choice[p] # None
    BY DEF Pass, RetryMenuInput
  <2>2. ChoiceFirst(p) /\ Running(p)
    BY <1>2 DEF HangInv, Running
  <2>3. target'[p] # None => menuSent[p]
    BY <1>2, <2>1, <2>2 DEF ChoiceFirst
  <2>. QED BY <1>2, <1>3, <2>3 DEF ChoiceFirst, WindowSent
<1>7. (ChoiceFirst(o))' /\ (WindowSent(o))'
  BY <1>1, <1>4, SameIsKept DEF HangInv
<1>. QED BY <1>1, <1>5, <1>6, <1>7 DEF HangInv

LEMMA SendInputsHangs ==
  ASSUME IInv, HangInv, NEW p \in Peers, SendInputs(p)
  PROVE  HangInv'
<1>. DEFINE o == Other(p)
<1>1. Types /\ o \in Peers /\ o # p /\ Other(o) = p /\ \A q \in Peers : q = p \/ q = o
  BY Two DEF IInv
<1>. HIDE DEF o
<1>2. /\ pc[p] = "input" /\ state[p] # "RetryMenu" /\ pc' = [pc EXCEPT ![p] = "gate"]
      /\ UNCHANGED << index, state, frame, route, choice, heard, target, menuSent, connected, menus >>
      /\ sentEnd' = IF connected[p] /\ state[p] \in Gated
                    THEN [sentEnd EXCEPT ![p][index[p]] = frame[p] + Delay + 1] ELSE sentEnd
  BY DEF SendInputs, fsm, menu
<1>3. /\ pc'[p] = "gate" /\ pc'[o] = pc[o] /\ \A q \in Peers : (Running(q))' <=> Running(q)
  BY <1>1, <1>2 DEF Running, Types
<1>4. \A q \in Peers : (ChoiceArrives(q))'
  BY <1>2, <1>3, ChoicesKept DEF HangInv
<1>5. sentEnd'[o] = sentEnd[o]
  BY <1>1, <1>2 DEF Types
<1>6. (ChoiceFirst(o))' /\ (WindowSent(o))'
  <2>1. SameOf(o)
    BY <1>2, <1>3, <1>5 DEF SameOf
  <2>. QED BY <1>1, <2>1, SameIsKept DEF HangInv
<1>7. (ChoiceFirst(p))'
  BY <1>2, <1>3 DEF HangInv, ChoiceFirst
<1>8. (WindowSent(p))'
  <2>1. ASSUME connected[p], state[p] \in Gated PROVE sentEnd'[p][index[p]] = frame[p] + Delay + 1
    <3>1. sentEnd \in [Peers -> [0 .. MaxIndex -> Ends]] /\ index[p] \in 0 .. MaxIndex
      BY <1>1 DEF Types
    <3>. QED BY <1>2, <2>1, <3>1
  <2>. QED BY <1>2, <2>1 DEF WindowSent
<1>. QED BY <1>1, <1>4, <1>6, <1>7, <1>8 DEF HangInv

(* The choice goes out while the opponent is there. *)
LEMMA SendChoiceHangs ==
  ASSUME IInv, HangInv, NEW p \in Peers, SendChoice(p)
  PROVE  HangInv'
<1>. DEFINE o == Other(p)
            sends == choice[p] # None /\ ~ menuSent[p]
<1>1. Types /\ o \in Peers /\ o # p /\ Other(o) = p /\ \A q \in Peers : q = p \/ q = o
  BY Two DEF IInv
<1>2. /\ pc[p] = "input" /\ state[p] = "RetryMenu" /\ pc' = [pc EXCEPT ![p] = "gate"]
      /\ UNCHANGED << index, state, frame, route, sentEnd, choice, heard, target, connected >>
      /\ menus' = IF sends THEN Send(menus, p, choice[p]) ELSE menus
      /\ menuSent' = [menuSent EXCEPT ![p] = menuSent[p] \/ choice[p] # None]
  BY <1>1 DEF SendChoice, fsm, Types
<1>. HIDE DEF o
<1>3. /\ pc'[p] = "gate" /\ pc'[o] = pc[o] /\ \A q \in Peers : (Running(q))' <=> Running(q)
      /\ menuSent'[p] = (menuSent[p] \/ choice[p] # None) /\ menuSent'[o] = menuSent[o]
  BY <1>1, <1>2 DEF Running, Types
<1>4. menus'[p] = menus[p] /\ (~ sends => menus' = menus)
  BY <1>1, <1>2 DEF Send, Types, o
<1>5. (ChoiceFirst(o))' /\ (WindowSent(o))'
  <2>1. SameOf(o)
    BY <1>2, <1>3 DEF SameOf
  <2>. QED BY <1>1, <2>1, SameIsKept DEF HangInv
<1>6. (ChoiceFirst(p))'
  BY <1>2, <1>3 DEF HangInv, ChoiceFirst
<1>7. (WindowSent(p))'
  BY <1>2 DEF WindowSent, Gated
<1>8. (ChoiceArrives(p))'
  <2>1. (Pending(p))' = Pending(p)
    BY <1>2, <1>4 DEF Pending
  <2>2. \A m : (ChoiceSent(o, m))' <=> ChoiceSent(o, m)
    BY <1>2, <1>3 DEF ChoiceSent
  <2>. QED BY <1>1, <1>2, <1>3, <2>1, <2>2 DEF HangInv, ChoiceArrives, o
<1>9. (ChoiceArrives(o))'
  <2>1. CASE ~ sends
    <3>1. menus' = menus /\ menuSent'[p] = menuSent[p]
      BY <1>1, <1>3, <1>4, <2>1 DEF Types
    <3>2. (Pending(o))' = Pending(o) /\ \A m : (ChoiceSent(p, m))' <=> ChoiceSent(p, m)
      BY <1>2, <3>1 DEF Pending, ChoiceSent
    <3>. QED BY <1>1, <1>2, <1>3, <3>2 DEF HangInv, ChoiceArrives
  <2>2. CASE sends
    <3>1. SUFFICES ASSUME (Running(o))', connected'[p] PROVE (Pending(o))' # {}
      BY <1>1 DEF ChoiceArrives
    <3>2. menus' = [menus EXCEPT ![o] = Append(menus[o], choice[p])]
      BY <1>1, <1>2, <1>3, <2>2, <3>1 DEF Send, Types, o
    <3>3. menus'[o] # << >>
      <4>1. menus'[o] = Append(menus[o], choice[p])
        BY <1>1, <3>2 DEF Types
      <4>2. menus[o] \in Seq(Choices) /\ choice[p] \in Choices
        BY <1>1, <2>2 DEF Types
      <4>. QED BY <4>1, <4>2, AppendProperties
    <3>4. (AtMostOne(o))'
      <4>1. IInv'
        BY SendChoicePreserves
      <4>. QED BY <1>1, <3>1, <4>1 DEF IInv, Scripted, MenuInv
    <3>. QED BY <3>3, <3>4 DEF AtMostOne, Pending
  <2>. QED BY <2>1, <2>2
<1>. QED BY <1>1, <1>5, <1>6, <1>7, <1>8, <1>9 DEF HangInv

LEMMA DeliverMenuHangs ==
  ASSUME IInv, HangInv, NEW p \in Peers, DeliverMenu(p)
  PROVE  HangInv'
<1>. DEFINE o == Other(p)
<1>1. Types /\ o \in Peers /\ o # p /\ Other(o) = p /\ \A q \in Peers : q = p \/ q = o
  BY Two DEF IInv
<1>. HIDE DEF o
<1>2. /\ UNCHANGED << pc, index, state, frame, route, sentEnd, choice, target, menuSent, connected >>
      /\ heard' = [heard EXCEPT ![p] = Head(menus[p])] /\ menus[p] # << >>
      /\ menus' = [menus EXCEPT ![p] = Tail(menus[p])]
  BY <1>1 DEF DeliverMenu, fsm, Types
<1>3. heard'[o] = heard[o] /\ menus'[o] = menus[o]
  BY <1>1, <1>2 DEF Types
<1>4. \A q \in Peers : (ChoiceFirst(q))' /\ (WindowSent(q))'
  BY <1>2 DEF HangInv, ChoiceFirst, WindowSent, Running
<1>5. (ChoiceArrives(p))'
  <2>1. heard'[p] = Head(menus[p]) /\ menus[p] \in Seq(Choices)
    BY <1>1, <1>2 DEF Types
  <2>2. heard'[p] \in Choices
    BY <1>2, <2>1, TailIs
  <2>. QED BY <2>2 DEF ChoiceArrives, Pending
<1>6. (ChoiceArrives(o))'
  <2>1. (Pending(o))' = Pending(o) /\ \A m : (ChoiceSent(p, m))' <=> ChoiceSent(p, m)
    BY <1>2, <1>3 DEF Pending, ChoiceSent
  <2>2. (Running(o))' <=> Running(o)
    BY <1>2 DEF Running
  <2>. QED BY <1>1, <1>2, <2>1, <2>2 DEF HangInv, ChoiceArrives
<1>. QED BY <1>1, <1>4, <1>5, <1>6 DEF HangInv

(* A peer that enters Loading is in a new match, and the opponent is not at its menu:  *)
(* a round lies before it, which nobody leaves before the other is there.              *)
LEMMA NoMenuYet ==
  ASSUME IInv, NEW p \in Peers, NEW sc, NEW n \in 0 .. MaxIndex, NEW l \in 0 .. MaxIndex,
         Onward(p, sc, n, l), GameGoes(p) = "Loading",
         NEW m \in 1 .. n, index[p] + 1 <= m, m <= index[Other(p)]
  PROVE  ~ IsMenu(sc, m)
<1>. DEFINE i == index[p] + 1
            o == Other(p)
<1>1. IsScript(sc, n) /\ SideBySide(sc) /\ o \in Peers /\ Other(o) = p
  BY Two DEF Onward, Scripted
<1>2. i \in Nat /\ i \in 1 .. l /\ sc[i].st = "Loading" /\ index[o] \in Nat /\ index[p] \in Nat
  BY EnterIs
<1>. HIDE DEF o
<1>3. SUFFICES ASSUME sc[m].st = "RetryMenu" PROVE FALSE
  BY DEF IsMenu
<1>4. m \in Nat /\ n \in Nat /\ m > i
  <2>1. m # i
    BY <1>2, <1>3
  <2>. QED BY <1>2, <2>1, Bounds
<1>5. sc[m - 1].st = "Skippable" /\ m - 1 \in 1 .. n /\ m - 1 > i
  <2>1. sc[m - 1].st = "Skippable"
    BY <1>1, <1>3, CameFrom
  <2>2. m - 1 # i
    BY <1>2, <2>1
  <2>. QED BY <1>2, <1>4, <2>1, <2>2
<1>6. sc[m - 2].st = "InGame"
  <2>1. sc[(m - 1) - 1].st = "InGame"
    BY <1>1, <1>5, CameFrom
  <2>2. (m - 1) - 1 = m - 2
    BY <1>4
  <2>. QED BY <2>1, <2>2
<1>7. m - 2 \in 0 .. MaxIndex /\ m - 2 < index[o] /\ m - 2 > index[p]
  <2>1. m - 2 # i
    BY <1>2, <1>6
  <2>2. m - 2 >= i /\ m - 2 \in 0 .. MaxIndex
    BY <1>2, <1>4, <1>5, Bounds
  <2>3. m <= index[o]
    BY DEF o
  <2>. QED BY <1>2, <1>4, <2>1, <2>2, <2>3
<1>8. m - 2 <= index[p]
  BY <1>1, <1>6, <1>7 DEF SideBySide, Blocking
<1>. QED BY <1>2, <1>4, <1>7, <1>8

LEMMA EnterHangs ==
  ASSUME IInv, HangInv, NEW p \in Peers, Enter(p)
  PROVE  HangInv'
<1>. DEFINE o == Other(p)
            s == GameGoes(p)
            i == index[p] + 1
<1>1. PICK sc \in Scripts : \E n, l \in 0 .. MaxIndex : Onward(p, sc, n, l)
  BY NextScene
<1>2. PICK n \in 0 .. MaxIndex, l \in 0 .. MaxIndex : Onward(p, sc, n, l)
  BY <1>1
<1>3. Types /\ o \in Peers /\ o # p /\ Other(o) = p /\ \A q \in Peers : q = p \/ q = o
  BY Two DEF IInv
<1>4. /\ i \in 1 .. l /\ i \in Nat /\ index[p] \in Nat /\ index[o] \in Nat /\ index[o] \in 0 .. n
      /\ index'[p] = i /\ index'[o] = index[o] /\ sc[i].st = s /\ sc[index[p]].st = state[p]
      /\ state'[p] = s /\ state'[o] = state[o] /\ Running(p) /\ connected[p] /\ i <= MaxIndex
  BY <1>2, EnterIs
<1>5. /\ pc[p] = "callback" /\ pc' = [pc EXCEPT ![p] = "input"] /\ GameMoves(p)
      /\ frame' = [frame EXCEPT ![p] = 0]
      /\ route' = [route EXCEPT ![p] = Append(route[p], s)]
      /\ UNCHANGED << sentEnd, connected, menus >>
  BY <1>3 DEF Enter, Types
<1>6. /\ choice' = [choice EXCEPT ![p] = IF s = "Loading" THEN None ELSE choice[p]]
      /\ heard' = [heard EXCEPT ![p] = IF s = "Loading" THEN None ELSE heard[p]]
      /\ target' = [target EXCEPT ![p] = None]
      /\ menuSent' = [menuSent EXCEPT ![p] = menuSent[p] /\ s # "RetryMenu"]
  BY <1>3 DEF Enter, ResetMenu, Types
<1>. HIDE DEF o, s
<1>7. /\ pc'[p] = "input" /\ pc'[o] = pc[o] /\ frame'[o] = frame[o] /\ route'[o] = route[o]
      /\ \A q \in Peers : (Running(q))' <=> Running(q)
  BY <1>3, <1>5 DEF Running, Types
<1>8. /\ choice'[o] = choice[o] /\ heard'[o] = heard[o] /\ target'[o] = target[o]
      /\ menuSent'[o] = menuSent[o] /\ target'[p] = None
      /\ menuSent'[p] => s # "RetryMenu"
      /\ s # "Loading" => heard'[p] = heard[p]
  BY <1>3, <1>6 DEF Types
<1>9. (ChoiceFirst(o))' /\ (WindowSent(o))'
  <2>1. SameOf(o)
    BY <1>4, <1>5, <1>7, <1>8 DEF SameOf
  <2>. QED BY <1>3, <2>1, SameIsKept DEF HangInv
<1>10. (ChoiceFirst(p))' /\ (WindowSent(p))'
  BY <1>7, <1>8 DEF ChoiceFirst, WindowSent
<1>11. /\ \A k \in 1 .. index[o] : route[o][k] = sc[k].st
       /\ \A k \in 1 .. index[p] : route[p][k] = sc[k].st /\ route'[p][k] = route[p][k]
       /\ route'[p][i] = s
  <2>1. \A q \in Peers : /\ Len(route[q]) = index[q] /\ route[q] \in Seq(States)
                         /\ \A k \in 1 .. index[q] : route[q][k] = sc[k].st
    BY <1>2, <1>3 DEF Onward, Scripted, Follows, Types
  <2>2. route'[p] = Append(route[p], s)
    BY <1>3, <1>5 DEF Types
  <2>3. s \in States
    <3>1. s \in States \ {"Initial"}
      BY <1>2, EnterIs DEF s
    <3>. QED BY <3>1
  <2>. QED BY <1>3, <2>1, <2>2, <2>3, AppendProperties
<1>12. (ChoiceArrives(p))'
  <2>1. SUFFICES ASSUME (Running(p))', connected'[o], NEW m \in 1 .. MaxIndex,
                        i <= m, m <= index[o], route[o][m] = "RetryMenu", (ChoiceSent(o, m))',
                        \A k \in 1 .. m : i < k => route[o][k] # "Loading"
                 PROVE  (Pending(p))' # {}
    BY <1>4, <1>7 DEF ChoiceArrives, o
  <2>2. m \in 1 .. index[o] /\ m \in Nat /\ i \in 1 .. index[o] /\ m \in 1 .. n /\ index[p] <= m
    BY <1>4, <2>1, Bounds
  <2>3. s # "Loading"
    <3>1. IsMenu(sc, m)
      BY <1>11, <2>1, <2>2 DEF IsMenu
    <3>. QED BY <1>2, <2>1, <2>2, <3>1, NoMenuYet DEF o, s
  <2>4. ChoiceSent(o, m)
    BY <1>4, <1>8, <2>1 DEF ChoiceSent
  <2>5. ASSUME NEW k \in 1 .. m, index[p] < k PROVE route[o][k] # "Loading"
    <3>1. CASE k = i
      BY <1>4, <1>11, <2>2, <2>3, <3>1
    <3>2. CASE k # i
      BY <1>4, <2>1, <2>2, <2>5, <3>2
    <3>. QED BY <3>1, <3>2
  <2>6. Pending(p) # {}
    BY <1>4, <1>5, <2>1, <2>2, <2>4, <2>5 DEF HangInv, ChoiceArrives, o
  <2>. QED BY <1>5, <1>8, <2>3, <2>6 DEF Pending
<1>13. (ChoiceArrives(o))'
  <2>1. SUFFICES ASSUME (Running(o))', connected'[p], NEW m \in 1 .. MaxIndex,
                        index[o] <= m, m <= i, route'[p][m] = "RetryMenu", (ChoiceSent(p, m))',
                        \A k \in 1 .. m : index[o] < k => route'[p][k] # "Loading"
                 PROVE  (Pending(o))' # {}
    BY <1>3, <1>4 DEF ChoiceArrives
  <2>2. m # i
    <3>1. SUFFICES ASSUME m = i PROVE FALSE
      OBVIOUS
    <3>2. menuSent'[p]
      BY <1>4, <2>1, <3>1 DEF ChoiceSent
    <3>. QED BY <1>8, <1>11, <2>1, <3>1, <3>2
  <2>3. m \in 1 .. index[p] /\ m <= index[p] /\ m \in Nat
    BY <1>4, <2>1, <2>2
  <2>4. \A k \in 1 .. m : k \in 1 .. index[p]
    BY <1>4, <2>3
  <2>5. ChoiceSent(p, m)
    <3>1. CASE m < index[p]
      BY <3>1 DEF ChoiceSent
    <3>2. CASE m = index[p]
      <4>1. state[p] = "RetryMenu"
        BY <1>4, <1>11, <2>1, <2>3, <3>2
      <4>2. target[p] # None
        BY <1>5, <4>1 DEF GameMoves
      <4>3. menuSent[p]
        BY <1>4, <4>2 DEF HangInv, ChoiceFirst
      <4>. QED BY <3>2, <4>3 DEF ChoiceSent
    <3>. QED BY <1>4, <2>3, <3>1, <3>2
  <2>6. route[p][m] = "RetryMenu" /\ \A k \in 1 .. m : index[o] < k => route[p][k] # "Loading"
    BY <1>11, <2>1, <2>3, <2>4
  <2>7. Pending(o) # {}
    BY <1>3, <1>4, <1>5, <1>7, <2>1, <2>3, <2>5, <2>6 DEF HangInv, ChoiceArrives
  <2>. QED BY <1>5, <1>8, <2>7 DEF Pending
<1>. QED BY <1>3, <1>9, <1>10, <1>12, <1>13 DEF HangInv

LEMMA HangStep == IInv /\ HangInv /\ [Next]_vars => HangInv'
<1>. SUFFICES ASSUME IInv, HangInv, [Next]_vars PROVE HangInv'
  OBVIOUS
<1>1. ASSUME NEW p \in Peers, FrameStep(p) PROVE HangInv'
  <2>1. CASE StopAtCallback(p) \/ StopInMenu(p) \/ PeerGone(p)
    BY <2>1, StopHangs DEF StopAtCallback, StopInMenu, PeerGone
  <2>2. CASE Stay(p)
    <3>1. /\ pc[p] = "callback" /\ pc' = [pc EXCEPT ![p] = "input"]
          /\ UNCHANGED << state, index, frame, route, sentEnd, choice, heard, target, menuSent,
                          connected, menus >>
      BY <2>2 DEF Stay, fsm, menu, net
    <3>2. \A q \in Peers : pc'[q] = pc[q] \/ (pc[q] = "callback" /\ pc'[q] = "input")
      BY <3>1 DEF IInv, Types
    <3>. QED BY <3>1, <3>2, QuietHangs
  <2>3. CASE SendChoice(p) \/ SendInputs(p) \/ Pass(p)
    BY <2>3, SendChoiceHangs, SendInputsHangs, PassHangs
  <2>4. CASE Enter(p)
    BY <2>4, EnterHangs
  <2>. QED BY <1>1, <2>1, <2>2, <2>3, <2>4 DEF FrameStep
<1>2. ASSUME NEW p \in Peers, TimeOut(p) PROVE HangInv'
  BY <1>2, StopHangs DEF TimeOut
<1>3. ASSUME NEW p \in Peers, DeliverMenu(p) PROVE HangInv'
  BY <1>3, DeliverMenuHangs
<1>4. ASSUME NEW p \in Peers,
             \/ DeliverRng(p)
             \/ \E i \in 1 .. MaxIndex : DeliverIndex(p, i)
             \/ \E i \in 0 .. MaxIndex, end \in Ends : DeliverInputs(p, i, end)
      PROVE  HangInv'
  <2>1. UNCHANGED << pc, state, index, frame, route, sentEnd, choice, heard, target, menuSent,
                     connected, menus >>
    BY <1>4 DEF DeliverRng, DeliverIndex, DeliverInputs, fsm, menu, net
  <2>. QED BY <2>1, QuietHangs
<1>5. ASSUME NEW p \in Peers, LoseConnection(p) PROVE HangInv'
  <2>1. /\ connected' = [connected EXCEPT ![p] = FALSE]
        /\ UNCHANGED << pc, state, index, frame, route, sentEnd, choice, heard, target, menuSent, menus >>
    BY <1>5 DEF LoseConnection, fsm, menu
  <2>2. \A q \in Peers : connected'[q] => connected[q]
    BY <2>1 DEF IInv, Types
  <2>. QED BY <2>1, <2>2, QuietHangs
<1>6. CASE UNCHANGED vars
  BY <1>6, QuietHangs DEF vars, fsm, menu, net
<1>. QED BY <1>1, <1>2, <1>3, <1>4, <1>5, <1>6 DEF Next

(* The peer that is behind *)

Behind(p) == index[p] < index[Other(p)] \/ (index[p] = index[Other(p)] /\ frame[p] <= frame[Other(p)])

LEMMA InputsCome ==
  ASSUME IInv, HangInv, NEW p \in Peers, Behind(p), UpToDate(p), connected[Other(p)],
         index[p] = index[Other(p)] => pc[Other(p)] = "gate" /\ state[Other(p)] = state[p]
  PROVE  InputsReady(p)
<1>. DEFINE o == Other(p)
            i == index[p]
            known == RemoteIndex(p)
<1>1. SUFFICES ASSUME state[p] \in Gated PROVE InputsReady(p)
  BY DEF InputsReady
<1>2. /\ o \in Peers /\ i \in Nat /\ index[o] \in Nat /\ startIndex[p] \in Nat /\ startIndex[p] <= i
      /\ announced[o] = index[o] /\ i <= index[o] /\ frame[p] \in Nat /\ frame[o] \in Nat
  <2>1. /\ i \in 0 .. MaxIndex /\ index[o] \in 0 .. MaxIndex /\ startIndex[p] \in Nat
        /\ startIndex[p] <= i /\ announced[o] = index[o] /\ o \in Peers
        /\ frame[p] \in Nat /\ frame[o] \in Nat
    BY Two DEF IInv, Types, Fits, KnownIsReached
  <2>. QED BY <2>1, Bounds DEF Behind
<1>3. i # 0
  <2>1. PICK n \in 0 .. MaxIndex : \E sc \in Scripts : IsScript(sc, n) /\ Scripted(sc)
    BY DEF IInv
  <2>2. PICK sc \in Scripts : IsScript(sc, n) /\ Scripted(sc)
    BY <2>1
  <2>3. sc[0].st = "Initial" /\ sc[i].st = state[p]
    BY <2>2 DEF IsScript, Scripted, Follows
  <2>. QED BY <1>1, <2>3 DEF Gated
<1>4. index[o] <= known
  BY <1>2, <1>3 DEF UpToDate
<1>5. remote[p] # << >>
  <2>1. SUFFICES ASSUME Len(remote[p]) = 0 PROVE FALSE
    OBVIOUS
  <2>2. known = startIndex[p] - 1
    BY <1>2, <2>1 DEF RemoteIndex
  <2>. QED BY <1>2, <1>4, <2>2
<1>6. known <= index[o] /\ known \in Int
  <2>1. Len(remote[p]) \in Nat
    BY LenProperties DEF IInv, Types
  <2>. QED BY <1>2, <1>5, <2>1 DEF IInv, KnownIsReached, RemoteIndex
<1>. HIDE DEF known
<1>7. known = index[o]
  BY <1>2, <1>4, <1>6
<1>8. CASE i < index[o]
  BY <1>2, <1>5, <1>7, <1>8 DEF InputsReady, known
<1>9. CASE i = index[o]
  <2>1. RemoteEnd(p) >= frame[o] + Delay + 1
    <3>1. sentEnd[o][i] = frame[o] + Delay + 1
      BY <1>1, <1>2, <1>9 DEF HangInv, WindowSent
    <3>. QED BY <1>1, <1>9, <3>1 DEF UpToDate
  <2>2. RemoteEnd(p) \in Nat
    <3>1. /\ remote[p] \in Seq(Ends) /\ Len(remote[p]) \in Nat
      BY LenProperties DEF IInv, Types
    <3>2. i - startIndex[p] + 1 \in 1 .. Len(remote[p])
      BY <1>2, <1>7, <1>9, <3>1 DEF known, RemoteIndex
    <3>. QED BY <3>1, <3>2, ElementOfSeq, EndsAre DEF RemoteEnd
  <2>3. frame[p] <= frame[o]
    BY <1>2, <1>9 DEF Behind
  <2>4. MaxFramesAhead(p) \in Nat
    BY Bounds DEF MaxFramesAhead
  <2>5. RemoteEnd(p) > 0 /\ RemoteEnd(p) - 1 + MaxFramesAhead(p) >= frame[p]
    BY <1>2, <2>1, <2>2, <2>3, <2>4, Bounds
  <2>. QED BY <1>5, <1>7, <1>9, <2>5 DEF InputsReady, known
<1>. QED BY <1>2, <1>8, <1>9

LEMMA RngComes ==
  ASSUME IInv, NEW p \in Peers, Running(p), Behind(p), UpToDate(p), connected[Other(p)],
         index[p] = index[Other(p)] => pc[Other(p)] = "gate"
  PROVE  RngReady(p)
<1>1. SUFFICES ASSUME p = Client, shouldSync[p] PROVE RngReady(p)
  BY DEF RngReady, Peers
<1>. DEFINE j == index[Client]
            list == rngStates[Client]
<1>2. PICK n \in 0 .. MaxIndex : \E sc \in Scripts : IsScript(sc, n) /\ Scripted(sc)
  BY DEF IInv
<1>3. PICK sc \in Scripts : IsScript(sc, n) /\ Scripted(sc)
  BY <1>2
<1>4. state[Client] \in Synced /\ sc[j].st = state[Client]
  BY <1>1, <1>3, Two DEF Scripted, RngInv, AsksOnce, Follows
<1>5. j \in startIndex[Client] .. index[Host] /\ j \in Nat /\ startIndex[Client] \in Nat
  <2>1. /\ j \in 0 .. MaxIndex /\ index[Host] \in 0 .. MaxIndex /\ startIndex[Client] \in Nat
        /\ startIndex[Client] <= j
    BY Two DEF IInv, Types, Fits
  <2>2. j <= index[Host]
    BY <1>1, <2>1, Two, Bounds DEF Behind
  <2>. QED BY <2>1, <2>2, Bounds
<1>6. j < index[Host] \/ (connected[Host] /\ pc[Host] = "gate")
  BY <1>1, Two DEF Behind
<1>7. Queued(j) \/ Held(j)
  BY <1>1, <1>3, <1>4, <1>5, <1>6 DEF Scripted, RngInv, NoneIsLost
<1>8. ~ Queued(j)
  BY <1>1 DEF UpToDate, Queued
<1>9. PICK k \in DOMAIN list : IndexOf(Client, k) = j
  BY <1>7, <1>8 DEF Held
<1>10. Len(list) \in Nat /\ k \in 1 .. Len(list)
  <2>1. list \in Seq(0 .. MaxIndex \cup {None})
    BY Two DEF IInv, Types
  <2>. QED BY <1>9, <2>1, LenProperties
<1>11. startIndex[Client] + Len(list) - 1 >= j /\ list # << >>
  BY <1>5, <1>9, <1>10 DEF IndexOf
<1>. QED BY <1>1, <1>11 DEF RngReady

LEMMA ChoiceComes ==
  ASSUME IInv, HangInv, NEW p \in Peers, Running(p), Behind(p), UpToDate(p), connected[Other(p)],
         state[p] = "RetryMenu",
         index[p] = index[Other(p)] => menuSent[Other(p)]
  PROVE  heard[p] # None
<1>. DEFINE o == Other(p)
            m == index[p]
<1>1. PICK n \in 0 .. MaxIndex : \E sc \in Scripts : IsScript(sc, n) /\ Scripted(sc)
  BY DEF IInv
<1>2. PICK sc \in Scripts : IsScript(sc, n) /\ Scripted(sc)
  BY <1>1
<1>3. /\ o \in Peers /\ sc[0].st = "Initial" /\ sc[m].st = "RetryMenu"
      /\ \A k \in 1 .. index[o] : route[o][k] = sc[k].st
  BY <1>2, Two DEF IsScript, Scripted, Follows
<1>4. m \in 0 .. MaxIndex /\ index[o] \in 0 .. MaxIndex
  BY <1>3 DEF IInv, Types
<1>5. m # 0 /\ m <= index[o]
  BY <1>3, <1>4, Bounds DEF Behind
<1>6. m \in 1 .. MaxIndex /\ m \in 1 .. index[o] /\ \A k \in 1 .. m : ~ m < k
  BY <1>4, <1>5, Bounds
<1>7. route[o][m] = "RetryMenu" /\ ChoiceSent(o, m)
  BY <1>3, <1>5, <1>6 DEF Behind, ChoiceSent
<1>8. Pending(p) # {}
  BY <1>5, <1>6, <1>7 DEF HangInv, ChoiceArrives
<1>9. ~ \E c \in Choices : menus[p] = << c >>
  BY DEF UpToDate
<1>. QED BY <1>8, <1>9 DEF Pending, Choices, None

LEMMA BehindGoesOn == IInv /\ HangInv => NobodyHangs
<1>. SUFFICES ASSUME IInv, HangInv, \A p \in Peers : Running(p) /\ connected[p],
                     \E p \in Peers : index[p] # MaxIndex,
                     \A p \in Peers : Waiting(p) /\ UpToDate(p)
              PROVE  FALSE
  BY DEF NobodyHangs
<1>1. \A p \in Peers : index[p] \in 0 .. MaxIndex /\ frame[p] \in Nat
  BY DEF IInv, Types
<1>2. PICK p \in Peers : Behind(p)
  <2>1. Behind(Host) \/ Behind(Client)
    BY <1>1, Two, Bounds DEF Behind
  <2>. QED BY <2>1, Two
<1>. DEFINE o == Other(p)
<1>3. o \in Peers /\ \A q \in Peers : q = p \/ q = o
  BY Two
<1>4. index[p] < MaxIndex
  BY <1>1, <1>2, <1>3, Bounds DEF Behind
<1>5. PICK n \in 0 .. MaxIndex : \E sc \in Scripts : IsScript(sc, n) /\ Scripted(sc)
  BY DEF IInv
<1>6. PICK sc \in Scripts : IsScript(sc, n) /\ Scripted(sc)
  BY <1>5
<1>7. index[p] = index[o] => state[o] = state[p]
  BY <1>3, <1>6 DEF Scripted, Follows
<1>8. ASSUME NEW q \in Peers, state[q] = "RetryMenu" PROVE Ready(q)
  <2>1. ~ shouldSync[q]
    BY <1>6, <1>8 DEF Scripted, RngInv, AsksOnce, Synced
  <2>. QED BY <1>8, <2>1 DEF Ready, RngReady, InputsReady, Gated
<1>9. \/ pc[p] = "gate" /\ ~ Ready(p)
      \/ state[p] = "RetryMenu" /\ menuSent[p] /\ heard[p] = None
  <2>1. index[p] # MaxIndex
    BY <1>1, <1>4, Bounds
  <2>. QED BY <2>1, Zenon DEF Waiting
<1>10. ASSUME index[p] = index[o]
       PROVE  \/ pc[o] = "gate" /\ ~ Ready(o)
              \/ state[o] = "RetryMenu" /\ menuSent[o]
  <2>1. index[o] # MaxIndex
    BY <1>1, <1>4, <1>10, Bounds
  <2>. QED BY <1>3, <2>1, Zenon DEF Waiting
<1>11. CASE state[p] = "RetryMenu"
  <2>1. heard[p] = None
    BY <1>8, <1>9, <1>11
  <2>2. index[p] = index[o] => menuSent[o]
    BY <1>3, <1>7, <1>8, <1>10, <1>11
  <2>. QED BY <1>2, <1>3, <1>11, <2>1, <2>2, ChoiceComes
<1>12. CASE state[p] # "RetryMenu"
  <2>1. ~ Ready(p)
    BY <1>9, <1>12
  <2>2. index[p] = index[o] => pc[o] = "gate" /\ state[o] = state[p]
    BY <1>7, <1>10, <1>12
  <2>. QED BY <1>2, <1>3, <2>1, <2>2, InputsCome, RngComes DEF Ready
<1>. QED BY <1>11, <1>12

(* While the connection lasts the two sessions never wait for each other, at any index   *)
(* and with any delay, rounds and messages lost: the one that is behind finds its inputs *)
(* and its generator state, or has the opponent's choice (isRemoteInputReady,            *)
(* isRngStateReady, getRetryMenuInput).                                                  *)
THEOREM NoDeadlock == Spec => []NobodyHangs
<1>1. IInv /\ HangInv /\ [Next]_vars => IInv' /\ HangInv'
  BY NextPreserves, StutterPreserves, HangStep
<1>2. Init => IInv /\ HangInv
  BY InitEstablishes, InitHangs
<1>. QED BY <1>1, <1>2, BehindGoesOn, PTL DEF Spec
=============================================================================
