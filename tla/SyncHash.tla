------------------------------ MODULE SyncHash ------------------------------
(***************************************************************************)
(* Desync detection on top of the rollback engine.  At scheduled frames a  *)
(* peer hashes its game's memory, keeps the hash and sends it reliably;    *)
(* every normal frame it compares what it kept with what came in.  A hash  *)
(* must never be one of a state that a rollback will still correct, and    *)
(* two games that really differ must not pass unnoticed.                   *)
(*                                                                         *)
(* The game's memory is `hist', as in Rollback.  `flaw' makes one game     *)
(* compute one frame wrongly: the difference that a rollback to an earlier *)
(* frame cannot repair, and that the hashes are there to find.             *)
(*                                                                         *)
(* Code: step 9 of frameStep, the invalidation after loadState, the        *)
(* SyncHash part of drainNetplayInbox (entry/dll_main.cpp).                *)
(***************************************************************************)
EXTENDS Rollback

CONSTANT Interval     \* g_syncHashInterval; 300 is beyond the bound on frames

ASSUME SyncHashAssumption == Interval \in Nat \ {0}

VARIABLES
  flaw,      \* <<peer, frame>> that peer's game gets wrong, or NoFlaw
  local,     \* g_localSync: hashes generated and not yet compared
  incoming,  \* g_remoteSync: hashes received and not yet compared
  channel,   \* SyncHash messages on their way to the peer (reliable, in order)
  made,      \* history: frames the peer has hashed
  compared,  \* history: frames whose two hashes it has compared
  stopped    \* delayedStop("Desync!") has been called

syncVars == << flaw, local, incoming, channel, made, compared, stopped >>

NoFlaw == << 0, 0 >>

InitSync ==
  /\ Init
  /\ flaw \in {NoFlaw} \cup (Peers \X (1 .. MaxFrame))
  /\ local = [p \in Peers |-> << >>]
  /\ incoming = [p \in Peers |-> << >>]
  /\ channel = [p \in Peers |-> << >>]
  /\ made = [p \in Peers |-> {}]
  /\ compared = [p \in Peers |-> {}]
  /\ stopped = [p \in Peers |-> FALSE]

(* SyncHash::readFromGame, before the current frame is simulated. *)
HashOf(p) ==
  [frame |-> Frame(p),
   state |-> << hist[p], flaw[1] = p /\ flaw[2] < Frame(p) >>]

(* Every Interval frames (every 300th frame too, which is out of the bound). *)
RightTime(f) == f # 0 /\ f % Interval = Interval - 1

(* Mutants: the state is hashed although a contradiction is pending; although the     *)
(* opponent's inputs up to here are not all known.                                    *)
Confirmed_Diverged(p) == RemoteFrame(remote[p]) >= Frame(p)
Confirmed_Predicted(p) == remote[p].changed = MaxIndexedFrame

(* The speculative-state guard. *)
Confirmed(p) ==
  /\ remote[p].changed = MaxIndexedFrame
  /\ RemoteFrame(remote[p]) >= Frame(p)

Scheduled(p) == RightTime(Frame(p)) /\ Confirmed(p)

(* The hashes of a list whose frame is among those given, in their order (remove_if). *)
Among(hashes, frames) ==
  LET kept[i \in 0 .. Len(hashes)] ==
        IF i = 0 THEN << >>
        ELSE IF hashes[i].frame \in frames THEN Append(kept[i - 1], hashes[i]) ELSE kept[i - 1]
  IN  kept[Len(hashes)]

(* Mutant: a hash of the current frame counts as ahead of it. *)
NotAhead_DropsCurrent(hashes, f) ==
  LET old == {i \in DOMAIN hashes : hashes[i].frame < f}
  IN  IF old = {} THEN << >>
      ELSE SubSeq(hashes, CHOOSE i \in old : \A j \in old : i <= j, Len(hashes))

(* A hash ahead of the current frame is dropped from the front as stale. *)
NotAhead(hashes, f) ==
  LET old == {i \in DOMAIN hashes : hashes[i].frame <= f}
  IN  IF old = {} THEN << >>
      ELSE SubSeq(hashes, CHOOSE i \in old : \A j \in old : i <= j, Len(hashes))

(* The pairs the merge meets: the older front is discarded, equal frames are compared. *)
Matches(mine, theirs) ==
  {m \in (DOMAIN mine) \X (DOMAIN theirs) : mine[m[1]].frame = theirs[m[2]].frame}

(* What the merge leaves: it ends when either list is empty. *)
Leftover(mine, theirs) ==
  IF theirs = << >> THEN mine
  ELSE Among(mine, theirs[Len(theirs)].frame + 1 .. MaxFrame)

(* The comparison of step 9: a mismatch empties both lists and stops the session. *)
Compare(p, mine, theirs) ==
  LET differ == {m \in Matches(mine, theirs) : mine[m[1]].state # theirs[m[2]].state}
  IN  /\ stopped' = [stopped EXCEPT ![p] = differ # {}]
      /\ compared' = [compared EXCEPT ![p] =
                        @ \cup {mine[m[1]].frame : m \in Matches(mine, theirs)}]
      /\ local' = [local EXCEPT ![p] = IF differ # {} THEN << >> ELSE Leftover(mine, theirs)]
      /\ incoming' = [incoming EXCEPT ![p] =
                        IF differ # {} THEN << >> ELSE Leftover(theirs, mine)]

(* A normal frame past the gate: PassGate, and step 9. *)
HashAndPass(p) ==
  /\ ~ stopped[p]
  /\ PassGate(p)
  /\ LET new == IF Scheduled(p) THEN << HashOf(p) >> ELSE << >>
     IN  /\ made' = [made EXCEPT ![p] = @ \cup {h.frame : h \in {new[i] : i \in DOMAIN new}}]
         /\ channel' = [channel EXCEPT ![Other(p)] = @ \o new]
         /\ Compare(p, NotAhead(local[p] \o new, Frame(p)), NotAhead(incoming[p], Frame(p)))
  /\ UNCHANGED flaw

(* A rollback: the hashes at or after the target go, the peer's too. *)
RollbackAndForget(p) ==
  /\ ~ stopped[p]
  /\ TriggerRollback(p)
  /\ LET before == 0 .. remote[p].changed[2] - 1
     IN  /\ local' = [local EXCEPT ![p] = Among(@, before)]
         /\ incoming' = [incoming EXCEPT ![p] = Among(@, before)]
  /\ UNCHANGED << flaw, channel, made, compared, stopped >>

(* drainNetplayInbox: SyncHash. *)
ReceiveHash(p) ==
  /\ ~ stopped[p]
  /\ channel[p] # << >>
  /\ incoming' = [incoming EXCEPT ![p] = Append(@, Head(channel[p]))]
  /\ channel' = [channel EXCEPT ![p] = Tail(@)]
  /\ UNCHANGED << vars, flaw, local, made, compared, stopped >>

(* One of them has stopped, or both are at the bound and every hash has come. *)
Done ==
  /\ \/ \E p \in Peers : stopped[p]
     \/ Finished /\ channel = [p \in Peers |-> << >>]
  /\ UNCHANGED << vars, syncVars >>

NextSync ==
  \/ \E p \in Peers : HashAndPass(p)
  \/ \E p \in Peers : RollbackAndForget(p)
  \/ \E p \in Peers : ReceiveHash(p)
  \/ /\ \E p \in Peers :
          /\ ~ stopped[p]
          /\ \/ \E input \in Presses(p, Frame(p)) : StartFrame(p, input)
             \/ Rerun(p)
             \/ \E msg \in sent[Other(p)] : Receive(p, msg)
     /\ UNCHANGED syncVars
  \/ Done

SpecSync == InitSync /\ [][NextSync]_<< vars, syncVars >>

-----------------------------------------------------------------------------
Frames(hashes) == {hashes[i].frame : i \in DOMAIN hashes}

TypeOKSync ==
  /\ TypeOK
  /\ \A p \in Peers :
       /\ \A hashes \in {local[p], incoming[p], channel[p]} :
            Frames(hashes) \subseteq {f \in 0 .. MaxFrame : RightTime(f)}
       /\ compared[p] \subseteq made[p]
  /\ stopped \in [Peers -> BOOLEAN]

(* Nobody is stopped for a misprediction, whatever was rolled back while hashes were  *)
(* queued or on their way: a session stops only if a game really went wrong, and only *)
(* over a frame after that.                                                           *)
NoFalseAlarm ==
  \A p \in Peers : stopped[p] =>
    /\ flaw # NoFlaw
    /\ \E f \in compared[p] : flaw[2] < f

(* The lists hold hashes of scheduled frames alone, and no alarm is a false one.       *)
InvSync == TypeOKSync /\ NoFalseAlarm

(* A hash that p still has to compare with its partner, which is on its way to it. *)
WillCompare(p, f) ==
  f \in Frames(local[p]) /\ f \in Frames(channel[p]) \cup Frames(incoming[p])

(* No pair is lost: when both have hashed a frame, one of them has compared the two    *)
(* or still will.  The slower peer throws the faster one's hash away as stale, and who  *)
(* rolls back the other's hash of a frame it has yet to hash; never both the same pair. *)
NoPairLost ==
  (\A p \in Peers : ~ stopped[p]) =>
    \A f \in made[1] \cap made[2] : \E p \in Peers :
      f \in compared[p] \/ WillCompare(p, f)

(* No rollback ever targets a frame that was hashed, or one before it: the guard alone *)
(* keeps undone states out of the lists, and the invalidation after loadState finds no *)
(* hash of ours that it has to remove.                                                 *)
HashedIsFinal ==
  [][\A p \in Peers : RollbackAndForget(p) =>
       \A f \in made[p] : f < remote[p].changed[2]]_<< vars, syncVars >>
=============================================================================
