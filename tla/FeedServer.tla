----------------------------- MODULE FeedServer -----------------------------
(***************************************************************************)
(* The feed server: one accept loop that admits connections up to a limit, *)
(* the copy-on-write roster that Publish fans out to without a lock, the   *)
(* callback through which a session gives its slot back, and the stop.     *)
(*                                                                         *)
(* A session is the connection it was made for.  What happens inside it is *)
(* FeedSession's: here it is started, may begin to close at any time, and  *)
(* then runs OnSessionClosed in steps, because the roster, the count and   *)
(* the metrics are not updated together.                                   *)
(***************************************************************************)
EXTENDS Integers, FiniteSets

CONSTANTS
  Connections,   \* every connection ever made to the listener
  MaxSessions,
  MaxBatches     \* bound: how many batches are published

ASSUME ServerAssumption ==
  /\ IsFiniteSet(Connections)
  /\ MaxSessions \in Nat \ {0}
  /\ MaxBatches \in Nat

VARIABLES
  roster,      \* _sessions
  admitted,    \* _admitted
  stopped,     \* _stopped
  shutdown,    \* _shutdown is cancelled and the listener closed
  incoming,    \* the connection the accept loop admits, if any
  accepting,   \* the accept loop has not ended
  life,        \* what has become of each connection
  removed,     \* the connections OnSessionClosed found in the roster
  accepted, rejected, closed,  \* the metrics, as the sets they count
  stop,        \* StopAsync
  taken,       \* the sessions StopAsync took from the roster
  snapshot,    \* the sessions Publish has still to visit
  batches,     \* how many batches have been published
  offeredTo,   \* the batches each session queued or accounted for as dropped
  since        \* how many batches there had been when the session started

acceptVars  == <<incoming, accepting>>
metricVars  == <<accepted, rejected, closed>>
stopVars    == <<stopped, shutdown, stop, taken>>
publishVars == <<snapshot, batches, offeredTo>>
serverVars  == <<roster, admitted, life, removed, since, acceptVars, metricVars, stopVars,
                 publishVars>>

ServerInit ==
  /\ roster = {} /\ admitted = 0
  /\ stopped = FALSE /\ shutdown = FALSE /\ stop = "idle" /\ taken = {}
  /\ incoming = {} /\ accepting = TRUE
  /\ life = [c \in Connections |-> "none"]
  /\ removed = {}
  /\ accepted = {} /\ rejected = {} /\ closed = {}
  /\ snapshot = {} /\ batches = 0
  /\ offeredTo = [c \in Connections |-> {}]
  /\ since = [c \in Connections |-> 0]

Become(c, place) == life' = [life EXCEPT ![c] = place]
Those(places) == {c \in Connections : life[c] \in places}

----------------------------------------------------------------------------
(* RunAcceptLoopAsync and Admit: one connection at a time.                 *)

(* AcceptAsync returned a connection, possibly just as the stop began. *)
Accept(c) ==
  /\ accepting /\ incoming = {} /\ ~shutdown
  /\ life[c] = "none"
  /\ incoming' = {c}
  /\ Become(c, "accepted")
  /\ UNCHANGED <<roster, admitted, removed, since, accepting, metricVars, stopVars,
                 publishVars>>

AcceptLoopEnds ==
  /\ accepting /\ incoming = {} /\ shutdown
  /\ accepting' = FALSE
  /\ UNCHANGED <<roster, admitted, life, removed, since, incoming, metricVars, stopVars,
                 publishVars>>

Reject(c) ==
  /\ rejected' = rejected \cup {c}
  /\ Become(c, "gone")
  /\ incoming' = {}

RejectStopping(c) ==
  /\ life[c] = "accepted" /\ stopped
  /\ Reject(c)
  /\ UNCHANGED <<roster, admitted, removed, since, accepting, accepted, closed, stopVars,
                 publishVars>>

OverLimit == admitted + 1 > MaxSessions

(* Interlocked.Increment and the comparison of what it returned: the slot is
   claimed before it is known to be free. *)
ClaimSlot(c) ==
  /\ life[c] = "accepted" /\ ~stopped
  /\ admitted' = admitted + 1
  /\ Become(c, IF OverLimit THEN "full" ELSE "claimed")
  /\ UNCHANGED <<roster, removed, since, acceptVars, metricVars, stopVars, publishVars>>

RejectFull(c) ==
  /\ life[c] = "full"
  /\ admitted' = admitted - 1
  /\ Reject(c)
  /\ UNCHANGED <<roster, removed, since, accepting, accepted, closed, stopVars,
                 publishVars>>

(* Mutant: the slot of a session that could not be set up is kept. *)
SetupFailsKeepsSlot(c) ==
  /\ life[c] = "claimed"
  /\ Reject(c)
  /\ UNCHANGED <<roster, admitted, removed, since, accepting, accepted, closed, stopVars,
                 publishVars>>

(* Setting a socket option or the constructor threw. *)
SetupFails(c) ==
  /\ life[c] = "claimed"
  /\ admitted' = admitted - 1
  /\ Reject(c)
  /\ UNCHANGED <<roster, removed, since, accepting, accepted, closed, stopVars,
                 publishVars>>

(* Mutant: the roster another thread has just replaced is overwritten. *)
RosterOnly(c) == {c}

RosterWith(c) == roster \cup {c}

(* Under _rosterGate: the session joins the roster before it is started ... *)
JoinRoster(c) ==
  /\ life[c] = "claimed" /\ ~stopped
  /\ roster' = RosterWith(c)
  /\ Become(c, "rostered")
  /\ UNCHANGED <<admitted, removed, since, acceptVars, metricVars, stopVars, publishVars>>

(* ... or is disposed of when the stop has begun: it was never accepted. *)
DisposeUnrostered(c) ==
  /\ life[c] = "claimed" /\ stopped
  /\ admitted' = admitted - 1
  /\ Become(c, "gone")
  /\ incoming' = {}
  /\ UNCHANGED <<roster, removed, since, accepting, metricVars, stopVars, publishVars>>

CountAccepted(c) ==
  /\ life[c] = "rostered"
  /\ accepted' = accepted \cup {c}
  /\ Become(c, "counted")
  /\ UNCHANGED <<roster, admitted, removed, since, acceptVars, rejected, closed, stopVars,
                 publishVars>>

(* Start set _started: from here on the session takes batches. *)
StartSession(c) ==
  /\ life[c] = "counted"
  /\ Become(c, "open")
  /\ since' = [since EXCEPT ![c] = batches]
  /\ incoming' = {}
  /\ UNCHANGED <<roster, admitted, removed, accepting, metricVars, stopVars, publishVars>>

(* Start threw: the accept loop runs the session's callback itself, ... *)
StartFails(c) ==
  /\ life[c] = "counted"
  /\ Become(c, "ended")
  /\ UNCHANGED <<roster, admitted, removed, since, acceptVars, metricVars, stopVars,
                 publishVars>>

(* ... and then goes on accepting. *)
AdmitReturns(c) ==
  /\ c \in incoming /\ life[c] = "gone"
  /\ incoming' = {}
  /\ UNCHANGED <<roster, admitted, life, removed, since, accepting, metricVars, stopVars,
                 publishVars>>

----------------------------------------------------------------------------
(* The session: it may begin to close for reasons of its own, and finishes *)
(* with its socket closed and a call of OnSessionClosed.                   *)
SessionCloses(c) ==
  /\ life[c] = "open"
  /\ Become(c, "closing")
  /\ UNCHANGED <<roster, admitted, removed, since, acceptVars, metricVars, stopVars,
                 publishVars>>

SessionEnds(c) ==
  /\ life[c] = "closing"
  /\ Become(c, "ended")
  /\ UNCHANGED <<roster, admitted, removed, since, acceptVars, metricVars, stopVars,
                 publishVars>>

(* OnSessionClosed, under _rosterGate. *)
LeaveRoster(c) ==
  /\ life[c] = "ended"
  /\ removed' = removed \cup ({c} \cap roster)
  /\ roster' = roster \ {c}
  /\ Become(c, "removed")
  /\ UNCHANGED <<admitted, since, acceptVars, metricVars, stopVars, publishVars>>

(* The slot is only given back by the session that was found in the roster. *)
ReleaseSlot(c) ==
  /\ life[c] = "removed"
  /\ admitted' = IF c \in removed THEN admitted - 1 ELSE admitted
  /\ Become(c, "released")
  /\ UNCHANGED <<roster, removed, since, acceptVars, metricVars, stopVars, publishVars>>

(* Mutant: a session the stop took from the roster is not counted. *)
CountClosedIfRemoved(c) ==
  /\ life[c] = "released"
  /\ closed' = closed \cup ({c} \cap removed)
  /\ Become(c, "gone")
  /\ UNCHANGED <<roster, admitted, removed, since, acceptVars, accepted, rejected,
                 stopVars, publishVars>>

CountClosed(c) ==
  /\ life[c] = "released"
  /\ closed' = closed \cup {c}
  /\ Become(c, "gone")
  /\ UNCHANGED <<roster, admitted, removed, since, acceptVars, accepted, rejected,
                 stopVars, publishVars>>

----------------------------------------------------------------------------
(* Publish: one volatile read of the roster, then every session in it.  An *)
(* empty roster costs nothing and nothing is published.                    *)
Publish ==
  /\ snapshot = {} /\ roster # {}
  /\ batches < MaxBatches
  /\ snapshot' = roster
  /\ batches' = batches + 1
  /\ UNCHANGED <<roster, admitted, life, removed, since, acceptVars, metricVars, stopVars,
                 offeredTo>>

(* TryPublish: a session not started or closing takes nothing.             *)
Offer(c) ==
  /\ c \in snapshot
  /\ snapshot' = snapshot \ {c}
  /\ offeredTo' = IF life[c] = "open"
                THEN [offeredTo EXCEPT ![c] = @ \cup {batches}]
                  ELSE offeredTo
  /\ UNCHANGED <<roster, admitted, life, removed, since, acceptVars, metricVars, stopVars,
                 batches>>

----------------------------------------------------------------------------
(* StopAsync *)
StopAsync ==
  /\ stop = "idle"
  /\ stopped' = TRUE
  /\ stop' = "canceling"
  /\ UNCHANGED <<roster, admitted, life, removed, since, acceptVars, metricVars, shutdown,
                 taken, publishVars>>

(* Mutant: the accept loop is not woken. *)
NothingCanceled ==
  /\ stop = "canceling"
  /\ stop' = "awaiting"
  /\ UNCHANGED <<roster, admitted, life, removed, since, acceptVars, metricVars, stopped,
                 shutdown, taken, publishVars>>

CancelShutdown ==
  /\ stop = "canceling"
  /\ shutdown' = TRUE
  /\ stop' = "awaiting"
  /\ UNCHANGED <<roster, admitted, life, removed, since, acceptVars, metricVars, stopped,
                 taken, publishVars>>

(* await _acceptLoop, then the roster is emptied under _rosterGate. *)
TakeRoster ==
  /\ stop = "awaiting" /\ ~accepting
  /\ taken' = roster
  /\ roster' = {}
  /\ stop' = "draining"
  /\ UNCHANGED <<admitted, life, removed, since, acceptVars, metricVars, stopped, shutdown,
                 publishVars>>

(* session.StopAsync begins the close of one session after another. *)
StopSession(c) ==
  /\ stop = "draining"
  /\ c \in taken /\ life[c] = "open"
  /\ Become(c, "closing")
  /\ UNCHANGED <<roster, admitted, removed, since, acceptVars, metricVars, stopVars,
                 publishVars>>

(* Mutant: the sessions are told to stop but not waited for. *)
NoneOpen == \A c \in taken : life[c] # "open"

AllEnded == \A c \in taken : life[c] = "gone"

(* Every session was stopped or timed out, and was disposed of, which waits
   for its loops whatever the drain budget was. *)
StopReturns ==
  /\ stop = "draining"
  /\ AllEnded
  /\ stop' = "stopped"
  /\ UNCHANGED <<roster, admitted, life, removed, since, acceptVars, metricVars, stopped,
                 shutdown, taken, publishVars>>

----------------------------------------------------------------------------
Admission(c) ==
  \/ RejectStopping(c) \/ ClaimSlot(c) \/ RejectFull(c) \/ SetupFails(c)
  \/ JoinRoster(c) \/ DisposeUnrostered(c) \/ CountAccepted(c)
  \/ StartSession(c) \/ StartFails(c) \/ AdmitReturns(c)
Callback(c) == SessionEnds(c) \/ LeaveRoster(c) \/ ReleaseSlot(c) \/ CountClosed(c)
Stopping ==
  CancelShutdown \/ TakeRoster \/ StopReturns \/ \E c \in Connections : StopSession(c)

ServerNext ==
  \/ \E c \in Connections :
       Accept(c) \/ Admission(c) \/ SessionCloses(c) \/ Callback(c) \/ Offer(c)
  \/ AcceptLoopEnds \/ Publish \/ StopAsync \/ Stopping

ServerSpec == ServerInit /\ [][ServerNext]_serverVars

(* The accept loop, the stop and the callbacks of a session go on by themselves;
   a session that begins to close ends, which FeedSession shows (CloseCompletes).
   No connection, publish or stop has to come. *)
FairSpec ==
  /\ ServerSpec
  /\ \A c \in Connections : WF_serverVars(Admission(c)) /\ WF_serverVars(Callback(c))
  /\ WF_serverVars(AcceptLoopEnds) /\ WF_serverVars(Stopping)

----------------------------------------------------------------------------
Places == {"none", "accepted", "full", "claimed", "rostered", "counted", "open",
           "closing", "ended", "removed", "released", "gone"}

(* Every variable holds a value of its kind; that the count of slots never
   falls below zero rests on more than the others. *)
ShapeOK ==
  /\ roster \subseteq Connections /\ taken \subseteq Connections
  /\ snapshot \subseteq Connections /\ removed \subseteq Connections
  /\ stopped \in BOOLEAN /\ shutdown \in BOOLEAN /\ accepting \in BOOLEAN
  /\ incoming \subseteq Connections
  /\ life \in [Connections -> Places]
  /\ accepted \subseteq Connections /\ rejected \subseteq Connections
  /\ closed \subseteq Connections
  /\ stop \in {"idle", "canceling", "awaiting", "draining", "stopped"}
  /\ batches \in Nat
  /\ offeredTo \in [Connections -> SUBSET Nat] /\ since \in [Connections -> Nat]

ServerTypeOK == ShapeOK /\ admitted \in Nat

(* No more than MaxSessions connections are ever served at a time, although
   slots are claimed and given back by different threads without a lock.   *)
Serving == Those({"rostered", "counted", "open", "closing"})
SlotsBounded == Cardinality(Serving) <= MaxSessions

(* Until the stop takes the roster, the count of slots is exactly the roster,
   the connection being admitted and the closes that have not given theirs
   back yet: no path of Admit or OnSessionClosed leaks a slot or frees it twice. *)
SlotsConserved ==
  stop \notin {"draining", "stopped"} =>
    admitted = Cardinality(roster) + Cardinality(Those({"full", "claimed"}))
               + Cardinality(Those({"removed"}) \cap removed)

(* The ledger never shows fewer sessions than are connected: a session counts as
   accepted before it can be counted as closed, and nothing rejected is either. *)
LedgerSound ==
  /\ closed \subseteq accepted
  /\ rejected \cap accepted = {}
  /\ Those({"open", "closing"}) \subseteq accepted \ closed

(* Whoever is open can be found: by Publish and by the stop.  An update of the
   roster that overwrote another would leave a session nobody ever stops. *)
OpenIsReachable == Those({"open", "closing"}) \subseteq roster \cup taken

(* A session that is open has been offered every batch published since it
   started, but for the batch whose fan-out has not come to it yet, or that had
   taken its snapshot before the session was in the roster. *)
OpenSessionsMissNothing ==
  \A c \in Those({"open"}) :
    since[c] + 1 .. batches \subseteq offeredTo[c] \cup (IF c \in snapshot THEN {batches} ELSE {})

(* When StopAsync has returned, no session is open and no admission is under way. *)
NothingOpenAfterStop ==
  stop = "stopped" => Those({"accepted", "full", "claimed", "rostered", "counted", "open",
                             "closing"}) = {}

(* The inductive invariant behind the theorems of FeedServerProofs.          *)

(* Only one connection is being admitted, and none when the loop has ended.  *)
BeingAdmitted == {"accepted", "full", "claimed", "rostered", "counted"}
OneAtATime ==
  /\ \A c, d \in incoming : c = d
  /\ \A c \in Connections : life[c] \in BeingAdmitted => c \in incoming
  /\ accepting \/ incoming = {}

(* A session is in the roster, or was taken from it by the stop, from when it
   joins until its callback takes it out. *)
Listed == {"rostered", "counted", "open", "closing", "ended"}
Leaving == {"removed", "released", "gone"}
RosterInv ==
  /\ \A c \in Connections : life[c] \in Listed => c \in roster \cup taken
  /\ \A c \in roster : life[c] \in Listed
  /\ \A c \in taken : life[c] \in Listed \cup Leaving
  /\ \A c \in removed : life[c] \in Leaving
  /\ \A c \in taken : c \notin roster /\ c \notin removed

(* The stop takes the roster once nobody can join it any more.               *)
StopInv ==
  /\ stop \in {"draining", "stopped"} => roster = {} /\ ~accepting
  /\ stop \notin {"draining", "stopped"} => taken = {}
  /\ stop = "stopped" => AllEnded

(* Who was accepted, from when it is counted in until it is counted out.     *)
Counted == {"counted", "open", "closing", "ended", "removed", "released"}
LedgerInv ==
  /\ \A c \in accepted : life[c] \in Counted \cup {"gone"}
  /\ \A c \in Connections : life[c] \in Counted => c \in accepted
  /\ \A c \in rejected \cup closed : life[c] = "gone"
  /\ closed \subseteq accepted
  /\ \A c \in rejected : c \notin accepted

(* Everyone who has a slot, or has claimed one before it is known to be free.
   Those the stop took keep theirs. *)
Holders == roster \cup taken \cup Those({"full", "claimed"}) \cup (Those({"removed"}) \cap removed)
SlotInv ==
  /\ admitted = Cardinality(Holders)
  /\ Cardinality(Holders \ Those({"full"})) <= MaxSessions

ServerInv ==
  /\ ServerTypeOK /\ OneAtATime /\ RosterInv /\ StopInv /\ LedgerInv
  /\ SlotInv /\ OpenSessionsMissNothing

(* A stop that began returns, whatever connections arrive meanwhile.       *)
StopCompletes == stop = "canceling" ~> stop = "stopped"

(* After a stop the ledger comes to zero: every session that was counted in is
   counted out, those the stop took from the roster included. *)
LedgerSettles == stop = "stopped" ~> accepted = closed
=============================================================================
