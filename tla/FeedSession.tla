---------------------------- MODULE FeedSession ----------------------------
(***************************************************************************)
(* One accepted consumer of the mock exchange's feed: the publisher thread *)
(* that encodes batches into a bounded pipe, the write loop that drains    *)
(* the pipe into the socket, the handler that resolves a full pipe, the    *)
(* heartbeat timer, the receive loop, and the ways the session is closed.  *)
(*                                                                         *)
(* A frame is a natural number: SessionStart (0) or the sequence number of *)
(* a tick.  `wire` is what the socket accepted, in order; heartbeats       *)
(* bypass the pipe and are kept apart, as the number the last one carried. *)
(*                                                                         *)
(* Everything done under _writeGate by anyone but the publisher is one     *)
(* action guarded by gate = "free".  The publisher's own critical section  *)
(* is split where other threads read or write without the lock.            *)
(***************************************************************************)
EXTENDS Naturals, Sequences, FiniteSets

CONSTANTS
  Policy,           \* SlowConsumerPolicy: "Disconnect" or "DropOldest"
  PauseThreshold,   \* SessionBufferBytes, counted in frames
  ResumeThreshold,  \* SessionBufferBytes / 2, counted in frames
  BatchSizes,       \* the sizes of batch the publisher offers
  MaxRecords        \* bound: how many records are ever offered

ASSUME SessionAssumption ==
  /\ Policy \in {"Disconnect", "DropOldest"}
  /\ PauseThreshold \in Nat /\ ResumeThreshold \in Nat
  /\ 0 < ResumeThreshold /\ ResumeThreshold <= PauseThreshold
  /\ 1 < PauseThreshold        \* the session-start frame alone never fills the pipe
  /\ BatchSizes \subseteq Nat \ {0}
  /\ MaxRecords \in Nat

VARIABLES
  nextSequence, lastSequenceQueued, state, started, closeRequested, closeReason,
  discardRequested, skippedRecords, discardedRecords, skippedAtOnset,
  gate,          \* _writeGate: "free", or "publisher" between its atomic steps
  pub, batch,    \* the publisher: where it is, and the size of the batch in hand
  pipe,          \* frames written and not yet consumed by the reader
  flush,         \* the flush the handler awaits
  writerDone, readerDone,       \* Complete() called on either end of the pipe
  readCanceled,  \* CancelPendingRead() not yet observed by a read
  cts,           \* _cts is cancelled
  wl, buffer, sent, lastRead,   \* the write loop, its read result, its progress in it
  heartbeatDue,  \* the timer fired; its callback has not run yet
  handler, slowReason,          \* HandleBackpressureAsync, and why it disconnects
  recv, stop,    \* the receive loop and StopAsync
  wire, checkpoint,             \* ticks and session start sent; last heartbeat's number
  withheld,      \* the records RecordsDropped was called for
  onset,         \* lastSequenceQueued when the latest episode of backpressure began
  timedOut,      \* the slow-consumer delay ran its full length in this episode
  aborted,       \* the write loop was cut short: teardown or a socket failure
  slowDisconnects, reported     \* SlowConsumerDisconnected calls; _onClosed's reason

publisherVars == <<nextSequence, lastSequenceQueued, skippedRecords, pub, batch, gate>>
pipeVars      == <<pipe, flush, writerDone, readerDone, readCanceled>>
loopVars      == <<wl, buffer, sent, lastRead>>
closeVars     == <<closeRequested, closeReason, cts, recv, stop, reported>>
episodeVars   == <<discardRequested, skippedAtOnset, handler, slowReason, onset, timedOut,
                   slowDisconnects>>
tapeVars      == <<wire, checkpoint, withheld, discardedRecords>>
vars == <<state, started, heartbeatDue, aborted, publisherVars, pipeVars, loopVars,
          closeVars, episodeVars, tapeVars>>

SessionStart == 0
Reasons == {"slow-consumer", "slow-consumer-loss", "client-closed", "client-reset",
            "write-failed", "server-shutdown"}
Take(s, n) == SubSeq(s, 1, n)
Drop(s, n) == SubSeq(s, n + 1, Len(s))
ElementsOf(s) == {s[i] : i \in DOMAIN s}
Ticks(s) == ElementsOf(s) \ {SessionStart}

----------------------------------------------------------------------------
(* The constructor.  The session is in the roster before Start has run.    *)
Init ==
  /\ nextSequence = 1 /\ lastSequenceQueued = 0
  /\ state = "running" /\ started = FALSE
  /\ closeRequested = FALSE /\ closeReason = "client-closed"
  /\ discardRequested = FALSE
  /\ skippedRecords = 0 /\ discardedRecords = 0 /\ skippedAtOnset = 0
  /\ gate = "free" /\ pub = "idle" /\ batch = 0
  /\ pipe = <<>> /\ flush = "none" /\ writerDone = FALSE /\ readerDone = FALSE
  /\ readCanceled = FALSE /\ cts = FALSE
  /\ wl = "new" /\ buffer = 0 /\ sent = 0 /\ lastRead = FALSE
  /\ heartbeatDue = FALSE
  /\ handler = "idle" /\ slowReason = "slow-consumer"
  /\ recv = "new" /\ stop = "idle"
  /\ wire = <<>> /\ checkpoint = 0 /\ withheld = {} /\ onset = 0
  /\ timedOut = FALSE /\ aborted = FALSE
  /\ slowDisconnects = 0 /\ reported = "none"

(* Start: the session-start frame and _started under one lock, then the loops. *)
Start ==
  /\ ~started /\ gate = "free"
  /\ pipe' = Append(pipe, SessionStart)
  /\ started' = TRUE
  /\ wl' = "read" /\ recv' = "receiving"
  /\ UNCHANGED <<state, heartbeatDue, aborted, publisherVars, flush, writerDone,
                 readerDone, readCanceled, buffer, sent, lastRead, closeRequested,
                 closeReason, cts, stop, reported, episodeVars, tapeVars>>

----------------------------------------------------------------------------
(* TryPublish *)

Handshaken == started
Accepting  == state = "running"

(* The unsynchronised fast-out: one volatile read decides which way to go.
   A session that is closing is left alone: nothing is offered to it. *)
ReadState(n) ==
  /\ pub = "idle" /\ Handshaken
  /\ nextSequence + n <= MaxRecords + 1
  /\ state # "closing"
  /\ batch' = n
  /\ pub' = IF Accepting THEN "locking" ELSE "skipping"
  /\ UNCHANGED <<state, started, heartbeatDue, aborted, nextSequence, lastSequenceQueued,
                 skippedRecords, gate, pipeVars, loopVars, closeVars, episodeVars,
                 tapeVars>>

(* Mutant: the records withheld do not use up their numbers.               *)
SkipKeepsNumbers ==
  /\ skippedRecords' = skippedRecords + batch
  /\ withheld' = withheld \cup nextSequence .. (nextSequence + batch - 1)
  /\ UNCHANGED nextSequence

(* Skip: a batch withheld from a session that is behind burns its numbers. *)
Skip ==
  /\ nextSequence' = nextSequence + batch
  /\ skippedRecords' = skippedRecords + batch
  /\ withheld' = withheld \cup nextSequence .. (nextSequence + batch - 1)

(* Skip from the fast-out, without the lock: the state read may be stale.  *)
SkipBatch ==
  /\ pub = "skipping"
  /\ Skip
  /\ pub' = "idle"
  /\ UNCHANGED <<state, started, heartbeatDue, aborted, lastSequenceQueued, batch, gate,
                 pipeVars, loopVars, closeVars, episodeVars, wire, checkpoint,
                 discardedRecords>>

(* The second look at the state, under the lock: skip, or give up. *)
RefuseBatch ==
  /\ pub = "locking" /\ gate = "free"
  /\ ~Accepting
  /\ IF state = "backpressured"
     THEN Skip
     ELSE UNCHANGED <<nextSequence, skippedRecords, withheld>>
  /\ pub' = "idle"
  /\ UNCHANGED <<state, started, heartbeatDue, aborted, lastSequenceQueued, batch, gate,
                 pipeVars, loopVars, closeVars, episodeVars, wire, checkpoint,
                 discardedRecords>>

(* WriteBatchLocked up to Advance: the numbers are reserved and the last one
   is made visible to the heartbeat before the flush. *)
EncodeBatch ==
  /\ pub = "locking" /\ gate = "free"
  /\ Accepting
  /\ gate' = "publisher"
  /\ nextSequence' = nextSequence + batch
  /\ lastSequenceQueued' = nextSequence + batch - 1
  /\ pub' = "flushing"
  /\ UNCHANGED <<state, started, heartbeatDue, aborted, skippedRecords, batch, pipeVars,
                 loopVars, closeVars, episodeVars, tapeVars>>

BatchInHand == [i \in 1 .. batch |-> nextSequence - batch + i - 1]

(* FlushAsync: the frames become readable.  It is incomplete when they fill
   the pipe; with the reader gone it reports completion, which closes. *)
FlushBatch ==
  /\ pub = "flushing"
  /\ pipe' = pipe \o BatchInHand
  /\ LET full == Len(pipe) + batch >= PauseThreshold /\ ~readerDone
     IN  /\ flush' = IF full THEN "pending" ELSE flush
         /\ pub' = IF full THEN "pausing" ELSE "idle"
         /\ gate' = IF full THEN gate ELSE "free"
  /\ state' = IF readerDone THEN "closing" ELSE state
  /\ closeReason' = IF readerDone /\ ~closeRequested THEN "client-reset" ELSE closeReason
  /\ UNCHANGED <<started, heartbeatDue, aborted, nextSequence, lastSequenceQueued,
                 skippedRecords, batch, writerDone, readerDone, readCanceled, loopVars,
                 closeRequested, cts, recv, stop, reported, episodeVars, tapeVars>>

(* The pipe is paused: the session stops accepting and the handler starts.
   Under DropOldest it asks the write loop to discard, and wakes it. *)
BeginEpisode ==
  /\ pub = "pausing"
  /\ skippedAtOnset' = skippedRecords
  /\ onset' = lastSequenceQueued
  /\ state' = "backpressured"
  /\ handler' = "awaiting"
  /\ timedOut' = FALSE
  /\ IF Policy = "DropOldest"
     THEN discardRequested' = TRUE /\ readCanceled' = TRUE
     ELSE UNCHANGED <<discardRequested, readCanceled>>
  /\ gate' = "free" /\ pub' = "idle"
  /\ UNCHANGED <<started, heartbeatDue, aborted, nextSequence, lastSequenceQueued,
                 skippedRecords, batch, pipe, flush, writerDone, readerDone, loopVars,
                 closeVars, slowReason, slowDisconnects, tapeVars>>

----------------------------------------------------------------------------
(* Lifecycle operators, each run while holding the gate.                   *)

(* BeginClose: the first caller records its reason, stops publication and
   completes the writer; later callers change nothing. *)
BeginClose(reason) ==
  /\ gate = "free"
  /\ closeRequested' = TRUE
  /\ IF closeRequested
     THEN UNCHANGED <<closeReason, state, writerDone, flush>>
     ELSE /\ closeReason' = reason
          /\ state' = "closing"
          /\ writerDone' = TRUE
          /\ flush' = IF flush = "pending" THEN "canceled" ELSE flush

(* MarkClosing: stop publication; the reason stands unless a close was begun. *)
MarkClosing(reason) ==
  /\ gate = "free"
  /\ state' = "closing"
  /\ closeReason' = IF closeRequested THEN closeReason ELSE reason

(* Mutant: the loops are never cancelled.                                  *)
TeardownLeavesLoops ==
  /\ aborted' = (aborted \/ wl \notin {"finishing", "done"})
  /\ UNCHANGED cts

(* Teardown: cancel the loops and close the socket. *)
Teardown ==
  /\ cts' = TRUE
  /\ aborted' = (aborted \/ wl \notin {"finishing", "done"})

(* Encoding threw (GetSpan, WriteTick): MarkClosingLocked, then BeginClose,
   and Teardown as a step of its own.  No number was reserved. *)
EncodeFails ==
  /\ pub = "locking" /\ Accepting
  /\ BeginClose("write-failed")
  /\ pub' = IF closeRequested THEN "idle" ELSE "teardown"
  /\ UNCHANGED <<started, heartbeatDue, aborted, nextSequence, lastSequenceQueued,
                 skippedRecords, batch, gate, pipe, readerDone, readCanceled, loopVars,
                 cts, recv, stop, reported, episodeVars, tapeVars>>

PublisherTearsDown ==
  /\ pub = "teardown"
  /\ Teardown
  /\ pub' = "idle"
  /\ UNCHANGED <<state, started, heartbeatDue, nextSequence, lastSequenceQueued,
                 skippedRecords, batch, gate, pipeVars, loopVars, closeRequested,
                 closeReason, recv, stop, reported, episodeVars, tapeVars>>

----------------------------------------------------------------------------
(* RunWriteLoopAsync *)

(* Mutant: AdvanceTo(buffer.Start).                                        *)
NothingConsumed == pipe

Unconsumed == Drop(pipe, buffer)
Drained == Len(Unconsumed) < ResumeThreshold

(* AdvanceTo(buffer.End): the reader's consumption resumes a paused writer
   once it falls below the resume threshold. *)
AdvanceTo ==
  /\ pipe' = Unconsumed
  /\ flush' = IF flush = "pending" /\ Drained THEN "resumed" ELSE flush
  /\ buffer' = 0 /\ sent' = 0
  /\ wl' = IF lastRead THEN "finishing" ELSE "read"

(* ReadAsync returns the whole pipe: ticks to send, or to discard.         *)
ReadFrames ==
  /\ wl = "read" /\ ~cts
  /\ pipe # <<>>
  /\ buffer' = Len(pipe) /\ lastRead' = writerDone
  /\ readCanceled' = FALSE
  /\ wl' = "taking"
  /\ UNCHANGED <<state, started, heartbeatDue, aborted, publisherVars, pipe, flush,
                 writerDone, readerDone, sent, closeVars, episodeVars, tapeVars>>

(* ReadAsync returns empty: the writer is done, or the read was cancelled,
   by the heartbeat timer or by a handler that wants frames discarded. *)
ReadNothing ==
  /\ wl = "read" /\ ~cts
  /\ pipe = <<>>
  /\ writerDone \/ readCanceled
  /\ readCanceled' = FALSE
  /\ wl' = IF writerDone THEN "finishing"
           ELSE IF closeRequested THEN "read" ELSE "heartbeat"
  /\ UNCHANGED <<state, started, heartbeatDue, aborted, publisherVars, pipe, flush,
                 writerDone, readerDone, buffer, sent, lastRead, closeVars, episodeVars,
                 tapeVars>>

(* Exchange(discardRequested, 0) = 1: the buffer read is thrown away whole. *)
DiscardBuffer ==
  /\ wl = "taking"
  /\ discardRequested
  /\ discardRequested' = FALSE
  /\ LET lost == Ticks(Take(pipe, buffer))
     IN  /\ discardedRecords' = discardedRecords + Cardinality(lost)
         /\ withheld' = withheld \cup lost
  /\ AdvanceTo
  /\ UNCHANGED <<state, started, heartbeatDue, aborted, publisherVars, writerDone,
                 readerDone, readCanceled, lastRead, closeVars, skippedAtOnset, handler,
                 slowReason, onset, timedOut, slowDisconnects, wire, checkpoint>>

(* Mutant: the last buffer of a completed pipe is not sent.                *)
TakeBufferUnlessLast ==
  /\ wl = "taking"
  /\ ~discardRequested
  /\ wl' = IF lastRead THEN "finishing" ELSE "sending"
  /\ UNCHANGED <<state, started, heartbeatDue, aborted, publisherVars, pipeVars, buffer,
                 sent, lastRead, closeVars, episodeVars, tapeVars>>

TakeBuffer ==
  /\ wl = "taking"
  /\ ~discardRequested
  /\ wl' = "sending"
  /\ UNCHANGED <<state, started, heartbeatDue, aborted, publisherVars, pipeVars, buffer,
                 sent, lastRead, closeVars, episodeVars, tapeVars>>

(* SendAllAsync, a frame at a time; the last one is followed by AdvanceTo. *)
SendFrame ==
  /\ wl = "sending" /\ ~cts
  /\ wire' = Append(wire, pipe[sent + 1])
  /\ IF sent + 1 = buffer
     THEN AdvanceTo
     ELSE sent' = sent + 1 /\ UNCHANGED <<pipe, flush, buffer, wl>>
  /\ UNCHANGED <<state, started, heartbeatDue, aborted, publisherVars, writerDone,
                 readerDone, readCanceled, lastRead, closeVars, episodeVars, checkpoint,
                 withheld, discardedRecords>>

(* SendHeartbeatAsync: the number is read when the frame is written, not
   when the pipe was seen empty. *)
SendHeartbeat ==
  /\ wl = "heartbeat" /\ ~cts
  /\ checkpoint' = lastSequenceQueued
  /\ wl' = "read"
  /\ UNCHANGED <<state, started, heartbeatDue, aborted, publisherVars, pipeVars, buffer,
                 sent, lastRead, closeVars, episodeVars, wire, withheld, discardedRecords>>

(* A send failed: the peer is gone, or this end closed the socket.         *)
SendFails ==
  /\ wl \in {"sending", "heartbeat"}
  /\ \E reason \in {"client-reset", "write-failed"} : MarkClosing(reason)
  /\ aborted' = TRUE
  /\ wl' = "finishing"
  /\ UNCHANGED <<started, heartbeatDue, publisherVars, pipeVars, buffer, sent, lastRead,
                 closeRequested, cts, recv, stop, reported, episodeVars, tapeVars>>

(* OperationCanceledException out of the read or the send.                 *)
LoopCanceled ==
  /\ wl \in {"read", "sending", "heartbeat"} /\ cts
  /\ wl' = "finishing"
  /\ UNCHANGED <<state, started, heartbeatDue, aborted, publisherVars, pipeVars, buffer,
                 sent, lastRead, closeVars, episodeVars, tapeVars>>

(* Finish: written without the lock, unlike every other change of state.   *)
Finish ==
  /\ wl = "finishing"
  /\ wl' = "done"
  /\ state' = "closing"
  /\ readerDone' = TRUE
  /\ flush' = IF flush = "pending" THEN "completed" ELSE flush
  /\ cts' = TRUE
  /\ reported' = closeReason
  /\ UNCHANGED <<started, heartbeatDue, aborted, publisherVars, pipe, writerDone,
                 readCanceled, buffer, sent, lastRead, closeRequested, closeReason, recv,
                 stop, episodeVars, tapeVars>>

----------------------------------------------------------------------------
(* The heartbeat timer is armed while a read waits; its callback may run late. *)
HeartbeatTimer ==
  /\ wl = "read" /\ pipe = <<>> /\ ~readCanceled /\ ~heartbeatDue
  /\ heartbeatDue' = TRUE
  /\ UNCHANGED <<state, started, aborted, publisherVars, pipeVars, loopVars, closeVars,
                 episodeVars, tapeVars>>

OnHeartbeatDue ==
  /\ heartbeatDue
  /\ heartbeatDue' = FALSE
  /\ readCanceled' = TRUE
  /\ UNCHANGED <<state, started, aborted, publisherVars, pipe, flush, writerDone,
                 readerDone, loopVars, closeVars, episodeVars, tapeVars>>

----------------------------------------------------------------------------
(* HandleBackpressureAsync *)

(* The flush completed because the write loop freed enough of the pipe.    *)
FlushResumes ==
  /\ handler = "awaiting" /\ flush = "resumed"
  /\ handler' = "recovered"
  /\ UNCHANGED <<state, started, heartbeatDue, aborted, publisherVars, pipeVars, loopVars,
                 closeVars, discardRequested, skippedAtOnset, slowReason, onset, timedOut,
                 slowDisconnects, tapeVars>>

(* The flush completed because the session is ending (IsCompleted, IsCanceled). *)
FlushEnds ==
  /\ handler = "awaiting" /\ flush \in {"canceled", "completed"}
  /\ MarkClosing("client-reset")
  /\ handler' = "idle"
  /\ UNCHANGED <<started, heartbeatDue, aborted, publisherVars, pipeVars, loopVars,
                 closeRequested, cts, recv, stop, reported, discardRequested,
                 skippedAtOnset, slowReason, onset, timedOut, slowDisconnects, tapeVars>>

(* OperationCanceledException out of the flush.                            *)
FlushCanceled ==
  /\ handler = "awaiting" /\ cts
  /\ handler' = "idle"
  /\ UNCHANGED <<state, started, heartbeatDue, aborted, publisherVars, pipeVars, loopVars,
                 closeVars, discardRequested, skippedAtOnset, slowReason, onset, timedOut,
                 slowDisconnects, tapeVars>>

(* WhenAny returns the delay: it elapsed, or _cts, to which it is linked,
   was cancelled.  The code does not tell the two apart. *)
DelayWins ==
  /\ handler = "awaiting"
  /\ timedOut' = ~cts
  /\ slowReason' = "slow-consumer"
  /\ handler' = "disconnecting"
  /\ UNCHANGED <<state, started, heartbeatDue, aborted, publisherVars, pipeVars, loopVars,
                 closeVars, discardRequested, skippedAtOnset, onset, slowDisconnects,
                 tapeVars>>

(* Mutant: a request that was not used is left for the next buffer.        *)
ClearDiscardForgets ==
  /\ handler = "recovered"
  /\ handler' = "deciding"
  /\ UNCHANGED <<state, started, heartbeatDue, aborted, publisherVars, pipeVars, loopVars,
                 closeVars, discardRequested, skippedAtOnset, slowReason, onset, timedOut,
                 slowDisconnects, tapeVars>>

(* The discard request is only good for the episode that raised it.        *)
ClearDiscard ==
  /\ handler = "recovered"
  /\ discardRequested' = FALSE
  /\ handler' = "deciding"
  /\ UNCHANGED <<state, started, heartbeatDue, aborted, publisherVars, pipeVars, loopVars,
                 closeVars, skippedAtOnset, slowReason, onset, timedOut, slowDisconnects,
                 tapeVars>>

(* Mutants: the state is not looked at again; the comparison is inverted.  *)
BehindWhateverHappened == TRUE
BehindIfRunning == state = "running"

StillBehind == state = "backpressured"

(* The verdict, under the lock: gone meanwhile, recovered, or too much lost. *)
EndEpisode ==
  /\ handler = "deciding" /\ gate = "free"
  /\ LET withheldHere == skippedRecords - skippedAtOnset > 0 /\ Policy = "Disconnect"
     IN  /\ state' = IF StillBehind /\ ~withheldHere THEN "running" ELSE state
         /\ handler' = IF StillBehind /\ withheldHere
                       THEN "disconnecting" ELSE "idle"
         /\ slowReason' = IF withheldHere THEN "slow-consumer-loss" ELSE slowReason
  /\ UNCHANGED <<started, heartbeatDue, aborted, publisherVars, pipeVars, loopVars,
                 closeVars, discardRequested, skippedAtOnset, onset, timedOut,
                 slowDisconnects, tapeVars>>

(* DisconnectSlow: nobody has begun to close, so count a slow consumer ...  *)
CountSlowConsumer ==
  /\ handler = "disconnecting"
  /\ IF closeRequested
     THEN handler' = "idle" /\ UNCHANGED slowDisconnects
     ELSE handler' = "closing" /\ slowDisconnects' = slowDisconnects + 1
  /\ UNCHANGED <<state, started, heartbeatDue, aborted, publisherVars, pipeVars, loopVars,
                 closeVars, discardRequested, skippedAtOnset, slowReason, onset, timedOut,
                 tapeVars>>

(* ... and close, unless somebody else has got there first.                *)
HandlerCloses ==
  /\ handler = "closing"
  /\ BeginClose(slowReason)
  /\ handler' = IF closeRequested THEN "idle" ELSE "teardown"
  /\ UNCHANGED <<started, heartbeatDue, aborted, publisherVars, pipe, readerDone,
                 readCanceled, loopVars, cts, recv, stop, reported, discardRequested,
                 skippedAtOnset, slowReason, onset, timedOut, slowDisconnects, tapeVars>>

HandlerTearsDown ==
  /\ handler = "teardown"
  /\ Teardown
  /\ handler' = "idle"
  /\ UNCHANGED <<state, started, heartbeatDue, publisherVars, pipeVars, loopVars,
                 closeRequested, closeReason, recv, stop, reported, discardRequested,
                 skippedAtOnset, slowReason, onset, timedOut, slowDisconnects, tapeVars>>

----------------------------------------------------------------------------
(* RunReceiveLoopAsync and CloseFromPeer: EOF or an error on the socket.   *)
PeerGone ==
  /\ recv = "receiving"
  /\ \E reason \in {"client-closed", "client-reset"} : BeginClose(reason)
  /\ recv' = IF closeRequested THEN "done" ELSE "teardown"
  /\ UNCHANGED <<started, heartbeatDue, aborted, publisherVars, pipe, readerDone,
                 readCanceled, loopVars, cts, stop, reported, episodeVars, tapeVars>>

ReceiverTearsDown ==
  /\ recv = "teardown"
  /\ Teardown
  /\ recv' = "done"
  /\ UNCHANGED <<state, started, heartbeatDue, publisherVars, pipeVars, loopVars,
                 closeRequested, closeReason, stop, reported, episodeVars, tapeVars>>

ReceiveCanceled ==
  /\ recv = "receiving" /\ cts
  /\ recv' = "done"
  /\ UNCHANGED <<state, started, heartbeatDue, aborted, publisherVars, pipeVars, loopVars,
                 closeRequested, closeReason, cts, stop, reported, episodeVars, tapeVars>>

(* StopAsync: refuse more, wait for the drain or the timeout, tear down.
   DisposeAsync follows and repeats steps that have all been taken. *)
StopBegins ==
  /\ stop = "idle" /\ started
  /\ BeginClose("server-shutdown")
  /\ stop' = "draining"
  /\ UNCHANGED <<started, heartbeatDue, aborted, publisherVars, pipe, readerDone,
                 readCanceled, loopVars, cts, recv, reported, episodeVars, tapeVars>>

StopTearsDown ==
  /\ stop = "draining"
  /\ Teardown
  /\ stop' = "stopped"
  /\ UNCHANGED <<state, started, heartbeatDue, publisherVars, pipeVars, loopVars,
                 closeRequested, closeReason, recv, reported, episodeVars, tapeVars>>

----------------------------------------------------------------------------
Publisher ==
  \/ \E n \in BatchSizes : ReadState(n)
  \/ SkipBatch \/ RefuseBatch \/ EncodeBatch \/ FlushBatch \/ BeginEpisode
  \/ EncodeFails \/ PublisherTearsDown
WriteLoop ==
  \/ ReadFrames \/ ReadNothing \/ DiscardBuffer \/ TakeBuffer
  \/ SendFrame \/ SendHeartbeat \/ SendFails \/ LoopCanceled \/ Finish
Backpressure ==
  \/ FlushResumes \/ FlushEnds \/ FlushCanceled \/ DelayWins \/ ClearDiscard
  \/ EndEpisode \/ CountSlowConsumer \/ HandlerCloses \/ HandlerTearsDown
Others ==
  \/ Start \/ HeartbeatTimer \/ OnHeartbeatDue \/ PeerGone \/ ReceiverTearsDown
  \/ ReceiveCanceled \/ StopBegins \/ StopTearsDown

Next == Publisher \/ WriteLoop \/ Backpressure \/ Others

Spec == Init /\ [][Next]_vars

(* Every thread and every timer of this process gets on with what it can do.
   Nothing is assumed of the peer: SendFrame, SendHeartbeat, SendFails and
   PeerGone have no fairness, and neither has the exchange's own StopAsync
   before it begins. *)
Fairness ==
  /\ WF_vars(SkipBatch \/ RefuseBatch \/ EncodeBatch \/ FlushBatch \/ BeginEpisode)
  /\ WF_vars(PublisherTearsDown)
  /\ WF_vars(ReadFrames \/ ReadNothing \/ DiscardBuffer \/ TakeBuffer \/ LoopCanceled
             \/ Finish)
  /\ WF_vars(FlushResumes \/ FlushEnds \/ FlushCanceled \/ DelayWins \/ ClearDiscard
             \/ EndEpisode \/ CountSlowConsumer \/ HandlerCloses \/ HandlerTearsDown)
  /\ WF_vars(ReceiverTearsDown) /\ WF_vars(StopTearsDown)

FairSpec == Spec /\ Fairness

----------------------------------------------------------------------------
(* Every variable holds a value of its kind; the flags are a group of their
   own because they are of a different kind for the provers. *)
FlagsOK ==
  /\ started \in BOOLEAN /\ closeRequested \in BOOLEAN /\ discardRequested \in BOOLEAN
  /\ writerDone \in BOOLEAN /\ readerDone \in BOOLEAN /\ readCanceled \in BOOLEAN
  /\ cts \in BOOLEAN /\ lastRead \in BOOLEAN /\ heartbeatDue \in BOOLEAN
  /\ timedOut \in BOOLEAN /\ aborted \in BOOLEAN

PlacesOK ==
  /\ state \in {"running", "backpressured", "closing"}
  /\ closeReason \in Reasons /\ slowReason \in Reasons /\ reported \in Reasons \cup {"none"}
  /\ gate \in {"free", "publisher"}
  /\ pub \in {"idle", "locking", "skipping", "flushing", "pausing", "teardown"}
  /\ flush \in {"none", "pending", "resumed", "canceled", "completed"}
  /\ wl \in {"new", "read", "taking", "sending", "heartbeat", "finishing", "done"}
  /\ handler \in {"idle", "awaiting", "recovered", "deciding", "disconnecting",
                  "closing", "teardown"}
  /\ recv \in {"new", "receiving", "teardown", "done"}
  /\ stop \in {"idle", "draining", "stopped"}

NumbersOK ==
  /\ nextSequence \in Nat \ {0} /\ lastSequenceQueued \in Nat /\ batch \in Nat
  /\ skippedRecords \in Nat /\ discardedRecords \in Nat /\ skippedAtOnset \in Nat
  /\ pipe \in Seq(Nat) /\ wire \in Seq(Nat)
  /\ buffer \in Nat /\ sent \in Nat
  /\ checkpoint \in Nat /\ withheld \subseteq Nat /\ onset \in Nat
  /\ slowDisconnects \in Nat

TypeOK == FlagsOK /\ PlacesOK /\ NumbersOK

(* Frames reach the socket in the order of their numbers, each at most once,
   the session-start frame (0) before any tick: nothing the drain loop does
   around AdvanceTo sends a frame again or lets one overtake another. *)
Increasing(s) == \A i, j \in 1 .. Len(s) : i < j => s[i] < s[j]
WireInOrder == Increasing(wire)

(* Every number handed out belongs to exactly one of: a tick sent, a tick
   waiting in the pipe (or about to be flushed), a record the exchange
   admitted to dropping.  So a gap a consumer sees is a drop it was told of. *)
Waiting == Ticks(Drop(pipe, sent)) \cup (IF pub = "flushing" THEN ElementsOf(BatchInHand)
                                        ELSE {})
TapeAccounted ==
  /\ 1 .. (nextSequence - 1) = Ticks(wire) \cup Waiting \cup withheld
  /\ Ticks(wire) \cap Waiting = {}
  /\ withheld \cap (Ticks(wire) \cup Waiting) = {}
  /\ skippedRecords + discardedRecords = Cardinality(withheld)

(* The session implements FeedTape: the consumer's tape is what was offered,
   in order, less what the exchange had reported lost by the time it is missed. *)
TickTape == IF wire # <<>> /\ wire[1] = SessionStart THEN Tail(wire) ELSE wire
Tape == INSTANCE FeedTape WITH offered <- nextSequence - 1, tape <- TickTape,
                               lost <- withheld, ended <- reported # "none"
ImplementsTape == Tape!Spec

(* The buffer is bounded by its limit and one batch: a session that is behind
   costs the exchange no more memory, whatever the consumer does. *)
MaxBatch == CHOOSE n \in BatchSizes : \A m \in BatchSizes : m <= n
PipeBounded == Len(pipe) < PauseThreshold + MaxBatch

(* Left to itself the write loop ends only when the pipe is drained: a graceful
   StopAsync that is given the time loses nothing that was queued. *)
CleanEndDrains == wl = "done" /\ ~aborted => sent = Len(pipe)

(* A consumer is never sent a tick or a heartbeat before the session start. *)
SessionStartFirst ==
  /\ wire # <<>> => wire[1] = SessionStart
  /\ checkpoint > 0 => wire # <<>>

(* A session that began to close never takes batches again, although the
   handler and Finish write the state on other threads, one of them unlocked. *)
ClosingIsFinal == [][state = "closing" => state' = "closing"]_vars

(* Between a flush that came back incomplete and its completion nobody writes
   to the pipe: PipeWriter allows one flush in flight. *)
WriterRespectsFlush == [][flush = "pending" => Len(pipe') <= Len(pipe)]_vars

(* Only frames queued by the time the episode of backpressure began are
   discarded: the request never leaks into traffic after a recovery. *)
DiscardWithinEpisode ==
  [][discardedRecords' > discardedRecords =>
       \A q \in Ticks(Take(pipe, buffer)) : q <= onset]_vars

(* An episode of backpressure ends, in recovery or in a close, even if the
   consumer never accepts another byte. *)
EpisodeResolves == state = "backpressured" ~> state # "backpressured"

(* A close that was begun finishes: the slot is handed back through _onClosed
   whatever the peer does and whichever thread began it. *)
CloseCompletes == closeRequested ~> reported # "none"

----------------------------------------------------------------------------
(* The inductive invariant behind the theorems of FeedSessionProofs.       *)

(* The write loop stays inside the buffer the last read returned, and the
   publisher has handed out the numbers it is about to flush. *)
LoopInv ==
  /\ started <=> wl # "new"
  /\ ~started => pub = "idle" /\ pipe = <<>> /\ wire = <<>>
  /\ pub = "flushing" => batch < nextSequence
  /\ buffer <= Len(pipe)
  /\ wl \in {"new", "read", "heartbeat"} => buffer = 0 /\ sent = 0
  /\ wl = "taking" => sent = 0 /\ buffer > 0
  /\ wl = "sending" => sent < buffer
  /\ sent <= buffer

(* Who holds the gate finds the session running, and only a close that was
   recorded under the gate can end the loops. *)
CloseInv ==
  /\ gate = "publisher" <=> pub \in {"flushing", "pausing"}
  /\ gate = "publisher" => state = "running"
  /\ closeRequested \/ writerDone \/ lastRead \/ cts => state = "closing"
  /\ wl \in {"finishing", "done"} => state = "closing"
  /\ pub = "teardown" \/ handler = "teardown" \/ recv = "teardown" \/ stop = "draining"
       => state = "closing"

(* One handler at a time, and a pending flush is always somebody's to resolve. *)
EpisodeInv ==
  /\ state = "running" => handler = "idle"
  /\ handler \in {"recovered", "deciding"} => flush # "pending"
  /\ flush = "pending" /\ state = "running" => pub = "pausing"
  /\ readerDone => wl = "done"

(* The tape is ordered across the wire, the unsent part of the pipe and the
   numbers not yet handed out. *)
Below(s, n) == \A i \in 1 .. Len(s) : s[i] < n
Precedes(w, s, k) == \A i \in 1 .. Len(w), j \in 1 .. Len(s) : k < j => w[i] < s[j]
Fresh == IF pub = "flushing" THEN nextSequence - batch ELSE nextSequence
OrderInv ==
  /\ Increasing(wire) /\ Increasing(pipe)
  /\ Precedes(wire, pipe, sent)
  /\ Below(wire, Fresh) /\ Below(pipe, Fresh)

IInv == TypeOK /\ LoopInv /\ CloseInv /\ EpisodeInv /\ OrderInv

----------------------------------------------------------------------------
(* What comments of the source promise and the code does not keep.         *)

(* "this policy's contract is a complete tape": under Disconnect no tick is
   sent after a gap. *)
CompleteTape == Policy = "Disconnect" => \A i \in DOMAIN wire : wire[i] = i - 1

(* A heartbeat's number is a delivery checkpoint: "everything up to N left
   this process". *)
CheckpointSent == 1 .. checkpoint \subseteq Ticks(wire) \cup withheld

(* The first frame of every session is its session start, DropOldest included:
   "A tick therefore cannot overtake it". *)
FirstFrameIsSessionStart == wire # <<>> => wire[1] = SessionStart

(* A slow consumer is one "that has not accepted a single byte for the whole
   timeout", or one that lost records while it was behind. *)
SlowMeansSlow ==
  slowDisconnects > 0 => timedOut \/ slowReason = "slow-consumer-loss"
=============================================================================
