----------------------------- MODULE MCProgress -----------------------------
(***************************************************************************)
(* What must come to an end, for TLC in one run: the sending of the        *)
(* outbox, the event stream's connecting, the queue of the access log and  *)
(* the loading of the administrator's messages, each an instance of its    *)
(* module under its own fairness.                                          *)
(*                                                                         *)
(* The parts share no variable.  A behaviour exercises the one that `part` *)
(* names and the others rest, so that the reachable states of a part are   *)
(* those of its own module and their product is never built.               *)
(***************************************************************************)
EXTENDS Naturals

CONSTANTS s1

VARIABLES
  part,
  \* ClientOutbox
  ui, connected, call, outboxFlush, submitting, preparing, decrypting, load, outboxStored, echo,
  created, promised, outboxFaults,
  \* ClientStream
  authenticated, status, source, manual, timer, es, tickets, probes, entering, refreshing,
  refreshFailed, phantom, streamUsed,
  \* AccessLog
  queue, processing, logFlush, table, saved, metaOf, name, requests, renaming, closing, rows,
  droppedRows, refused, unlogged, lost, due, logFaults,
  \* AdminMessages
  listStored, filter, messages, more, before, loading, button, listUsed, net

outboxVars == <<ui, connected, call, outboxFlush, submitting, preparing, decrypting, load,
                outboxStored, echo, created, promised, outboxFaults>>
streamVars == <<authenticated, status, source, manual, timer, es, tickets, probes, entering,
                refreshing, refreshFailed, phantom, streamUsed>>
logVars == <<queue, processing, logFlush, table, saved, metaOf, name, requests, renaming, closing,
             rows, droppedRows, refused, unlogged, lost, due, logFaults>>
listVars == <<listStored, filter, messages, more, before, loading, button, listUsed, net>>
vars == <<part, outboxVars, streamVars, logVars, listVars>>

-----------------------------------------------------------------------------
Outbox == INSTANCE ClientOutbox WITH
  MaxMsg <- 2, Attachment <- {}, MaxLosses <- 1, MaxDrops <- 2, MaxRetries <- 1, MaxLoads <- 0,
  flush <- outboxFlush, stored <- outboxStored, faults <- outboxFaults

Stream == INSTANCE ClientStream WITH
  MaxSources <- 7, MaxFaults <- 2, MaxEvents <- 2, MaxLogins <- 1, used <- streamUsed

Log == INSTANCE AccessLog WITH
  Session <- {s1}, MaxRows <- 3, MaxQueue <- 2, BatchSize <- 2, MetaLimit <- 1, MaxMetas <- 1,
  MaxRenames <- 0, MaxFailures <- 1, MaxCrashes <- 1, flush <- logFlush, faults <- logFaults

List == INSTANCE AdminMessages WITH
  Filter <- {1..6, {1, 3, 5}, {4, 5, 6}}, Matches <- [f \in {1..6, {1, 3, 5}, {4, 5, 6}} |-> f],
  Limit <- 2, MaxStored <- 6, stored <- listStored, used <- listUsed

ASSUME ProgressAssumption ==
  /\ Outbox!OutboxAssumption /\ Stream!StreamAssumption /\ Log!AccessLogAssumption
  /\ List!MatchesAssumption

-----------------------------------------------------------------------------
\* A part at rest is in one of its initial states.
Init ==
  /\ part \in {"outbox", "stream", "log", "list"}
  /\ Outbox!Init /\ Stream!Init /\ Log!Init /\ List!Init
  /\ part = "outbox" \/ connected
  /\ part = "list" \/ (listStored = 0 /\ filter = 1..6)

OutboxStep ==
  /\ part = "outbox" /\ Outbox!Next
  /\ UNCHANGED <<part, streamVars, logVars, listVars>>
StreamStep ==
  /\ part = "stream" /\ Stream!Next
  /\ UNCHANGED <<part, outboxVars, logVars, listVars>>
LogStep ==
  /\ part = "log" /\ Log!Next
  /\ UNCHANGED <<part, outboxVars, streamVars, listVars>>
ListStep ==
  /\ part = "list" /\ List!Next
  /\ UNCHANGED <<part, outboxVars, streamVars, logVars>>

Next == OutboxStep \/ StreamStep \/ LogStep \/ ListStep

Spec == Init /\ [][Next]_vars

\* Each part's own fairness.  At rest a part has nothing to do that would be fair:
\* the outbox is connected and empty, nobody is logged in, nothing is queued or asked.
Fairness ==
  /\ Outbox!Fairness
  /\ WF_streamVars(Stream!Progress)
  /\ WF_logVars(Log!Flushing) /\ WF_logVars(Log!Closed)
  /\ WF_listVars(List!Serve) /\ WF_listVars(List!Arrive)

FairSpec == Spec /\ Fairness

-----------------------------------------------------------------------------
(* Properties.                                                             *)

\* sendMessageWithRetry, flushPendingOutbox: the locks of the composer and of the
\* flush are released, and what a flush has taken over is sent or shown as failed,
\* also when the stream drops before its turn comes.
SendingEnds == Outbox!LocksEnd /\ Outbox!FlushedIsConfirmed

\* openEventStream, probeSession: a page of a user who stays logged in does not
\* connect for ever: it comes to be online or offline.
AttemptsEnd == Stream!AttemptsEnd

\* scheduleFlush, flushQueue: a queue that is not empty becomes so, after failed
\* batches and a crash too, and a close that waits for the flush comes to its end.
QueueDrains == Log!QueueDrains

\* loadMessages: a load of the administrator's list ends, with an answer or an
\* error, so that the next click does something.
LoadsEnd == List!LoadsEnd
=============================================================================
