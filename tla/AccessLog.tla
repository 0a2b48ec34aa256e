------------------------------ MODULE AccessLog ------------------------------
(***************************************************************************)
(* The access log of the server (services/access-log-store.js with         *)
(* middleware/access-log.js): a bounded queue of rows and of client data,  *)
(* one flush at a time that writes batches in a transaction on the only    *)
(* database connection, the rename of a user, failing statements, crashes  *)
(* and the clean close.                                                    *)
(*                                                                         *)
(* Statements of one connection run one after the other, and one of a      *)
(* rename can run while the transaction of a batch is open.  A row keeps   *)
(* the name of its user (names are numbered, a rename gives the next), its *)
(* session and whether it has the client data of the session.  Looking up  *)
(* the place of an address only delays a batch, the retention period does  *)
(* not end within the runs.                                                *)
(***************************************************************************)
EXTENDS Naturals, Sequences, FiniteSets, SequencesExt

CONSTANTS
  Session,       \* access-log sessions (cookies)
  MaxRows,       \* requests that are logged
  MaxQueue,      \* maxQueueSize (10000)
  BatchSize,     \* DEFAULT_BATCH_SIZE
  MetaLimit,     \* CLIENT_META_CACHE_LIMIT
  MaxMetas,      \* client data that arrives
  MaxRenames, MaxFailures, MaxCrashes

\* Assumed of the constants.
AccessLogAssumption ==
  /\ {MaxRows, MaxMetas, MaxRenames, MaxFailures, MaxCrashes} \subseteq Nat
  /\ {MaxQueue, BatchSize, MetaLimit} \subseteq Nat \ {0}

VARIABLES
  queue,       \* items of the store's queue
  processing,  \* a flush is scheduled or runs
  flush,       \* its step, its batch, and the position in it that comes next
  table,       \* rows of access_logs, those of an open transaction included
  saved,       \* rows a rollback or a crash returns to
  metaOf,      \* clientMetaBySession: sessions, oldest first
  name,        \* the current name of the user
  requests,    \* requests under way: the name they were authenticated with
  renaming,    \* the old names of the UPDATEs that were issued and have not run
  closing,     \* "no", "closing" or "closed"
  rows,        \* number of rows so far, their ids
  droppedRows, \* rows and client data the full queue refused since the server started
  refused,     \* ghost: ids of the rows among them
  unlogged,    \* ghost: ids of rows refused before a restart, or once close() had begun
  lost,        \* ghost: ids of accepted rows whose batch failed or that a crash cut off
  due,         \* ids of rows the last rename has to reach
  faults       \* how often each bound was used

vars == <<queue, processing, flush, table, saved, metaOf, name, requests, renaming, closing, rows,
          droppedRows, refused, unlogged, lost, due, faults>>

NoFlush == [step |-> "none", batch |-> <<>>, at |-> 1]

\* The positions of the rows, and of the client data, among the items.
Logs(items) == {k \in DOMAIN items : items[k].type = "log"}
Metas(items) == {k \in DOMAIN items : items[k].type = "client-meta"}
IdsOf(s) == {s[k].id : k \in DOMAIN s}

\* The rows of the batch that are not in the table yet.
Unwritten ==
  IF flush.step \in {"resolving", "inserting"} THEN {k \in Logs(flush.batch) : k >= flush.at} ELSE {}

\* The ids of the rows that are on their way.
InBatch == {flush.batch[k].id : k \in Unwritten}
InQueue == {queue[k].id : k \in Logs(queue)}

\* Its client data that is not applied yet: all of it until the rows are written.
Unapplied ==
  {k \in Metas(flush.batch) : flush.step = "metas" => k >= flush.at}

May(kind, bound) == faults[kind] < bound /\ faults' = [faults EXCEPT ![kind] = @ + 1]

Log(i, n, s, meta) == [type |-> "log", id |-> i, user |-> n, session |-> s, meta |-> meta]

\* Mutant of Enqueue: a running flush is trusted to see the item.
EnqueueOnly(item) == queue' = Append(queue, item) /\ UNCHANGED processing

\* The item is queued and a flush scheduled, unless one is.
Enqueue(item) == queue' = Append(queue, item) /\ processing' = TRUE

-----------------------------------------------------------------------------
(* Requests.                                                               *)

\* setUserId remembers the name of the user during the request ...
BeginRequest ==
  /\ closing = "no" /\ rows + Len(requests) < MaxRows
  /\ requests' = Append(requests, name)
  /\ UNCHANGED <<queue, processing, flush, table, saved, metaOf, name, renaming, closing, rows,
                 droppedRows, refused, unlogged, lost, due, faults>>

\* ... and its row is queued when the response is finished.
FinishRequest(s) ==
  /\ requests # <<>> /\ requests' = Tail(requests)
  /\ rows' = rows + 1
  /\ IF closing # "no"
     THEN /\ unlogged' = unlogged \cup {rows + 1}
          /\ UNCHANGED <<queue, processing, droppedRows, refused>>
     ELSE IF Len(queue) >= MaxQueue
     THEN /\ droppedRows' = droppedRows + 1 /\ refused' = refused \cup {rows + 1}
          /\ UNCHANGED <<queue, processing, unlogged>>
     ELSE /\ Enqueue(Log(rows + 1, Head(requests), s, Contains(metaOf, s)))
          /\ UNCHANGED <<droppedRows, refused, unlogged>>
  /\ UNCHANGED <<flush, table, saved, metaOf, name, renaming, closing, lost, due, faults>>

\* A session that is known moves to the end; else the oldest leaves the full cache.
Remembered(s) ==
  LET others == IF Contains(metaOf, s) THEN RemoveAt(metaOf, CHOOSE i \in DOMAIN metaOf : metaOf[i] = s)
                ELSE IF Len(metaOf) >= MetaLimit THEN Tail(metaOf) ELSE metaOf
  IN  Append(others, s)

\* enqueueClientMeta
ClientMeta(s) ==
  /\ closing = "no"
  /\ May("metas", MaxMetas)
  /\ IF Len(queue) >= MaxQueue
     THEN droppedRows' = droppedRows + 1 /\ UNCHANGED <<queue, processing, metaOf>>
     ELSE /\ Enqueue([type |-> "client-meta", session |-> s])
          /\ metaOf' = Remembered(s)
          /\ UNCHANGED droppedRows
  /\ UNCHANGED <<flush, table, saved, name, requests, renaming, closing, rows, refused, unlogged,
                 lost, due>>

-----------------------------------------------------------------------------
(* flushQueue.                                                             *)

Taken == IF Len(queue) < BatchSize THEN Len(queue) ELSE BatchSize

\* Mutant of NextBatch: the queue is cut one item too far.
SkipsAnItem ==
  LET batch == SubSeq(queue, 1, Taken)
  IN  /\ queue' = SubSeq(queue, Taken + 2, Len(queue))
      /\ flush' = IF queue = <<>> THEN [NoFlush EXCEPT !.step = "prune"]
                  ELSE [step |-> IF Logs(batch) = {} THEN "metas" ELSE "resolving",
                        batch |-> batch, at |-> 1]

\* The next step of the loop: a batch is taken, or the flush ends; its finally
\* part schedules another one if something was queued meanwhile.
NextBatch ==
  LET batch == SubSeq(queue, 1, Taken)
  IN  /\ queue' = SubSeq(queue, Taken + 1, Len(queue))
      /\ flush' = IF queue = <<>> THEN [NoFlush EXCEPT !.step = "prune"]
                  ELSE [step |-> IF Logs(batch) = {} THEN "metas" ELSE "resolving",
                        batch |-> batch, at |-> 1]

BeginFlush ==
  /\ processing /\ flush.step = "none"
  /\ NextBatch
  /\ UNCHANGED <<processing, table, saved, metaOf, name, requests, renaming, closing, rows,
                 droppedRows, refused, unlogged, lost, due, faults>>

\* The rows are copied with their places, and the transaction is begun.
BeginTransaction ==
  /\ flush.step = "resolving"
  /\ flush' = [flush EXCEPT !.step = "inserting"]
  /\ saved' = table
  /\ UNCHANGED <<queue, processing, table, metaOf, name, requests, renaming, closing, rows,
                 droppedRows, refused, unlogged, lost, due, faults>>

InsertRow ==
  /\ flush.step = "inserting"
  /\ \E k \in Unwritten :
       /\ \A j \in Unwritten : k <= j
       /\ table' = Append(table, flush.batch[k])
       /\ flush' = [flush EXCEPT !.at = k + 1]
  /\ UNCHANGED <<queue, processing, saved, metaOf, name, requests, renaming, closing, rows,
                 droppedRows, refused, unlogged, lost, due, faults>>

Commit ==
  /\ flush.step = "inserting" /\ Unwritten = {}
  /\ saved' = table
  /\ flush' = [flush EXCEPT !.step = "metas", !.at = 1]
  /\ UNCHANGED <<queue, processing, table, metaOf, name, requests, renaming, closing, rows,
                 droppedRows, refused, unlogged, lost, due, faults>>

\* applyClientMeta fills what the rows of the session miss; the statements run
\* after the commit of the batch, so that its own rows are reached.
ApplyMeta ==
  /\ flush.step = "metas"
  /\ \/ Unapplied = {} /\ NextBatch /\ UNCHANGED <<table, saved>>
     \/ \E k \in Unapplied :
          /\ \A j \in Unapplied : k <= j
          /\ table' = [i \in DOMAIN table |->
                         IF table[i].session = flush.batch[k].session
                         THEN [table[i] EXCEPT !.meta = TRUE] ELSE table[i]]
          /\ saved' = table'
          /\ flush' = [flush EXCEPT !.at = k + 1]
          /\ UNCHANGED queue
  /\ UNCHANGED <<processing, metaOf, name, requests, renaming, closing, rows, droppedRows,
                 refused, unlogged, lost, due, faults>>

EndFlush ==
  /\ flush.step = "prune"
  /\ flush' = NoFlush
  /\ processing' = (queue # <<>>)
  /\ UNCHANGED <<queue, table, saved, metaOf, name, requests, renaming, closing, rows, droppedRows,
                 refused, unlogged, lost, due, faults>>

\* A statement of the flush fails: an open transaction is rolled back, the rest
\* of the batch is forgotten, and the flush ends.
FailFlush ==
  /\ flush.step \in {"resolving", "inserting", "metas"}
  /\ May("failures", MaxFailures)
  /\ lost' = lost \cup InBatch \cup (IdsOf(table) \ IdsOf(saved))
  /\ table' = IF flush.step = "inserting" THEN saved ELSE table
  /\ flush' = NoFlush
  /\ processing' = (queue # <<>>)
  /\ UNCHANGED <<queue, saved, metaOf, name, requests, renaming, closing, rows, droppedRows,
                 refused, unlogged, due>>

-----------------------------------------------------------------------------
(* Renames, crash and close.                                               *)

Renamed(s, old) == [k \in DOMAIN s |-> IF s[k].type = "log" /\ s[k].user = old
                                       THEN [s[k] EXCEPT !.user = old + 1] ELSE s[k]]

\* The user's current name, and the earlier ones that an UPDATE is still to replace.
Replaced == {name} \cup ToSet(renaming)

\* renameUserId rewrites the queue and issues an UPDATE; a batch that has left
\* the queue and is not in the table yet is in neither.
RenameQueued ==
  /\ closing # "closed"
  /\ May("renames", MaxRenames)
  /\ name' = name + 1
  /\ queue' = Renamed(queue, name)
  /\ renaming' = Append(renaming, name)
  /\ due' = {queue[k].id : k \in {i \in Logs(queue) : queue[i].user = name}}
            \cup {table[k].id : k \in {i \in DOMAIN table : table[i].user \in Replaced}}
  /\ UNCHANGED <<processing, flush, table, saved, metaOf, requests, closing, rows, droppedRows,
                 refused, unlogged, lost>>

\* The UPDATE becomes part of a transaction that is open.
RenameTable ==
  /\ renaming # <<>> /\ renaming' = Tail(renaming)
  /\ table' = Renamed(table, Head(renaming))
  /\ saved' = IF flush.step = "inserting" THEN saved ELSE table'
  /\ UNCHANGED <<queue, processing, flush, metaOf, name, requests, closing, rows, droppedRows,
                 refused, unlogged, lost, due, faults>>

\* The process dies and starts again: what was not committed is gone.
Crash ==
  /\ May("crashes", MaxCrashes)
  /\ table' = IF flush.step = "inserting" THEN saved ELSE table
  /\ saved' = table'
  /\ lost' = lost \cup InQueue \cup InBatch \cup (IdsOf(table) \ IdsOf(saved))
  /\ droppedRows' = 0 /\ refused' = {} /\ unlogged' = unlogged \cup refused
  /\ queue' = <<>> /\ processing' = FALSE /\ flush' = NoFlush
  /\ metaOf' = <<>> /\ requests' = <<>> /\ renaming' = <<>> /\ closing' = "no" /\ due' = {}
  /\ UNCHANGED <<name, rows>>

\* close() refuses new items and waits for the flush ...
Close ==
  /\ closing = "no" /\ closing' = "closing"
  /\ UNCHANGED <<queue, processing, flush, table, saved, metaOf, name, requests, renaming, rows,
                 droppedRows, refused, unlogged, lost, due, faults>>

\* ... before it closes the database.
Closed ==
  /\ closing = "closing" /\ ~processing /\ closing' = "closed"
  /\ UNCHANGED <<queue, processing, flush, table, saved, metaOf, name, requests, renaming, rows,
                 droppedRows, refused, unlogged, lost, due, faults>>

-----------------------------------------------------------------------------

Init ==
  /\ queue = <<>> /\ processing = FALSE /\ flush = NoFlush
  /\ table = <<>> /\ saved = <<>> /\ metaOf = <<>>
  /\ name = 1 /\ requests = <<>> /\ renaming = <<>> /\ closing = "no"
  /\ rows = 0 /\ droppedRows = 0 /\ refused = {} /\ unlogged = {} /\ lost = {} /\ due = {}
  /\ faults = [kind \in {"metas", "failures", "renames", "crashes"} |-> 0]

Flushing == BeginFlush \/ BeginTransaction \/ InsertRow \/ Commit \/ ApplyMeta \/ EndFlush

Next ==
  \/ BeginRequest \/ \E s \in Session : FinishRequest(s) \/ ClientMeta(s)
  \/ Flushing \/ FailFlush
  \/ RenameQueued \/ RenameTable \/ Crash \/ Close \/ Closed

Spec == Init /\ [][Next]_vars

\* setImmediate and the callbacks of the database come back.
FairSpec == Spec /\ WF_vars(Flushing) /\ WF_vars(Closed)

-----------------------------------------------------------------------------
(* Properties.                                                             *)

\* Every variable keeps its type, and outside of a transaction there is nothing
\* to roll back.
TypeOK ==
  /\ Len(queue) <= MaxQueue
  /\ {processing} \subseteq BOOLEAN
  /\ flush.step \in {"none", "resolving", "inserting", "metas", "prune"}
  /\ flush.step # "none" => processing
  /\ flush.step # "inserting" => saved = table
  /\ \A k \in DOMAIN table : table[k].id \in 1..rows /\ table[k].user \in 1..name
  /\ Len(metaOf) <= MetaLimit
  /\ lost \cup due \subseteq 1..rows

\* Nothing waits in the queue without a flush that will take it, also when it
\* was queued while the last statement of a flush ran or after a failure.
QueueIsServed == queue # <<>> => processing

\* A row that was accepted is written once and in order: batches, rollbacks and
\* crashes neither repeat nor reorder rows.
WrittenOnce ==
  /\ \A j, k \in DOMAIN table : j < k => table[j].id < table[k].id
  /\ \A j, k \in Unwritten : j < k => flush.batch[j].id < flush.batch[k].id
  /\ \A j, k \in Logs(queue) : j < k => queue[j].id < queue[k].id
  /\ \A j \in DOMAIN table, k \in Unwritten : table[j].id < flush.batch[k].id
  /\ \A j \in DOMAIN table, k \in Logs(queue) : table[j].id < queue[k].id
  /\ \A j \in Unwritten, k \in Logs(queue) : flush.batch[j].id < queue[k].id

\* A row of a failed batch is lost as a whole batch: it is not in the table.
FailedBatchIsGone == lost \cap IdsOf(table) = {}

\* Rows in front of the client data of their session, and rows behind it, get
\* it, unless the cache forgot the session, the queue was full or a batch failed.
MetaReachesRows ==
  (queue = <<>> /\ flush.step \in {"none", "prune"} /\ faults["failures"] = 0) =>
    \A k \in DOMAIN table : Contains(metaOf, table[k].session) => table[k].meta

\* When its UPDATE has run, a rename has reached every row that had the old name
\* when it began and was queued or in the table, also if renames overlap, unless
\* a failing batch rolls it back or a crash ends it.
RenameReaches ==
  renaming = <<>> /\ faults["failures"] = 0 =>
    \A k \in DOMAIN table : table[k].id \in due => table[k].user = name

\* The rows that were accepted and neither failed with their batch nor fell to a crash.
Expected == 1..rows \ (lost \cup refused \cup unlogged)

\* enqueueAccessLog, flushQueue: whatever was accepted is in the table, in the batch
\* under way or in the queue; no batch, overlap or end of a flush leaves a row behind.
EveryRowArrives == Expected \subseteq IdsOf(table) \cup InBatch \cup InQueue

\* The counter that the administrator is warned with knows every row that the full
\* queue refused since the start, and no more than those and the client data.
RefusalsAreCounted ==
  /\ Cardinality(refused) <= droppedRows
  /\ droppedRows <= Cardinality(refused) + faults["metas"]

\* close: a clean close loses nothing that was accepted: all of it is in the table,
\* unless its batch failed.
CloseLosesNothing == closing = "closed" => Expected \subseteq IdsOf(table)

\* A queued item leaves the queue, and the close ends.
QueueDrains == (queue # <<>> ~> queue = <<>>) /\ (closing = "closing" ~> closing # "closing")

-----------------------------------------------------------------------------
(* What makes the above inductive.                                         *)

Rows == [type : {"log"}, id : Nat, user : Nat, session : Session, meta : BOOLEAN]

Data == [type : {"client-meta"}, session : Session]

Types ==
  /\ queue \in Seq(Rows \cup Data) /\ table \in Seq(Rows) /\ saved \in Seq(Rows)
  /\ flush \in [step : {"none", "resolving", "inserting", "metas", "prune"},
                batch : Seq(Rows \cup Data), at : Nat \ {0}]
  /\ processing \in BOOLEAN /\ closing \in {"no", "closing", "closed"}
  /\ metaOf \in Seq(Session) /\ requests \in Seq(Nat) /\ renaming \in Seq(Nat)
  /\ name \in Nat /\ rows \in Nat /\ droppedRows \in Nat
  /\ faults \in [{"metas", "failures", "renames", "crashes"} -> Nat]

\* Nothing is numbered ahead of its time or named after a name to come, and a
\* request has a name that its user has had.
Numbered ==
  /\ \A k \in Unwritten : flush.batch[k].id \in 1..rows /\ flush.batch[k].user \in 1..name
  /\ \A k \in Logs(queue) : queue[k].id \in 1..rows /\ queue[k].user \in 1..name
  /\ \A k \in DOMAIN saved : saved[k].user \in 1..name
  /\ \A k \in DOMAIN requests : requests[k] \in 1..name
  /\ name \in Nat \ {0}

\* A rollback takes the rows of the transaction away and puts nothing in their place;
\* between two flushes there is no batch.
RollbackCuts ==
  /\ Len(saved) <= Len(table) /\ \A k \in DOMAIN saved : saved[k].id = table[k].id
  /\ flush.step = "none" => flush = NoFlush
  /\ flush.step = "prune" => flush.batch = <<>>
  /\ closing = "closed" => ~processing

\* What was given up is nowhere on its way.
LostIsGone ==
  /\ \A k \in Unwritten : flush.batch[k].id \notin lost
  /\ \A k \in Logs(queue) : queue[k].id \notin lost

\* Client data of the session that is still to be applied to the table.
Coming(s) ==
  \/ \E k \in Unapplied : flush.batch[k].session = s
  \/ \E k \in Metas(queue) : queue[k].session = s

\* A row without the data of a session that is remembered is followed by it.
MetaFollows ==
  faults["failures"] = 0 =>
    /\ \A k \in DOMAIN table :
         Contains(metaOf, table[k].session) => table[k].meta \/ Coming(table[k].session)
    /\ \A k \in Unwritten :
         Contains(metaOf, flush.batch[k].session) =>
           flush.batch[k].meta \/ Coming(flush.batch[k].session)
    /\ \A k \in Logs(queue) :
         Contains(metaOf, queue[k].session) =>
           queue[k].meta \/ \E j \in Metas(queue) : j > k /\ queue[j].session = queue[k].session

\* The UPDATEs under way lead from name to name up to the current one, and a row
\* that is due has the current name or one of those that they replace.
UpdatesLead ==
  /\ \A i \in DOMAIN renaming : renaming[i] = name - Len(renaming) + i - 1
  /\ Len(renaming) < name
  /\ faults["failures"] = 0 =>
       /\ \A k \in DOMAIN table : table[k].id \in due => table[k].user >= name - Len(renaming)
       /\ \A k \in Unwritten : flush.batch[k].id \in due => flush.batch[k].user = name
       /\ \A k \in Logs(queue) : queue[k].id \in due => queue[k].user = name

Orderly ==
  /\ TypeOK /\ QueueIsServed /\ WrittenOnce /\ FailedBatchIsGone
  /\ Types /\ Numbered /\ RollbackCuts /\ LostIsGone /\ MetaFollows /\ UpdatesLead

IInv == Orderly /\ EveryRowArrives /\ RefusalsAreCounted /\ refused \subseteq 1..rows
=============================================================================
