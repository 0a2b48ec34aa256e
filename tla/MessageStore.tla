---------------------------- MODULE MessageStore ----------------------------
(***************************************************************************)
(* The message store of the chat server: the in-memory rows and indexes of *)
(* services/message-store.js, the message handlers of                      *)
(* routes/message-routes.js that change them, the delivery marking of      *)
(* services/realtime-hub.js, and the debounced persistence to messages.json*)
(* and messages.jsonl, with crashes, clean stops and restarts.             *)
(*                                                                         *)
(* A Node handler runs without interruption after its last await, so each  *)
(* handler is one action.  The flush is synchronous too: while it is       *)
(* between its two file writes only the second write or a crash can        *)
(* follow, and no handler runs.                                            *)
(*                                                                         *)
(* Requests that the code refuses or answers from what is stored (403,     *)
(* 404, 409, 429, the idempotent 200 of a repeated clientId) change        *)
(* nothing and are stuttering steps.  Timestamps are kept as booleans (has *)
(* it been set), the recall window as the choice whether a recall arrives  *)
(* in time, and createdAt as the order of the sequence numbers (a wall     *)
(* clock that does not step back).                                         *)
(***************************************************************************)
EXTENDS Naturals, Sequences, FiniteSets

CONSTANTS
  User,         \* the registered users
  ClientId,     \* ids the sending client gives its messages
  Nonce,        \* encryption nonces
  Id,           \* message ids (crypto.randomUUID)
  Empty,        \* the empty string of a nonce or replyToId field
  InitialLog,   \* rows of messages.jsonl before the first start
  InitialJson   \* rows of messages.json before the first start

Message ==
  [id : Id, clientId : ClientId, sequence : Nat \ {0}, from : User, to : User,
   nonce : Nonce \cup {Empty}, recalledNonce : Nonce \cup {Empty},
   ciphertext : BOOLEAN, text : BOOLEAN, recalled : BOOLEAN,
   delivered : BOOLEAN, read : BOOLEAN, deletedFor : SUBSET User,
   replyToId : Id \cup {Empty}]

-----------------------------------------------------------------------------
(* Rows and the indexes over them.                                         *)

Rows(rows) == {rows[k] : k \in DOMAIN rows}
Ids(rows) == {m.id : m \in Rows(rows)}

\* The nonce the replay index knows a row by, also after a recall cleared it.
ReplayNonce(m) == IF m.nonce # Empty THEN m.nonce ELSE m.recalledNonce

ClientKey(m) == <<m.from, m.clientId>>
NonceKey(m) == <<m.from, ReplayNonce(m)>>

ClientKeys(rows) == {ClientKey(m) : m \in Rows(rows)}
\* Mutant of NonceKeys: a recalled message is indexed under its cleared nonce.
CurrentNonceKeys(rows) == {<<m.from, m.nonce>> : m \in Rows(rows)}

NonceKeys(rows) == {NonceKey(m) : m \in {r \in Rows(rows) : ReplayNonce(r) # Empty}}

\* The number loadMessages gives the next message: one above every loaded one.
SequenceAfter(rows) ==
  1 + CHOOSE n \in {0} \cup {m.sequence : m \in Rows(rows)} :
        \A m \in Rows(rows) : m.sequence <= n

\* Rows that could share a history: no id, no client id of a sender and no
\* nonce of a sender occurs twice, and the order is that of the sequence.
WellFormed(rows) ==
  \A j, k \in DOMAIN rows : j < k =>
    /\ rows[j].id # rows[k].id
    /\ ClientKey(rows[j]) # ClientKey(rows[k])
    /\ NonceKey(rows[j]) # NonceKey(rows[k])
    /\ rows[j].sequence < rows[k].sequence

\* Rows whose payload is there exactly as long as they are not recalled.
PayloadSound(m) ==
  IF m.recalled THEN m.nonce = Empty /\ ~m.ciphertext /\ m.recalledNonce # Empty
                ELSE m.nonce # Empty /\ m.ciphertext /\ m.recalledNonce = Empty

PayloadsSound(rows) == \A m \in Rows(rows) : PayloadSound(m)

ASSUME EmptyAssumption == Empty \notin Nonce /\ Empty \notin Id

ASSUME InitialAssumption ==
  \A rows \in {InitialLog, InitialJson} :
    rows \in Seq(Message) /\ WellFormed(rows) /\ PayloadsSound(rows)

-----------------------------------------------------------------------------

VARIABLES
  messages,                     \* array of rows, in the order they were pushed
  messageClientIndex,           \* keys <<from, clientId>> of the client index
  messageNonceIndex,            \* keys <<from, nonce>> of the replay index
  nextMessageSequence,
  messagesDirty,
  messagesRequireFullPersist,
  pendingMessageAppends,        \* positions in messages of the rows to append
  pendingMessagesPersistTimer,  \* is the debounce timer armed
  flushing,                     \* messages.json is replaced, messages.jsonl not yet
  phase,                        \* "up", "stopping" (SIGTERM seen) or "down"
  messagesJson,                 \* rows of messages.json
  messagesLog,                  \* rows of messages.jsonl
  logEnd,                       \* how messages.jsonl ends (see LogEnd)
  online,                       \* users with an open event stream
  blocked                       \* <<u, v>>: u has v in blockedUsers

rowVars == <<messages, messageClientIndex, messageNonceIndex, nextMessageSequence>>
persistVars == <<messagesDirty, messagesRequireFullPersist, pendingMessageAppends,
                 pendingMessagesPersistTimer>>
processVars == <<flushing, phase>>
diskVars == <<messagesJson, messagesLog, logEnd>>
contextVars == <<online, blocked>>
vars == <<rowVars, persistVars, processVars, diskVars, contextVars>>

-----------------------------------------------------------------------------
(* The conversations and what is on disk.                                  *)

Between(m, u, v) == {m.from, m.to} = {u, v}
BlockedBetween(u, v) == <<u, v>> \in blocked \/ <<v, u>> \in blocked

\* resolveReplyTarget finds a row of the same conversation.
ReplyTarget(rows, u, v, r) == \E m \in Rows(rows) : m.id = r /\ Between(m, u, v)

\* Mutants of Redacted: the replay index loses the nonce; the ciphertext stays.
RedactedForGood(m) == [m EXCEPT !.nonce = Empty, !.ciphertext = FALSE]
RedactedKeyOnly(m) == [m EXCEPT !.nonce = Empty, !.recalledNonce = m.nonce]

Redacted(m) ==
  [m EXCEPT !.recalledNonce = IF m.nonce # Empty /\ @ = Empty THEN m.nonce ELSE @,
            !.nonce = Empty,
            !.ciphertext = FALSE]

\* What the next start reads: the log when it has any row, else the array file.
Loadable == IF messagesLog # <<>> THEN messagesLog ELSE messagesJson

Scrubbed(rows) == [k \in DOMAIN rows |-> [rows[k] EXCEPT !.text = FALSE]]

-----------------------------------------------------------------------------
(* Scheduling of the debounced flush.                                      *)

ScheduleAppend(k) ==
  /\ messagesDirty' = TRUE
  /\ pendingMessageAppends' = Append(pendingMessageAppends, k)
  /\ pendingMessagesPersistTimer' = TRUE
  /\ UNCHANGED messagesRequireFullPersist

\* Mutant of ScheduleFull: it counts on the timer of an earlier change.
ScheduleFullUnarmed ==
  /\ messagesDirty' = TRUE
  /\ messagesRequireFullPersist' = TRUE
  /\ pendingMessageAppends' = <<>>
  /\ UNCHANGED pendingMessagesPersistTimer

ScheduleFull ==
  /\ messagesDirty' = TRUE
  /\ messagesRequireFullPersist' = TRUE
  /\ pendingMessageAppends' = <<>>
  /\ pendingMessagesPersistTimer' = TRUE

\* Mutant of ScheduleIfChanged: marks alone are not worth a write.
ScheduleIfRecalled(rows) ==
  IF \E m \in Rows(rows) : m.recalled THEN ScheduleFull ELSE UNCHANGED persistVars

\* Rows were changed in place: all of them are written again.
ScheduleIfChanged(rows) ==
  IF rows # messages THEN ScheduleFull ELSE UNCHANGED persistVars

Running == phase \in {"up", "stopping"} /\ ~flushing

-----------------------------------------------------------------------------
(* Message handlers.                                                       *)

\* Mutant of MayAccept: a reply may refer to any message id.
MayAcceptAnyReply(u, v, c, n, r) ==
  /\ u # v
  /\ ~BlockedBetween(u, v)
  /\ <<u, c>> \notin messageClientIndex
  /\ <<u, n>> \notin messageNonceIndex

\* Sends from u to v that are not answered from the indexes (lines 184-230).
MayAccept(u, v, c, n, r) ==
  /\ u # v
  /\ ~BlockedBetween(u, v)
  /\ <<u, c>> \notin messageClientIndex
  /\ <<u, n>> \notin messageNonceIndex
  /\ r # Empty => ReplyTarget(messages, u, v, r)

NewMessage(i, u, v, c, n, r) ==
  [id |-> i, clientId |-> c, sequence |-> nextMessageSequence, from |-> u, to |-> v,
   nonce |-> n, recalledNonce |-> Empty, ciphertext |-> TRUE, text |-> FALSE,
   recalled |-> FALSE, delivered |-> v \in online, read |-> FALSE,
   deletedFor |-> {}, replyToId |-> r]

SendMessage(i, u, v, c, n, r) ==
  /\ Running
  /\ i \notin Ids(messages) \cup Ids(messagesLog) \cup Ids(messagesJson)
  /\ MayAccept(u, v, c, n, r)
  /\ messages' = Append(messages, NewMessage(i, u, v, c, n, r))
  /\ messageClientIndex' = messageClientIndex \cup {<<u, c>>}
  /\ messageNonceIndex' = messageNonceIndex \cup {<<u, n>>}
  /\ nextMessageSequence' = nextMessageSequence + 1
  /\ ScheduleAppend(Len(messages) + 1)
  /\ UNCHANGED <<processVars, diskVars, contextVars>>

\* Handlers that change rows in place leave the indexes and sequence alone.
ChangeRows(rows) ==
  /\ messages' = rows
  /\ ScheduleIfChanged(rows)
  /\ UNCHANGED <<messageClientIndex, messageNonceIndex, nextMessageSequence,
                 processVars, diskVars>>

\* The sender recalls a message within the recall window.  A message that is
\* recalled already is only redacted again.
RecallMessage(u, k) ==
  /\ Running
  /\ k \in DOMAIN messages
  /\ messages[k].from = u
  /\ ChangeRows([messages EXCEPT ![k] = Redacted([@ EXCEPT !.recalled = TRUE])])
  /\ UNCHANGED contextVars

\* A participant hides a message from its own view.
DeleteMessage(u, k) ==
  /\ Running
  /\ k \in DOMAIN messages
  /\ u \in {messages[k].from, messages[k].to}
  /\ ChangeRows([messages EXCEPT ![k].deletedFor = @ \cup {u}])
  /\ UNCHANGED contextVars

\* Mutant of BecomesRead: recalled messages are marked, too.
BecomesReadAnyway(m, u, v) == m.from = v /\ m.to = u /\ ~m.read /\ u \notin m.deletedFor

BecomesRead(m, u, v) ==
  m.from = v /\ m.to = u /\ ~m.recalled /\ ~m.read /\ u \notin m.deletedFor

\* u opens the conversation with v.
MarkRead(u, v) ==
  /\ Running
  /\ u # v
  /\ ~BlockedBetween(u, v)
  /\ ChangeRows([k \in DOMAIN messages |->
                   IF BecomesRead(messages[k], u, v)
                   THEN [messages[k] EXCEPT !.delivered = TRUE, !.read = TRUE]
                   ELSE messages[k]])
  /\ UNCHANGED contextVars

BecomesDelivered(m, u) ==
  /\ m.to = u /\ ~m.delivered /\ ~m.recalled
  /\ u \notin m.deletedFor
  /\ ~BlockedBetween(m.from, u)

\* u opens an event stream: attachConnection, then markPendingDeliveries.
Connect(u) ==
  /\ Running
  /\ online' = online \cup {u}
  /\ ChangeRows([k \in DOMAIN messages |->
                   IF BecomesDelivered(messages[k], u)
                   THEN [messages[k] EXCEPT !.delivered = TRUE]
                   ELSE messages[k]])
  /\ UNCHANGED blocked

Disconnect(u) ==
  /\ Running
  /\ u \in online
  /\ online' = online \ {u}
  /\ UNCHANGED <<rowVars, persistVars, processVars, diskVars, blocked>>

\* Block or unblock: users.json is written at once, the store is not touched.
SetBlock(u, v) ==
  /\ Running
  /\ u # v
  /\ blocked' = IF <<u, v>> \in blocked THEN blocked \ {<<u, v>>}
                                        ELSE blocked \cup {<<u, v>>}
  /\ UNCHANGED <<rowVars, persistVars, processVars, diskVars, online>>

\* An administrator patches a user without renaming it: all rows are written
\* again, changed or not.
PatchUser ==
  /\ Running
  /\ ScheduleFull
  /\ UNCHANGED <<rowVars, processVars, diskVars, contextVars>>

-----------------------------------------------------------------------------
(* The flush.  Its flags are cleared before the first file operation.      *)

\* Mutant of ClearPending: the appended rows stay in the queue.
ClearFlags ==
  /\ messagesDirty' = FALSE
  /\ messagesRequireFullPersist' = FALSE
  /\ pendingMessagesPersistTimer' = FALSE
  /\ UNCHANGED pendingMessageAppends

ClearPending ==
  /\ messagesDirty' = FALSE
  /\ messagesRequireFullPersist' = FALSE
  /\ pendingMessageAppends' = <<>>
  /\ pendingMessagesPersistTimer' = FALSE

\* The flush is due: the timer fired, or the process is stopping.
FlushDue == Running /\ messagesDirty /\ (pendingMessagesPersistTimer \/ phase = "stopping")

AppendedRows == [k \in DOMAIN pendingMessageAppends |-> messages[pendingMessageAppends[k]]]

\* messages.jsonl ends with a newline, with a row that misses its newline, or
\* has a line that does not parse.
LogEnd == {"whole", "open", "broken"}

\* n rows, and then cut, are written behind the last line.  A row written
\* behind an open line shares that line with it.
LogEndAfter(n, cut) ==
  CASE n = 0 /\ cut = "whole" -> logEnd
    [] logEnd # "whole" /\ (n > 0 \/ cut # "whole") -> "broken"
    [] OTHER -> cut

\* Mutant of FlushAppend: the new rows replace the file.
FlushReplace ==
  /\ FlushDue
  /\ ~messagesRequireFullPersist
  /\ messagesLog' = AppendedRows
  /\ ClearPending
  /\ UNCHANGED <<rowVars, processVars, messagesJson, logEnd, contextVars>>

\* Only new rows: appendFileSync to messages.jsonl.
FlushAppend ==
  /\ FlushDue
  /\ ~messagesRequireFullPersist
  /\ messagesLog' = messagesLog \o AppendedRows
  /\ logEnd' = LogEndAfter(Len(pendingMessageAppends), "whole")
  /\ ClearPending
  /\ UNCHANGED <<rowVars, processVars, messagesJson, contextVars>>

\* Changed rows: messages.json is replaced by rename ...
FlushJson ==
  /\ FlushDue
  /\ messagesRequireFullPersist
  /\ messagesJson' = messages
  /\ flushing' = TRUE
  /\ ClearPending
  /\ UNCHANGED <<rowVars, phase, messagesLog, logEnd, contextVars>>

\* ... and then messages.jsonl.
FlushLog ==
  /\ flushing
  /\ messagesLog' = messages
  /\ logEnd' = "whole"
  /\ flushing' = FALSE
  /\ UNCHANGED <<rowVars, persistVars, phase, messagesJson, contextVars>>

-----------------------------------------------------------------------------
(* The life of the process.                                                *)

\* What a process that is not running keeps: nothing.
LoseMemory ==
  /\ messages' = <<>>
  /\ messageClientIndex' = {}
  /\ messageNonceIndex' = {}
  /\ nextMessageSequence' = 1
  /\ ClearPending
  /\ flushing' = FALSE
  /\ phase' = "down"
  /\ online' = {}

\* SIGTERM: every event stream is ended; requests in flight may still finish.
Shutdown ==
  /\ phase = "up" /\ Running
  /\ phase' = "stopping"
  /\ online' = {}
  /\ UNCHANGED <<rowVars, persistVars, flushing, diskVars, blocked>>

\* The end of a clean stop, after the flush of shutdown() and of "exit".
Exit ==
  /\ phase = "stopping" /\ Running
  /\ ~messagesDirty
  /\ LoseMemory
  /\ UNCHANGED <<diskVars, blocked>>

\* The process dies between two file operations: a kill, or a write that
\* throws (the timer callback has no handler, so the process ends).
Crash ==
  /\ phase # "down"
  /\ LoseMemory
  /\ UNCHANGED <<diskVars, blocked>>

\* The append stops after n rows: behind their last newline, before it, or
\* inside the next row.
CrashInAppend(n, cut) ==
  /\ FlushDue
  /\ ~messagesRequireFullPersist
  /\ IF cut = "open" THEN n > 0 ELSE n < Len(pendingMessageAppends)
  /\ messagesLog' = messagesLog \o SubSeq(AppendedRows, 1, n)
  /\ logEnd' = LogEndAfter(n, cut)
  /\ LoseMemory
  /\ UNCHANGED <<messagesJson, blocked>>

\* loadMessages and purgeStoredMessagePlaintext at startup.  A line that does
\* not parse ends the start with an error, so a broken log does not load.
Start ==
  /\ phase = "down"
  /\ logEnd # "broken"
  /\ messages' = Scrubbed(Loadable)
  /\ messageClientIndex' = ClientKeys(Loadable)
  /\ messageNonceIndex' = NonceKeys(Loadable)
  /\ nextMessageSequence' = SequenceAfter(Loadable)
  /\ phase' = "up"
  /\ IF \E m \in Rows(Loadable) : m.text THEN ScheduleFull ELSE UNCHANGED persistVars
  /\ UNCHANGED <<flushing, diskVars, contextVars>>

\* The operator repairs the broken line by hand: an incomplete row is removed,
\* two rows that share the line are put on lines of their own.
RepairLog ==
  /\ phase = "down"
  /\ logEnd = "broken"
  /\ logEnd' = "whole"
  /\ UNCHANGED <<rowVars, persistVars, processVars, messagesJson, messagesLog, contextVars>>

-----------------------------------------------------------------------------

Init ==
  /\ messages = <<>>
  /\ messageClientIndex = {}
  /\ messageNonceIndex = {}
  /\ nextMessageSequence = 1
  /\ messagesDirty = FALSE
  /\ messagesRequireFullPersist = FALSE
  /\ pendingMessageAppends = <<>>
  /\ pendingMessagesPersistTimer = FALSE
  /\ flushing = FALSE
  /\ phase = "down"
  /\ messagesJson = InitialJson
  /\ messagesLog = InitialLog
  /\ logEnd = "whole"
  /\ online = {}
  /\ blocked = {}

Handler ==
  \/ \E i \in Id, u, v \in User, c \in ClientId, n \in Nonce, r \in Id \cup {Empty} :
       SendMessage(i, u, v, c, n, r)
  \/ \E u \in User : \E k \in DOMAIN messages : RecallMessage(u, k) \/ DeleteMessage(u, k)
  \/ \E u, v \in User : MarkRead(u, v) \/ SetBlock(u, v)
  \/ \E u \in User : Connect(u) \/ Disconnect(u)
  \/ PatchUser

Flush == FlushAppend \/ FlushJson \/ FlushLog

Lifecycle ==
  \/ Start \/ Shutdown \/ Exit \/ Crash \/ RepairLog
  \/ \E n \in 0 .. Len(pendingMessageAppends), cut \in LogEnd : CrashInAppend(n, cut)

Next == Handler \/ Flush \/ Lifecycle

Spec == Init /\ [][Next]_vars

\* An armed timer fires, and a started flush goes on.
Fairness == WF_vars(FlushAppend) /\ WF_vars(FlushJson) /\ WF_vars(FlushLog)

FairSpec == Spec /\ Fairness

-----------------------------------------------------------------------------
(* Properties.                                                             *)

\* Every variable has its type.
TypeOK ==
  /\ messages \in Seq(Message)
  /\ messageClientIndex \subseteq User \X ClientId
  /\ messageNonceIndex \subseteq User \X Nonce
  /\ nextMessageSequence \in Nat \ {0}
  /\ messagesDirty \in BOOLEAN
  /\ messagesRequireFullPersist \in BOOLEAN
  /\ pendingMessageAppends \in Seq(Nat \ {0})
  /\ pendingMessagesPersistTimer \in BOOLEAN
  /\ flushing \in BOOLEAN
  /\ phase \in {"up", "stopping", "down"}
  /\ messagesJson \in Seq(Message)
  /\ messagesLog \in Seq(Message)
  /\ logEnd \in LogEnd
  /\ online \subseteq User
  /\ blocked \subseteq User \X User

\* A sender never has two stored messages with one nonce or one clientId,
\* whether the first was recalled, reloaded or both in between: in memory
\* and in either file (handleSendMessage's 200/409 answers, the replay index).
SenderKeysUnique ==
  WellFormed(messages) /\ WellFormed(messagesJson) /\ WellFormed(messagesLog)

\* The indexes that answer retries and replays are those a rebuild over the
\* stored rows would give (appendMessageBucket against rebuildMessageBuckets).
IndexesAgree ==
  phase # "down" =>
    /\ messageClientIndex = ClientKeys(messages)
    /\ messageNonceIndex = NonceKeys(messages)
    /\ \A m \in Rows(messages) : m.sequence < nextMessageSequence

\* A recalled message has no payload left, in memory or in the files, and
\* keeps the nonce the replay index needs (redactRecalledMessagePayload); a
\* message that was not recalled has both.
RecallRedacts ==
  PayloadsSound(messages) /\ PayloadsSound(messagesJson) /\ PayloadsSound(messagesLog)

\* A reply always refers to a stored message of its own conversation, also
\* after a crash that lost the newest messages.
ReplyTargetsResolve ==
  \A rows \in {messages, Loadable} : \A m \in Rows(rows) :
    m.replyToId # Empty => ReplyTarget(rows, m.from, m.to, m.replyToId)

\* When nothing is pending, a restart would load exactly what is in memory.
CleanMeansDurable == Running /\ ~messagesDirty => Loadable = messages

\* What a restart would load never loses a message, nor that one was
\* delivered, read, recalled or deleted for a user.
Remembers(m, w) ==
  /\ w.id = m.id
  /\ m.delivered => w.delivered
  /\ m.read => w.read
  /\ m.recalled => w.recalled
  /\ m.deletedFor \subseteq w.deletedFor

DurableNeverForgets ==
  [][\A m \in Rows(Loadable) : \E w \in Rows(Loadable') : Remembers(m, w)]_vars

Recalled(rows, i) == \E m \in Rows(rows) : m.id = i /\ m.recalled

\* An accepted message, and a recall, reach the disk or the process dies
\* first: the debounce timer is armed whenever something is pending.
EveryChangeBecomesDurable ==
  \A i \in Id :
    /\ i \in Ids(messages) ~> (phase = "down" \/ i \in Ids(Loadable))
    /\ Recalled(messages, i) ~> (phase = "down" \/ Recalled(Loadable, i))

-----------------------------------------------------------------------------
(* What makes the above inductive.                                         *)

\* While appending suffices, messages.jsonl holds the rows just before the
\* pending ones, and the pending ones are the newest rows of memory: an append
\* never writes a row twice and never skips one (schedulePersistMessages).
PendingIsTail ==
  phase # "down" /\ ~flushing /\ ~messagesRequireFullPersist =>
    LET pending == Len(pendingMessageAppends)
        kept == Len(messages) - pending
    IN  /\ pending + Len(messagesLog) <= Len(messages)
        /\ \A k \in 1 .. pending : pendingMessageAppends[k] = kept + k
        /\ \A k \in 1 .. Len(messagesLog) :
             messagesLog[k] = messages[kept - Len(messagesLog) + k]

NothingPending == ~messagesRequireFullPersist /\ ~messagesDirty /\ pendingMessageAppends = <<>>

\* Between the two writes of a full flush nothing is pending, and a process
\* that is down holds nothing.
IdlePhases ==
  /\ flushing => NothingPending
  /\ phase = "down" => NothingPending /\ ~flushing /\ messages = <<>>

IInv ==
  /\ TypeOK
  /\ SenderKeysUnique
  /\ IndexesAgree
  /\ RecallRedacts
  /\ PendingIsTail
  /\ IdlePhases

-----------------------------------------------------------------------------
(* The store implements MessageLedger.  While the process is down, its     *)
(* ledger is what the next start will load.                                *)

Entry(m) ==
  [id |-> m.id, key |-> ClientKey(m), nonce |-> NonceKey(m), to |-> m.to,
   payload |-> m.ciphertext, delivered |-> m.delivered, read |-> m.read,
   recalled |-> m.recalled, deletedFor |-> m.deletedFor]

Entries(rows) == [k \in DOMAIN rows |-> Entry(rows[k])]

InitialRows == IF InitialLog # <<>> THEN InitialLog ELSE InitialJson

Ledger == INSTANCE MessageLedger
  WITH InitialEntries <- Entries(InitialRows),
       ledger <- Entries(IF phase = "down" THEN Loadable ELSE messages),
       durable <- Entries(Loadable)

\* Every run of the store is a run of the ledger.
ImplementsLedger == Ledger!Spec

-----------------------------------------------------------------------------
(* What makes the durability of the store inductive, from a first start    *)
(* that finds rows in messages.jsonl.                                      *)

\* A reply refers to an earlier row of its own conversation.
RepliesPrecede(rows) ==
  \A k \in DOMAIN rows : rows[k].replyToId # Empty =>
    \E j \in DOMAIN rows :
      j < k /\ rows[j].id = rows[k].replyToId /\ Between(rows[j], rows[k].from, rows[k].to)

\* The server wrote messages.jsonl before: it does not migrate an old store.
\* (A store that is still in messages.json alone can lose messages.)
Migrated == InitialLog # <<>> /\ RepliesPrecede(InitialLog)

\* w is m with more marks, or recalled.
Outgrows(m, w) ==
  /\ w.from = m.from /\ w.to = m.to /\ w.replyToId = m.replyToId
  /\ Ledger!Grows(Entry(m), Entry(w))

\* messages.jsonl is a beginning of memory, as it was some time ago; while
\* appending suffices, only the pending rows are missing.
LogIsBeginning ==
  phase # "down" =>
    /\ Len(messagesLog) <= Len(messages)
    /\ \A k \in 1 .. Len(messagesLog) : Outgrows(messagesLog[k], messages[k])
    /\ ~flushing /\ ~messagesRequireFullPersist =>
         Len(messagesLog) + Len(pendingMessageAppends) = Len(messages)

DInv ==
  /\ messagesLog # <<>>
  /\ ~messagesDirty => ~messagesRequireFullPersist /\ pendingMessageAppends = <<>>
  /\ LogIsBeginning
  /\ RepliesPrecede(messages)
  /\ RepliesPrecede(messagesLog)
=============================================================================
