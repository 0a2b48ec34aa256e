---------------------------- MODULE ClientOutbox ----------------------------
(***************************************************************************)
(* The outbox of the web client (public/app.js): messages the user wrote,  *)
(* their bubbles in the open conversation, the entries that allow a retry, *)
(* the sending procedure sendMessageWithRetry and the flush after a        *)
(* reconnect, against a server that answers a repeated clientId with the   *)
(* message it stored, requests and answers that are lost, an event stream  *)
(* that drops and loses its echoes, and reloads of the conversation.       *)
(*                                                                         *)
(* The client is single threaded: an action runs from one await to the     *)
(* next.  Messages are numbered in the order of their creation (createdAt),*)
(* and one conversation is modelled.  attempts is only ever compared with  *)
(* 0 and kept as a boolean (tried).                                        *)
(***************************************************************************)
EXTENDS Naturals, FiniteSets, FiniteSetsExt, Functions

CONSTANTS
  MaxMsg,       \* messages the user writes
  Attachment,   \* those of them that are attachments
  MaxLosses,    \* requests or answers that are lost or refused
  MaxDrops,     \* losses of the event stream
  MaxRetries,   \* clicks on a retry button
  MaxLoads      \* reloads of the conversation

Msg == 1..MaxMsg

\* Assumed of the constants.
OutboxAssumption ==
  /\ {MaxMsg, MaxLosses, MaxDrops, MaxRetries, MaxLoads} \subseteq Nat
  /\ Attachment \subseteq Msg

Status == {"queued", "sending", "failed"}
Entry == [tried : BOOLEAN, failed : BOOLEAN, sendStatus : Status, transient : BOOLEAN]
Bubble == [msg : Msg, fromServer : BOOLEAN, pending : BOOLEAN, failed : BOOLEAN,
           sendStatus : Status \cup {"sent"}]

VARIABLES
  ui,          \* the lists: pendingMessages, pendingOutbox and messageCache
  connected,   \* connectionState is "online"
  call,        \* where sendMessageWithRetry stands for each message
  flush,       \* the message flushPendingOutbox awaits (0: none), and those after it
  submitting,  \* the message submitInFlight is set for, or 0
  preparing,   \* an attachment is being read and checked
  decrypting,  \* echoes that are being decrypted
  load,        \* the request of openConversation and the rows it brought
  stored,      \* messages the server has
  echo,        \* message events on their way to this client
  created,     \* number of messages written so far
  promised,    \* messages whose automatic sending was announced
  faults       \* how often each bound was used

vars == <<ui, connected, call, flush, submitting, preparing, decrypting, load,
          stored, echo, created, promised, faults>>

-----------------------------------------------------------------------------
(* The lists.  Each operator is a function of the client that changes them.*)

Has(s, m) == \E b \in s.cache : b.msg = m

With(table, m, e) == [k \in DOMAIN table \cup {m} |-> IF k = m THEN e ELSE table[k]]

\* upsertPendingOutboxEntry; pendingMessages is rebuilt from the outbox, which
\* drops the entries of attachments.
Upserted(s, m, e) ==
  [s EXCEPT !.outbox = With(s.outbox, m, e), !.pending = With(s.outbox, m, e)]

\* removePendingOutboxEntry
Removed(s, m) ==
  LET outbox == Restrict(s.outbox, DOMAIN s.outbox \ {m})
  IN IF m \in DOMAIN s.outbox THEN [s EXCEPT !.outbox = outbox, !.pending = outbox] ELSE s

\* A confirmed message: its entries and every bubble with its clientId go.
Forget(s, m) ==
  Removed([s EXCEPT !.pending = Restrict(@, DOMAIN @ \ {m}),
                    !.cache = {b \in @ : b.msg # m}], m)

WithStatus(r, status) == [r EXCEPT !.failed = (status = "failed"), !.sendStatus = status]

\* setPendingMessageState for each message of a set: bubbles, and the entry if
\* there is a bubble.
Marked(s, set, status) ==
  LET marked == {m \in set : Has(s, m) /\ m \in DOMAIN s.pending /\ ~s.pending[m].transient}
      shown == {IF b.msg \in set
                THEN [WithStatus(b, status) EXCEPT !.pending = (status # "failed")]
                ELSE b : b \in s.cache}
      entry(m) == [WithStatus(s.pending[m], status) EXCEPT !.tried = @ \/ status = "failed"]
      outbox == [m \in DOMAIN s.outbox \cup marked |->
                   IF m \in marked THEN entry(m) ELSE s.outbox[m]]
  IN IF marked = {} THEN [s EXCEPT !.cache = shown]
     ELSE [pending |-> outbox, outbox |-> outbox, cache |-> shown]

\* addPendingMessage
Added(s, m, online) ==
  LET entry == [tried |-> FALSE, failed |-> FALSE, transient |-> m \in Attachment,
                sendStatus |-> IF online THEN "sending" ELSE "queued"]
      shown == [s EXCEPT !.pending = With(@, m, entry),
                         !.cache = @ \cup {[msg |-> m, fromServer |-> FALSE, pending |-> TRUE,
                                            failed |-> FALSE, sendStatus |-> entry.sendStatus]}]
  IN IF m \in Attachment THEN shown ELSE Upserted(shown, m, entry)

ServerBubble(m) == [msg |-> m, fromServer |-> TRUE, pending |-> FALSE, failed |-> FALSE,
                    sendStatus |-> "sent"]

\* Mutant of Ingested: bubbles are matched by id alone.
IngestedById(s, m) == [s EXCEPT !.cache = @ \cup {ServerBubble(m)}]

\* The end of ingestEncryptedMessage: reconcilePendingMessage, then
\* upsertMessageInCache, which matches bubbles by id and clientId.
Ingested(s, m) ==
  LET known == IF m \in DOMAIN s.pending THEN Forget(s, m) ELSE s
  IN [known EXCEPT !.cache = {b \in @ : b.msg # m} \cup {ServerBubble(m)}]

\* mergePendingMessagesIntoConversation
Merged(s) ==
  [s EXCEPT !.cache = @ \cup
     {[msg |-> m, fromServer |-> FALSE, pending |-> ~s.outbox[m].failed,
       failed |-> s.outbox[m].failed, sendStatus |-> s.outbox[m].sendStatus] :
        m \in {k \in DOMAIN s.outbox : ~Has(s, k)}}]

-----------------------------------------------------------------------------
(* sendMessageWithRetry and the flush.                                     *)

NoFlush == [waiting |-> 0, rest |-> {}]
outboundInFlight == {m \in Msg : call[m] # "idle"}

\* What a flush sends of the list it copied when it started.
FlushList(s) == {m \in DOMAIN s.outbox : s.outbox[m].failed \/ ~s.outbox[m].tried}

\* The flush goes on to the next message that still waits; offline it only
\* marks the rest as queued.
Advance(s, calls, online, rest) ==
  LET due == {m \in rest : m \in DOMAIN s.pending /\ calls[m] = "idle"}
      m == Min(due)
  IN IF online /\ due # {}
     THEN [ui |-> Marked(s, {m}, "sending"), call |-> [calls EXCEPT ![m] = "encrypting"],
           flush |-> [waiting |-> m, rest |-> {k \in rest : k > m}]]
     ELSE [ui |-> IF online THEN s ELSE Marked(s, due, "queued"),
           call |-> calls, flush |-> NoFlush]

\* Mutant of CallEnds: a flush is not told that the call it awaits has ended.
CallEndsAlone(m, s) ==
  /\ ui' = s /\ call' = [call EXCEPT ![m] = "idle"] /\ UNCHANGED flush
  /\ submitting' = IF submitting = m THEN 0 ELSE submitting

\* The sending of m returns: its caller goes on.
CallEnds(m, s) ==
  LET idle == [call EXCEPT ![m] = "idle"]
      next == IF flush.waiting = m THEN Advance(s, idle, connected, flush.rest)
              ELSE [ui |-> s, call |-> idle, flush |-> flush]
  IN /\ ui' = next.ui /\ call' = next.call /\ flush' = next.flush
     /\ submitting' = IF submitting = m THEN 0 ELSE submitting

\* The start of sendMessageWithRetry for a message that is not in flight.
StartCall(m, s) ==
  IF connected
  THEN /\ ui' = Marked(s, {m}, "sending")
       /\ call' = [call EXCEPT ![m] = "encrypting"]
       /\ UNCHANGED promised
  ELSE /\ ui' = Marked(s, {m}, "queued")
       /\ promised' = promised \cup {m}
       /\ UNCHANGED call

May(kind, bound) == faults[kind] < bound /\ faults' = [faults EXCEPT ![kind] = @ + 1]

Submit ==
  /\ created < MaxMsg /\ created + 1 \notin Attachment
  /\ submitting = 0
  /\ created' = created + 1
  /\ StartCall(created + 1, Added(ui, created + 1, connected))
  /\ submitting' = IF connected THEN created + 1 ELSE 0
  /\ UNCHANGED <<connected, flush, preparing, decrypting, load, stored, echo, faults>>

\* sendAttachmentFiles refuses offline, then reads and checks the file.
PickAttachment ==
  /\ created < MaxMsg /\ created + 1 \in Attachment
  /\ connected /\ ~preparing
  /\ preparing' = TRUE
  /\ UNCHANGED <<ui, connected, call, flush, submitting, decrypting, load, stored, echo,
                 created, promised, faults>>

SendAttachment ==
  /\ preparing /\ preparing' = FALSE
  /\ created' = created + 1
  /\ StartCall(created + 1, Added(ui, created + 1, connected))
  /\ UNCHANGED <<connected, flush, submitting, decrypting, load, stored, echo, faults>>

\* The retry button of a failed bubble has a tempId, and the entry is there.
Retryable(m) ==
  /\ \E b \in ui.cache : b.msg = m /\ b.failed /\ ~b.fromServer
  /\ m \in DOMAIN ui.pending
  /\ ui.pending[m].sendStatus # "sending"
  /\ m \notin outboundInFlight

Retry(m) ==
  /\ Retryable(m)
  /\ May("retries", MaxRetries)
  /\ StartCall(m, Marked(ui, {m}, "sending"))
  /\ UNCHANGED <<connected, flush, submitting, preparing, decrypting, load, stored, echo, created>>

Encrypted(m) ==
  /\ call[m] = "encrypting"
  /\ call' = [call EXCEPT ![m] = "sent"]
  /\ UNCHANGED <<ui, connected, flush, submitting, preparing, decrypting, load, stored, echo,
                 created, promised, faults>>

\* The server stores the message and tells the sender's streams, or finds the
\* clientId and only answers.
ServerStores(m) ==
  /\ call[m] = "sent"
  /\ call' = [call EXCEPT ![m] = "answered"]
  /\ stored' = stored \cup {m}
  /\ echo' = IF connected /\ m \notin stored THEN echo \cup {m} ELSE echo
  /\ UNCHANGED <<ui, connected, flush, submitting, preparing, decrypting, load,
                 created, promised, faults>>

\* Encryption fails, the request is lost or refused, or the answer is lost.
Fail(m) ==
  /\ call[m] \in {"encrypting", "sent", "answered"}
  /\ May("losses", MaxLosses)
  /\ CallEnds(m, Marked(ui, {m}, "failed"))
  /\ UNCHANGED <<connected, preparing, decrypting, load, stored, echo, created, promised>>

\* The answer: entries and bubbles go, the answered message is decrypted.
Answer(m) ==
  /\ call[m] = "answered"
  /\ ui' = Forget(ui, m)
  /\ call' = [call EXCEPT ![m] = "ingesting"]
  /\ UNCHANGED <<connected, flush, submitting, preparing, decrypting, load, stored, echo,
                 created, promised, faults>>

Finish(m) ==
  /\ call[m] = "ingesting"
  /\ CallEnds(m, Ingested(ui, m))
  /\ UNCHANGED <<connected, preparing, decrypting, load, stored, echo, created, promised, faults>>

-----------------------------------------------------------------------------
(* The event stream and the reloads.                                       *)

\* messageExists stops an echo that is shown already.
Shown(m) == \E b \in ui.cache : b.msg = m /\ (b.fromServer \/ (~b.pending /\ ~b.failed))

EchoArrives(m) ==
  /\ m \in echo /\ connected
  /\ echo' = echo \ {m}
  /\ decrypting' = IF Shown(m) THEN decrypting ELSE decrypting \cup {m}
  /\ UNCHANGED <<ui, connected, call, flush, submitting, preparing, load, stored, created,
                 promised, faults>>

EchoDecrypted(m) ==
  /\ m \in decrypting
  /\ decrypting' = decrypting \ {m}
  /\ ui' = Ingested(ui, m)
  /\ UNCHANGED <<connected, call, flush, submitting, preparing, load, stored, echo, created,
                 promised, faults>>

Drop ==
  /\ connected /\ connected' = FALSE
  /\ May("drops", MaxDrops)
  /\ echo' = {}
  /\ UNCHANGED <<ui, call, flush, submitting, preparing, decrypting, load, stored, created, promised>>

\* The stream opens again: flushPendingOutbox, unless one is still running.
Open ==
  /\ ~connected /\ connected' = TRUE
  /\ LET next == Advance(ui, call, TRUE, FlushList(ui))
     IN IF flush = NoFlush
        THEN ui' = next.ui /\ call' = next.call /\ flush' = next.flush
        ELSE UNCHANGED <<ui, call, flush>>
  /\ UNCHANGED <<submitting, preparing, decrypting, load, stored, echo, created, promised, faults>>

AskConversation ==
  /\ load.step = "none"
  /\ May("loads", MaxLoads)
  /\ load' = [step |-> "asked", rows |-> {}]
  /\ UNCHANGED <<ui, connected, call, flush, submitting, preparing, decrypting, stored, echo,
                 created, promised>>

ConversationAnswered ==
  /\ load.step = "asked"
  /\ load' = [step |-> "decrypting", rows |-> stored]
  /\ UNCHANGED <<ui, connected, call, flush, submitting, preparing, decrypting, stored, echo,
                 created, promised, faults>>

\* openConversation replaces the cached rows and merges the outbox into them.
ShowConversation ==
  /\ load.step = "decrypting"
  /\ load' = [step |-> "none", rows |-> {}]
  /\ ui' = Merged([ui EXCEPT !.cache = {ServerBubble(m) : m \in load.rows}])
  /\ UNCHANGED <<connected, call, flush, submitting, preparing, decrypting, stored, echo,
                 created, promised, faults>>

-----------------------------------------------------------------------------

Init ==
  /\ ui = [pending |-> <<>>, outbox |-> <<>>, cache |-> {}]
  /\ connected \in BOOLEAN
  /\ call = [m \in Msg |-> "idle"]
  /\ flush = NoFlush
  /\ submitting = 0
  /\ preparing = FALSE
  /\ decrypting = {}
  /\ load = [step |-> "none", rows |-> {}]
  /\ stored = {} /\ echo = {} /\ promised = {}
  /\ created = 0
  /\ faults = [kind \in {"losses", "drops", "retries", "loads"} |-> 0]

Sending(m) == Encrypted(m) \/ ServerStores(m) \/ Answer(m) \/ Finish(m)

Next ==
  \/ Submit \/ PickAttachment \/ SendAttachment
  \/ \E m \in Msg : Retry(m) \/ Sending(m) \/ Fail(m) \/ EchoArrives(m) \/ EchoDecrypted(m)
  \/ Drop \/ Open
  \/ AskConversation \/ ConversationAnswered \/ ShowConversation

Spec == Init /\ [][Next]_vars

\* Awaited operations end, and the reconnect timer keeps trying until the
\* stream opens.  Nobody has to click, and nothing has to fail.
Fairness ==
  /\ \A m \in Msg : WF_vars(Sending(m)) /\ WF_vars(EchoDecrypted(m))
  /\ WF_vars(Open) /\ WF_vars(ShowConversation)

FairSpec == Spec /\ Fairness

-----------------------------------------------------------------------------
(* Properties.                                                             *)

\* Every variable keeps its type, and the flush awaits a call that runs.
TypeOK ==
  /\ DOMAIN ui.pending \subseteq Msg /\ \A m \in DOMAIN ui.pending : ui.pending[m] \in Entry
  /\ DOMAIN ui.outbox \subseteq Msg /\ \A m \in DOMAIN ui.outbox : ui.outbox[m] \in Entry
  /\ ui.cache \subseteq Bubble
  /\ connected \in BOOLEAN /\ preparing \in BOOLEAN
  /\ call \in [Msg -> {"idle", "encrypting", "sent", "answered", "ingesting"}]
  /\ flush.waiting # 0 => call[flush.waiting] # "idle"
  /\ submitting # 0 => call[submitting] # "idle"
  /\ {flush.waiting, submitting, created} \subseteq 0..MaxMsg
  /\ decrypting \cup echo \cup flush.rest \cup load.rows \cup promised \subseteq stored \cup Msg

\* A message is shown once: the temporary bubble, the echo of the stream, the
\* answer of the request and the rows of a reload merge into one, in any order.
ShownOnce == \A b, c \in ui.cache : b.msg = c.msg => b = c

\* A text the server does not have is never lost: it keeps its outbox entry and
\* its bubble, whatever fails, drops or reloads meanwhile.
NothingLost ==
  \A m \in 1..created : m \notin Attachment \cup stored => m \in DOMAIN ui.outbox /\ Has(ui, m)

\* No text is stuck as "sending", which would disable its retry button: such an
\* entry has a call that will end.
SendingIsInFlight ==
  \A m \in DOMAIN ui.outbox : ui.outbox[m].sendStatus = "sending" => m \in outboundInFlight

\* The composer is locked (submitInFlight) and the flush is closed to later
\* reconnects only for a while, whatever the requests do.
LocksEnd == (submitting # 0 ~> submitting = 0) /\ (flush # NoFlush ~> flush = NoFlush)

Confirmed(m) == m \in stored \/ \E b \in ui.cache : b.msg = m /\ b.failed

\* What a flush has taken over is sent, or shown as failed, also when the
\* stream drops before its turn comes.
FlushedIsConfirmed == \A m \in Msg : m \in flush.rest ~> Confirmed(m)

\* "The message will be sent automatically when this page is online again":
\* what sendMessageWithRetry tells the user who writes or retries offline.
PromiseKept == \A m \in Msg : m \in promised ~> Confirmed(m)

\* A bubble that is shown as failed offers a retry that does something, now or
\* when the call that is under way has ended.
FailedIsRetryable ==
  \A b \in ui.cache : b.failed => Retryable(b.msg) \/ b.msg \in outboundInFlight

-----------------------------------------------------------------------------
(* What makes the above inductive.                                         *)

Table(n) == UNION {[D -> Entry] : D \in SUBSET (1..n)}

\* The lists s of a client that has written n messages agree: the outbox holds
\* the texts among the pending messages, each has a bubble, and none has two.
ListsAgree(s, n) ==
  /\ s \in [pending : Table(n), outbox : Table(n), cache : SUBSET Bubble]
  /\ \A m \in DOMAIN s.pending :
       /\ s.pending[m].transient <=> m \in Attachment
       /\ m \notin Attachment => m \in DOMAIN s.outbox
  /\ \A m \in DOMAIN s.outbox :
       /\ m \notin Attachment /\ m \in DOMAIN s.pending /\ s.outbox[m] = s.pending[m]
       /\ Has(s, m)
  /\ \A b \in s.cache : b.msg <= n
  /\ \A b, c \in s.cache : b.msg = c.msg => b = c

\* A call is for a message that was written, and an answer, an echo or a row is
\* of a message that is stored.
CallsAreReal ==
  /\ stored \subseteq 1..created /\ echo \cup decrypting \cup load.rows \subseteq stored
  /\ flush.rest \cup promised \subseteq 1..created
  /\ \A m \in Msg : call[m] # "idle" => m <= created
  /\ \A m \in Msg : call[m] \in {"answered", "ingesting"} => m \in stored
  /\ preparing => created + 1 \in Attachment
  /\ load \in [step : {"none", "asked", "decrypting"}, rows : SUBSET Msg]
  /\ flush \in [waiting : 0..MaxMsg, rest : SUBSET Msg]

IInv == TypeOK /\ ListsAgree(ui, created) /\ CallsAreReal /\ NothingLost /\ SendingIsInFlight
=============================================================================
