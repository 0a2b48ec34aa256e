--------------------------- MODULE ClientReceipts ---------------------------
(***************************************************************************)
(* Read receipts and the badge of unread messages (public/app.js,          *)
(* routes/message-routes.js): messages of one account to another, the page *)
(* of the sender, which shows what has been read, and a page of the reader, *)
(* which marks what it shows, while another device of the reader reads as  *)
(* well.  Events, answers and loads of the pages overtake each other:      *)
(* messages are decrypted between an event and the cache, loads replace    *)
(* what they find, and streams break off.                                  *)
(***************************************************************************)
EXTENDS Integers, Sequences, FiniteSets

CONSTANTS MaxMsg, MaxLoads, MaxDrops, MaxSwitches  \* bounds

\* Assumed of the constants.
ReceiptsAssumption == {MaxMsg, MaxLoads, MaxDrops, MaxSwitches} \subseteq Nat

Msg == 1..MaxMsg
None == [none |-> TRUE]

VARIABLES
  sent, read,   \* the server: the number of messages, those with a readAt
  reader,       \* the reader's page: open (the conversation is the active one),
                \* visible, cache (messages in it), badge (conversation.unread)
  inbox,        \* events on the reader's stream
  decrypting,   \* messages of events that are being decrypted
  opening,      \* the answer to the GET of openConversation, or None
  listing,      \* the answer to loadConversations, with what it was combined
                \* with when it came, or None
  marking,      \* a POST of markConversationRead is on its way
  connected,    \* the reader's stream is open
  sender,       \* the sender's page: known (messages in the cache), marked
                \* (those of them with a readAt)
  news,         \* message-read events on the sender's stream
  answers,      \* messages whose answer or own event is on its way, or decrypted
  reload,       \* the answer to the GET of openConversation, or None
  loads, drops, switches,
  early,        \* ghost: receipts that came before their message, or to a cache
                \* that was being replaced
  blurred       \* ghost: an event or an opening came between the answer to
                \* loadConversations and its end, an event about reading came
                \* during a decryption, an opening was given up or
                \* ended with the conversation left, or took away a message that
                \* had come since

serverVars == <<sent, read>>
readerVars == <<reader, inbox, decrypting, opening, listing, marking, connected, blurred>>
senderVars == <<sender, news, answers, reload, early>>
bounds == <<loads, drops, switches>>
vars == <<serverVars, readerVars, senderVars, bounds>>

Unread == (1..sent) \ read

-----------------------------------------------------------------------------
(* The server.                                                             *)

\* handleSendMessage: the event goes to the reader, the answer to the sender.
Send ==
  /\ sent < MaxMsg /\ sent' = sent + 1
  /\ answers' = answers \cup {sent + 1}
  /\ inbox' = IF connected THEN Append(inbox, [type |-> "message", ids |-> {sent + 1}]) ELSE inbox
  /\ UNCHANGED <<read, reader, decrypting, opening, listing, marking, connected, blurred,
                 sender, news, reload, early, bounds>>

\* handleMarkRead: everything that is unread now, whatever the page had seen
\* when it asked; nothing new, no events.
Marked ==
  /\ read' = 1..sent /\ UNCHANGED sent
  /\ IF Unread = {} THEN UNCHANGED <<news, inbox>>
     ELSE /\ news' = Append(news, Unread)
          /\ inbox' = IF connected THEN Append(inbox, [type |-> "conversation-read", ids |-> Unread]) ELSE inbox

MarkRead ==
  /\ marking /\ marking' = FALSE /\ Marked
  /\ UNCHANGED <<reader, decrypting, opening, listing, connected, blurred,
                 sender, answers, reload, early, bounds>>

\* The POST fails, which is ignored.
MarkFails ==
  /\ marking /\ marking' = FALSE
  /\ UNCHANGED <<serverVars, reader, inbox, decrypting, opening, listing, connected, blurred,
                 senderVars, bounds>>

\* Another device of the reader has the conversation open.
ReadElsewhere ==
  /\ switches < MaxSwitches /\ switches' = switches + 1
  /\ Unread # {} /\ Marked
  /\ UNCHANGED <<reader, decrypting, opening, listing, marking, connected, blurred,
                 sender, answers, reload, early, loads, drops>>

-----------------------------------------------------------------------------
(* The reader's page.                                                      *)

\* ingestEncryptedMessage up to the decryption.
MessageComes ==
  /\ inbox # <<>> /\ Head(inbox).type = "message" /\ inbox' = Tail(inbox)
  /\ decrypting' = decrypting \cup (Head(inbox).ids \ reader.cache)
  /\ blurred' = (blurred \/ listing # None)
  /\ UNCHANGED <<serverVars, reader, opening, listing, marking, connected, senderVars, bounds>>

\* Its end: the badge counts unless the conversation is open.
Ingested(m) == [reader EXCEPT !.cache = @ \cup {m}, !.badge = IF reader.open THEN 0 ELSE @ + 1]

\* It is marked when the conversation is open on a page that is seen.
MarksNow == reader.open /\ reader.visible

Ingest(m) ==
  /\ m \in decrypting /\ decrypting' = decrypting \ {m}
  /\ reader' = Ingested(m)
  /\ marking' = (marking \/ MarksNow)
  /\ blurred' = (blurred \/ listing # None)
  /\ UNCHANGED <<serverVars, inbox, opening, listing, connected, senderVars, bounds>>

\* applyConversationReadUpdate: the badge goes, whatever the event is about.
ReadComes ==
  /\ inbox # <<>> /\ Head(inbox).type = "conversation-read" /\ inbox' = Tail(inbox)
  /\ reader' = [reader EXCEPT !.badge = 0]
  /\ blurred' = (blurred \/ listing # None \/ decrypting # {})
  /\ UNCHANGED <<serverVars, decrypting, opening, listing, marking, connected, senderVars, bounds>>

\* openConversation: the badge goes at once, the server answers with its rows ...
Open ==
  /\ loads < MaxLoads /\ loads' = loads + 1
  /\ opening' = [rows |-> 1..sent]
  /\ reader' = [reader EXCEPT !.open = TRUE, !.badge = 0]
  /\ blurred' = (blurred \/ listing # None)
  /\ UNCHANGED <<serverVars, inbox, decrypting, listing, marking, connected, senderVars, drops, switches>>

\* ... which replace the cache; then it is marked.  An answer that a later
\* opening has overtaken is dropped; here it is the same conversation.
Opened ==
  /\ opening # None /\ opening' = None
  /\ reader' = [reader EXCEPT !.cache = opening.rows, !.badge = 0]
  /\ marking' = TRUE
  /\ blurred' = (blurred \/ listing # None \/ ~reader.open \/ ~(reader.cache \subseteq opening.rows))
  /\ UNCHANGED <<serverVars, inbox, decrypting, listing, connected, senderVars, bounds>>

\* The user goes to another conversation, which gives up an opening, or back to
\* the list on a small screen, which does not.
Close ==
  /\ reader.open /\ switches < MaxSwitches /\ switches' = switches + 1
  /\ reader' = [reader EXCEPT !.open = FALSE]
  /\ opening' \in {None, opening} /\ blurred' = (blurred \/ opening' # opening)
  /\ UNCHANGED <<serverVars, inbox, decrypting, listing, marking, connected, senderVars, loads, drops>>

\* The page is hidden, or seen again: then the open conversation is marked.
Visibility ==
  /\ switches < MaxSwitches /\ switches' = switches + 1
  /\ reader' = [reader EXCEPT !.visible = ~@]
  /\ marking' = (marking \/ (reader'.visible /\ reader.open))
  /\ UNCHANGED <<serverVars, inbox, decrypting, opening, listing, connected, blurred,
                 senderVars, loads, drops>>

\* loadConversations: the server counts ...
List ==
  /\ listing = None /\ loads < MaxLoads /\ loads' = loads + 1
  /\ listing' = [unread |-> Cardinality(Unread), combined |-> FALSE]
  /\ UNCHANGED <<serverVars, reader, inbox, decrypting, opening, marking, connected, blurred,
                 senderVars, drops, switches>>

\* ... the answer is combined with the badge of the page ...
Combined(n) == IF n > reader.badge THEN n ELSE reader.badge

ListComes ==
  /\ listing # None /\ ~listing.combined
  /\ listing' = [unread |-> Combined(listing.unread), combined |-> TRUE]
  /\ UNCHANGED <<serverVars, reader, inbox, decrypting, opening, marking, connected, blurred,
                 senderVars, bounds>>

\* ... and replaces it after the previews have been decrypted.
Listed ==
  /\ listing # None /\ listing.combined /\ listing' = None
  /\ reader' = [reader EXCEPT !.badge = listing.unread]
  /\ UNCHANGED <<serverVars, inbox, decrypting, opening, marking, connected, blurred,
                 senderVars, bounds>>

\* The stream breaks off with what is on it; it is opened again, with a load of
\* the conversations and of the open one.
Drop ==
  /\ connected /\ drops < MaxDrops /\ drops' = drops + 1
  /\ connected' = FALSE /\ inbox' = <<>>
  /\ UNCHANGED <<serverVars, reader, decrypting, opening, listing, marking, blurred, senderVars,
                 loads, switches>>

Reconnect ==
  /\ ~connected /\ connected' = TRUE /\ listing = None
  /\ listing' = [unread |-> Cardinality(Unread), combined |-> FALSE]
  /\ IF reader.open
     THEN /\ opening' = [rows |-> 1..sent]
          /\ reader' = [reader EXCEPT !.badge = 0]
     ELSE UNCHANGED <<opening, reader>>
  /\ UNCHANGED <<serverVars, inbox, decrypting, marking, blurred, senderVars, bounds>>

-----------------------------------------------------------------------------
(* The sender's page.                                                      *)

\* The answer to the POST or the sender's own event is decrypted and in the cache.
Answered(m) ==
  /\ m \in answers /\ answers' = answers \ {m}
  /\ sender' = [sender EXCEPT !.known = @ \cup {m}]
  /\ UNCHANGED <<serverVars, readerVars, news, reload, early, bounds>>

\* Mutant of Receipt: it is taken to be about every message of the conversation.
ReceiptForAll(ids) == [sender EXCEPT !.marked = sender.known]

\* applyReceiptUpdate
Receipt(ids) == [sender EXCEPT !.marked = @ \cup (ids \cap sender.known)]

ReceiptComes ==
  /\ news # <<>> /\ news' = Tail(news)
  /\ sender' = Receipt(Head(news))
  /\ early' = early \cup (Head(news) \ sender.known)
                    \cup (IF reload # None THEN Head(news) \ reload.read ELSE {})
  /\ UNCHANGED <<serverVars, readerVars, answers, reload, bounds>>

\* openConversation of the sender: rows with their receipts, of when the server
\* answered.
SenderOpens ==
  /\ loads < MaxLoads /\ loads' = loads + 1
  /\ reload' = [rows |-> 1..sent, read |-> read]
  /\ UNCHANGED <<serverVars, readerVars, sender, news, answers, early, drops, switches>>

SenderOpened ==
  /\ reload # None /\ reload' = None
  /\ sender' = [known |-> reload.rows, marked |-> reload.read]
  /\ early' = early \ reload.read
  /\ UNCHANGED <<serverVars, readerVars, news, answers, bounds>>

Init ==
  /\ sent = 0 /\ read = {}
  /\ reader = [open |-> FALSE, visible |-> TRUE, cache |-> {}, badge |-> 0]
  /\ inbox = <<>> /\ decrypting = {} /\ opening = None /\ listing = None /\ marking = FALSE
  /\ connected = TRUE
  /\ sender = [known |-> {}, marked |-> {}] /\ news = <<>> /\ answers = {} /\ reload = None
  /\ loads = 0 /\ drops = 0 /\ switches = 0
  /\ early = {} /\ blurred = FALSE

Next ==
  \/ Send \/ MarkRead \/ MarkFails \/ ReadElsewhere
  \/ MessageComes \/ ReadComes \/ Open \/ Opened \/ Close \/ Visibility
  \/ List \/ ListComes \/ Listed \/ Drop \/ Reconnect
  \/ ReceiptComes \/ SenderOpens \/ SenderOpened
  \/ \E m \in Msg : Ingest(m) \/ Answered(m)

Spec == Init /\ [][Next]_vars

-----------------------------------------------------------------------------
(* Properties.                                                             *)

\* The state has its shape; the badge never falls below zero.
TypeOK ==
  /\ sent \in 0..MaxMsg /\ read \subseteq 1..sent
  /\ reader \in [open : BOOLEAN, visible : BOOLEAN, cache : SUBSET Msg, badge : Nat]
  /\ decrypting \subseteq Msg /\ {marking, connected, blurred} \subseteq BOOLEAN
  /\ opening = None \/ opening \in [rows : SUBSET Msg]
  /\ listing = None \/ listing \in [unread : Nat, combined : BOOLEAN]
  /\ sender \in [known : SUBSET Msg, marked : SUBSET Msg] /\ {answers, early} \subseteq SUBSET Msg
  /\ reload = None \/ reload \in [rows : SUBSET Msg, read : SUBSET Msg]

\* applyReceiptUpdate, openConversation: the sender's page shows no message as
\* read that the server does not have as read.
MarksTrue == sender.marked \subseteq read

\* applyReceiptUpdate: once the answers and events are handled, the sender's page
\* shows what has been read, unless a receipt came before its message was in the
\* cache, or while the cache was being replaced.
SenderLearns ==
  answers = {} /\ news = <<>> /\ reload = None => (sender.known \cap read) \ early \subseteq sender.marked

\* ingestEncryptedMessage, loadConversations: with every event and answer
\* handled, a page that shows no badge has in its cache every message that is
\* still unread, also after the stream was down, unless events and loads have
\* crossed.
BadgeShown ==
  /\ inbox = <<>> /\ decrypting = {} /\ opening = None /\ listing = None /\ ~marking /\ connected
  /\ ~blurred /\ ~reader.open /\ reader.badge = 0
  => Unread \subseteq reader.cache

-----------------------------------------------------------------------------
(* What makes the above inductive.                                         *)

StreamEvent == [type : {"message", "conversation-read"}, ids : SUBSET Msg]

\* A stream that is closed carries nothing; receipts are about messages that have
\* been read.
Shape ==
  /\ inbox \in Seq(StreamEvent) /\ (connected \/ inbox = <<>>)
  /\ news \in Seq(SUBSET Msg)
  /\ \A i \in 1..Len(news) : news[i] \subseteq read
  /\ reload # None => reload.read \subseteq read

\* The messages that receipts are about.
Announced(receipts) == {m \in Msg : \E i \in 1..Len(receipts) : m \in receipts[i]}

\* What has been read is shown as read, or its receipt is on its way or came too
\* early; the same of the page as the answer on its way will leave it.
ReceiptsReach ==
  /\ read \subseteq sender.marked \cup early \cup Announced(news)
  /\ reload # None => read \subseteq reload.read \cup early \cup Announced(news)

\* Message m is on a stream behind the first i events.
Coming(stream, m, i) ==
  \E j \in 1..Len(stream) : j > i /\ stream[j].type = "message" /\ m \in stream[j].ids

\* An event about reading comes before the messages that are unread.
ReadInOrder ==
  \A i \in 1..Len(inbox) :
    inbox[i].type = "conversation-read" => \A m \in Unread : Coming(inbox, m, i)

\* What is unread is in the cache or on its way to it, or there is a badge.
NothingMissed ==
  connected /\ ~blurred =>
    \/ \A m \in Unread :
         \/ m \in reader.cache \cup decrypting \/ Coming(inbox, m, 0)
         \/ opening # None /\ m \in opening.rows
    \/ ~reader.open /\ (reader.badge > 0 \/ (listing # None /\ listing.unread > 0))

\* The answer that will replace the badge counts what the badge counts.
CountKept == listing # None /\ listing.combined /\ ~blurred => listing.unread >= reader.badge

IInv ==
  /\ TypeOK /\ Shape
  /\ MarksTrue /\ ReceiptsReach
  /\ ReadInOrder /\ NothingMissed /\ CountKept
=============================================================================
