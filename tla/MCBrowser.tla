----------------------------- MODULE MCBrowser ------------------------------
(***************************************************************************)
(* The protocols of the web client (public/app.js), for TLC in one run:    *)
(* outbox, inbox, event stream, trust in a contact's key, keys of the      *)
(* account, renames and receipts, each an instance of its module.          *)
(*                                                                         *)
(* The parts share no variable.  A behaviour exercises the one that `part` *)
(* names and the others rest, so that the reachable states of a part are   *)
(* those of its own module and their product is never built.               *)
(***************************************************************************)
EXTENDS Naturals

CONSTANTS
  OutboxMessages, Attachment, OutboxLosses, OutboxDrops, OutboxRetries,     \* ClientOutbox
  OutboxLoads,
  InboxMessages, InboxHistory, PageSize, InboxRemovals, InboxLoads,         \* ClientInbox
  InboxDrops,
  TrustKeys, TrustAnswers, TrustDialogs, TrustSends,                        \* ClientTrust
  Device, KeysPasswords, KeysOfAccount, KeysLogins, KeysReloads,            \* AccountKeys
  StreamSources, StreamFaults, StreamEvents, StreamLogins,                  \* ClientStream
  Name, Renames, NameReloads, NameSends, NameLoads,                         \* ClientRename
  ReceiptMessages, ReceiptLoads, ReceiptDrops, ReceiptSwitches,             \* ClientReceipts
  d1, n1, n2, n3

VARIABLES
  part,
  \* ClientOutbox
  ui, outboxConnected, call, flush, submitting, preparing, outboxDecrypting, load, outboxStored,
  echo, created, promised, faults,
  \* ClientInbox
  inboxSent, recalled, deleted, inboxEvents, inboxConnected, cache, inboxDecrypting, active,
  paging, inboxRequest, inboxOpening, older, deleting, gone, fresh, removals, inboxLoads,
  inboxDrops,
  \* ClientStream
  authenticated, status, source, manual, timer, es, tickets, probes, entering, refreshing,
  refreshFailed, phantom, streamUsed,
  \* ClientTrust
  trust, serverKey, wire, rows, trustOpening, dialog, confirmed, message, batches, paged,
  encrypted, trustConnected, trustUsed,
  \* AccountKeys
  legacy, account, session, keysVault, identity, login, post, passwords, keys, refused, touched,
  keysUsed,
  \* ClientRename
  name, announcing, renameEvents, renameConnected, page, renameStored, renameVault, waiting,
  renameRequest, history, renameLoads, renames, reloads, asked, missed, crossed, stale,
  \* ClientReceipts
  receiptsSent, read, reader, inbox, receiptsDecrypting, receiptsOpening, listing, marking,
  receiptsConnected, sender, news, answers, reload, receiptsLoads, receiptsDrops, switches,
  early, blurred

outboxVars == <<ui, outboxConnected, call, flush, submitting, preparing, outboxDecrypting, load,
            outboxStored, echo, created, promised, faults>>
inboxVars == <<inboxSent, recalled, deleted, inboxEvents, inboxConnected, cache, inboxDecrypting,
           active, paging, inboxRequest, inboxOpening, older, deleting, gone, fresh, removals,
           inboxLoads, inboxDrops>>
streamVars == <<authenticated, status, source, manual, timer, es, tickets, probes, entering,
            refreshing, refreshFailed, phantom, streamUsed>>
trustVars == <<trust, serverKey, wire, rows, trustOpening, dialog, confirmed, message, batches,
           paged, encrypted, trustConnected, trustUsed>>
keysVars == <<legacy, account, session, keysVault, identity, login, post, passwords, keys, refused,
          touched, keysUsed>>
namingVars == <<name, announcing, renameEvents, renameConnected, page, renameStored, renameVault,
            waiting, renameRequest, history, renameLoads, renames, reloads, asked, missed,
            crossed, stale>>
receiptsVars == <<receiptsSent, read, reader, inbox, receiptsDecrypting, receiptsOpening,
                  listing, marking, receiptsConnected, sender, news, answers, reload,
                  receiptsLoads, receiptsDrops, switches, early, blurred>>

-----------------------------------------------------------------------------
(* The parts.  Browser.cfg has two messages, one of them an attachment;    *)
(* four messages in pages of two; sources for two logins and a reconnect;  *)
(* keys of a contact; two devices; three accounts and one more name; two   *)
(* messages to be read.                                                    *)

Outbox == INSTANCE ClientOutbox WITH
  MaxMsg <- OutboxMessages, MaxLosses <- OutboxLosses, MaxDrops <- OutboxDrops,
  MaxRetries <- OutboxRetries, MaxLoads <- OutboxLoads,
  connected <- outboxConnected, decrypting <- outboxDecrypting, stored <- outboxStored

Inbox == INSTANCE ClientInbox WITH
  MaxMsg <- InboxMessages, MaxHistory <- InboxHistory, MaxRemovals <- InboxRemovals,
  MaxLoads <- InboxLoads, MaxDrops <- InboxDrops,
  sent <- inboxSent, events <- inboxEvents, connected <- inboxConnected,
  decrypting <- inboxDecrypting, request <- inboxRequest, opening <- inboxOpening,
  loads <- inboxLoads, drops <- inboxDrops

Stream == INSTANCE ClientStream WITH
  MaxSources <- StreamSources, MaxFaults <- StreamFaults, MaxEvents <- StreamEvents,
  MaxLogins <- StreamLogins, used <- streamUsed

Trust == INSTANCE ClientTrust WITH
  MaxKeys <- TrustKeys, MaxAnswers <- TrustAnswers, MaxTrusts <- TrustDialogs,
  MaxSends <- TrustSends,
  opening <- trustOpening, connected <- trustConnected, used <- trustUsed

Keys == INSTANCE AccountKeys WITH
  MaxPasswords <- KeysPasswords, MaxKeys <- KeysOfAccount, MaxLogins <- KeysLogins,
  MaxReloads <- KeysReloads,
  vault <- keysVault, used <- keysUsed

Naming == INSTANCE ClientRename WITH
  MaxRenames <- Renames, MaxReloads <- NameReloads, MaxSent <- NameSends,
  MaxLoads <- NameLoads, loads <- renameLoads,
  events <- renameEvents, connected <- renameConnected, stored <- renameStored,
  vault <- renameVault, request <- renameRequest

Receipts == INSTANCE ClientReceipts WITH
  MaxMsg <- ReceiptMessages, MaxLoads <- ReceiptLoads, MaxDrops <- ReceiptDrops,
  MaxSwitches <- ReceiptSwitches,
  sent <- receiptsSent, decrypting <- receiptsDecrypting, opening <- receiptsOpening,
  connected <- receiptsConnected, loads <- receiptsLoads, drops <- receiptsDrops

ASSUME BrowserAssumption ==
  /\ Outbox!OutboxAssumption /\ Inbox!InboxAssumption /\ Stream!StreamAssumption
  /\ Trust!TrustAssumption /\ Keys!KeysAssumption /\ Naming!RenameAssumption
  /\ Receipts!ReceiptsAssumption

-----------------------------------------------------------------------------
\* A part at rest is in one of its initial states; names are interchangeable.
Init ==
  /\ part \in {"outbox", "inbox", "stream", "trust", "keys", "naming", "receipts"}
  /\ Outbox!Init /\ Inbox!Init /\ Stream!Init /\ Trust!Init /\ Keys!Init /\ Naming!Init
  /\ Receipts!Init
  /\ part = "outbox" \/ outboxConnected
  /\ part = "keys" \/ (~legacy /\ keysVault[d1] = 1)
  /\ name = [me |-> n1, peer |-> n2, other |-> n3]

OutboxStep ==
  /\ part = "outbox" /\ Outbox!Next
  /\ UNCHANGED <<part, inboxVars, streamVars, trustVars, keysVars, namingVars, receiptsVars>>
InboxStep ==
  /\ part = "inbox" /\ Inbox!Next
  /\ UNCHANGED <<part, outboxVars, streamVars, trustVars, keysVars, namingVars, receiptsVars>>
StreamStep ==
  /\ part = "stream" /\ Stream!Next
  /\ UNCHANGED <<part, outboxVars, inboxVars, trustVars, keysVars, namingVars, receiptsVars>>
TrustStep ==
  /\ part = "trust" /\ Trust!Next
  /\ UNCHANGED <<part, outboxVars, inboxVars, streamVars, keysVars, namingVars, receiptsVars>>
KeysStep ==
  /\ part = "keys" /\ Keys!Next
  /\ UNCHANGED <<part, outboxVars, inboxVars, streamVars, trustVars, namingVars, receiptsVars>>
NamingStep ==
  /\ part = "naming" /\ Naming!Next
  /\ UNCHANGED <<part, outboxVars, inboxVars, streamVars, trustVars, keysVars, receiptsVars>>
ReceiptsStep ==
  /\ part = "receipts" /\ Receipts!Next
  /\ UNCHANGED <<part, outboxVars, inboxVars, streamVars, trustVars, keysVars, namingVars>>

Next == OutboxStep \/ InboxStep \/ StreamStep \/ TrustStep \/ KeysStep \/ NamingStep \/
        ReceiptsStep

vars == <<part, outboxVars, inboxVars, streamVars, trustVars, keysVars, namingVars, receiptsVars>>

Spec == Init /\ [][Next]_vars

\* Constraint of the run: what is said of renames is said of a page that has been
\* told of every one, so nothing is looked at after an event was lost.
RenamesAreHeard == ~missed

\* The same: a page is loaded anew, which ends every load, or its lists are once more
\* asked for between renames, not both.
ReloadOrMoreLists == reloads = 0 \/ asked = 0

-----------------------------------------------------------------------------
(* Properties, one for each promise of the client to its user.             *)

\* Every part keeps the types of its variables.
TypeOK ==
  /\ part = "outbox" => Outbox!TypeOK
  /\ part = "inbox" => Inbox!TypeOK
  /\ part = "stream" => Stream!TypeOK
  /\ part = "trust" => Trust!TypeOK
  /\ part = "keys" => Keys!TypeOK
  /\ part = "naming" => Naming!TypeOK
  /\ part = "receipts" => Receipts!TypeOK

\* sendMessageWithRetry, flushPendingOutbox: what the user writes is shown once,
\* is not lost before the server has it, and is never stuck as "sending",
\* whatever fails, drops, is retried or reloaded meanwhile.
NothingWrittenIsLost ==
  part = "outbox" => Outbox!ShownOnce /\ Outbox!NothingLost /\ Outbox!SendingIsInFlight

\* ingestEncryptedMessage, openConversation, loadOlderMessages: a conversation
\* holds each message once, scrolling reaches all that were there when it was
\* loaded, the pager is never left blocked, and an opening shows what the server
\* has, in whatever order events, pages and removals come.
ConversationComplete ==
  part = "inbox" =>
    Inbox!EachOnce /\ Inbox!PagerReleased /\ Inbox!PagingComplete /\ Inbox!ReopenExact

\* openEventStream, startEventStream: the state on the page is that of the stream,
\* through overlapping openings, and a logout leaves no stream or timer behind.
StatusIsHonest == part = "stream" => Stream!StatusIsTrue /\ Stream!LogoutStays

\* cachePeerInfo, trustObservedPeerKey, encryptOutboundMessage: only the user pins a key,
\* a typed message that is sent at once is for a confirmed key that is not in doubt, an
\* attachment for a confirmed key if it was chosen for a contact whose key was known,
\* and whatever goes to a contact with a pin is for the pin.
OnlyConfirmedKeys == part = "trust" => Trust!OnlyConfirmedKeys

\* submitAuth, handleMePassword, createIdentity: the key bundle opens with the
\* password, every device that types the password gets in, and a device that is
\* logged in has its identity in its vault, while several devices log in, change
\* the password and rebuild the identity.
DevicesGetIn == part = "keys" => Keys!DevicesGetIn

\* handleUserRenamed: once the page has been told of every rename, its trust, its
\* storage, its vault and its open conversation go by the names of the server; and so
\* do its lists, unless a load of them that was not the newest has ended last.
RenameIsFollowed ==
  part = "naming" => Naming!NamesFollow /\ Naming!ListFollows /\ Naming!DeviceFollows

\* applyReceiptUpdate, loadConversations: a message is shown as read only if it is,
\* what is read is shown as read in the end, and without a badge nothing unread
\* is missing.
ReadMarksAreTrue ==
  part = "receipts" => Receipts!MarksTrue /\ Receipts!SenderLearns /\ Receipts!BadgeShown
=============================================================================
