----------------------------- MODULE ClientInbox -----------------------------
(***************************************************************************)
(* The message cache of one conversation in the web client                 *)
(* (public/app.js): what the event stream brings while messages are being  *)
(* decrypted, openConversation and loadOlderMessages with the pages of     *)
(* services/message-store.js, and deletions and recalls that arrive while  *)
(* requests are under way.                                                 *)
(*                                                                         *)
(* Messages are numbered in the order of the conversation.  Of a message   *)
(* the server and the cache keep whether it is recalled; whether it is     *)
(* deleted for this account is its presence.  The client's own unsent      *)
(* messages are in ClientOutbox.                                           *)
(***************************************************************************)
EXTENDS Naturals, Sequences, FiniteSets, FiniteSetsExt

CONSTANTS
  MaxMsg,      \* messages of the conversation
  MaxHistory,  \* those of them that are there before the client starts
  PageSize,    \* the limit of a page (50 in the code)
  MaxRemovals, \* recalls and deletions
  MaxLoads,    \* openings, and loads of older messages
  MaxDrops     \* losses of the event stream

Msg == 1..MaxMsg

\* Assumed of the constants.
InboxAssumption ==
  /\ {MaxMsg, MaxHistory, MaxRemovals, MaxLoads, MaxDrops} \subseteq Nat
  /\ MaxHistory <= MaxMsg /\ PageSize \in Nat \ {0}

Row == [id : Msg, recalled : BOOLEAN]
NoLoad == [step |-> "none", request |-> 0, rows |-> {}, hasMore |-> FALSE, nextBefore |-> 0,
           previous |-> {}, shared |-> {}, upTo |-> 0]

VARIABLES
  sent,        \* number of messages the server has
  recalled,    \* those that are recalled
  deleted,     \* those that are deleted for this account
  events,      \* what the event stream has on its way, in order
  connected,   \* the event stream is open
  cache,       \* messageCache of the conversation
  decrypting,  \* message events between their arrival and their upsert
  active,      \* the conversation is activePeer
  paging,      \* messagePageState of the conversation; its upTo, which is not in the
               \* code, is the newest message there was when the list was loaded
  request,     \* openConversationRequest
  opening,     \* the call of openConversation
  older,       \* the call of loadOlderMessages
  deleting,    \* a deletion of this client between its dialog and its answer, or 0
  gone,        \* messages whose deletion this client has reported as done
  fresh,       \* the opening was asked when all was quiet, and all is quiet since
  removals, loads, drops

serverVars == <<sent, recalled, deleted>>
loadVars == <<paging, request, opening, older, active>>
boundVars == <<removals, loads, drops>>
vars == <<serverVars, events, connected, cache, decrypting, loadVars, deleting, gone, fresh,
          boundVars>>

-----------------------------------------------------------------------------
(* The server's side: rows, pages and events.                              *)

Visible == (1..sent) \ deleted
ServerRow(m) == [id |-> m, recalled |-> m \in recalled]

\* Mutant of Page: the search stops at the limit and cannot see that there is more.
PageToLimit(before) ==
  LET source == {m \in Visible : before = 0 \/ m < before}
      items == {m \in source : Cardinality({k \in source : k > m}) < PageSize}
  IN [rows |-> {ServerRow(m) : m \in items}, hasMore |-> FALSE, nextBefore |-> 0]

\* The newest rows the account may see in front of a cursor (0: none given).
\* The cursor is a row of the conversation, visible or not.
Page(before) ==
  LET source == {m \in Visible : before = 0 \/ m < before}
      items == {m \in source : Cardinality({k \in source : k > m}) < PageSize}
      hasMore == items # source
  IN [rows |-> {ServerRow(m) : m \in items}, hasMore |-> hasMore,
      nextBefore |-> IF hasMore THEN Min(items) ELSE 0]

Push(type, m) ==
  events' = IF connected THEN Append(events, [type |-> type, id |-> m])
            ELSE events

\* Somebody sends a message of the conversation.
Send ==
  /\ sent < MaxMsg
  /\ sent' = sent + 1
  /\ Push("message", sent + 1)
  /\ fresh' = FALSE
  /\ UNCHANGED <<recalled, deleted, connected, cache, decrypting, loadVars, deleting, gone, boundVars>>

\* A participant recalls a message on another device.
Recall(m) ==
  /\ removals < MaxRemovals /\ removals' = removals + 1
  /\ m \in (1..sent) \ recalled
  /\ recalled' = recalled \cup {m}
  /\ Push("message-recalled", m)
  /\ fresh' = FALSE
  /\ UNCHANGED <<sent, deleted, connected, cache, decrypting, loadVars, deleting, gone, loads, drops>>

\* The account deletes a message on another device.
DeleteElsewhere(m) ==
  /\ removals < MaxRemovals /\ removals' = removals + 1
  /\ m \in Visible
  /\ deleted' = deleted \cup {m}
  /\ Push("message-deleted", m)
  /\ fresh' = FALSE
  /\ UNCHANGED <<sent, recalled, connected, cache, decrypting, loadVars, deleting, gone, loads, drops>>

-----------------------------------------------------------------------------
(* The event stream.                                                       *)

Cached(m) == \E r \in cache : r.id = m
Without(rows, m) == {r \in rows : r.id # m}

\* upsertMessageInCache with mergeCachedMessage: recalled once, recalled for good.
Upserted(rows, row) ==
  Without(rows, row.id) \cup
    {[row EXCEPT !.recalled = @ \/ \E r \in rows : r.id = row.id /\ r.recalled]}

\* The start of ingestEncryptedMessage: a cached message is not taken again.
MessageArrives(m) ==
  /\ decrypting' = IF Cached(m) THEN decrypting ELSE decrypting \cup {m}
  /\ UNCHANGED <<cache, older>>

\* handleRemoteRecall changes the object, also in a list loadOlderMessages has
\* set aside; a message that is not cached is not remembered.
RecallArrives(m) ==
  /\ cache' = {[r EXCEPT !.recalled = @ \/ r.id = m] : r \in cache}
  /\ older' = [older EXCEPT !.previous =
                 {[r EXCEPT !.recalled = @ \/ (r.id = m /\ m \in older.shared /\ Cached(m))] : r \in @}]
  /\ UNCHANGED decrypting

\* handleRemoteDelete
DeletionArrives(m) ==
  /\ cache' = Without(cache, m)
  /\ UNCHANGED <<decrypting, older>>

Receive ==
  /\ events # <<>> /\ events' = Tail(events)
  /\ LET e == Head(events)
     IN CASE e.type = "message" -> MessageArrives(e.id)
          [] e.type = "message-recalled" -> RecallArrives(e.id)
          [] e.type = "message-deleted" -> DeletionArrives(e.id)
  /\ UNCHANGED <<serverVars, connected, active, paging, request, opening, deleting, gone, fresh,
                 boundVars>>

\* The end of ingestEncryptedMessage.
Decrypted(m) ==
  /\ m \in decrypting
  /\ decrypting' = decrypting \ {m}
  /\ cache' = Upserted(cache, [id |-> m, recalled |-> FALSE])
  /\ older' = [older EXCEPT !.shared = IF Cached(m) THEN @ \ {m} ELSE @]
  /\ UNCHANGED <<serverVars, events, connected, active, paging, request, opening, deleting, gone,
                 fresh, boundVars>>

Drop ==
  /\ connected /\ connected' = FALSE
  /\ drops < MaxDrops /\ drops' = drops + 1
  /\ events' = <<>>
  /\ fresh' = FALSE
  /\ UNCHANGED <<serverVars, cache, decrypting, loadVars, deleting, gone, removals, loads>>

Reconnect ==
  /\ ~connected /\ connected' = TRUE
  /\ UNCHANGED <<serverVars, events, cache, decrypting, loadVars, deleting, gone, fresh, boundVars>>

-----------------------------------------------------------------------------
(* openConversation and loadOlderMessages.                                 *)

Quiet == connected /\ events = <<>> /\ decrypting = {} /\ opening.step = "none"
           /\ older.step = "none" /\ deleting = 0

\* The user, or the reconnect timer, opens the conversation.
Open ==
  /\ loads < MaxLoads /\ loads' = loads + 1
  /\ opening.step = "none"
  /\ active' = TRUE
  /\ request' = request + 1
  /\ opening' = [NoLoad EXCEPT !.step = "asked", !.request = request + 1]
  /\ fresh' = Quiet
  /\ UNCHANGED <<serverVars, events, connected, cache, decrypting, paging, older, deleting, gone,
                 removals, drops>>

\* Another conversation is opened: its own cache and pages are not modelled.
OpenOther ==
  /\ loads < MaxLoads /\ loads' = loads + 1
  /\ active /\ active' = FALSE
  /\ request' = request + 1
  /\ fresh' = FALSE
  /\ UNCHANGED <<serverVars, events, connected, cache, decrypting, paging, opening, older, deleting,
                 gone, removals, drops>>

Answered(call, page) ==
  [call EXCEPT !.step = "answered", !.rows = page.rows, !.hasMore = page.hasMore,
               !.nextBefore = page.nextBefore]

PageState(call) ==
  [known |-> TRUE, hasMore |-> call.hasMore, nextBefore |-> call.nextBefore,
   loadingOlder |-> FALSE, upTo |-> call.upTo]

\* The server answers with what it has now ...
OpenAnswered ==
  /\ opening.step = "asked"
  /\ opening' = Answered([opening EXCEPT !.upTo = sent], Page(0))
  /\ UNCHANGED <<serverVars, events, connected, cache, decrypting, active, paging, request, older,
                 deleting, gone, fresh, boundVars>>

\* ... and when that arrives, the client drops it if it has asked for something
\* else meanwhile, and decrypts its rows otherwise.
OpenArrives ==
  /\ opening.step = "answered"
  /\ opening' = IF opening.request # request THEN NoLoad ELSE [opening EXCEPT !.step = "decrypting"]
  /\ UNCHANGED <<serverVars, events, connected, cache, decrypting, active, paging, request, older,
                 deleting, gone, fresh, boundVars>>

\* The decrypted page replaces the cache and the page state.
OpenShown ==
  /\ opening.step = "decrypting"
  /\ opening' = NoLoad
  /\ cache' = opening.rows
  /\ paging' = PageState(opening)
  /\ older' = [older EXCEPT !.shared = {}]
  /\ UNCHANGED <<serverVars, events, connected, decrypting, active, request, deleting, gone, fresh,
                 boundVars>>

OpenFails ==
  /\ opening.step \in {"asked", "answered"}
  /\ opening' = NoLoad
  /\ fresh' = FALSE
  /\ UNCHANGED <<serverVars, events, connected, cache, decrypting, active, paging, request, older,
                 deleting, gone, boundVars>>

LoadOlder ==
  /\ loads < MaxLoads /\ loads' = loads + 1
  /\ active /\ older.step = "none"
  /\ paging.hasMore /\ ~paging.loadingOlder
  /\ paging' = [paging EXCEPT !.loadingOlder = TRUE]
  /\ request' = request + 1
  /\ older' = [NoLoad EXCEPT !.step = "asked", !.request = request + 1, !.previous = cache,
                 !.nextBefore = paging.nextBefore, !.shared = {r.id : r \in cache},
                 !.upTo = paging.upTo]
  /\ fresh' = FALSE
  /\ UNCHANGED <<serverVars, events, connected, cache, decrypting, active, opening, deleting, gone,
                 removals, drops>>

\* loadingOlder is taken off the page state, if it is still the current one.
Released == [paging EXCEPT !.loadingOlder = FALSE]

OlderAnswered ==
  /\ older.step = "asked"
  /\ older' = Answered(older, Page(older.nextBefore))
  /\ UNCHANGED <<serverVars, events, connected, cache, decrypting, active, paging, request, opening,
                 deleting, gone, fresh, boundVars>>

OlderArrives ==
  /\ older.step = "answered"
  /\ IF older.request # request
     THEN older' = NoLoad /\ paging' = Released
     ELSE older' = [older EXCEPT !.step = "decrypting"] /\ UNCHANGED paging
  /\ UNCHANGED <<serverVars, events, connected, cache, decrypting, active, request, opening,
                 deleting, gone, fresh, boundVars>>

\* The older rows in front of the list that was set aside before the request.
OlderRows ==
  {r \in older.rows : \A p \in older.previous : p.id # r.id} \cup older.previous

OlderShown ==
  /\ older.step = "decrypting"
  /\ older' = NoLoad
  /\ cache' = OlderRows
  /\ paging' = PageState(older)
  /\ UNCHANGED <<serverVars, events, connected, decrypting, active, request, opening, deleting, gone,
                 fresh, boundVars>>

OlderFails ==
  /\ older.step \in {"asked", "answered"}
  /\ older' = NoLoad
  /\ paging' = Released
  /\ UNCHANGED <<serverVars, events, connected, cache, decrypting, active, request, opening, deleting,
                 gone, fresh, boundVars>>

-----------------------------------------------------------------------------
(* deleteMessageById: dialog, request, removal from the cache.             *)

ConfirmDelete(m) ==
  /\ deleting = 0 /\ active /\ Cached(m)
  /\ removals < MaxRemovals /\ removals' = removals + 1
  /\ deleting' = m
  /\ deleted' = deleted \cup {m}
  /\ Push("message-deleted", m)
  /\ fresh' = FALSE
  /\ UNCHANGED <<sent, recalled, connected, cache, decrypting, loadVars, gone, loads, drops>>

DeleteAnswered ==
  /\ deleting # 0 /\ deleting' = 0
  /\ cache' = Without(cache, deleting)
  /\ gone' = gone \cup {deleting}
  /\ UNCHANGED <<serverVars, events, connected, decrypting, loadVars, fresh, boundVars>>

-----------------------------------------------------------------------------

Init ==
  /\ sent = MaxHistory /\ recalled = {} /\ deleted = {}
  /\ events = <<>> /\ connected = TRUE
  /\ cache = {} /\ decrypting = {}
  /\ active = FALSE
  /\ paging = [known |-> FALSE, hasMore |-> FALSE, nextBefore |-> 0, loadingOlder |-> FALSE,
               upTo |-> 0]
  /\ request = 0 /\ opening = NoLoad /\ older = NoLoad
  /\ deleting = 0 /\ gone = {} /\ fresh = FALSE
  /\ removals = 0 /\ loads = 0 /\ drops = 0

Next ==
  \/ Send \/ Receive \/ Drop \/ Reconnect
  \/ Open \/ OpenOther \/ OpenAnswered \/ OpenArrives \/ OpenShown \/ OpenFails
  \/ LoadOlder \/ OlderAnswered \/ OlderArrives \/ OlderShown \/ OlderFails
  \/ DeleteAnswered
  \/ \E m \in Msg : Recall(m) \/ DeleteElsewhere(m) \/ Decrypted(m) \/ ConfirmDelete(m)

Spec == Init /\ [][Next]_vars

-----------------------------------------------------------------------------
(* Properties.                                                             *)

\* Every variable keeps its type, and a page state has a cursor if it has more.
TypeOK ==
  /\ sent \in 0..MaxMsg /\ recalled \cup deleted \cup decrypting \cup gone \subseteq 1..sent
  /\ cache \cup opening.rows \cup older.rows \cup older.previous \subseteq Row
  /\ {active, connected, fresh, paging.hasMore, paging.loadingOlder} \subseteq BOOLEAN
  /\ paging.nextBefore \in (IF paging.hasMore THEN Msg ELSE {0}) /\ deleting \in 0..MaxMsg
  /\ request \in 0..MaxLoads /\ {opening.request, older.request} \subseteq 0..request

\* No message is in the conversation twice, whichever of the stream, the newest
\* page and the older pages brought it, and in whatever order they finished.
EachOnce == \A r, s \in cache : r.id = s.id => r = s

\* The mark that an older page is being loaded, which refuses the next one, is
\* there only while such a request is under way.
PagerReleased == paging.loadingOlder => older.step # "none"

\* The visible messages up to n are among the rows or in front of the cursor.
Reaches(rows, hasMore, before, n) ==
  \A m \in Visible : m <= n => (\E r \in rows : r.id = m) \/ (hasMore /\ m < before)

\* Scrolling up reaches every message that was there when the conversation was
\* loaded: it is shown or in front of the cursor, also when the cursor row was
\* deleted, pages were asked in between or a list that was set aside comes back.
PagingComplete ==
  paging.known => Reaches(cache, paging.hasMore, paging.nextBefore, paging.upTo)

\* A conversation that is opened while nothing is under way shows what the
\* server has, and keeps showing it until something changes.
ReopenExact ==
  fresh /\ opening.step = "none" => cache = Page(0).rows

\* "After the deletion it is removed from the conversation view of the current
\* account": what deleteMessageById has reported as deleted is not shown, unless
\* the event that removes it once more is still on its way.
DeletedGone ==
  \A r \in cache : r.id \in gone =>
    \E k \in DOMAIN events : events[k].type = "message-deleted" /\ events[k].id = r.id

-----------------------------------------------------------------------------
(* What makes the above inductive.                                         *)

PageFits(p) == p.nextBefore \in (IF p.hasMore THEN Msg ELSE {0}) /\ p.upTo <= sent

CallTypes ==
  [step : {"none", "asked", "answered", "decrypting"}, request : Nat, rows : SUBSET Row,
   hasMore : BOOLEAN, nextBefore : Nat, previous : SUBSET Row, shared : SUBSET Msg, upTo : Nat]

\* No list holds a message twice, and none holds one that was not sent.
ListsAreSent ==
  \A rows \in {cache, opening.rows, older.rows, older.previous} :
    /\ \A r \in rows : r.id <= sent
    /\ \A r, s \in rows : r.id = s.id => r = s

StateTypes ==
  /\ paging \in [known : BOOLEAN, hasMore : BOOLEAN, nextBefore : Nat, loadingOlder : BOOLEAN,
                 upTo : Nat]
  /\ opening \in CallTypes /\ older \in CallTypes
  /\ events \in Seq({e \in [type : {"message", "message-recalled", "message-deleted"}, id : 1..sent] :
                      e.type = "message-deleted" => e.id \in deleted})
  /\ request = loads /\ deleting <= sent
  /\ deleting # 0 => deleting \in deleted

\* A page that is on its way has what it needs to become the list that is shown.
PagesReach ==
  /\ PageFits(paging) /\ (paging.hasMore => paging.known)
  /\ opening.step \in {"answered", "decrypting"} =>
       /\ PageFits(opening)
       /\ Reaches(opening.rows, opening.hasMore, opening.nextBefore, opening.upTo)
  /\ older.step # "none" => older.upTo <= sent
  /\ older.step = "asked" => Reaches(older.previous, TRUE, older.nextBefore, older.upTo)
  /\ older.step \in {"answered", "decrypting"} =>
       /\ PageFits(older)
       /\ Reaches(older.rows \cup older.previous, older.hasMore, older.nextBefore, older.upTo)

\* While an opening counts as fresh, nothing else is under way and what it brings
\* is what the server has.
FreshIsQuiet ==
  fresh =>
    /\ connected /\ events = <<>> /\ decrypting = {} /\ older.step = "none" /\ deleting = 0
    /\ opening.step # "none" => opening.request = request
    /\ opening.step \in {"answered", "decrypting"} => opening.rows = Page(0).rows

IInv ==
  /\ TypeOK /\ EachOnce /\ PagerReleased /\ PagingComplete /\ ReopenExact
  /\ ListsAreSent /\ StateTypes /\ PagesReach /\ FreshIsQuiet
=============================================================================
