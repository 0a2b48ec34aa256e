---------------------------- MODULE ClientRename ----------------------------
(***************************************************************************)
(* A rename as a browser sees it (public/app.js): the server gives an      *)
(* account another name (routes/admin-routes.js) and announces it on the   *)
(* event streams; the page of one account then moves what it keeps under   *)
(* names: its own records in the local storage and in the device vault,    *)
(* the pin on the key of a contact, the open conversation and a waiting    *)
(* message.  handleUserRenamed waits for the vault in its middle and for   *)
(* the lists at its end, and the page goes on meanwhile; loads of the      *)
(* lists overtake each other.  The names of a message are bound into its   *)
(* encryption.                                                             *)
(*                                                                         *)
(* One account ("me"), one contact ("peer"), and a third account that may  *)
(* come to a name another one has given up.                                *)
(***************************************************************************)
EXTENDS Naturals, Sequences, FiniteSets, TLC

CONSTANTS
  Name,
  MaxRenames, MaxReloads, MaxSent, \* bounds
  MaxLoads   \* bound: loads of the lists but those of a rename

None == "none"
\* The newest load of the lists has been shown, or has failed.
Shown == "shown"
Failed == "failed"

\* Assumed of the constants.
RenameAssumption ==
  /\ {MaxRenames, MaxReloads, MaxSent, MaxLoads} \subseteq Nat
  /\ {None, Shown, Failed} \cap Name = {}

\* Names are interchangeable.
NamesAreAlike == Permutations(Name)

Account == {"me", "peer", "other"}

VARIABLES
  name,       \* the name of each account at the server
  announcing, \* renames whose event waits for the access log
  events,     \* events on the stream of the page, not handled yet
  connected,  \* the event stream is open
  page,       \* the names in the memory of the page: its own (me), those with
              \* a pin on the contact's key (pins), the contact in the lists
              \* (listed), of the open conversation (open) and of the waiting
              \* message (queued), and the one a dialog asks about (dialog)
  stored,     \* the pins in the local storage, by owner
  vault,      \* the names with a record in the device vault
  waiting,    \* own renames whose handler waits for the vault
  request,    \* the names a message on its way is encrypted for, or None
  history,    \* the same of the messages at the server
  loads,      \* loads of the lists under way: the name the server gave the contact
              \* in its answer, None before that, of the newest (latest), and of
              \* those asked for before it (before)
  renames, reloads, asked,
  missed,     \* ghost: an event found no stream, or was lost with it
  crossed,    \* ghost: an event came while a handler was waiting, or a dialog was
              \* answered then or about a name the open contact had no more, or a
              \* conversation was opened before every rename was handled, or from
              \* lists of before
  stale       \* ghost: the lists are those of a load that was not the newest

\* Every rename has been announced and handled.
Settled == announcing = <<>> /\ events = <<>> /\ waiting = <<>>

vars == <<name, announcing, events, connected, page, stored, vault, waiting, request, history,
          loads, renames, reloads, asked, missed, crossed, stale>>

server == <<name, announcing, renames>>
storage == <<stored, vault>>
messages == <<request, history>>
lists == <<loads, asked, stale>>

\* Names that move.
Moved(set, prev, next) == IF prev \in set THEN (set \ {prev}) \cup {next} ELSE set
Follow(n, prev, next) == IF n = prev THEN next ELSE n

-----------------------------------------------------------------------------
(* The server.                                                             *)

\* handleAdminUserPatch: users, messages and sessions have the new name at once;
\* the event comes after the access log.
Rename(w, n) ==
  /\ renames < MaxRenames /\ renames' = renames + 1
  /\ \A x \in Account : name[x] # n
  /\ name' = [name EXCEPT ![w] = n]
  /\ announcing' = Append(announcing, [prev |-> name[w], next |-> n])
  /\ UNCHANGED <<events, connected, page, storage, waiting, messages, lists, reloads, missed,
                 crossed>>

\* broadcastUserRename
Announce ==
  /\ announcing # <<>> /\ announcing' = Tail(announcing)
  /\ IF connected THEN events' = Append(events, Head(announcing)) /\ UNCHANGED missed
     ELSE missed' = TRUE /\ UNCHANGED events
  /\ UNCHANGED <<name, connected, page, storage, waiting, messages, lists, renames, reloads,
                 crossed>>

\* The stream breaks off, and is opened again, but no event is repeated.
Disconnect ==
  /\ connected /\ connected' = FALSE
  /\ events' = <<>> /\ missed' = (missed \/ events # <<>>)
  /\ UNCHANGED <<server, page, storage, waiting, messages, lists, reloads, crossed>>

Connect ==
  /\ ~connected /\ connected' = TRUE
  /\ UNCHANGED <<server, events, page, storage, waiting, messages, lists, reloads, missed, crossed>>

-----------------------------------------------------------------------------
(* loadConversations: nobody looks whether another load was asked for      *)
(* meanwhile.                                                              *)

Asked == [latest |-> None,
          before |-> IF loads.latest \in {Shown, Failed} THEN loads.before
                     ELSE loads.before \cup {loads.latest}]

\* By a reconnect, and when a contact is added.
AskLists ==
  /\ asked < MaxLoads /\ asked' = asked + 1
  /\ loads' = Asked
  /\ UNCHANGED <<server, events, connected, page, storage, waiting, messages, reloads, missed,
                 crossed, stale>>

\* The answer has the name of now.  Of several older loads one or all end.
AnswerLists ==
  /\ \/ loads.latest = None /\ loads' = [loads EXCEPT !.latest = name["peer"]]
     \/ /\ None \in loads.before
        /\ \E rest \in {loads.before, loads.before \ {None}} :
             loads' = [loads EXCEPT !.before = rest \cup {name["peer"]}]
  /\ UNCHANGED <<server, events, connected, page, storage, waiting, messages, reloads, asked,
                 missed, crossed, stale>>

\* The previews are decrypted, and the lists replaced.
ShowLists ==
  /\ \/ /\ loads.latest \in Name /\ loads' = [loads EXCEPT !.latest = Shown]
        /\ page' = [page EXCEPT !.listed = loads.latest] /\ stale' = FALSE
     \/ \E n \in loads.before \cap Name : \E rest \in {loads.before, loads.before \ {n}} :
          /\ loads' = [loads EXCEPT !.before = rest]
          /\ page' = [page EXCEPT !.listed = n] /\ stale' = TRUE
  /\ UNCHANGED <<server, events, connected, storage, waiting, messages, reloads, asked, missed,
                 crossed>>

LoseLists ==
  /\ \/ loads.latest \notin {Shown, Failed} /\ loads' = [loads EXCEPT !.latest = Failed]
     \/ \E n \in loads.before : loads' = [loads EXCEPT !.before = @ \ {n}]
  /\ UNCHANGED <<server, events, connected, page, storage, waiting, messages, reloads, asked,
                 missed, crossed, stale>>

-----------------------------------------------------------------------------
(* handleUserRenamed.                                                      *)

\* Mutant of OwnerRenamed: the pins are not among the records that move.
OwnerRenamedBarePins(s, prev, next) == s

\* renameScopedStorageOwner: a record goes over to the new owner.
OwnerRenamed(s, prev, next) ==
  IF s[prev] = {} THEN s ELSE [s EXCEPT ![next] = s[prev], ![prev] = {}]

\* The part after the vault: pins, the open conversation and the waiting message
\* follow, and the lists are emptied, ...
Renamed(p, prev, next) ==
  [p EXCEPT !.pins = Moved(@, prev, next), !.queued = Follow(@, prev, next),
            !.open = Follow(@, prev, next), !.listed = None]

\* ... and asked for.
ListsAnew == loads' = Asked /\ stale' = FALSE /\ UNCHANGED asked

\* Pins that moved are saved, under the name the page has for itself.
Saved(p, s, prev) == IF prev \in page.pins THEN [s EXCEPT ![p.me] = p.pins] ELSE s

\* A rename of its own: the storage at once, then the vault.
HandleOwn ==
  /\ events # <<>> /\ Head(events).prev = page.me
  /\ stored' = OwnerRenamed(stored, Head(events).prev, Head(events).next)
  /\ waiting' = Append(waiting, Head(events)) /\ events' = Tail(events)
  /\ crossed' = (crossed \/ waiting # <<>>)
  /\ UNCHANGED <<server, connected, page, vault, messages, lists, reloads, missed>>

HandleOther ==
  /\ events # <<>> /\ Head(events).prev # page.me
  /\ LET e == Head(events)
     IN  page' = Renamed(page, e.prev, e.next) /\ stored' = Saved(page', stored, e.prev)
  /\ ListsAnew
  /\ events' = Tail(events)
  /\ crossed' = (crossed \/ waiting # <<>>)
  /\ UNCHANGED <<server, connected, vault, waiting, messages, reloads, missed>>

\* renameDeviceVaultRecord is done: the page takes its new name, and goes on.
Resume ==
  /\ waiting # <<>> /\ waiting' = Tail(waiting)
  /\ LET e == Head(waiting)
     IN  /\ vault' = Moved(vault, e.prev, e.next)
         /\ page' = Renamed([page EXCEPT !.me = e.next], e.prev, e.next)
         /\ stored' = Saved(page', stored, e.prev)
  /\ ListsAnew
  /\ UNCHANGED <<server, events, connected, messages, reloads, missed, crossed>>

-----------------------------------------------------------------------------
(* The user.                                                               *)

\* openConversation, of the contact in the lists.
Open ==
  /\ page.listed # None
  /\ page' = [page EXCEPT !.open = page.listed]
  /\ crossed' = (crossed \/ ~Settled \/ stale)
  /\ UNCHANGED <<server, events, connected, storage, waiting, messages, lists, reloads, missed>>

\* trustObservedPeerKey: the dialog is about the contact under the name of then.
Ask ==
  /\ page.dialog = None /\ page.open # None /\ page.open \notin page.pins
  /\ page' = [page EXCEPT !.dialog = page.open]
  /\ UNCHANGED <<server, events, connected, storage, waiting, messages, lists, reloads, missed,
                 crossed>>

Confirm ==
  /\ page.dialog # None
  /\ page' = [page EXCEPT !.dialog = None, !.pins = @ \cup {page.dialog}]
  /\ stored' = [stored EXCEPT ![page.me] = page'.pins]
  /\ crossed' = (crossed \/ waiting # <<>> \/ page.dialog # page.open)
  /\ UNCHANGED <<server, events, connected, vault, waiting, messages, lists, reloads, missed>>

\* A message is written; it waits, or has failed and is sent again later.
Write ==
  /\ page.queued = None /\ page.open \in page.pins
  /\ page' = [page EXCEPT !.queued = page.open]
  /\ UNCHANGED <<server, events, connected, storage, waiting, messages, lists, reloads, missed,
                 crossed>>

\* encryptOutboundMessage: both names go into the salt of the key and into the
\* additional data.  Sending it again does not look at the pins.
Post ==
  /\ page.queued # None /\ request = <<>> /\ Cardinality(history) < MaxSent
  /\ request' = <<page.me, page.queued>>
  /\ UNCHANGED <<server, events, connected, page, storage, waiting, history, lists, reloads, missed,
                 crossed>>

\* handleSendMessage: refused when nobody has the name; the sender is the
\* session's account, the row has the names of now.  The history is the contact's.
Arrive ==
  /\ request # <<>> /\ request' = <<>>
  /\ page' = IF request[2] \in {name["peer"], name["other"]} THEN [page EXCEPT !.queued = None]
             ELSE page
  /\ history' = IF request[2] = name["peer"] THEN history \cup {request} ELSE history
  /\ UNCHANGED <<server, events, connected, storage, waiting, lists, reloads, missed, crossed>>

\* boot: the server says who the page is; a vault without a record of that name
\* gets one with the login that follows.  Waiting messages are gone.  The lists are
\* asked for, and the stream opened after them.
Reload ==
  /\ reloads < MaxReloads /\ reloads' = reloads + 1
  /\ page' = [me |-> name["me"], pins |-> stored[name["me"]], listed |-> None, open |-> None,
              queued |-> None, dialog |-> None]
  /\ loads' = [latest |-> None, before |-> {}] /\ stale' = FALSE
  /\ vault' = vault \cup {name["me"]}
  /\ missed' = (missed \/ events # <<>> \/ waiting # <<>> \/ announcing # <<>>)
  /\ events' = <<>> /\ waiting' = <<>> /\ request' = <<>> /\ connected' = FALSE
  /\ UNCHANGED <<server, stored, history, asked, crossed>>

Init ==
  /\ name \in [Account -> Name] /\ \A x, y \in Account : name[x] = name[y] => x = y
  /\ announcing = <<>> /\ events = <<>> /\ connected = TRUE
  /\ page = [me |-> name["me"], pins |-> {}, listed |-> name["peer"], open |-> None,
             queued |-> None, dialog |-> None]
  /\ stored = [n \in Name |-> {}] /\ vault = {name["me"]} /\ waiting = <<>>
  /\ request = <<>> /\ history = {} /\ loads = [latest |-> Shown, before |-> {}]
  /\ renames = 0 /\ reloads = 0 /\ asked = 0
  /\ missed = FALSE /\ crossed = FALSE /\ stale = FALSE

Next ==
  \/ \E w \in Account, n \in Name : Rename(w, n)
  \/ Announce \/ Disconnect \/ Connect
  \/ AskLists \/ AnswerLists \/ ShowLists \/ LoseLists
  \/ HandleOwn \/ HandleOther \/ Resume
  \/ Open \/ Ask \/ Confirm \/ Write \/ Post \/ Arrive \/ Reload

Spec == Init /\ [][Next]_vars

-----------------------------------------------------------------------------
(* Properties.                                                             *)

TwoNames == {<<>>} \cup Name \X Name
Move == [prev : Name, next : Name]

\* The state has its shape; an entry is never filed under no name.
TypeOK ==
  /\ name \in [Account -> Name] /\ connected \in BOOLEAN
  /\ announcing \in Seq(Move) /\ events \in Seq(Move) /\ waiting \in Seq(Move)
  /\ page \in [me : Name, pins : SUBSET Name, listed : Name \cup {None}, open : Name \cup {None},
               queued : Name \cup {None}, dialog : Name \cup {None}]
  /\ stored \in [Name -> SUBSET Name] /\ vault \in SUBSET Name
  /\ request \in TwoNames /\ history \in SUBSET (Name \X Name)
  /\ loads \in [latest : Name \cup {None, Shown, Failed}, before : SUBSET (Name \cup {None})]
  /\ renames \in 0..MaxRenames /\ reloads \in 0..MaxReloads /\ asked \in 0..MaxLoads

\* handleUserRenamed: afterwards the page goes by the names of the server: its
\* own, the contact's of the open conversation and of the waiting message; and trust is
\* in nobody but the contact, not even in the account that has the old name now.
NamesFollow ==
  Settled /\ ~missed /\ ~crossed =>
    /\ page.me = name["me"] /\ page.open \in {None, name["peer"]}
    /\ page.queued \in {None, name["peer"]} /\ page.pins \subseteq {name["peer"]}

\* handleUserRenamed, loadConversations: the lists have the contact under its name, or
\* are empty while they are loaded or when that has failed, unless a load that was not
\* the newest has ended last.
ListFollows ==
  Settled /\ ~missed /\ ~stale =>
    \/ page.listed = name["peer"]
    \/ page.listed = None /\ loads.latest # Shown

\* handleUserRenamed, renameScopedStorageOwner, renameDeviceVaultRecord: and the
\* device holds the same under the same names, and nothing under others: a page
\* loaded now finds its identity and its trust.
DeviceFollows ==
  Settled /\ ~missed /\ ~crossed =>
    /\ stored = [n \in Name |-> IF n = name["me"] THEN page.pins ELSE {}]
    /\ vault = {name["me"]}

\* tests/e2e.test.js:564 says that the pins are among what moves with the owner
\* of the storage: so they are, for every rename the page has been told of.
PinsMove == Settled /\ ~missed => stored[name["me"]] = page.pins

\* loadConversations: the lists have the contact under its name when nothing is
\* loaded any more, as they would if it looked for the newest load as openConversation
\* does (app.js:4871).
ListIsCurrent ==
  Settled /\ ~missed /\ loads = [latest |-> Shown, before |-> {}] => page.listed = name["peer"]

\* README.md:10, a history of conversations on encrypted content: a stored message
\* opens under the names the server gives it.
HistoryOpens == \A m \in history : m = <<name["me"], name["peer"]>>

-----------------------------------------------------------------------------
(* What makes the above inductive.                                         *)

\* The renames the page has not handled to the end.
Pending == waiting \o events \o announcing

\* w: the names of the accounts before each of some moves, and after them.
Past(w, moves, names) ==
  /\ Len(w) = Len(moves) + 1 /\ w[Len(w)] = names
  /\ \A k \in 1..Len(w) : \A x, y \in Account : w[k][x] = w[k][y] => x = y
  /\ \A k \in 1..Len(moves) : \E a \in Account :
       /\ moves[k] = [prev |-> w[k][a], next |-> w[k + 1][a]]
       /\ w[k + 1] = [w[k] EXCEPT ![a] = w[k + 1][a]] /\ w[k][a] # w[k + 1][a]

\* Page and device go by the names before the first of them; the storage is
\* ahead while the handler of an own rename waits for the vault.
GoesBy(w) ==
  /\ page.me = w[1]["me"] /\ page.pins \subseteq {w[1]["peer"]}
  /\ {page.open, page.queued} \subseteq {None, w[1]["peer"]}
  /\ vault = {w[1]["me"]}
  /\ IF waiting = <<>> THEN stored = [n \in Name |-> IF n = w[1]["me"] THEN page.pins ELSE {}]
     ELSE /\ Len(waiting) = 1 /\ waiting[1].prev = page.me
          /\ stored = [n \in Name |-> IF n = w[2]["me"] THEN page.pins ELSE {}]

\* Nobody has two names, and a page that has been told of every rename knows all
\* names but those of the renames it has yet to handle.
Shape ==
  /\ \A x, y \in Account : name[x] = name[y] => x = y
  /\ ~missed /\ ~crossed => \E w \in Seq([Account -> Name]) : Past(w, Pending, name) /\ GoesBy(w)
  /\ Settled /\ ~missed => loads.latest \in {Shown, Failed, None, name["peer"]}
  /\ ListFollows

IInv == TypeOK /\ Shape
=============================================================================
