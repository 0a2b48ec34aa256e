# A TLA+ verification of the chat server

This directory models the chat server of this repository (a single Node.js
process, its data files and its browser client) in TLA+, checks the models on
small instances with TLC, and proves the most important properties for every
size with TLAPS. Every definition is translated from the code; `PROJECT.json`
gives the lines of each.

## 1. The system

The server is one process. A handler runs without interruption between two
`await`s, so "concurrency" means: handlers interleave at their awaits (reading
the body, hashing a password, the access-log database), timers fire between
them, and the process can die between any two file operations.

| Component | State | Operations | Interacts with |
| --- | --- | --- | --- |
| Message store (`services/message-store.js`, `utils/data.js`) | rows, conversation, id, client and nonce indexes, sequence counter, dirty flags, queue of appends, timer; `messages.json`, `messages.jsonl` | load, append, index, schedule, flush, purge plaintext, views and paging | called by the message routes, the hub and the admin routes |
| Message handlers (`routes/message-routes.js`) | none | send, recall, delete, mark read, typing, list | store, hub, contacts |
| Real-time hub (`services/realtime-hub.js`) | one bucket of connections per username | attach, detach, rename, disconnect user/session/all, presence, delivery marking | session store, routes, message store |
| Event routes (`routes/event-routes.js`) | none | create ticket, open stream | session store, hub |
| Session store (`services/session-store.js`) | sessions, tickets, dirty flag and timer; `sessions.json` | issue, require, revoke, purge, clean | all routes |
| Account routes (`routes/account-routes.js`) | `users.json` | register, login, logout, password, settings, keys, revoke a session | session store, hub |
| Admin routes (`routes/admin-routes.js`) | administrator credentials, audit log | login, reset, patch (rename, ban), batch ban, reports | everything |
| Contacts (`routes/contact-routes.js`, `server.js` 624-822) | block lists and contacts of users | create, patch, delete, block | presence, search, messages |
| Access log (`services/access-log-store.js`, `middleware/access-log.js`) | queue, SQLite tables | enqueue, flush in batches, rename, prune, close | admin routes |
| Limits (`utils/rate-limit.js`, `server.js`) | request windows, login failures | count, lock, clean | all routes |
| Audit chain (`server.js` 289-376) | hash-chained `admin_audit.jsonl` | append, verify, load | admin and account routes |
| Administrator configuration (`services/admin-config.js`, `config.js`) | the configured file, the environment, the runtime copy | resolve at start, synchronise, rewrite at a reset | admin routes, audit chain |
| Web client (`public/app.js`) | outbox, bubbles, message cache and pages, event stream with timers, pins and observed keys, identity and device vault, names, badges and read marks | send with retry, flush, ingest, page, reconnect, trust, log in, rebuild, follow a rename, mark read | the HTTP API and the event stream |
| Administration page (`public/admin.js`) | lists, ticks, the dialog, pager, list of messages | load, tick, ask and ban, page, filter | the administration API |

What makes them hard, and what makes them correct:

* **Message store.** Appends and full rewrites take different paths to two
  files, under one debounce timer; a crash can come between any two file
  operations, and inside one. Correct means: keys of a sender are never
  accepted twice, indexes are those of a rebuild, a recall is final, what was
  durable stays durable, and everything pending becomes durable.
* **Sessions, tickets, streams.** Four places know a username (account,
  sessions, tickets, buckets) and every rename, ban, logout and password change
  must treat all of them. Correct means: nobody listens without a live session
  under the current name, a ban ends everything, limits hold, and a closed
  stream is gone.
* **Credentials and limits.** Verification happens across an await, against a
  hash, a lock or a configured file that may be replaced meanwhile. Correct
  means: the lock bounds the guesses and locks out nobody else, a restart finds
  the credentials in force, and the default password never comes back.
* **Names.** A rename changes memory first, waits for the database, and then
  writes files of three rhythms; block lists, history and sessions are kept by
  name. Correct means: they stay those of their account.
* **Contacts and presence.** What a stream was told depends on blocks, settings
  and connections at that moment. Correct means: nobody goes on seeing what the
  rules hide, and nobody waits for an announcement.
* **Session file.** Uses are written late. Correct means: a crash revives no
  session that ended and signs nobody out who is active.
* **Access log.** A batch in flight, a bounded queue, a transaction that may roll
  back, renames, a close. Correct means: accepted rows are written once, in
  order, or lost as a whole batch.
* **Audit chain.** Lines may be cut or harmed between two starts. Correct means:
  a check that passes vouches for what precedes it, and warns for a reason only.
* **Client.** Retries, reconnects and asynchronous decryption race echoes, pages,
  recalls, receipts, key changes and renames. Correct means: what the user
  wrote, sees and trusts is never silently something else.
* **Administration page.** Answers overtake each other and a dialog stays open
  while lists change. Correct means: what is done is what was confirmed.

`PROJECT.json` lists each hazard at its line with the properties that cover it.

## 2. Modules

| Module | What it is |
| --- | --- |
| `MessageStore` | the store, its handlers, its files, crashes and restarts |
| `MessageLedger` | what the store promises: a list that only gains entries and marks, and a durable list a crash falls back to |
| `MessageStoreProofs` | its safety properties, and that it implements `MessageLedger` |
| `EventStreams` | accounts, sessions, one-time tickets and event streams |
| `EventStreamsProofs` | its safety properties, the connection limit included |
| `UserNames`, `UserNamesProofs` | registration and rename over memory and the three files |
| `Relationships`, `RelationshipsProofs` | contact entries, blocks, and the presence each stream was told |
| `AccessLog` | the queue, its batches and transactions, renames, crashes, close |
| `SessionFile`, `SessionFileProofs` | sessions in memory and in `sessions.json`, over a clock |
| `LoginLockout` | the rate limit and the lockout of one name, over a clock |
| `AdminAccount` | the administrator's credentials in file, environment and memory |
| `AuditChain` | the hash-chained audit log and its check at a start |
| `ClientOutbox` | messages the user writes, until the server has them |
| `ClientInbox` | the cache of a conversation: events, pages, removals |
| `ClientStream` | the event stream: tickets, sources, reconnects, logout |
| `ClientTrust` | the keys of a contact: observed, pinned, used |
| `AccountKeys` | password, key bundle, vaults: one account on several devices |
| `ClientRename` | a rename as a page follows it |
| `ClientReceipts` | read marks and the badge of unread messages |
| `AdminConsole` | lists, ticks and dialogs of the administration page |
| `AdminPager` | the pages of its access log |
| `AdminMessages` | its list of messages |
| `MCMessageStore`, `MCEventStreams` | instances and bounds for TLC |
| `MCBrowser`, `MCServer`, `MCAdministration`, `MCProgress` | composites: instances of the other modules, checked in one run |
| `MCServerProofs` | the theorems of `UserNames`, `Relationships` and `SessionFile` and the proofs of `AccessLog`, of the composite |
| `MCBrowserProofs` | the proofs of the seven client modules, and the theorems of the composite |
| `MCAdministrationProofs` | the proofs of `LoginLockout`, `AdminAccount`, `AuditChain` and the administration page, and the theorems of the composite |

A composite instantiates its modules with the bounds of the run and variables
of its own (a variable two modules have in common gets a prefix). The bounds of
the parts are CONSTANTS of the composite, which its `.cfg` gives values, so that
its theorems hold for all of them; `MCProgress`, about which nothing is proved,
writes them into the instances. Each
behaviour exercises one part, named by `part`, while the others rest in one of
their initial states. The parts share no variable and no property relates two of
them, so the interleavings of two parts could show nothing that one part does
not show; what is saved is their product. The interaction of components that do
share state is inside a module: handlers with the hub in `EventStreams`, handlers,
hub and files in `MessageStore`, routes with the three stores in `UserNames`,
client with server in all client modules. The price is that a composite cannot
check for deadlock, since a part whose bounds are used up stops.

`MessageStore` and `EventStreams` name their constants' assumptions with ASSUME.
The other modules name theirs as definitions (`...Assumption`), and the
composites assert them of their own constants or values with one ASSUME
(`ServerAssumption`, `BrowserAssumption`, `AdministrationAssumption`,
`ProgressAssumption`).

A module that is proved about ends with a section "What makes the above
inductive": the strengthening and `IInv`, next to the properties they serve.

### MessageStore

State: `messages` and the two indexes that answer retries and replays are those
of `createMessageStore`; the id index and the conversation buckets are functions
of `messages` and are computed (`Ids`, `Between`). `pendingMessageAppends` holds
positions, since the code keeps references to rows that may change before they
are written. `flushing` is true between the two `renameSync` of a full persist,
the one moment inside a synchronous flush that a crash can expose to the next
start; the writes of the temporary files before are not visible to a start.
`logEnd` tells how `messages.jsonl` ends: an append that was cut before its
newline leaves a line the *next* append joins, so the file breaks one clean run
later.

Actions: one per handler (`SendMessage`, `RecallMessage`, `DeleteMessage`,
`MarkRead`, `Connect` with the delivery marking, `Disconnect`, `SetBlock`,
`PatchUser` for an administrator's patch without a rename), `FlushAppend`,
`FlushJson` and `FlushLog`, and the life of the process (`Start`, `Shutdown`,
`Exit`, `Crash`, `CrashInAppend`, `RepairLog`). A failing write is a crash: the
flush runs in a timer whose exception nobody catches, and its flags are cleared
before the write, so the flush of the exit handler does nothing.

Abstracted: payloads are booleans (is the ciphertext there), times are booleans
(is `deliveredAt` set), the recall window is a choice, contacts made by a send
and the audit line of a recall belong to other components. Refused requests are
stuttering steps. The clock is assumed not to step back, so that sorting by
`createdAt` at load time is the order of the sequence numbers. Renames of users
change rows as well: `UserNames` models them.

### MessageLedger

The store implements it (`ImplementsLedger`): while the server runs, the ledger
is `messages`; while it is down, what the next start will load. `durable` is
`Loadable`, what the next start would load if the process died now. The ledger
only accepts entries under new keys, entries keep their identity and never lose
a mark, a payload disappears with a recall and with nothing else, and a crash
loses a suffix of new entries, never a gap.

### EventStreams

`username` maps accounts to names, `sessions` maps ids to the name in the
session record, `eventTickets` and `connections` are records, and
`onlineConnections` is the hub's map (an empty set is a missing bucket). A
connection remembers two names: `username`, which a rename updates, and
`joined`, the name in the closure of the close handler. `stream` follows its
life: open, ended by the server, closed. An entry of `connections` exists as
long as something still refers to the connection.

Actions: `Register`, `Login`, `EndSession` (logout, revocation from another
session, expiry and browser mismatch: same effect), `RefuseBanned`, `LogoutAll`,
`BeginPassword` and `FinishPassword` (two, since the handler keeps the account
over two hashes), `Ban`, `Unban`, `Rename`, `CreateTicket`, `OpenStream`,
`DropTicket`, `CloseStream`. Expiry is a choice the code takes when it notices.
Names stand for username keys. Only sessions with the role `user` are modelled,
since `/api/events/ticket` reads the user cookie. Restarts are not in this
module: they empty tickets and streams and reload sessions.

### UserNames

Three files refer to accounts by name: `users.json` is written at once,
messages and sessions after a delay. `RegisterChecked` and `Registered` are the
two sides of the hash of a registration, `RenameStarted` and `RenameSaved` those of
the access log in a rename; `RenameFailed` is the refused patch or the failed write that
leaves memory renamed and nothing saved. Crashes and restarts load the files.
When a failure or a crash has left the files out of step (`split`), the code
cannot tell whose messages they are and `HistoryFollows` claims nothing; for all
other runs messages and sessions stay those of their account. An account that
is not registered has the name `NoName`.

### Relationships

`told` is what each open stream was last told of who is online. A block pushes
presence to the blocked user only; the streams of the blocking one are told with
the next change, and the ghost `doubt` marks exactly the pairs an unblock leaves
in that state. `Marked` is what `markPendingDeliveries` marks; the ghost `held` is
computed beside it, from the messages that wait when their recipient opens a stream
and the blocks of that moment (`Between`), so that a marking that leaves anything
else out shows (`WaitsForAReason`), and so does one that takes a withheld message
along (`WithheldStays`). `Restart` ends the streams and makes of every entry what
`normalizeUserContacts` makes of it: the load keeps `blockedUsers` and the muted
flag and drops `relationshipState` ("unset"), so the entries agree with the block list
in one direction only (`EntriesAgree`). What a user has asked for (`asked`) is what
`relationshipStateFor` says of the contact, through pins, notes, removals, new
contacts and restarts (`AskedIsKept`). Messages are only as many as it takes: `sent`
and `waiting` are pairs, and a restart leaves any of those sent unmarked. A write of
`users.json` that fails is modelled in `UserNames`, not here.

### AccessLog

One action per statement on the single database connection, in the order the
code issues them: a batch is a transaction (`BeginTransaction`, `InsertRow`,
`Commit`, then `ApplyMeta` per item of client data), and an UPDATE of a rename may
run between two of its statements. `flush` is the batch with the position in it
that comes next; `Unwritten` are its rows that are not in the table, `Unapplied`
its client data. Names are numbered, and `renaming` has the old names of the
UPDATEs that were issued and have not run, so that renames may overlap. Rows in
flight during a rename, and requests that end after it, keep the old name, and a
second rename does not look for a name before the first. The code promises
nothing about them; `RenameReaches` is stated for the rows the renames can see
(`due`). An earlier form of it asked for the rows in flight as well, which holds
for one rename only. Each row has a number, and the ghosts `lost`, `refused` and
`unlogged` have those that a failed batch or a crash took, that the full queue
refused since the start, and that were refused before a restart or after `close()`
had begun. All others (`Expected`) are in the table, in the batch or in the queue at
any time (`EveryRowArrives`), and in the table once the log is closed
(`CloseLosesNothing`). `RefusalsAreCounted` bounds `droppedRows`, which the
administrator's warning reads, by the rows refused and the client data. Not
modelled: the queries of the dashboard, the address look-up (it only delays a batch)
and the retention period.

### SessionFile

Times are whole units with the three periods of the code (`Ttl`, `Absolute`,
`Activity`) and the debounce; `Due` is the condition under which a use is
written. A file is replaced whole; a write from the timer that fails ends the
process, a write from a handler fails the request. Ghosts record what only a
failure can excuse: ends of sessions that were not saved (`unsaved`), issues and
uses that were not (`behind`), and last uses that a stop lost (`shorted`, until
the session is used or issued again).

### LoginLockout

One name (a map entry), several logins whose password is hashed at once. A
fixed window bounds bursts to twice its limit, which is what `BurstBounded` says.
The bounds hold for hashes of any length, also longer than the window in which
failures add up: `LockoutAssumption` only says that spans and limits are numbers
and that the workers are finitely many. `GuessesBounded` counts the guesses within
`Reach`, the shorter of lock and window, since the clean-up forgets failures
that are older than the window.

### AdminAccount

`Written` is what a reset writes into the file; `Configured` and `Started` follow
`resolveAdminConfig` and `syncRuntimeAdminConfigFromConfiguredSources` through
plain and hashed passwords in file and environment. `persistAdminConfigToEnvFile`
truncates the file and writes it in place, so what is left of it when the write fails
or the process dies is any beginning of it (`Cut`): without a password, with a name
cut short, or empty. After a failed write `handleAdminAccountReset` answers with an
error and the server runs on with the old account over that file (the third branch of
`ResetDone`); a crash starts the next process from it (`CrashResetting`). `apart`
marks a file that the operator edited or a write has cut, about which `RestartAgrees`
says nothing, and `torn` one that is not whole, from which the next start may come to
the default password: `NeverDefault` excludes that case only, and the next write that
succeeds ends it. So the code loses the administrator's credentials when one write
fails: `persistAdminConfigToEnvFile` writes no temporary file, unlike
`writeJsonFile`. The operator edits the password, not the name, and the
environment of a started process is the file's content at the start
(`EnvironmentFile`). The passphrase that a reset asks for is taken to be known also
after a cut, which may have taken it from the file.

### AuditChain

An entry's hash is injective in the line before it, the entry and the key. A line
that was cut within the entry keeps the server down until the operator removes
it. `harm` counts lines lost or changed between two starts, and writes that were
cut. A change of the administrator's password by hand loses a key that was derived
from it: what then fails to verify is excused. The rewrite of the environment file by
a reset holds `AUDIT_HMAC_KEY` as well: `ResetCut` is the write that fails or ends
with the process and leaves the file without the line, with an empty value (`Blank`,
which the next start takes for none) or with a beginning of the key (`Short`). It is
an excuse exactly when the key is lost with it: when it was in that file, when
another one took its place, or when it was derived from the password. A key of its
own file survives, and then `NoFalseAlarm` still allows no alarm. `HarmIsSeen`: a
start that finds the chain in order has before it a prefix of what the program wrote. `Repair` takes one line
at a time, any that cannot be parsed. `written` is a ghost: the lines that the
last start to verify has found, and all that the program wrote from then on.

### ClientOutbox

`ui` has the three lists the page keeps (`pendingMessages`, `pendingOutbox`,
`messageCache`); the actions are the stretches of `sendMessageWithRetry` and
`flushPendingOutbox` between awaits, with the server's answer to a repeated
`clientId`. A call is sent, stored, answered, and its echo arrives in any order;
each may be lost. `connected` is the state shown on the page. A flush or a load
that changes many entries does so at once (`With` and `Marked`, over a set).

### ClientInbox

Message numbers are positions; `Page` follows the page of `message-store.js`
(newest rows before a cursor that are visible to the account). `older` and
`opening` are the two loads, each with what it set aside before its await;
`request` numbers openings as the code does. `fresh` is true from an opening that
was asked when nothing was under way, until something is; that is the state in
which `ReopenExact` demands that the cache is what the server has. An opening is asked for
when the one before has ended, and an answer that comes after a newer one was asked
for is thrown away as the code does; two openings of the same conversation whose
requests overlap are not modelled.
`PagingComplete` holds at every moment, also while loads are under way: what was
visible when the list was asked for (`upTo`, a ghost that a page inherits from
the list it continues) is shown or in front of the cursor, so that scrolling up
reaches it. `Page` takes the newest rows by their number, without a sequence.

### ClientStream

`es` holds every EventSource ever created. EventSource is the browser's:
it is silent after `close()`, and after an error tries once more with its used
ticket, which is refused. Tickets, probes and refreshes are sets of calls under
way, so that calls overlap as the events of the page make them.
`phantom` marks the case in which an error of one source closes another (a
disagreement of its own, see below). Overlapping calls may also leave a source
behind whose events still set the state: then `StatusIsTrue` claims nothing of
"online" (`NoneReplaced`).

### ClientTrust

One contact whose keys are numbered; every answer, event or row brings one into
`Cached`, the translation of `cachePeerInfo`. `confirmed` records what the user
confirmed in a dialog, `encrypted` how the last message left: typed, as a file, or
again. `Submit` is `submitMessage`. `sendAttachmentFiles` is two actions:
`ChooseFiles` looks at the trust in whoever is the open contact, this one or another,
once for a whole batch, and `SendFile`, after the awaits of reading a file, takes
whoever is the open contact then and does not look again. A batch in `batches` is
remembered by whether the key of this contact was known and trusted when it was
chosen. If it was, its files are encrypted for confirmed keys only
(`FilesAreTrusted`), since a pin is never taken away and a mismatch is refused at
the encryption. If the key was unknown, or the batch was chosen in another
conversation, nothing is promised, and `FilesAreConfirmed` is violated (below).

### AccountKeys

Several devices log in, change the password and rebuild the identity over the
awaits of client and server. A bundle is a private key with the password it is
encrypted with. `refused` is set when a login with the current password was
refused, `touched` when a change of the password replaced the key in the bundle.

### ClientRename

One page of one account, a contact and a third account. The page's names are in
`page`, its records in `stored` and `vault`; `waiting` is the handler between its
vault await and its end. `missed` and `crossed` mark what the code does not
repair: an event without a stream; an event or an answer to a dialog during the
await; a conversation opened under a name of before.

`loadConversations` awaits the server and the decryption of the previews and then
replaces the lists, without looking for a newer load. `loads` has the newest load and
the names that older ones will put into the lists, `AskLists`, `AnswerLists`,
`ShowLists` and `LoseLists` are their steps, and a rename empties the lists and asks
for them at its end (`ListsAnew`), whatever else is under way. `stale` is true from
the end of a load that has been overtaken until the next newest one ends:
`ListFollows` claims nothing then, and `ListIsCurrent`, which does, is violated
(below). Reconnecting and adding a contact ask for the lists too. Not modelled: the
entries that events add to the lists beside a load (`upsertConversation`), and the
list of contacts, which is loaded in the same way.

### ClientReceipts

A sender's page, a reader's page and another device of the reader. `answers` and
`news` are the sender's own messages and receipts on their way, `opening` and
`reload` the loads that replace what they find. `early` and `blurred` mark the
receipts and counts that a load has overtaken. The badge may count too many
messages; nothing is claimed about that, only that a missing badge is true.

### AdminConsole, AdminPager, AdminMessages

Requests are taken from `net` in any order where the code allows several, and in
order of one where a flag refuses a second. Lists are arbitrary answers of the
server. The run has one request slot for the console, so that answers of the
console overtake each other only in the proofs, which are for any number of them.
`leftover` marks a tick that was given on a row whose list has been
replaced without a redraw; `missed` a load of the pager that failed.

## 3. Runs

| Run | Question | Bounds | Outcome |
| --- | --- | --- | --- |
| `store_replays` | keys, indexes, redaction, replies, refinement | 3 messages of one sender, one of them stored with plaintext before the first start; one mark; replies | holds |
| `store_marks` | durability of everything | 2 users, 2 messages, 2 marks, blocks and connects of one user | holds |
| `store_live` | does what is accepted reach the disk | 2 messages, one mark, no symmetry | holds |
| `store_migration` | the same as `store_marks`, from a `messages.json` alone | 2 messages | **violated** |
| `streams_access` | who may listen to whom | 2 accounts, 3 names, 3 sessions, 2 tickets, 3 streams, limit 2 | holds |
| `streams_fresh_names` | do closed streams leave, if old names are not reused | 2 accounts, 3 names, 2 sessions, 1 ticket, 2 streams | holds |
| `streams_reuse` | and if they are | the same | **violated** |
| `browser` | do the seven protocols of the client keep their promises | in `Browser.cfg` and `MCBrowser`, below | holds |
| `server` | names, blocks and presence, access log, session file | in `Server.cfg` and `MCServer`, below | holds |
| `administration` | limits, credentials, audit chain, administration page | in `Administration.cfg` and `MCAdministration`, below | holds |
| `progress` | does what is begun come to an end | in `MCProgress`, below | holds |
| `admin_overtaken` | do all administrator sessions end with a reset | 2 requests, 2 passwords | **violated** |

Properties of the composites, each a conjunction of properties of one module
(of three, for `PageTellsTruth`), defined and explained there:

| Property | Conjuncts | Part, bounds |
| --- | --- | --- |
| `NothingWrittenIsLost` | `ShownOnce`, `NothingLost`, `SendingIsInFlight` | outbox: 2 messages, one an attachment; 2 losses, 1 drop, 1 retry, 1 reload |
| `ConversationComplete` | `EachOnce`, `PagerReleased`, `PagingComplete`, `ReopenExact` | inbox: 4 messages, 3 of them old, pages of 2, 3 loads, a removal, a drop |
| `StatusIsHonest` | `StatusIsTrue`, `LogoutStays` | stream: 4 sources, 3 faults, 3 browser events, 2 logins |
| `OnlyConfirmedKeys` | `PinIsConfirmed`, `TypedIsTrusted`, `FilesAreTrusted`, `PinIsUsed` | trust: 3 keys, 3 answers, 2 dialogs, 2 sends or batches |
| `DevicesGetIn` | `BundleOpens`, `NobodyRefused`, `IdentityIsKept` | keys: 2 devices, 3 passwords, 3 keys, 3 logins, a reload |
| `RenameIsFollowed` | `NamesFollow`, `ListFollows`, `DeviceFollows` | naming: 4 names, 2 renames, a load beside theirs, a reload, a message |
| `ReadMarksAreTrue` | `MarksTrue`, `SenderLearns`, `BadgeShown` | receipts: 2 messages, a load, a drop, a switch |
| `NamesBelong` | `OneAccountPerName`, `BlocksFollow`, `HistoryFollows` | names: 3 accounts, 3 names, 2 renames, 2 stops |
| `BlocksAreRespected` | `Withheld`, `Announced`, `AskedIsKept`, `EntriesAgree`, `WaitsForAReason`, `WithheldStays` | relations: 2 users with 2 streams each, any number of restarts |
| `LogIsComplete` | `QueueIsServed`, `WrittenOnce`, `FailedBatchIsGone`, `MetaReachesRows`, `RenameReaches`, `EveryRowArrives`, `RefusalsAreCounted`, `CloseLosesNothing` | log: 2 cookies, 2 rows, a queue of 3 and batches of 2, 2 items of client data in a cache of 1, 2 renames, a failure, a crash |
| `SessionsSurviveRestarts` | `SessionsEnd`, `EndedStaysEnded`, `UsersStaySignedIn` | sessions: 2 sessions, lifetimes 5 and 6, uses written after 2 and with a delay of 1, clock to 6, a failing write, a stop |
| `LimitsHold` | `BurstBounded`, `LimitedForAReason`, `GuessesBounded`, `LockedForAReason` | lockout: 2 logins at once, limit 3, windows of 1, 1 failure allowed, clock to 5 |
| `CredentialsSurvive` | `RestartAgrees`, `NeverDefault` | account: 2 names, 4 passwords, an edit, 2 stops, 2 requests |
| `AuditIsTrusted` | `NoFalseAlarm`, `PageShowsFile`, `HarmIsSeen` | audit: 5 entries, 2 stops, 2 harms |
| `PageTellsTruth` | `NobodyWaits`, `SentAsConfirmed`, `SelectionListed`; `PagerTellsTruth`, `ClicksStartHere`; `NoGap`, `NothingLost` | console: 2 users, 2 dialogs; pager: 3 requests, 3 pages; list: 6 messages in pages of 2, 3 filters |
| `SendingEnds` | `LocksEnd`, `FlushedIsConfirmed` | outbox: 2 messages, a loss, 2 drops, a retry |
| `AttemptsEnd` | | stream: 7 sources, 2 faults, 2 browser events, 1 login |
| `QueueDrains` | | log: 3 rows, queue of 2, a failure, a crash |
| `LoadsEnd` | | list: as above |

Why the bounds suffice: three messages give a stored one, a written one and a
pending one at once, which is what the append path can confuse; two marks let a
change meet another one that is pending; three names let a renamed user, the
user who takes its name and a free name coexist; three streams exceed the limit
of two. In the client, two messages let one wait while the other is on its way,
four messages in pages of two make a page before the first and one behind it;
four sources are two logins with a reconnect each; three keys are an old, a
confirmed and a new one. On the server a queue and a batch of two can be full
and half full; two streams of a user are told different things at different
moments; the clocks run past every period, and a session outlives what a crash
takes of its last use (5 against 2 + 1), so that `UsersStaySignedIn` speaks after
crashes as well. A limit or a cache is always smaller
than what arrives at it.

The run `browser` does not look behind a rename event that was lost
(`RenamesAreHeard`, a CONSTRAINT): the properties of renames are about pages that
were told of all of them. It has a page that is loaded anew or one whose lists are
asked for beside the renames, not both (`ReloadOrMoreLists`): loading the page ends
the loads before it. The states of the store are cut by `Bounded` (a CONSTRAINT
on marks, senders, blocks and connections); the other bounds are guards of actions, and the
constants that carry them are named in each module. The runs of the streams
check for deadlock; in the others the bounds are used up in the end.

Symmetry: message, client and nonce ids in the store, ids in `EventStreams`,
sessions, streams and users in `MCServer`. No run with a temporal property
uses it.

Each property of a passing run has a mutant in `PROJECT.json`: a plausible bug
in one definition, under which the same run must find that property violated.

### Fairness

* `store_live`: an armed timer fires and a synchronous flush goes on, which Node
  guarantees.
* `progress`, outbox: awaited calls end (with an answer or an error: the client's
  requests have a timeout of the browser), echoes are decrypted, and the
  reconnect opens again in the end; nobody has to click.
* `progress`, stream: requests are answered, timers fire, and a source opens or
  fails.
* `progress`, log: `setImmediate` and the callbacks of the database come.
* `progress`, list: every request ends with an answer or an error.

Nothing is assumed of users, of restarts (the service restarts on failure only),
of crashes or of losses, all of which are bounded.

### What the violated runs show

* `store_migration`. `loadMessages` reads `messages.json` only while
  `messages.jsonl` is empty. With rows in `messages.json` alone (an upgraded
  installation whose data `scripts/deploy-debian.sh` 136-141 copied, or a crash
  between the two files of the first full persist), the first message is
  *appended* to the empty log, and the start after that loads the log alone.
* `streams_reuse`. `detachConnection` prefers the bucket of the remembered
  username. After a rename and a reuse of the name that is somebody else's: the
  closed stream stays in its bucket, the renamed user stays online, messages are
  marked delivered, and the ghost uses a slot of the connection limit.
* `admin_overtaken`. `handleAdminLogin` awaits the verification against the old
  credentials and issues the session without looking again; a reset that
  finishes meanwhile has already removed all sessions, and this one stays, while
  README.md:19 of the program says all become invalid.

### Further disagreements

These configurations are kept beside the runs; each checks properties that a
text, a comment or a test of the repository states, and TLC finds them violated
within seconds (`tlc -config X.cfg M`; with `-continue` where a configuration
checks several). They are not part of the twelve runs.

| Configuration, module | Property | What the code does |
| --- | --- | --- |
| `OutboxRetriedOffline`, `ClientOutbox` | `PromiseKept` | `flushPendingOutbox` (app.js:4823) skips an entry with an attempt that is not marked failed: a message that failed, and is retried offline, waits for ever although app.js:5648 promises that it will be sent |
| `OutboxFlushOverlap`, `ClientOutbox` | `PromiseKept` | a flush works on the list it copied (app.js:4808): what is written offline while it awaits an answer waits for another drop and reconnect |
| `OutboxFailedBubble`, `ClientOutbox` | `FailedIsRetryable` | `setPendingMessageState` (app.js:4571) also marks the server's copy: a delivered message is shown as failed, with a button that does nothing |
| `OutboxFailedFile`, `ClientOutbox` | `FailedIsRetryable` | a failed attachment keeps "sending" in its entry (app.js:5765), so its retry button does nothing |
| `InboxDeletion`, `ClientInbox` | `DeletedGone` | a page answered before a deletion is shown after it (app.js:4892), and the message is back |
| `StreamPhantom`, `ClientStream` | `NoPhantom` | two overlapping `openEventStream` calls install two sources, and an error of the first closes the second (app.js:5431; the comment at 2697 excludes it) |
| `StreamGivesUp`, `ClientStream` | `Reconnects` | the reconnect timer makes one attempt (app.js:5334): a ticket that fails then leaves the page offline until the browser reports something |
| `StreamStale`, `ClientStream` | `RefreshRetried` | nothing repeats a refresh that fails after a reconnect (app.js:5469), against its comment |
| `TrustDisagreements`, `ClientTrust` | `TrustedBeforeSending` | a retry does not look at the trust (app.js:5763) |
| `TrustDisagreements`, `ClientTrust` | `FilesAreConfirmed` | attachments look at the trust once (app.js:1230) and go to whoever is the open contact after they were read (app.js:1283, 1292), also to one whose key nobody has confirmed |
| `TrustDisagreements`, `ClientTrust` | `ChangePauses` | encrypting for the pin reports the pin as observed (app.js:4330) and so lifts the pause of a changed key |
| `TrustDisagreements`, `ClientTrust` | `PausedMeansChanged` | an old row's key counts as a change (app.js:4942) |
| `KeysDisagreements`, `AccountKeys` | `OldPasswordIsOut` | a login that verified the old password issues its session after the change (account-routes.js:206) |
| `KeysDisagreements`, `AccountKeys` | `ReloginRestores` | a vault that is out of date ends every login of its device (app.js:5571), although app.js:4223 advises one |
| `KeysDisagreements`, `AccountKeys` | `KeyIsKept` | a password change on a device with an older identity stores its bundle (account-routes.js:623) |
| `AdminEdited`, `AdminAccount` | `SessionsAreCurrent` | a password set in the file takes effect and leaves the sessions (server.js:904) |
| `RenameDisagreements`, `ClientRename` | `HistoryOpens` | names are bound into the encryption (app.js:4287), and a rename rewrites them: the history no longer opens |
| `RenameDisagreements`, `ClientRename` | `ListIsCurrent` | `loadConversations` (app.js:4435) does not look for a newer load as `openConversation` does (app.js:4871): one that was answered before a rename and ends after it puts the old name back |
| `RenameDisagreements`, `ClientRename` | `PinsMove` | what happens while `handleUserRenamed` waits for the vault goes under the old name (app.js:5043) |

The properties of the runs are stated so that they hold beside these: each says
what the code does keep, and names with a ghost what it does not.

## 4. Proofs

The theorems hold for every value of the constants, under the assumptions each
module names; `PROJECT.json` lists them. A theorem about a property is proved
from an inductive invariant (`IInv`: it holds initially and every step of `Next`
keeps it), with one lemma per action or group of actions. This is what the
invariants add to the properties, and why:

* **`MessageStore`**, any users, ids, nonces and initial files that could share a
  history (`InitialAssumption`). `PendingIsTail`: without knowing that the log
  and the queue together are a suffix of memory, an append could repeat a row
  and break `SenderKeysUnique`. `IdlePhases`: without it a flush could start
  between the two writes. Handlers that change rows in place are covered by one
  lemma (`ChangeRowsInv`) over any amendment that keeps keys and sequence.
* **`MessageStore` that has written `messages.jsonl` before** (`Migrated`). `DInv`
  adds `LogIsBeginning`: the log is a beginning of memory as it was some time
  ago, what is missing is pending, and replies come after their targets. From it
  follow `CleanMeansDurable`, `ReplyTargetsResolve`, `DurableNeverForgets` and
  the refinement `ImplementsLedger`, which needs every step, a crash in the
  middle of an append and a restart included, to be one of the ledger or a
  stutter. `Migrated` leaves out the stores that `store_migration` is about,
  whose log is empty while `messages.json` is not or may come not to be: an
  upgraded installation, and a new one before its first append, in which a crash
  can come between the two files of a first full persist. From then on a new
  installation satisfies it. `store_replays` and `store_marks` check instances.
* **`EventStreams`**, any sets, any limit. `CutInv`: a step that issues or ends
  sessions keeps the invariant if it purges and ends what depends on each session
  it changes, and cuts off every account it bans; logins, logouts, bans and
  password changes are instances. `NamesOwned` makes a rename safe (nothing runs
  under a name nobody has), `OnlyRegistered` a registration. `LimitRespected`
  follows from `LimitInv` (a bucket is finite and within the limit: it is looked
  at again when a stream opens, and a rename moves it to an empty one).
  `NoGhosts` holds as long as nobody takes a name that the stream of a renamed
  user remembers (`NoReuse`, the constraint of `streams_fresh_names`): the
  hypothesis that `streams_reuse` shows to be needed.
* **`UserNames`.** `FilesFollow`: between renames, whatever a file lacks is due to
  be written, unless the files are out of step (`split`); and what is sound in
  memory is sound in `users.json`, from which a restart comes back.
* **`Relationships`.** The properties are inductive together with the types: what
  a stream was told is related only to blocks, settings and streams as they are, and
  what waits to what stood between the two when the recipient last opened a stream.
* **`SessionFile`**, any periods and failures. `FileKnows`: the file has each
  session as of its mark unless a write is pending or failed; `MarksAreFresh`:
  the mark is at most `Activity` behind the last use. Together they say what a
  restart finds; the rest (`RecordsHold`, `TimerIsSoon`, `Unborn`) bounds the
  times of a record and of the pending write.
* **`ClientTrust`.** `UnpinnedIsUnverified`: without it a typed message could go
  out for a key that nobody was asked about; `KnownIsPinned`: a batch that was
  chosen for a known key was chosen for a pinned one, and pins stay; `KeysExist`:
  dialogs are about keys that the contact has had.
* **`AccountKeys`.** `NewIsNew`: a password under way is nobody's yet, so that no
  login can hold the one which is about to be stored; `OneKey`: an account that
  always had a bundle has one key for good; `AnswersOpen`: what a device was
  answered opens with what it typed, while that is the password.
* **`AdminAccount`.** `EnvironmentAgrees`: the environment of the process gives the
  credentials it runs with, so that the re-synchronisations cannot change them, also
  over a file that a failed write has emptied; `FileHasOne`: a file that was not cut
  has a password, so that resolving it never comes to the default one.
* **`LoginLockout`**, any windows, lock, limit, hash length and finite set of
  workers. `BucketCounts`: what passed since the bucket began is at most the
  limit, and what passed in a window before it too; together they bound the
  intervals that reach up to now. `GuessesCounted`: of the guesses within
  reach all but those in flight are counted failures; with `LockFollows` (a lock
  says what the failures say) a guess needs a count within the allowance. The
  ghosts are sequences of times; the lemmas `Hits...` say how the number of their
  entries in an interval grows with an append and with the interval, and splits.

* **`ClientOutbox`**, any number of messages, files, losses, retries and reloads.
  `ListsAgree`: the three lists of the page cannot say different things of one
  message: each text that is pending is in the outbox and has a bubble, and none
  has two. `CallsAreReal`: whatever is on its way is about messages that were
  written, and an answer or an echo about stored ones. Without the first an echo
  could leave a bubble behind, without the second confirm what was not stored.
* **`ClientInbox`**, any sizes of pages. `PagesReach`: an answer on its way, put in
  front of what was set aside for it, reaches whatever the list must reach, for
  whichever of the two loads ends first; `ListsAreSent` keeps every list free of
  repetitions; `FreshIsQuiet`: while an opening counts as fresh nothing is under
  way that could change what it brings.
* **`ClientStream`.** `Shape`: sources are numbered as they are created, and the
  current one belongs to a session; a page without a session does not reconnect.
  With these the properties are inductive as they stand.
* **`ClientRename`**, any names. `Shape`: while nothing was missed, there is a
  history of the names of the accounts (`Past`), one rename apart, from the one
  page and device go by (`GoesBy`) to the present one, and the renames between
  them are those under way. A handler takes the first away. Of the lists it says that
  the newest load, once every rename is handled, was answered with the name of now.
* **`ClientReceipts`.** `ReceiptsReach`: what was read is marked, announced or has
  been overtaken; `ReadInOrder`: an event about reading is in front of the
  messages that are unread, so that it cannot clear the badge of a later one;
  `NothingMissed` and `CountKept` say the same of what a load will leave.
* **`AuditChain`**, any number of entries, stops and harms. `ChainsAreWritten`: any
  lines of the file that verify and are chained to one another, wherever they
  are, were written, each next to the one it is chained to. It rests on the
  hash alone, which has the entry and the hash before it in it; from it a chain
  that starts at the first line is a prefix of what was written. It is stated
  over all sets of lines, because a lost or repaired line makes others
  neighbours. `NextContinues`: what the next entry is chained to is the last
  entry written. `FileVerifies` is what `NoFalseAlarm` needs: without an excuse
  the file verifies with the key of the next start; a rewrite of the environment file
  that was cut without losing the key leaves it so (`ResetCut`).
* **`AdminConsole`**, **`AdminPager`**, any users and pages: the properties are
  inductive with the types. **`AdminMessages`**, lists of any length: `OneLoad`
  (an answer on its way fits in front of the rows that are there and leaves out
  nothing its filter lets through) and `ListContinues` (the cursor is the oldest
  row's). The lemmas `Newest...` say what the last rows of a page are.
* **`AccessLog`**, any sizes of queue, batch and cache, any number of rows, renames,
  failures and crashes. `WrittenOnce` orders table, batch and queue by the
  numbers of the rows, so that nothing can be written twice. `MetaFollows`: a row
  without the data of a session that is remembered has it behind it, in the
  queue or in the batch. `UpdatesLead`: the UPDATEs under way replace name after
  name up to the current one, and a row that is due has one of these.
  `RollbackCuts`, `LostIsGone` and `Numbered` relate the table to what a rollback
  returns to, to the rows given up and to the counters. That every row arrives
  (`EveryRowArrives`) is kept by each step on its own: what leaves the queue is in
  the batch, what leaves the batch is in the table, or `lost` has it.

The composites have the properties that the runs check. The steps of the other
parts leave the variables of a part unchanged, so a behaviour of the composite
is, for each part, a behaviour of the part (`Spec => Part!Spec`), and has what is proved of
the part. `MCServerProofs` takes that from three other modules (their instances
there and those of `MCServer` are shown to be the same by expanding both);
it, `MCBrowserProofs` and `MCAdministrationProofs` hold the proofs of the other
parts themselves. Every invariant of the three composite runs, `TypeOK` of all
parts included, and the action property `AuditIsTrusted` is such a theorem.

Assumptions: `Empty` is neither a nonce nor an id, `None` is neither a name nor a
connection, the connection limit is at least one, `NoName` is among the names, a
contact has at least one key, the default administrator's name is a name, the
idle lifetime of a session is positive and no longer than the absolute one, spans,
limits and bounds are numbers, pages, queue, batch and cache have room for one
row, what a filter of messages matches is a set of their numbers, the markers
`NoKey` and `Sha` are no passwords and `None` is no name, and the workers are
finitely many. The hash of an audit entry is taken to be injective.

Only model-checked is liveness (`EveryChangeBecomesDurable`, `SendingEnds`,
`AttemptsEnd`, `QueueDrains`, `LoadsEnd`): fairness and ENABLED are beyond the
prover. No induction over data is needed: the loops of the code that the proofs
are about (a check of the chain, a page, a flush) are stated for each line or
row, or are a set. That the interesting cases are reached at all is for the runs
and their mutants to show, not for the proofs.

## 5. Plan

Done: all modules above, their runs, and the proofs of every safety property the
runs check. What could follow is modelling: `admin-user.js`, a second tab of one
browser, restarts in `EventStreams`, and the retention period of the access log.

## 6. Not modelled

* The cipher, key derivation and safety codes: keys are numbers, and what is
  encrypted is what opens under the same key and names.
* Request parsing, headers, static files, rendering, search, notifications,
  uploads and profile settings: one step each, without a protocol.
* The queries of the dashboard and of the audit page: they read one state.
* `admin-user.js`: it draws one answer and sends one request at a time.
* Restarts of the server in `EventStreams`: they empty tickets and streams, and
  reload the sessions that `SessionFile` follows.
* Failing writes of `users.json` but in `UserNames`; what else an environment file
  that was cut has lost (ports, limits, the passphrase of a reset).
* A wall clock that steps back (`MessageStore` sorts by it), several tabs of one
  browser (`ClientRename` and `ClientOutbox` have one page), and a redraw of the
  users' pager by its periodic tick.
* The deployment scripts, except for the data files they leave.

## 7. Running

    tlc -workers 2 -config StoreReplays.cfg MCMessageStore.tla
    tlc -workers 2 -config Browser.cfg MCBrowser.tla
    tlc -workers 2 -config Progress.cfg MCProgress.tla
    tlc -workers 2 -continue -config TrustDisagreements.cfg ClientTrust.tla
    for m in MessageStore EventStreams UserNames Relationships SessionFile \
             MCServer MCBrowser MCAdministration; do tlapm ${m}Proofs.tla; done

The largest runs, `browser`, `server` and `administration`, take one to four
minutes with two workers. The proofs take longer; the instances
by which `MCServerProofs` uses three other proof modules are not proved again
there.
