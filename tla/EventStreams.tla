---------------------------- MODULE EventStreams ----------------------------
(***************************************************************************)
(* Who may listen to whom: the sessions and one-time event tickets of      *)
(* services/session-store.js, the event streams that                       *)
(* services/realtime-hub.js keeps per username, and the handlers of        *)
(* account-routes.js, event-routes.js and admin-routes.js that issue, end, *)
(* rename and ban.                                                         *)
(*                                                                         *)
(* Handlers run without interruption between awaits.  Only the change of   *)
(* a password keeps the account it looked up across an await and acts on   *)
(* it without looking again, so only it has two actions.  The rename waits *)
(* for the access log when its changes to this state are done.             *)
(*                                                                         *)
(* Only sessions with the role "user" are modelled: /api/events/ticket     *)
(* reads the user cookie.  Names stand for username keys.  Refused         *)
(* requests change nothing, except where the code says otherwise.  That a  *)
(* session or ticket expires is a choice, taken when the code notices it.  *)
(***************************************************************************)
EXTENDS Naturals, FiniteSets

CONSTANTS
  Account,         \* entries of users.json, registered or not yet
  Name,            \* usernames
  Session,         \* session ids
  Ticket,          \* event tickets
  Conn,            \* event streams
  None,            \* not there
  MaxConnections   \* MAX_CONCURRENT_EVENT_CONNECTIONS_PER_USER

ASSUME NoneAssumption == None \notin Name
ASSUME MaxConnectionsAssumption == MaxConnections \in Nat \ {0}

EventTicket == [username : Name, token : Session]

\* joined is the username the close handler remembers.  A stream is "open",
\* "ended" by the server, or "closed" with its close event handled.
Connection ==
  [username : Name, joined : Name, token : Session, stream : {"open", "ended", "closed"}]

ASSUME NoneIsNoConnection == None \notin Connection

VARIABLES
  username,           \* Account -> Name, or None before the registration
  banned,
  sessions,           \* Session -> the username of the session, or None
  eventTickets,       \* Ticket -> EventTicket, or None
  connections,        \* Conn -> Connection, or None
  onlineConnections,  \* Name -> the set of connections in the bucket
  changingPassword    \* accounts whose new password is being hashed

accountVars == <<username, banned, changingPassword>>
streamVars == <<connections, onlineConnections>>
vars == <<accountVars, sessions, eventTickets, streamVars>>

-----------------------------------------------------------------------------

UserNamed(a, n) == n # None /\ username[a] = n

\* requireSession finds the session, its user, and no ban.
Authorized(s) == \E a \in Account : UserNamed(a, sessions[s]) /\ ~banned[a]

\* crypto.randomUUID: nothing refers to the id yet.
FreshSession(s) ==
  /\ sessions[s] = None
  /\ \A t \in Ticket : eventTickets[t] # None => eventTickets[t].token # s
  /\ \A c \in Conn : connections[c] # None => connections[c].token # s

Issue(s, n) == sessions' = [sessions EXCEPT ![s] = n]

SessionsOf(n) == {s \in Session : sessions[s] = n}

Revoke(S) == sessions' = [s \in Session |-> IF s \in S THEN None ELSE sessions[s]]

PurgeTickets(T) ==
  eventTickets' = [t \in Ticket |-> IF t \in T THEN None ELSE eventTickets[t]]

TicketsOfUser(n) ==
  {t \in Ticket : eventTickets[t] # None /\ eventTickets[t].username = n}

\* Mutant of TicketsOfSession: the tickets of an ended session stay.
NoTickets(s) == {}

TicketsOfSession(s) ==
  {t \in Ticket : eventTickets[t] # None /\ eventTickets[t].token = s}

\* The response of each connection is ended, and the bucket forgets it.
Ended(k) == IF k.stream = "closed" THEN None ELSE [k EXCEPT !.stream = "ended"]

EndConnections(C) ==
  /\ connections' = [c \in Conn |-> IF c \in C THEN Ended(connections[c]) ELSE connections[c]]
  /\ onlineConnections' = [n \in Name |-> onlineConnections[n] \ C]

\* Mutant of DisconnectUser: the close events are left to empty the bucket.
EndResponses(n) ==
  /\ connections' = [c \in Conn |-> IF c \in onlineConnections[n] THEN Ended(connections[c])
                                   ELSE connections[c]]
  /\ UNCHANGED onlineConnections

DisconnectUser(n) == EndConnections(onlineConnections[n])

ConnectionsOfSession(s) ==
  {c \in UNION {onlineConnections[n] : n \in Name} : connections[c].token = s}

DisconnectSession(s) == EndConnections(ConnectionsOfSession(s))

\* Everything that runs under a username ends.
CutOff(n) ==
  /\ Revoke(SessionsOf(n))
  /\ PurgeTickets(TicketsOfUser(n))
  /\ DisconnectUser(n)

-----------------------------------------------------------------------------
(* Accounts and sessions.                                                  *)

Register(a, n, s) ==
  /\ username[a] = None
  /\ \A b \in Account : username[b] # n
  /\ FreshSession(s)
  /\ username' = [username EXCEPT ![a] = n]
  /\ Issue(s, n)
  /\ UNCHANGED <<banned, changingPassword, eventTickets, streamVars>>

\* The ban is looked up after the password was verified.
Login(a, s) ==
  /\ username[a] # None
  /\ ~banned[a]
  /\ FreshSession(s)
  /\ Issue(s, username[a])
  /\ UNCHANGED <<accountVars, eventTickets, streamVars>>

\* Logout, the revocation by another session of the user, an expired session
\* or one that is used by another browser.
EndSession(s) ==
  /\ sessions[s] # None
  /\ Revoke({s})
  /\ PurgeTickets(TicketsOfSession(s))
  /\ DisconnectSession(s)
  /\ UNCHANGED accountVars

\* A request with a session whose user is banned: only the session goes.
RefuseBanned(s) ==
  /\ sessions[s] # None
  /\ ~Authorized(s)
  /\ Revoke({s})
  /\ UNCHANGED <<accountVars, eventTickets, streamVars>>

LogoutAll(s) ==
  /\ Authorized(s)
  /\ CutOff(sessions[s])
  /\ UNCHANGED accountVars

\* Mutant of BeginPassword: the name of the session is kept, not its account.
BeginPasswordByName(s, a) ==
  /\ Authorized(s)
  /\ UserNamed(a, sessions[s])
  /\ changingPassword' = changingPassword \cup {sessions[s]}
  /\ UNCHANGED <<username, banned, sessions, eventTickets, streamVars>>

\* The handler finds the account of its session, and waits for the hash ...
BeginPassword(s, a) ==
  /\ Authorized(s)
  /\ UserNamed(a, sessions[s])
  /\ changingPassword' = changingPassword \cup {a}
  /\ UNCHANGED <<username, banned, sessions, eventTickets, streamVars>>

\* ... and then cuts off the account and issues a session, banned or not.
\* Another request of the account may still wait for its hash.
FinishPassword(a, s) ==
  LET n == username[a] IN
    /\ a \in changingPassword
    /\ changingPassword' \in {changingPassword, changingPassword \ {a}}
    /\ FreshSession(s)
    /\ sessions' = [r \in Session |->
                      IF r = s THEN n ELSE IF sessions[r] = n THEN None ELSE sessions[r]]
    /\ PurgeTickets(TicketsOfUser(n))
    /\ DisconnectUser(n)
    /\ UNCHANGED <<username, banned>>

Ban(a) ==
  /\ username[a] # None
  /\ banned' = [banned EXCEPT ![a] = TRUE]
  /\ CutOff(username[a])
  /\ UNCHANGED <<username, changingPassword>>

Unban(a) ==
  /\ banned[a]
  /\ banned' = [banned EXCEPT ![a] = FALSE]
  /\ UNCHANGED <<username, changingPassword, sessions, eventTickets, streamVars>>

\* Mutants of RenameConnections: the connections keep the old username; the
\* bucket stays under the old name, too.
MoveBucket(previous, next) ==
  /\ onlineConnections' =
       [n \in Name |-> IF n = next THEN onlineConnections[previous]
                       ELSE IF n = previous THEN {} ELSE onlineConnections[n]]
  /\ UNCHANGED connections
CopyBucket(previous, next) ==
  /\ onlineConnections' = [onlineConnections EXCEPT ![next] = onlineConnections[previous]]
  /\ connections' =
       [c \in Conn |-> IF c \in onlineConnections[previous]
                       THEN [connections[c] EXCEPT !.username = next]
                       ELSE connections[c]]

\* renameUserConnections moves the bucket, over one that may be there.
RenameConnections(previous, next) ==
  IF onlineConnections[previous] = {}
  THEN UNCHANGED streamVars
  ELSE /\ connections' =
            [c \in Conn |-> IF c \in onlineConnections[previous]
                            THEN [connections[c] EXCEPT !.username = next]
                            ELSE connections[c]]
       /\ onlineConnections' =
            [n \in Name |-> IF n = next THEN onlineConnections[previous]
                            ELSE IF n = previous THEN {} ELSE onlineConnections[n]]

\* An administrator gives the account a name nobody else has.
Rename(a, next) ==
  LET previous == username[a] IN
    /\ previous # None
    /\ \A b \in Account \ {a} : username[b] # next
    /\ username' = [username EXCEPT ![a] = next]
    /\ sessions' = [s \in Session |-> IF sessions[s] = previous THEN next ELSE sessions[s]]
    /\ RenameConnections(previous, next)
    /\ PurgeTickets(TicketsOfUser(previous))
    /\ UNCHANGED <<banned, changingPassword>>

-----------------------------------------------------------------------------
(* Tickets and streams.                                                    *)

\* Mutant of HasRoom: the limit is checked when it has been passed.
HasRoomForOneMore(n) == Cardinality(onlineConnections[n]) <= MaxConnections

HasRoom(n) == Cardinality(onlineConnections[n]) < MaxConnections

\* With a limit of one stream the ticket is given out in any case.
CreateTicket(s, t) ==
  /\ eventTickets[t] = None
  /\ Authorized(s)
  /\ MaxConnections > 1 => HasRoom(sessions[s])
  /\ eventTickets' = [eventTickets EXCEPT ![t] = [username |-> sessions[s], token |-> s]]
  /\ UNCHANGED <<accountVars, sessions, streamVars>>

\* What handleEvents checks again when the ticket is used.
StillValid(e) ==
  /\ sessions[e.token] = e.username
  /\ \E a \in Account : UserNamed(a, e.username) /\ ~banned[a]
  /\ HasRoom(e.username)

OpenStream(t, c) ==
  LET e == eventTickets[t] IN
    /\ e # None
    /\ StillValid(e)
    /\ connections[c] = None
    /\ PurgeTickets({t})
    /\ connections' = [connections EXCEPT ![c] =
         [username |-> e.username, joined |-> e.username, token |-> e.token, stream |-> "open"]]
    /\ onlineConnections' = [onlineConnections EXCEPT ![e.username] = @ \cup {c}]
    /\ UNCHANGED <<accountVars, sessions>>

\* The ticket is used in vain, or expires.
DropTicket(t) ==
  /\ eventTickets[t] # None
  /\ PurgeTickets({t})
  /\ UNCHANGED <<accountVars, sessions, streamVars>>

\* Mutant of BucketName: the close handler trusts the name it remembers.
JoinedName(k) == k.joined

\* The bucket detachConnection looks into: that of the remembered username if
\* there is one now, whoever it belongs to.
BucketName(k) == IF onlineConnections[k.joined] # {} THEN k.joined ELSE k.username

\* The close event of a stream, whoever ended it.
CloseStream(c) ==
  /\ connections[c] # None
  /\ connections[c].stream # "closed"
  /\ LET n == BucketName(connections[c])
         left == c \in onlineConnections[connections[c].username] /\ n # connections[c].username
     IN  /\ onlineConnections' = [onlineConnections EXCEPT ![n] = @ \ {c}]
         /\ connections' = [connections EXCEPT ![c] =
              IF left THEN [@ EXCEPT !.stream = "closed"] ELSE None]
  /\ UNCHANGED <<accountVars, sessions, eventTickets>>

-----------------------------------------------------------------------------

Init ==
  /\ username = [a \in Account |-> None]
  /\ banned = [a \in Account |-> FALSE]
  /\ sessions = [s \in Session |-> None]
  /\ eventTickets = [t \in Ticket |-> None]
  /\ connections = [c \in Conn |-> None]
  /\ onlineConnections = [n \in Name |-> {}]
  /\ changingPassword = {}

Accounts ==
  \/ \E a \in Account, n \in Name, s \in Session : Register(a, n, s)
  \/ \E a \in Account, s \in Session : Login(a, s) \/ BeginPassword(s, a) \/ FinishPassword(a, s)
  \/ \E s \in Session : EndSession(s) \/ RefuseBanned(s) \/ LogoutAll(s)
  \/ \E a \in Account : Ban(a) \/ Unban(a)
  \/ \E a \in Account, n \in Name : Rename(a, n)

Streams ==
  \/ \E s \in Session, t \in Ticket : CreateTicket(s, t)
  \/ \E t \in Ticket, c \in Conn : OpenStream(t, c)
  \/ \E t \in Ticket : DropTicket(t)
  \/ \E c \in Conn : CloseStream(c)

Next == Accounts \/ Streams

Spec == Init /\ [][Next]_vars

-----------------------------------------------------------------------------
(* Properties.                                                             *)

\* Every variable has its type.
TypeOK ==
  /\ username \in [Account -> Name \cup {None}]
  /\ banned \in [Account -> BOOLEAN]
  /\ sessions \in [Session -> Name \cup {None}]
  /\ eventTickets \in [Ticket -> EventTicket \cup {None}]
  /\ connections \in [Conn -> Connection \cup {None}]
  /\ onlineConnections \in [Name -> SUBSET Conn]
  /\ changingPassword \subseteq Account

\* An open stream belongs to a session that has not ended, and is in the
\* bucket of the name that session has now: it gets the events of its user
\* and nobody else's (disconnectSessionRealtime, renameUserConnections).
StreamsAuthorized ==
  \A c \in Conn : connections[c] # None /\ connections[c].stream = "open" =>
    /\ c \in onlineConnections[connections[c].username]
    /\ sessions[connections[c].token] = connections[c].username

\* No ticket outlives its session or its user's name (the purges of
\* purgeSessionEventTickets and purgeUserEventTickets are complete).
TicketsLive ==
  \A t \in Ticket : eventTickets[t] # None =>
    sessions[eventTickets[t].token] = eventTickets[t].username

\* A banned account has no stream and no ticket, also if it is renamed or
\* changes its password meanwhile (handleAdminUserPatch, handleMePassword).
BannedCutOff ==
  \A a \in Account : banned[a] =>
    \A n \in Name : UserNamed(a, n) => onlineConnections[n] = {} /\ TicketsOfUser(n) = {}

\* A connection is in the bucket of its own username only, so no event for
\* one user reaches a stream of another.
BucketsSound ==
  \A n \in Name : \A c \in onlineConnections[n] :
    connections[c] # None /\ connections[c].username = n

\* No user has more streams than the limit (README, the connection limit).
LimitRespected == \A n \in Name : Cardinality(onlineConnections[n]) <= MaxConnections

\* A closed stream is in no bucket: it neither keeps its user online nor
\* counts against the limit (detachConnection).
NoGhosts ==
  \A n \in Name : \A c \in onlineConnections[n] :
    connections[c] # None => connections[c].stream # "closed"

\* Nobody takes a name that the stream of a renamed user still remembers.
NoReuse ==
  \A c \in Conn : connections[c] # None /\ connections[c].joined # connections[c].username =>
    \A a \in Account : username[a] # connections[c].joined

-----------------------------------------------------------------------------
(* What makes the above inductive.                                         *)

\* A name leads to one account: two accounts never share one, and sessions
\* and buckets exist only under the name of an account, also after renames
\* (so requireSession never misses the user of a session).
NamesOwned ==
  /\ \A a, b \in Account : username[a] = username[b] /\ username[a] # None => a = b
  /\ \A s \in Session : sessions[s] # None => \E a \in Account : UserNamed(a, sessions[s])
  /\ \A n \in Name : onlineConnections[n] # {} => \E a \in Account : UserNamed(a, n)

\* Only registered accounts are banned or change their password.
OnlyRegistered ==
  \A a \in Account : banned[a] \/ a \in changingPassword => username[a] # None

IInv ==
  /\ TypeOK
  /\ NamesOwned
  /\ OnlyRegistered
  /\ TicketsLive
  /\ BucketsSound
  /\ StreamsAuthorized
  /\ BannedCutOff
=============================================================================
