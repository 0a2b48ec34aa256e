------------------------- MODULE EventStreamsProofs -------------------------
(***************************************************************************)
(* IInv is an inductive invariant of EventStreams, for every set of        *)
(* accounts, names, sessions, tickets and streams, and every limit.        *)
(***************************************************************************)
EXTENDS EventStreams, FiniteSetTheorems, TLAPS

\* The step revokes or issues sessions, and what depends on each session it
\* changes is purged (T) and ended (C) in the same step.
Cuts(T, C) ==
  /\ PurgeTickets(T)
  /\ EndConnections(C)
  /\ \A s \in Session : sessions'[s] # sessions[s] =>
       /\ \A t \in Ticket : eventTickets[t] # None /\ eventTickets[t].token = s => t \in T
       /\ \A c \in Conn :
            connections[c] # None /\ connections[c].stream = "open" /\ connections[c].token = s
              => c \in C

Cuttable(C) == C \subseteq UNION {onlineConnections[n] : n \in Name}

\* An account is banned after the step only if it was, or is cut off by it.
BansCut(T, C) ==
  \A a \in Account : banned'[a] =>
    \/ banned[a]
    \/ /\ username[a] # None
       /\ \A n \in Name : UserNamed(a, n) => onlineConnections[n] \subseteq C /\ TicketsOfUser(n) \subseteq T

LEMMA CutInv ==
  ASSUME IInv, NEW T, NEW C, Cuttable(C), Cuts(T, C), BansCut(T, C),
         username' = username, banned' \in [Account -> BOOLEAN],
         sessions' \in [Session -> Name \cup {None}],
         \A s \in Session : sessions'[s] = sessions[s] \/ sessions'[s] = None
                              \/ \E a \in Account : UserNamed(a, sessions'[s]),
         changingPassword' \subseteq Account,
         \A a \in changingPassword' : username[a] # None
  PROVE  IInv'
<1>1. /\ TypeOK /\ NamesOwned /\ OnlyRegistered /\ TicketsLive /\ BucketsSound
      /\ StreamsAuthorized /\ BannedCutOff
  BY DEF IInv
<1>2. /\ eventTickets' = [t \in Ticket |-> IF t \in T THEN None ELSE eventTickets[t]]
      /\ connections' = [c \in Conn |-> IF c \in C THEN Ended(connections[c]) ELSE connections[c]]
      /\ onlineConnections' = [n \in Name |-> onlineConnections[n] \ C]
  BY DEF Cuts, PurgeTickets, EndConnections
<1>3. TypeOK'
  <2>1. \A k \in Connection : Ended(k) \in Connection \cup {None}
    BY DEF Ended, Connection
  <2>2. eventTickets' \in [Ticket -> EventTicket \cup {None}]
    BY <1>1, <1>2 DEF TypeOK
  <2>3. connections' \in [Conn -> Connection \cup {None}]
    <3>1. \A c \in C \cap Conn : connections[c] # None
      BY <1>1 DEF Cuttable, BucketsSound
    <3> QED
      BY <1>1, <1>2, <2>1, <3>1 DEF TypeOK
  <2>4. onlineConnections' \in [Name -> SUBSET Conn]
    BY <1>1, <1>2 DEF TypeOK
  <2> QED
    BY <1>1, <2>2, <2>3, <2>4 DEF TypeOK
<1>4. NamesOwned'
  <2>1. \A a \in Account : \A n : UserNamed(a, n)' = UserNamed(a, n)
    BY DEF UserNamed
  <2> QED
    BY <1>1, <1>2, <2>1 DEF NamesOwned, TypeOK, UserNamed
<1>5. OnlyRegistered'
  BY <1>1 DEF OnlyRegistered, BansCut
<1>6. TicketsLive'
  <2> SUFFICES ASSUME NEW t \in Ticket, eventTickets'[t] # None
               PROVE  sessions'[eventTickets'[t].token] = eventTickets'[t].username
    BY DEF TicketsLive
  <2>1. t \notin T /\ eventTickets'[t] = eventTickets[t] /\ eventTickets[t] # None
    BY <1>2
  <2>2. eventTickets[t].token \in Session
    BY <1>1, <2>1 DEF TypeOK, EventTicket
  <2> QED
    BY <1>1, <2>1, <2>2 DEF TicketsLive, Cuts
<1>7. BucketsSound'
  BY <1>1, <1>2 DEF BucketsSound, TypeOK
<1>8. StreamsAuthorized'
  <2> SUFFICES ASSUME NEW c \in Conn, connections'[c] # None, connections'[c].stream = "open"
               PROVE  /\ c \in onlineConnections'[connections'[c].username]
                      /\ sessions'[connections'[c].token] = connections'[c].username
    BY DEF StreamsAuthorized
  <2>1. CASE c \in C
    <3>1. connections'[c] = Ended(connections[c])
      BY <1>2, <2>1
    <3>2. connections[c].stream # "closed"
      BY <3>1 DEF Ended
    <3>3. connections[c] # None => connections[c] \in Connection
      BY <1>1 DEF TypeOK
    <3> QED
      BY <1>1, <1>2, <2>1, <3>1, <3>2, <3>3 DEF Ended, Cuttable, BucketsSound, Connection
  <2>2. CASE c \notin C
    <3>1. connections'[c] = connections[c]
      BY <1>2, <2>2
    <3>2. connections[c] \in Connection
      BY <1>1, <3>1 DEF TypeOK
    <3>3. connections[c].username \in Name /\ connections[c].token \in Session
      BY <3>2 DEF Connection
    <3> QED
      BY <1>1, <1>2, <2>2, <3>1, <3>3 DEF StreamsAuthorized, Cuts
  <2> QED
    BY <2>1, <2>2
<1>9. BannedCutOff'
  <2> SUFFICES ASSUME NEW a \in Account, banned'[a], NEW n \in Name, UserNamed(a, n)
               PROVE  onlineConnections'[n] = {} /\ TicketsOfUser(n)' = {}
    BY DEF BannedCutOff, UserNamed
  <2>1. onlineConnections'[n] = onlineConnections[n] \ C
    BY <1>2
  <2>2. TicketsOfUser(n)' = TicketsOfUser(n) \ T
    BY <1>2 DEF TicketsOfUser
  <2> QED
    BY <1>1, <2>1, <2>2 DEF BansCut, BannedCutOff
<1> QED
  BY <1>3, <1>4, <1>5, <1>6, <1>7, <1>8, <1>9 DEF IInv

\* A step that ends nothing.
LEMMA NothingCut ==
  ASSUME TypeOK, UNCHANGED <<eventTickets, streamVars>>
  PROVE  PurgeTickets({}) /\ EndConnections({})
  BY DEF TypeOK, PurgeTickets, EndConnections, streamVars

-----------------------------------------------------------------------------

LEMMA InitInv == Init => IInv
<1> SUFFICES ASSUME Init PROVE IInv
  OBVIOUS
<1> USE DEF Init
<1>1. TypeOK
  BY DEF TypeOK
<1>2. NamesOwned /\ OnlyRegistered /\ TicketsLive /\ BucketsSound /\ StreamsAuthorized /\ BannedCutOff
  BY DEF NamesOwned, OnlyRegistered, TicketsLive, BucketsSound, StreamsAuthorized, BannedCutOff
<1> QED
  BY <1>1, <1>2 DEF IInv

\* A session is issued for an account under the name it has.
LEMMA LoginInv ==
  ASSUME IInv, NEW a \in Account, NEW s \in Session, Login(a, s)
  PROVE  IInv'
<1>1. PurgeTickets({}) /\ EndConnections({})
  BY NothingCut DEF Login, IInv
<1>2. Cuts({}, {}) /\ BansCut({}, {}) /\ Cuttable({})
  <2>1. \A r \in Session : sessions'[r] # sessions[r] => r = s
    BY DEF Login, Issue, IInv, TypeOK
  <2>2. /\ \A t \in Ticket : eventTickets[t] # None => eventTickets[t].token # s
        /\ \A c \in Conn : connections[c] # None => connections[c].token # s
    BY DEF Login, FreshSession
  <2> QED
    BY <1>1, <2>1, <2>2 DEF Cuts, BansCut, Cuttable, Login, accountVars
<1>3. /\ sessions' \in [Session -> Name \cup {None}]
      /\ \A r \in Session : sessions'[r] = sessions[r] \/ UserNamed(a, sessions'[r])
  BY DEF Login, Issue, IInv, TypeOK, UserNamed
<1>4. /\ username' = username /\ banned' \in [Account -> BOOLEAN]
      /\ changingPassword' \subseteq Account /\ \A b \in changingPassword' : username[b] # None
  BY DEF Login, accountVars, IInv, TypeOK, OnlyRegistered
<1> QED
  BY <1>2, <1>3, <1>4, CutInv

\* With a session go its tickets and its streams.
LEMMA EndSessionInv ==
  ASSUME IInv, NEW s \in Session, EndSession(s)
  PROVE  IInv'
<1> DEFINE T == TicketsOfSession(s)
           C == ConnectionsOfSession(s)
<1>1. Cuts(T, C)
  <2>1. \A r \in Session : sessions'[r] # sessions[r] => r = s
    BY DEF EndSession, Revoke
  <2>2. \A c \in Conn :
          connections[c] # None /\ connections[c].stream = "open" /\ connections[c].token = s
            => c \in C
    <3> SUFFICES ASSUME NEW c \in Conn, connections[c] # None, connections[c].stream = "open",
                        connections[c].token = s
                 PROVE  c \in C
      OBVIOUS
    <3>1. connections[c].username \in Name
      BY DEF IInv, TypeOK, Connection
    <3> QED
      BY <3>1 DEF IInv, StreamsAuthorized, ConnectionsOfSession
  <2> QED
    BY <2>1, <2>2 DEF Cuts, EndSession, DisconnectSession, TicketsOfSession
<1>2. Cuttable(C) /\ BansCut(T, C)
  BY DEF Cuttable, ConnectionsOfSession, BansCut, EndSession, accountVars
<1>3. /\ sessions' \in [Session -> Name \cup {None}]
      /\ \A r \in Session : sessions'[r] = sessions[r] \/ sessions'[r] = None
  BY DEF EndSession, Revoke, IInv, TypeOK
<1>4. /\ username' = username /\ banned' \in [Account -> BOOLEAN]
      /\ changingPassword' \subseteq Account /\ \A b \in changingPassword' : username[b] # None
  BY DEF EndSession, accountVars, IInv, TypeOK, OnlyRegistered
<1> HIDE DEF T, C
<1> QED
  BY <1>1, <1>2, <1>3, <1>4, CutInv

\* A refused session needs no purge: its user is banned, and was cut off.
LEMMA RefuseBannedInv ==
  ASSUME IInv, NEW s \in Session, RefuseBanned(s)
  PROVE  IInv'
<1>1. PurgeTickets({}) /\ EndConnections({})
  BY NothingCut DEF RefuseBanned, IInv
<1>2. \A t \in Ticket : eventTickets[t] # None => eventTickets[t].token # s
  <2> SUFFICES ASSUME NEW t \in Ticket, eventTickets[t] # None, eventTickets[t].token = s
               PROVE  FALSE
    OBVIOUS
  <2>1. eventTickets[t].username = sessions[s] /\ sessions[s] \in Name
    BY DEF IInv, TicketsLive, TypeOK, RefuseBanned
  <2>2. PICK a \in Account : UserNamed(a, sessions[s])
    BY DEF IInv, NamesOwned, RefuseBanned
  <2>3. banned[a]
    BY <2>2 DEF RefuseBanned, Authorized
  <2> QED
    BY <2>1, <2>2, <2>3 DEF IInv, BannedCutOff, TicketsOfUser
<1>3. \A c \in Conn : connections[c] # None /\ connections[c].stream = "open" =>
        connections[c].token # s
  <2> SUFFICES ASSUME NEW c \in Conn, connections[c] # None, connections[c].stream = "open",
                      connections[c].token = s
               PROVE  FALSE
    OBVIOUS
  <2>1. c \in onlineConnections[sessions[s]] /\ sessions[s] \in Name
    BY DEF IInv, StreamsAuthorized, TypeOK, RefuseBanned
  <2>2. PICK a \in Account : UserNamed(a, sessions[s])
    BY DEF IInv, NamesOwned, RefuseBanned
  <2>3. banned[a]
    BY <2>2 DEF RefuseBanned, Authorized
  <2> QED
    BY <2>1, <2>2, <2>3 DEF IInv, BannedCutOff
<1>4. Cuts({}, {}) /\ BansCut({}, {}) /\ Cuttable({})
  <2>1. \A r \in Session : sessions'[r] # sessions[r] => r = s
    BY DEF RefuseBanned, Revoke
  <2> QED
    BY <1>1, <1>2, <1>3, <2>1 DEF Cuts, BansCut, Cuttable, RefuseBanned, accountVars
<1>5. /\ sessions' \in [Session -> Name \cup {None}]
      /\ \A r \in Session : sessions'[r] = sessions[r] \/ sessions'[r] = None
  BY DEF RefuseBanned, Revoke, IInv, TypeOK
<1>6. /\ username' = username /\ banned' \in [Account -> BOOLEAN]
      /\ changingPassword' \subseteq Account /\ \A b \in changingPassword' : username[b] # None
  BY DEF RefuseBanned, accountVars, IInv, TypeOK, OnlyRegistered
<1> QED
  BY <1>4, <1>5, <1>6, CutInv

\* Everything under a name ends together.
LEMMA CutOffCuts ==
  ASSUME IInv, NEW n \in Name,
         \A s \in Session : sessions'[s] # sessions[s] =>
           sessions[s] = n \/ FreshSession(s),
         PurgeTickets(TicketsOfUser(n)), DisconnectUser(n)
  PROVE  Cuts(TicketsOfUser(n), onlineConnections[n]) /\ Cuttable(onlineConnections[n])
<1>1. Cuttable(onlineConnections[n])
  BY DEF Cuttable
<1>2. ASSUME NEW s \in Session, sessions'[s] # sessions[s],
             NEW t \in Ticket, eventTickets[t] # None, eventTickets[t].token = s
      PROVE  t \in TicketsOfUser(n)
  <2>1. sessions[s] = n
    BY <1>2 DEF FreshSession
  <2> QED
    BY <1>2, <2>1 DEF IInv, TicketsLive, TicketsOfUser
<1>3. ASSUME NEW s \in Session, sessions'[s] # sessions[s],
             NEW c \in Conn, connections[c] # None, connections[c].stream = "open",
             connections[c].token = s
      PROVE  c \in onlineConnections[n]
  <2>1. sessions[s] = n
    BY <1>3 DEF FreshSession
  <2> QED
    BY <1>3, <2>1 DEF IInv, StreamsAuthorized
<1> QED
  BY <1>1, <1>2, <1>3 DEF Cuts, DisconnectUser

LEMMA LogoutAllInv ==
  ASSUME IInv, NEW s \in Session, LogoutAll(s)
  PROVE  IInv'
<1> DEFINE n == sessions[s]
           T == TicketsOfUser(n)
           C == onlineConnections[n]
<1>1. n \in Name
  <2>1. n # None
    BY DEF LogoutAll, Authorized, UserNamed
  <2> QED
    BY <2>1 DEF IInv, TypeOK
<1>2. Cuts(T, C) /\ Cuttable(C)
  <2>1. \A r \in Session : sessions'[r] # sessions[r] => sessions[r] = n
    BY DEF LogoutAll, CutOff, Revoke, SessionsOf
  <2>2. PurgeTickets(T) /\ DisconnectUser(n)
    BY DEF LogoutAll, CutOff
  <2> HIDE DEF n
  <2> QED
    BY <1>1, <2>1, <2>2, CutOffCuts
<1>3. BansCut(T, C)
  BY DEF BansCut, LogoutAll, accountVars
<1>4. /\ sessions' \in [Session -> Name \cup {None}]
      /\ \A r \in Session : sessions'[r] = sessions[r] \/ sessions'[r] = None
  BY DEF LogoutAll, CutOff, Revoke, IInv, TypeOK
<1>5. /\ username' = username /\ banned' \in [Account -> BOOLEAN]
      /\ changingPassword' \subseteq Account /\ \A b \in changingPassword' : username[b] # None
  BY DEF LogoutAll, accountVars, IInv, TypeOK, OnlyRegistered
<1> HIDE DEF T, C
<1> QED
  BY <1>2, <1>3, <1>4, <1>5, CutInv

LEMMA FinishPasswordInv ==
  ASSUME IInv, NEW a \in Account, NEW s \in Session, FinishPassword(a, s)
  PROVE  IInv'
<1> DEFINE n == username[a]
           T == TicketsOfUser(n)
           C == onlineConnections[n]
<1>1. n \in Name /\ UserNamed(a, n)
  <2>1. n # None
    BY DEF FinishPassword, IInv, OnlyRegistered
  <2> QED
    BY <2>1 DEF IInv, TypeOK, UserNamed
<1>2. /\ FreshSession(s) /\ PurgeTickets(T) /\ DisconnectUser(n)
      /\ sessions' = [r \in Session |->
                        IF r = s THEN n ELSE IF sessions[r] = n THEN None ELSE sessions[r]]
      /\ changingPassword' \subseteq changingPassword
      /\ UNCHANGED <<username, banned>>
  BY DEF FinishPassword
<1> HIDE DEF n
<1>3. Cuts(T, C) /\ Cuttable(C)
  <2>1. \A r \in Session : sessions'[r] # sessions[r] => sessions[r] = n \/ FreshSession(r)
    BY <1>2
  <2> QED
    BY <1>1, <1>2, <2>1, CutOffCuts
<1>4. BansCut(T, C)
  BY <1>2 DEF BansCut
<1>5. /\ sessions' \in [Session -> Name \cup {None}]
      /\ \A r \in Session : sessions'[r] = sessions[r] \/ sessions'[r] = None
                              \/ UserNamed(a, sessions'[r])
  BY <1>1, <1>2 DEF IInv, TypeOK
<1>6. /\ username' = username /\ banned' \in [Account -> BOOLEAN]
      /\ changingPassword' \subseteq Account /\ \A b \in changingPassword' : username[b] # None
  BY <1>2 DEF IInv, TypeOK, OnlyRegistered
<1> HIDE DEF T, C
<1> QED
  BY <1>3, <1>4, <1>5, <1>6, CutInv

LEMMA BanInv ==
  ASSUME IInv, NEW a \in Account, Ban(a)
  PROVE  IInv'
<1> DEFINE n == username[a]
           T == TicketsOfUser(n)
           C == onlineConnections[n]
<1>1. n \in Name /\ UserNamed(a, n)
  BY DEF Ban, IInv, TypeOK, UserNamed
<1>2. /\ PurgeTickets(T) /\ DisconnectUser(n) /\ Revoke(SessionsOf(n))
      /\ banned' = [banned EXCEPT ![a] = TRUE]
      /\ UNCHANGED <<username, changingPassword>>
  BY DEF Ban, CutOff
<1>3. \A m \in Name : UserNamed(a, m) => m = n
  BY DEF UserNamed
<1> HIDE DEF n
<1>4. Cuts(T, C) /\ Cuttable(C)
  <2>1. \A r \in Session : sessions'[r] # sessions[r] => sessions[r] = n
    BY <1>2 DEF Revoke, SessionsOf
  <2> QED
    BY <1>1, <1>2, <2>1, CutOffCuts
<1>5. BansCut(T, C)
  <2>1. \A b \in Account : banned'[b] => banned[b] \/ b = a
    BY <1>2 DEF IInv, TypeOK
  <2> QED
    BY <1>1, <1>3, <2>1 DEF BansCut, UserNamed
<1>6. /\ sessions' \in [Session -> Name \cup {None}]
      /\ \A r \in Session : sessions'[r] = sessions[r] \/ sessions'[r] = None
  BY <1>2 DEF Revoke, IInv, TypeOK
<1>7. /\ username' = username /\ banned' \in [Account -> BOOLEAN]
      /\ changingPassword' \subseteq Account /\ \A b \in changingPassword' : username[b] # None
  BY <1>2 DEF IInv, TypeOK, OnlyRegistered
<1> HIDE DEF T, C
<1> QED
  BY <1>4, <1>5, <1>6, <1>7, CutInv

\* Steps that only lift a ban or start a password change, or do nothing.
LEMMA AccountOnlyInv ==
  ASSUME IInv, UNCHANGED <<username, sessions, eventTickets, streamVars>>,
         banned' \in [Account -> BOOLEAN], \A a \in Account : banned'[a] => banned[a],
         changingPassword' \subseteq Account, \A a \in changingPassword' : username[a] # None
  PROVE  IInv'
<1>1. PurgeTickets({}) /\ EndConnections({})
  BY NothingCut DEF IInv
<1>2. Cuts({}, {}) /\ BansCut({}, {}) /\ Cuttable({})
  BY <1>1 DEF Cuts, BansCut, Cuttable
<1>3. sessions' \in [Session -> Name \cup {None}]
  BY DEF IInv, TypeOK
<1> QED
  BY <1>2, <1>3, CutInv

LEMMA DropTicketInv ==
  ASSUME IInv, NEW t \in Ticket, DropTicket(t)
  PROVE  IInv'
<1>1. /\ PurgeTickets({t}) /\ EndConnections({})
      /\ UNCHANGED <<username, banned, changingPassword, sessions>>
  BY DEF DropTicket, IInv, TypeOK, EndConnections, streamVars, accountVars
<1>2. Cuts({t}, {}) /\ BansCut({t}, {}) /\ Cuttable({})
  BY <1>1 DEF Cuts, BansCut, Cuttable
<1>3. /\ sessions' \in [Session -> Name \cup {None}] /\ banned' \in [Account -> BOOLEAN]
      /\ changingPassword' \subseteq Account /\ \A a \in changingPassword' : username[a] # None
  BY <1>1 DEF IInv, TypeOK, OnlyRegistered
<1> QED
  BY <1>1, <1>2, <1>3, CutInv

-----------------------------------------------------------------------------

\* A registration takes a name that nothing runs under.
LEMMA RegisterInv ==
  ASSUME IInv, NEW a \in Account, NEW n \in Name, NEW s \in Session, Register(a, n, s)
  PROVE  IInv'
<1>1. /\ TypeOK /\ NamesOwned /\ OnlyRegistered /\ TicketsLive /\ BucketsSound
      /\ StreamsAuthorized /\ BannedCutOff
  BY DEF IInv
<1>2. /\ username[a] = None /\ \A b \in Account : username[b] # n
      /\ FreshSession(s)
      /\ username' = [username EXCEPT ![a] = n]
      /\ sessions' = [sessions EXCEPT ![s] = n]
      /\ UNCHANGED <<banned, changingPassword, eventTickets, connections, onlineConnections>>
  BY DEF Register, Issue, streamVars
<1>3. n # None
  BY NoneAssumption
<1>4. TypeOK'
  BY <1>1, <1>2 DEF TypeOK
<1>5. \A m \in Name : (\E b \in Account : UserNamed(b, m)) =>
        \E b \in Account : username'[b] = m /\ m # None
  BY <1>1, <1>2 DEF UserNamed, TypeOK
<1>6. NamesOwned'
  <2>1. \A b, d \in Account : username'[b] = username'[d] /\ username'[b] # None => b = d
    BY <1>1, <1>2 DEF NamesOwned, TypeOK
  <2>2. \A r \in Session : sessions'[r] # None =>
          \E b \in Account : username'[b] = sessions'[r] /\ sessions'[r] # None
    <3> SUFFICES ASSUME NEW r \in Session, sessions'[r] # None
                 PROVE  \E b \in Account : username'[b] = sessions'[r]
      OBVIOUS
    <3>1. CASE r = s
      BY <1>1, <1>2, <3>1 DEF TypeOK
    <3>2. CASE r # s
      <4>1. sessions'[r] = sessions[r] /\ sessions[r] \in Name
        BY <1>1, <1>2, <3>2 DEF TypeOK
      <4> QED
        BY <1>1, <1>5, <4>1 DEF NamesOwned
    <3> QED
      BY <3>1, <3>2
  <2>3. \A m \in Name : onlineConnections'[m] # {} => \E b \in Account : username'[b] = m /\ m # None
    BY <1>1, <1>2, <1>5 DEF NamesOwned
  <2> QED
    BY <2>1, <2>2, <2>3 DEF NamesOwned, UserNamed
<1>7. OnlyRegistered'
  BY <1>1, <1>2, <1>3 DEF OnlyRegistered, TypeOK
<1>8. TicketsLive'
  BY <1>1, <1>2 DEF TicketsLive, FreshSession, TypeOK
<1>9. BucketsSound'
  BY <1>1, <1>2 DEF BucketsSound
<1>10. StreamsAuthorized'
  BY <1>1, <1>2 DEF StreamsAuthorized, FreshSession, TypeOK
<1>11. BannedCutOff'
  <2>1. \A b \in Account : banned'[b] => b # a /\ banned[b]
    BY <1>1, <1>2 DEF OnlyRegistered
  <2> QED
    BY <1>1, <1>2, <2>1 DEF BannedCutOff, UserNamed, TicketsOfUser, TypeOK
<1> QED
  BY <1>4, <1>6, <1>7, <1>8, <1>9, <1>10, <1>11 DEF IInv

\* A renamed user takes along sessions and streams; its tickets are purged.
LEMMA RenameInv ==
  ASSUME IInv, NEW a \in Account, NEW next \in Name, Rename(a, next)
  PROVE  IInv'
<1> DEFINE previous == username[a]
<1>1. /\ TypeOK /\ NamesOwned /\ OnlyRegistered /\ TicketsLive /\ BucketsSound
      /\ StreamsAuthorized /\ BannedCutOff
  BY DEF IInv
<1>2. /\ previous # None /\ \A b \in Account \ {a} : username[b] # next
      /\ username' = [username EXCEPT ![a] = next]
      /\ sessions' = [s \in Session |-> IF sessions[s] = previous THEN next ELSE sessions[s]]
      /\ RenameConnections(previous, next)
      /\ eventTickets' = [t \in Ticket |-> IF t \in TicketsOfUser(previous) THEN None
                                           ELSE eventTickets[t]]
      /\ UNCHANGED <<banned, changingPassword>>
  BY DEF Rename, PurgeTickets
<1>3. previous \in Name /\ next # None /\ username[a] = previous
  BY <1>1, <1>2, NoneAssumption DEF TypeOK
<1> HIDE DEF previous
\* Nothing runs under the new name, unless it is the old one.
<1>4. next # previous => onlineConnections[next] = {} /\ \A s \in Session : sessions[s] # next
  BY <1>1, <1>2, <1>3 DEF NamesOwned, UserNamed
<1>5. /\ \A c \in Conn : connections'[c] =
           IF c \in onlineConnections[previous] THEN [connections[c] EXCEPT !.username = next]
                                                ELSE connections[c]
      /\ \A n \in Name : onlineConnections'[n] =
           IF n = next THEN onlineConnections[previous]
           ELSE IF n = previous THEN {} ELSE onlineConnections[n]
      /\ connections' \in [Conn -> Connection \cup {None}]
      /\ onlineConnections' \in [Name -> SUBSET Conn]
  <2>1. CASE onlineConnections[previous] = {}
    BY <1>1, <1>2, <1>3, <1>4, <2>1 DEF RenameConnections, streamVars, TypeOK
  <2>2. CASE onlineConnections[previous] # {}
    <3>1. /\ connections' = [c \in Conn |-> IF c \in onlineConnections[previous]
                               THEN [connections[c] EXCEPT !.username = next] ELSE connections[c]]
          /\ onlineConnections' = [n \in Name |-> IF n = next THEN onlineConnections[previous]
                               ELSE IF n = previous THEN {} ELSE onlineConnections[n]]
      BY <1>2, <2>2 DEF RenameConnections
    <3>2. \A c \in onlineConnections[previous] :
            connections[c] \in Connection /\ [connections[c] EXCEPT !.username = next] \in Connection
      BY <1>1, <1>3 DEF BucketsSound, TypeOK, Connection
    <3> QED
      BY <1>1, <1>3, <3>1, <3>2 DEF TypeOK
  <2> QED
    BY <2>1, <2>2
<1>6. TypeOK'
  BY <1>1, <1>2, <1>5 DEF TypeOK
<1>7. \A b \in Account : username'[b] = IF b = a THEN next ELSE username[b]
  BY <1>1, <1>2 DEF TypeOK
<1>8. \A s \in Session : sessions'[s] = IF sessions[s] = previous THEN next ELSE sessions[s]
  BY <1>2
<1>9. NamesOwned'
  <2>1. \A b, d \in Account : username'[b] = username'[d] /\ username'[b] # None => b = d
    BY <1>1, <1>2, <1>7 DEF NamesOwned
  <2>2. \A n \in Name : n # previous /\ (\E b \in Account : UserNamed(b, n))
                          => \E b \in Account : username'[b] = n /\ n # None
    BY <1>3, <1>7 DEF UserNamed
  <2>3. \A s \in Session : sessions'[s] # None =>
          \E b \in Account : username'[b] = sessions'[s] /\ sessions'[s] # None
    <3> SUFFICES ASSUME NEW s \in Session, sessions'[s] # None
                 PROVE  \E b \in Account : username'[b] = sessions'[s]
      OBVIOUS
    <3>1. CASE sessions[s] = previous
      BY <1>7, <1>8, <3>1
    <3>2. CASE sessions[s] # previous
      <4>1. sessions'[s] = sessions[s] /\ sessions[s] \in Name
        BY <1>1, <1>8, <3>2 DEF TypeOK
      <4> QED
        BY <1>1, <2>2, <3>2, <4>1 DEF NamesOwned
    <3> QED
      BY <3>1, <3>2
  <2>4. \A n \in Name : onlineConnections'[n] # {} => \E b \in Account : username'[b] = n /\ n # None
    <3> SUFFICES ASSUME NEW n \in Name, onlineConnections'[n] # {}
                 PROVE  \E b \in Account : username'[b] = n /\ n # None
      OBVIOUS
    <3>1. CASE n = next
      BY <1>3, <1>7, <3>1
    <3>2. CASE n # next
      BY <1>1, <1>5, <2>2, <3>2 DEF NamesOwned
    <3> QED
      BY <3>1, <3>2
  <2> QED
    BY <2>1, <2>3, <2>4 DEF NamesOwned, UserNamed
<1>10. OnlyRegistered'
  BY <1>1, <1>2, <1>3, <1>7 DEF OnlyRegistered
<1>11. TicketsLive'
  <2> SUFFICES ASSUME NEW t \in Ticket, eventTickets'[t] # None
               PROVE  sessions'[eventTickets'[t].token] = eventTickets'[t].username
    BY DEF TicketsLive
  <2>1. eventTickets'[t] = eventTickets[t] /\ eventTickets[t] # None
          /\ eventTickets[t].username # previous
    BY <1>2 DEF TicketsOfUser
  <2>2. eventTickets[t].token \in Session
    BY <1>1, <2>1 DEF TypeOK, EventTicket
  <2> QED
    BY <1>1, <1>8, <2>1, <2>2 DEF TicketsLive
<1>12. \A c \in onlineConnections[previous] :
         connections[c] \in Connection /\ connections[c].username = previous
  BY <1>1, <1>3 DEF BucketsSound, TypeOK
<1>13. \A c \in Conn : connections[c] # None => connections[c] \in Connection
  BY <1>1 DEF TypeOK
<1>14. BucketsSound'
  <2> SUFFICES ASSUME NEW n \in Name, NEW c \in onlineConnections'[n]
               PROVE  connections'[c] # None /\ connections'[c].username = n
    BY DEF BucketsSound
  <2>1. c \in Conn
    BY <1>5
  <2>2. CASE c \in onlineConnections[previous]
    <3>1. connections'[c] = [connections[c] EXCEPT !.username = next]
      BY <1>5, <2>1, <2>2
    <3>2. connections'[c].username = next
      BY <1>12, <2>2, <3>1 DEF Connection
    <3>3. n = next
      BY <1>1, <1>3, <1>5, <1>12, <2>2 DEF BucketsSound
    <3>4. connections'[c] # None
      <4>1. connections'[c] \in Connection
        BY <1>3, <1>12, <2>2, <3>1 DEF Connection
      <4> QED
        BY <4>1, NoneIsNoConnection
    <3> QED
      BY <3>2, <3>3, <3>4
  <2>3. CASE c \notin onlineConnections[previous]
    BY <1>1, <1>5, <2>1, <2>3 DEF BucketsSound
  <2> QED
    BY <2>2, <2>3
<1>15. StreamsAuthorized'
  <2> SUFFICES ASSUME NEW c \in Conn, connections'[c] # None, connections'[c].stream = "open"
               PROVE  /\ c \in onlineConnections'[connections'[c].username]
                      /\ sessions'[connections'[c].token] = connections'[c].username
    BY DEF StreamsAuthorized
  <2>1. CASE c \in onlineConnections[previous]
    <3>1. connections'[c] = [connections[c] EXCEPT !.username = next]
      BY <1>5, <2>1
    <3>2. /\ connections'[c].username = next /\ connections'[c].token = connections[c].token
          /\ connections[c].stream = "open" /\ connections[c].token \in Session
      BY <1>12, <2>1, <3>1 DEF Connection
    <3>3. sessions[connections[c].token] = previous
      BY <1>1, <1>12, <2>1, <3>2, NoneIsNoConnection DEF StreamsAuthorized
    <3> QED
      BY <1>5, <1>8, <2>1, <3>2, <3>3
  <2>2. CASE c \notin onlineConnections[previous]
    <3>1. connections'[c] = connections[c]
      BY <1>5, <2>2
    <3>2. connections[c].username \in Name /\ connections[c].token \in Session
      BY <1>13, <3>1 DEF Connection
    <3>3. /\ c \in onlineConnections[connections[c].username]
          /\ sessions[connections[c].token] = connections[c].username
      BY <1>1, <3>1 DEF StreamsAuthorized
    <3>4. connections[c].username # previous /\ connections[c].username # next
      BY <1>4, <2>2, <3>2, <3>3
    <3> QED
      BY <1>5, <1>8, <3>1, <3>2, <3>3, <3>4
  <2> QED
    BY <2>1, <2>2
<1>16. BannedCutOff'
  <2>1. \A b \in Account : banned'[b] = banned[b]
    BY <1>2
  <2>2. ASSUME NEW b \in Account, banned'[b], NEW n \in Name, username'[b] = n
        PROVE  onlineConnections'[n] = {}
    <3>1. CASE b = a
      <4>1. n = next
        BY <1>7, <2>2, <3>1
      <4>2. onlineConnections[previous] = {}
        BY <1>1, <1>2, <1>3, <2>1, <2>2, <3>1 DEF BannedCutOff, UserNamed
      <4> QED
        BY <1>5, <4>1, <4>2
    <3>2. CASE b # a
      <4>1. username[b] = n /\ n # next /\ n # previous /\ n # None
        BY <1>1, <1>2, <1>3, <1>7, <2>2, <3>2, NoneAssumption DEF NamesOwned
      <4> QED
        BY <1>1, <1>5, <2>1, <2>2, <4>1 DEF BannedCutOff, UserNamed
    <3> QED
      BY <3>1, <3>2
  <2>3. ASSUME NEW b \in Account, banned'[b], NEW n \in Name, username'[b] = n,
               NEW t \in Ticket, eventTickets'[t] # None, eventTickets'[t].username = n
        PROVE  FALSE
    <3>1. /\ eventTickets[t] = eventTickets'[t] /\ eventTickets[t] # None
          /\ eventTickets[t].username = n /\ n # previous
      BY <1>2, <2>3 DEF TicketsOfUser
    <3>2. CASE b = a
      <4>1. n = next
        BY <1>7, <2>3, <3>2
      <4>2. eventTickets[t].token \in Session
        BY <1>1, <3>1 DEF TypeOK, EventTicket
      <4> QED
        BY <1>1, <1>4, <3>1, <4>1, <4>2 DEF TicketsLive
    <3>3. CASE b # a
      <4>1. username[b] = n /\ n # None
        BY <1>7, <2>3, <3>3, NoneAssumption
      <4> QED
        BY <1>1, <2>1, <2>3, <3>1, <4>1 DEF BannedCutOff, UserNamed, TicketsOfUser
    <3> QED
      BY <3>2, <3>3
  <2> QED
    BY <2>2, <2>3 DEF BannedCutOff, UserNamed, TicketsOfUser
<1> QED
  BY <1>6, <1>9, <1>10, <1>11, <1>14, <1>15, <1>16 DEF IInv

-----------------------------------------------------------------------------

\* A ticket is given to a session that is not banned.
LEMMA CreateTicketInv ==
  ASSUME IInv, NEW s \in Session, NEW t \in Ticket, CreateTicket(s, t)
  PROVE  IInv'
<1>1. /\ TypeOK /\ NamesOwned /\ OnlyRegistered /\ TicketsLive /\ BucketsSound
      /\ StreamsAuthorized /\ BannedCutOff
  BY DEF IInv
<1>2. /\ Authorized(s)
      /\ eventTickets' = [eventTickets EXCEPT ![t] = [username |-> sessions[s], token |-> s]]
      /\ UNCHANGED <<username, banned, changingPassword, sessions, connections, onlineConnections>>
  BY DEF CreateTicket, accountVars, streamVars
<1>3. PICK a \in Account : username[a] = sessions[s] /\ sessions[s] # None /\ ~banned[a]
  BY <1>2 DEF Authorized, UserNamed
<1>4. sessions[s] \in Name
  BY <1>1, <1>3 DEF TypeOK
<1>5. TypeOK'
  <2>1. [username |-> sessions[s], token |-> s] \in EventTicket
    BY <1>4 DEF EventTicket
  <2> QED
    BY <1>1, <1>2, <2>1 DEF TypeOK
<1>6. NamesOwned' /\ OnlyRegistered' /\ BucketsSound' /\ StreamsAuthorized'
  BY <1>1, <1>2 DEF NamesOwned, OnlyRegistered, BucketsSound, StreamsAuthorized, UserNamed
<1>7. TicketsLive'
  BY <1>1, <1>2 DEF TicketsLive, TypeOK
<1>8. BannedCutOff'
  <2> SUFFICES ASSUME NEW b \in Account, banned[b], NEW n \in Name, UserNamed(b, n)
               PROVE  onlineConnections[n] = {} /\ TicketsOfUser(n)' = {}
    BY <1>2 DEF BannedCutOff, UserNamed
  <2>1. n # sessions[s]
    BY <1>1, <1>3 DEF UserNamed, NamesOwned
  <2>2. \A u \in Ticket : eventTickets'[u] # None /\ eventTickets'[u].username = n =>
          eventTickets[u] # None /\ eventTickets[u].username = n
    BY <1>1, <1>2, <2>1 DEF TypeOK
  <2> QED
    BY <1>1, <2>2 DEF BannedCutOff, TicketsOfUser
<1> QED
  BY <1>5, <1>6, <1>7, <1>8 DEF IInv

\* A stream is opened under the name of its session, by a user not banned.
LEMMA OpenStreamInv ==
  ASSUME IInv, NEW t \in Ticket, NEW c \in Conn, OpenStream(t, c)
  PROVE  IInv'
<1> DEFINE e == eventTickets[t]
           k == [username |-> e.username, joined |-> e.username, token |-> e.token,
                 stream |-> "open"]
<1>1. /\ TypeOK /\ NamesOwned /\ OnlyRegistered /\ TicketsLive /\ BucketsSound
      /\ StreamsAuthorized /\ BannedCutOff
  BY DEF IInv
<1>2. /\ e # None /\ StillValid(e) /\ connections[c] = None
      /\ eventTickets' = [u \in Ticket |-> IF u \in {t} THEN None ELSE eventTickets[u]]
      /\ connections' = [connections EXCEPT ![c] = k]
      /\ onlineConnections' =
           [onlineConnections EXCEPT ![e.username] = onlineConnections[e.username] \cup {c}]
      /\ UNCHANGED <<username, banned, changingPassword, sessions>>
  BY DEF OpenStream, PurgeTickets, accountVars
<1>3. e \in EventTicket
  BY <1>1, <1>2 DEF TypeOK
<1> HIDE DEF e
<1>4. e.username \in Name /\ e.token \in Session
  BY <1>3 DEF EventTicket
<1>5. k \in Connection /\ k # None
  <2>1. k \in Connection
    BY <1>4 DEF Connection
  <2> QED
    BY <2>1, NoneIsNoConnection
<1>6. /\ k.username = e.username /\ k.token = e.token
      /\ sessions[e.token] = e.username
      /\ \E a \in Account : UserNamed(a, e.username) /\ ~banned[a]
  BY <1>2 DEF StillValid
<1> HIDE DEF k
<1>7. /\ \A d \in Conn : connections'[d] = IF d = c THEN k ELSE connections[d]
      /\ \A n \in Name : onlineConnections'[n] =
           IF n = e.username THEN onlineConnections[n] \cup {c} ELSE onlineConnections[n]
  BY <1>1, <1>2, <1>4 DEF TypeOK
<1>8. TypeOK'
  BY <1>1, <1>2, <1>4, <1>5 DEF TypeOK
<1>9. NamesOwned' /\ OnlyRegistered'
  BY <1>1, <1>2, <1>6, <1>7 DEF NamesOwned, OnlyRegistered, UserNamed
<1>10. TicketsLive'
  BY <1>1, <1>2 DEF TicketsLive
<1>11. BucketsSound'
  <2> SUFFICES ASSUME NEW n \in Name, NEW d \in onlineConnections'[n]
               PROVE  connections'[d] # None /\ connections'[d].username = n
    BY DEF BucketsSound
  <2>1. d \in Conn
    BY <1>8 DEF TypeOK
  <2>2. CASE d = c
    <3>1. c \notin onlineConnections[n]
      BY <1>1, <1>2 DEF BucketsSound
    <3> QED
      BY <1>5, <1>6, <1>7, <2>1, <2>2, <3>1
  <2>3. CASE d # c
    <3>1. d \in onlineConnections[n] /\ connections'[d] = connections[d]
      BY <1>7, <2>1, <2>3
    <3> QED
      BY <1>1, <3>1 DEF BucketsSound
  <2> QED
    BY <2>2, <2>3
<1>12. StreamsAuthorized'
  <2> SUFFICES ASSUME NEW d \in Conn, connections'[d] # None, connections'[d].stream = "open"
               PROVE  /\ d \in onlineConnections'[connections'[d].username]
                      /\ sessions'[connections'[d].token] = connections'[d].username
    BY DEF StreamsAuthorized
  <2>1. CASE d = c
    BY <1>2, <1>4, <1>6, <1>7, <2>1
  <2>2. CASE d # c
    <3>1. connections'[d] = connections[d]
      BY <1>7, <2>2
    <3>2. connections[d].username \in Name
      BY <1>1, <3>1 DEF TypeOK, Connection
    <3> QED
      BY <1>1, <1>2, <1>7, <3>1, <3>2 DEF StreamsAuthorized
  <2> QED
    BY <2>1, <2>2
<1>13. BannedCutOff'
  <2> SUFFICES ASSUME NEW b \in Account, banned[b], NEW n \in Name, UserNamed(b, n)
               PROVE  onlineConnections'[n] = {} /\ TicketsOfUser(n)' = {}
    BY <1>2 DEF BannedCutOff, UserNamed
  <2>1. n # e.username
    BY <1>1, <1>6 DEF UserNamed, NamesOwned
  <2>2. TicketsOfUser(n)' \subseteq TicketsOfUser(n)
    BY <1>2 DEF TicketsOfUser
  <2> QED
    BY <1>1, <1>7, <2>1, <2>2 DEF BannedCutOff
<1> QED
  BY <1>8, <1>9, <1>10, <1>11, <1>12, <1>13 DEF IInv

\* A closed stream leaves a bucket; if that was not its own, it stays there
\* closed.
LEMMA CloseStreamInv ==
  ASSUME IInv, NEW c \in Conn, CloseStream(c)
  PROVE  IInv'
<1> DEFINE k == connections[c]
           n == BucketName(k)
           left == c \in onlineConnections[k.username] /\ n # k.username
           gone == IF left THEN [k EXCEPT !.stream = "closed"] ELSE None
<1>1. /\ TypeOK /\ NamesOwned /\ OnlyRegistered /\ TicketsLive /\ BucketsSound
      /\ StreamsAuthorized /\ BannedCutOff
  BY DEF IInv
<1>2. /\ k # None
      /\ onlineConnections' = [onlineConnections EXCEPT ![n] = onlineConnections[n] \ {c}]
      /\ connections' = [connections EXCEPT ![c] = gone]
      /\ UNCHANGED <<username, banned, changingPassword, sessions, eventTickets>>
  BY DEF CloseStream, accountVars
<1>3. k \in Connection
  BY <1>1, <1>2 DEF TypeOK
<1>4. n \in Name
  BY <1>3 DEF BucketName, Connection
<1>5. /\ gone \in Connection \cup {None}
      /\ left => gone # None /\ gone.username = k.username
      /\ gone # None => gone.stream # "open"
  <2>1. /\ [k EXCEPT !.stream = "closed"] \in Connection
        /\ [k EXCEPT !.stream = "closed"].username = k.username
        /\ [k EXCEPT !.stream = "closed"].stream = "closed"
    BY <1>3 DEF Connection
  <2> QED
    BY <2>1, NoneIsNoConnection
<1>6. \A m \in Name : c \in onlineConnections[m] => m = k.username
  BY <1>1 DEF BucketsSound
<1>7. ~left => \A m \in Name : c \in onlineConnections[m] => m = n
  BY <1>6
<1> HIDE DEF k, n, left, gone
<1>8. /\ \A d \in Conn : connections'[d] = IF d = c THEN gone ELSE connections[d]
      /\ \A m \in Name : onlineConnections'[m] =
           IF m = n THEN onlineConnections[m] \ {c} ELSE onlineConnections[m]
  BY <1>1, <1>2, <1>4 DEF TypeOK
<1>9. TypeOK'
  BY <1>1, <1>2, <1>4, <1>5 DEF TypeOK
<1>10. NamesOwned' /\ OnlyRegistered' /\ TicketsLive'
  <2>1. \A m \in Name : onlineConnections'[m] \subseteq onlineConnections[m]
    BY <1>8
  <2>2. NamesOwned'
    BY <1>1, <1>2, <2>1 DEF NamesOwned, UserNamed
  <2> QED
    BY <1>1, <1>2, <2>2 DEF OnlyRegistered, TicketsLive
<1>11. BucketsSound'
  <2> SUFFICES ASSUME NEW m \in Name, NEW d \in onlineConnections'[m]
               PROVE  connections'[d] # None /\ connections'[d].username = m
    BY DEF BucketsSound
  <2>1. d \in onlineConnections[m] /\ d \in Conn /\ (m = n => d # c)
    BY <1>1, <1>8 DEF TypeOK
  <2>2. CASE d = c
    BY <1>5, <1>6, <1>7, <1>8, <2>1, <2>2
  <2>3. CASE d # c
    BY <1>1, <1>8, <2>1, <2>3 DEF BucketsSound
  <2> QED
    BY <2>2, <2>3
<1>12. StreamsAuthorized'
  <2> SUFFICES ASSUME NEW d \in Conn, connections'[d] # None, connections'[d].stream = "open"
               PROVE  /\ d \in onlineConnections'[connections'[d].username]
                      /\ sessions'[connections'[d].token] = connections'[d].username
    BY DEF StreamsAuthorized
  <2>1. d # c /\ connections'[d] = connections[d]
    BY <1>5, <1>8
  <2>2. connections[d].username \in Name
    BY <1>1, <2>1 DEF TypeOK, Connection
  <2> QED
    BY <1>1, <1>2, <1>8, <2>1, <2>2 DEF StreamsAuthorized
<1>13. BannedCutOff'
  <2>1. \A m \in Name : onlineConnections'[m] \subseteq onlineConnections[m]
    BY <1>8
  <2> QED
    BY <1>1, <1>2, <2>1 DEF BannedCutOff, UserNamed, TicketsOfUser
<1> QED
  BY <1>9, <1>10, <1>11, <1>12, <1>13 DEF IInv

-----------------------------------------------------------------------------

LEMMA NextInv == IInv /\ [Next]_vars => IInv'
<1> SUFFICES ASSUME IInv, [Next]_vars PROVE IInv'
  OBVIOUS
<1>1. ASSUME NEW a \in Account, NEW s \in Session, BeginPassword(s, a) PROVE IInv'
  <2>1. username[a] # None
    BY <1>1 DEF BeginPassword, UserNamed
  <2> QED
    BY <1>1, <2>1, AccountOnlyInv DEF BeginPassword, IInv, TypeOK, OnlyRegistered
<1>2. ASSUME NEW a \in Account, Unban(a) PROVE IInv'
  BY <1>2, AccountOnlyInv DEF Unban, IInv, TypeOK, OnlyRegistered
<1>3. CASE Accounts
  BY <1>1, <1>2, <1>3, RegisterInv, LoginInv, FinishPasswordInv, EndSessionInv, RefuseBannedInv,
     LogoutAllInv, BanInv, RenameInv DEF Accounts
<1>4. CASE Streams
  BY <1>4, CreateTicketInv, OpenStreamInv, DropTicketInv, CloseStreamInv DEF Streams
<1>5. CASE UNCHANGED vars
  BY <1>5, AccountOnlyInv DEF vars, accountVars, streamVars, IInv, TypeOK, OnlyRegistered
<1> QED
  BY <1>3, <1>4, <1>5 DEF Next

\* The inductive invariant holds in every state the server can reach, for
\* every number of accounts, names, sessions, tickets and streams.
THEOREM Invariance == Spec => []IInv
BY InitInv, NextInv, PTL DEF Spec

\* Every variable keeps its type.
THEOREM TypeCorrect == Spec => []TypeOK
<1>1. IInv => TypeOK
  BY DEF IInv
<1> QED
  BY <1>1, Invariance, PTL

\* Every open stream belongs to a live session and is kept under the name
\* that session has, whatever logins, revocations, renames and bans happen.
THEOREM Streaming == Spec => []StreamsAuthorized
<1>1. IInv => StreamsAuthorized
  BY DEF IInv
<1> QED
  BY <1>1, Invariance, PTL

\* No event ticket outlives its session or the name of its user.
THEOREM Ticketing == Spec => []TicketsLive
<1>1. IInv => TicketsLive
  BY DEF IInv
<1> QED
  BY <1>1, Invariance, PTL

\* A banned account has neither streams nor tickets.
THEOREM Banning == Spec => []BannedCutOff
<1>1. IInv => BannedCutOff
  BY DEF IInv
<1> QED
  BY <1>1, Invariance, PTL

\* A stream is in no bucket but that of its own username.
THEOREM Bucketing == Spec => []BucketsSound
<1>1. IInv => BucketsSound
  BY DEF IInv
<1> QED
  BY <1>1, Invariance, PTL

\* Sessions and buckets exist only under the name of an account, and no two
\* accounts share a name.
THEOREM Naming == Spec => []NamesOwned
<1>1. IInv => NamesOwned
  BY DEF IInv
<1> QED
  BY <1>1, Invariance, PTL

-----------------------------------------------------------------------------
(* The buckets: how large they grow, and what stays in them.               *)

\* Every bucket after the step is part of one before it, and the streams in
\* it neither closed nor opened in the step.
BucketsKept ==
  \A n \in Name : \E m \in Name :
    /\ onlineConnections'[n] \subseteq onlineConnections[m]
    /\ \A c \in onlineConnections'[n] :
         connections'[c] # None =>
           connections[c] # None /\ connections'[c].stream = connections[c].stream

LEMMA KeptIfUnchanged ==
  ASSUME UNCHANGED streamVars
  PROVE  BucketsKept
  BY DEF BucketsKept, streamVars

LEMMA KeptIfEnded ==
  ASSUME TypeOK, NEW C, EndConnections(C)
  PROVE  BucketsKept
<1> SUFFICES ASSUME NEW n \in Name
             PROVE  /\ onlineConnections'[n] \subseteq onlineConnections[n]
                    /\ \A c \in onlineConnections'[n] : connections'[c] = connections[c]
  BY DEF BucketsKept
<1> QED
  BY DEF EndConnections, TypeOK

LEMMA KeptByRename ==
  ASSUME IInv, NEW a \in Account, NEW next \in Name, Rename(a, next)
  PROVE  BucketsKept
<1> DEFINE previous == username[a]
<1>1. TypeOK /\ BucketsSound /\ previous \in Name /\ RenameConnections(previous, next)
  BY DEF IInv, TypeOK, Rename
<1> HIDE DEF previous
<1>2. CASE onlineConnections[previous] = {}
  BY <1>1, <1>2, KeptIfUnchanged DEF RenameConnections
<1>3. CASE onlineConnections[previous] # {}
  <2>1. /\ \A c \in Conn : connections'[c] = IF c \in onlineConnections[previous]
                                              THEN [connections[c] EXCEPT !.username = next]
                                              ELSE connections[c]
        /\ \A n \in Name : onlineConnections'[n] =
             IF n = next THEN onlineConnections[previous]
             ELSE IF n = previous THEN {} ELSE onlineConnections[n]
    BY <1>1, <1>3 DEF RenameConnections
  <2>2. ASSUME NEW c \in Conn, connections[c] # None
        PROVE  connections'[c].stream = connections[c].stream
    BY <1>1, <2>1, <2>2 DEF TypeOK, Connection
  <2>3. ASSUME NEW m \in Name, NEW c \in onlineConnections[m]
        PROVE  connections[c] # None /\ c \in Conn
    BY <1>1, <2>3 DEF TypeOK, BucketsSound
  <2>4. ASSUME NEW n \in Name
        PROVE  \E m \in Name : onlineConnections'[n] \subseteq onlineConnections[m]
    BY <1>1, <2>1
  <2> QED
    BY <2>2, <2>3, <2>4 DEF BucketsKept
<1> QED
  BY <1>2, <1>3

\* Only opening and closing a stream change what a bucket holds otherwise.
LEMMA KeptOtherwise ==
  ASSUME IInv, [Next]_vars
  PROVE  \/ BucketsKept
         \/ \E t \in Ticket, c \in Conn : OpenStream(t, c)
         \/ \E c \in Conn : CloseStream(c)
<1>1. TypeOK
  BY DEF IInv
<1>2. ASSUME NEW s \in Session, EndSession(s) PROVE BucketsKept
  BY <1>1, <1>2, KeptIfEnded DEF EndSession, DisconnectSession
<1>3. ASSUME NEW s \in Session, LogoutAll(s) PROVE BucketsKept
  BY <1>1, <1>3, KeptIfEnded DEF LogoutAll, CutOff, DisconnectUser
<1>4. ASSUME NEW a \in Account, NEW s \in Session, FinishPassword(a, s) PROVE BucketsKept
  BY <1>1, <1>4, KeptIfEnded DEF FinishPassword, DisconnectUser
<1>5. ASSUME NEW a \in Account, Ban(a) PROVE BucketsKept
  BY <1>1, <1>5, KeptIfEnded DEF Ban, CutOff, DisconnectUser
<1>6. ASSUME NEW s \in Session, NEW a \in Account, NEW n \in Name, Register(a, n, s)
      PROVE  BucketsKept
  BY <1>6, KeptIfUnchanged DEF Register, streamVars
<1>7. ASSUME NEW s \in Session, RefuseBanned(s) PROVE BucketsKept
  BY <1>7, KeptIfUnchanged DEF RefuseBanned, streamVars
<1>8. ASSUME NEW a \in Account, Unban(a) PROVE BucketsKept
  BY <1>8, KeptIfUnchanged DEF Unban, streamVars
<1>9. ASSUME NEW t \in Ticket,
             DropTicket(t) \/ \E s \in Session : CreateTicket(s, t)
      PROVE  BucketsKept
  BY <1>9, KeptIfUnchanged DEF DropTicket, CreateTicket, streamVars
<1>10. CASE Accounts
  <2>1. ASSUME NEW a \in Account, NEW s \in Session, Login(a, s) \/ BeginPassword(s, a)
        PROVE  BucketsKept
    BY <2>1, KeptIfUnchanged DEF Login, BeginPassword, streamVars
  <2> QED
    BY <1>2, <1>3, <1>4, <1>5, <1>6, <1>7, <1>8, <1>10, <2>1, KeptByRename DEF Accounts
<1>11. CASE Streams
  BY <1>9, <1>11 DEF Streams
<1>12. CASE UNCHANGED vars
  BY <1>12, KeptIfUnchanged DEF vars, streamVars
<1> QED
  BY <1>10, <1>11, <1>12 DEF Next

\* A bucket is finite, and no larger than the limit.
BucketLimited(B) == IsFiniteSet(B) /\ Cardinality(B) <= MaxConnections

LimitInv == \A n \in Name : BucketLimited(onlineConnections[n])

LEMMA PartLimited ==
  ASSUME NEW B, NEW C, BucketLimited(B), C \subseteq B
  PROVE  BucketLimited(C)
<1>1. IsFiniteSet(C) /\ Cardinality(C) <= Cardinality(B)
  BY FS_Subset DEF BucketLimited
<1>2. Cardinality(C) \in Nat /\ Cardinality(B) \in Nat
  BY <1>1, FS_CardinalityType DEF BucketLimited
<1> QED
  BY <1>1, <1>2, MaxConnectionsAssumption DEF BucketLimited

LEMMA OneMoreLimited ==
  ASSUME NEW B, NEW c, BucketLimited(B), Cardinality(B) < MaxConnections
  PROVE  BucketLimited(B \cup {c})
<1>1. IsFiniteSet(B) /\ Cardinality(B) \in Nat
  BY FS_CardinalityType DEF BucketLimited
<1>2. /\ IsFiniteSet(B \cup {c})
      /\ Cardinality(B \cup {c}) = IF c \in B THEN Cardinality(B) ELSE Cardinality(B) + 1
  BY <1>1, FS_AddElement
<1> QED
  BY <1>1, <1>2, MaxConnectionsAssumption DEF BucketLimited

\* Neither a ticket that was issued earlier nor a bucket that a rename moved
\* gets a user past the limit: it is checked again when the stream opens.
LEMMA LimitStep == IInv /\ LimitInv /\ [Next]_vars => LimitInv'
<1> SUFFICES ASSUME IInv, LimitInv, [Next]_vars, NEW n \in Name
             PROVE  BucketLimited(onlineConnections'[n])
  BY DEF LimitInv, BucketLimited
<1>1. CASE BucketsKept
  BY <1>1, PartLimited DEF BucketsKept, LimitInv
<1>2. ASSUME NEW t \in Ticket, NEW c \in Conn, OpenStream(t, c)
      PROVE  BucketLimited(onlineConnections'[n])
  <2> DEFINE m == eventTickets[t].username
             B == onlineConnections[m]
  <2>1. m \in Name /\ HasRoom(m)
    BY <1>2 DEF IInv, TypeOK, OpenStream, StillValid, EventTicket
  <2>2. BucketLimited(B \cup {c})
    BY <2>1, OneMoreLimited DEF LimitInv, HasRoom
  <2>3. onlineConnections'[n] = IF n = m THEN B \cup {c} ELSE onlineConnections[n]
    BY <1>2, <2>1 DEF OpenStream, IInv, TypeOK
  <2> QED
    BY <2>2, <2>3 DEF LimitInv
<1>3. ASSUME NEW c \in Conn, CloseStream(c)
      PROVE  BucketLimited(onlineConnections'[n])
  <2>1. onlineConnections'[n] \subseteq onlineConnections[n]
    BY <1>3 DEF CloseStream, IInv, TypeOK
  <2> QED
    BY <2>1, PartLimited DEF LimitInv
<1> QED
  BY <1>1, <1>2, <1>3, KeptOtherwise

\* No user has more streams than the limit: handleEvents looks again, after
\* whatever happened since the ticket was issued.
THEOREM Limiting == Spec => []LimitRespected
<1>1. Init => LimitInv
  BY FS_EmptySet, MaxConnectionsAssumption DEF Init, LimitInv, BucketLimited
<1>2. LimitInv => LimitRespected
  BY DEF LimitInv, BucketLimited, LimitRespected
<1> QED
  BY <1>1, <1>2, LimitStep, Invariance, PTL DEF Spec

\* A stream that closes leaves its own bucket, unless somebody has the name it
\* joined under.
LEMMA GhostStep == IInv /\ NoReuse /\ NoGhosts /\ [Next]_vars => NoGhosts'
<1> SUFFICES ASSUME IInv, NoReuse, NoGhosts, [Next]_vars,
                    NEW n \in Name, NEW c \in onlineConnections'[n], connections'[c] # None
             PROVE  connections'[c].stream # "closed"
  BY DEF NoGhosts
<1>1. TypeOK /\ BucketsSound /\ NamesOwned
  BY DEF IInv
<1>2. CASE BucketsKept
  BY <1>2 DEF BucketsKept, NoGhosts
<1>3. ASSUME NEW t \in Ticket, NEW d \in Conn, OpenStream(t, d)
      PROVE  connections'[c].stream # "closed"
  <2>1. connections'[d].stream = "open"
    BY <1>1, <1>3 DEF OpenStream, TypeOK
  <2>2. eventTickets[t].username \in Name
    BY <1>1, <1>3 DEF OpenStream, TypeOK, EventTicket
  <2>3. c # d => c \in onlineConnections[n] /\ connections'[c] = connections[c]
    BY <1>1, <1>3, <2>2 DEF OpenStream, TypeOK
  <2> QED
    BY <2>1, <2>3 DEF NoGhosts
<1>4. ASSUME NEW d \in Conn, CloseStream(d)
      PROVE  connections'[c].stream # "closed"
  <2> DEFINE k == connections[d]
             left == d \in onlineConnections[k.username] /\ BucketName(k) # k.username
  <2>1. k # None /\ k \in Connection
    BY <1>1, <1>4 DEF CloseStream, TypeOK
  <2>2. /\ onlineConnections' = [onlineConnections EXCEPT
             ![BucketName(k)] = onlineConnections[BucketName(k)] \ {d}]
        /\ connections' = [connections EXCEPT
             ![d] = IF left THEN [k EXCEPT !.stream = "closed"] ELSE None]
    BY <1>4 DEF CloseStream
  <2>3. ~left
    <3> SUFFICES ASSUME left PROVE FALSE
      OBVIOUS
    <3>1. k.joined # k.username /\ onlineConnections[k.joined] # {} /\ k.joined \in Name
      BY <2>1 DEF BucketName, Connection
    <3>2. PICK a \in Account : UserNamed(a, k.joined)
      BY <1>1, <3>1 DEF NamesOwned
    <3> QED
      BY <2>1, <3>1, <3>2 DEF NoReuse, UserNamed
  <2>4. connections'[d] = None
    BY <1>1, <2>2, <2>3 DEF TypeOK
  <2>5. c # d /\ c \in onlineConnections[n] /\ c \in Conn
    BY <1>1, <2>2, <2>4 DEF TypeOK
  <2>6. connections'[c] = connections[c]
    BY <1>1, <2>2, <2>5 DEF TypeOK
  <2> QED
    BY <2>5, <2>6 DEF NoGhosts
<1> QED
  BY <1>2, <1>3, <1>4, KeptOtherwise

\* A closed stream neither keeps its user online nor counts against the limit,
\* as long as nobody takes a name that the stream of a renamed user remembers.
\* Without that hypothesis it does: the run streams_reuse shows how.
THEOREM NoPhantoms == Spec /\ []NoReuse => []NoGhosts
<1>1. Init => NoGhosts
  BY DEF Init, NoGhosts
<1> QED
  BY <1>1, GhostStep, Invariance, PTL DEF Spec
=============================================================================
