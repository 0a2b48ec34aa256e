---------------------------- MODULE MCServerProofs ---------------------------
(***************************************************************************)
(* What is proved of the parts of the server, for the server as it is      *)
(* composed for TLC: names, contacts and presence, the access log, and the *)
(* file of the sessions.  The steps of the other parts leave the variables *)
(* of a part alone, so that the steps of the server are steps of the part  *)
(* or stutter, and its properties hold for all values of the constants.    *)
(* The access log is proved here, the other parts in modules of their own. *)
(***************************************************************************)
EXTENDS MCServer, SequenceTheorems, FiniteSetTheorems, TLAPS

NamesProved == INSTANCE UserNamesProofs WITH
  MaxRenames <- NamesRenames, MaxStops <- NamesStops, dirty <- namesDirty, stops <- namesStops

RelationsProved == INSTANCE RelationshipsProofs

SessionsProved == INSTANCE SessionFileProofs WITH
  MaxFails <- SessionsFails, MaxStops <- SessionsStops, dirty <- sessionsDirty,
  stops <- sessionsStops

-----------------------------------------------------------------------------
(* The names of the accounts.                                              *)

\* Names and NamesProved are one module with one set of variables and constants.
LEMMA NamesAreProved ==
  /\ Names!NamesAssumption <=> NamesProved!NamesAssumption
  /\ Names!Init => NamesProved!Init
  /\ [Names!Next]_(Names!vars) => [NamesProved!Next]_(NamesProved!vars)
  /\ NamesProved!TypeOK => Names!TypeOK
  /\ NamesProved!NamesBelong => Names!NamesBelong
<1>1. Names!NamesAssumption <=> NamesProved!NamesAssumption
  BY DEF
         Names!NamesAssumption, Names!NoName,
         NamesProved!NamesAssumption, NamesProved!NoName
<1>2. Names!Init => NamesProved!Init
  BY DEF
         Names!Init, Names!NoName, Names!NoUser, Names!Kept,
         NamesProved!Init, NamesProved!NoName, NamesProved!NoUser, NamesProved!Kept
<1>3. [Names!Next]_(Names!vars) => [NamesProved!Next]_(NamesProved!vars)
  BY DEF
         Names!Next, Names!NoName, Names!vars, Names!NoUser, Names!NameOf, Names!Taken,
         Names!Kept, Names!RegisterChecked, Names!Registered, Names!Block, Names!RenamedBlocks,
         Names!RenameStarted, Names!RenameSaved, Names!RenameFailed, Names!Unknown,
         Names!Flushed, Names!Flush, Names!Load, Names!Stop, Names!Crash,
         NamesProved!Next, NamesProved!NoName, NamesProved!vars, NamesProved!NoUser,
         NamesProved!NameOf, NamesProved!Taken, NamesProved!Kept, NamesProved!RegisterChecked,
         NamesProved!Registered, NamesProved!Block, NamesProved!RenamedBlocks,
         NamesProved!RenameStarted, NamesProved!RenameSaved, NamesProved!RenameFailed,
         NamesProved!Unknown, NamesProved!Flushed, NamesProved!Flush, NamesProved!Load,
         NamesProved!Stop, NamesProved!Crash
<1>4. NamesProved!TypeOK => Names!TypeOK
  BY DEF
         Names!TypeOK, Names!NoName,
         NamesProved!TypeOK, NamesProved!NoName
<1>5. NamesProved!NamesBelong => Names!NamesBelong
  BY DEF
         Names!NamesBelong, Names!OneAccountPerName, Names!BlocksFollow, Names!HistoryFollows,
         Names!NameOf, Names!NoName,
         NamesProved!NamesBelong, NamesProved!OneAccountPerName, NamesProved!BlocksFollow,
         NamesProved!HistoryFollows, NamesProved!NameOf, NamesProved!NoName
<1> QED
  BY <1>1, <1>2, <1>3, <1>4, <1>5

\* The server takes steps of the names, or leaves their variables alone.
LEMMA WholeNames ==
  /\ Init => Names!Init
  /\ [Next]_vars => [Names!Next]_(Names!vars)
<1>1. NamesStep => Names!Next
  BY DEF NamesStep
<1>2. ASSUME UNCHANGED namesVars PROVE UNCHANGED Names!vars
  BY <1>2 DEF namesVars, Names!vars
<1>3. RelationsStep \/ LogStep \/ SessionsStep \/ UNCHANGED vars => UNCHANGED namesVars
  BY DEF RelationsStep, LogStep, SessionsStep, vars
<1> QED
  BY <1>1, <1>2, <1>3 DEF Init, Next

\* handleRegister, handleAdminUserPatch, handleContactBlock: no two accounts have one
\* name, a block follows its account and hits nobody else, and messages and
\* sessions stay those of their account, for all accounts, names, renames and stops.
THEOREM Belonging == Spec => []NamesBelong
<1>1. NamesProved!Spec => []NamesProved!NamesBelong
  BY ServerAssumption, NamesAreProved, NamesProved!Belonging DEF ServerAssumption
<1>2. Spec => NamesProved!Spec
  BY WholeNames, NamesAreProved, PTL DEF Spec, NamesProved!Spec
<1>3. NamesProved!NamesBelong => NamesBelong
  BY NamesAreProved DEF NamesBelong
<1> QED
  BY <1>1, <1>2, <1>3, PTL

-----------------------------------------------------------------------------
(* Contacts, blocks and presence.                                          *)

\* Relations and RelationsProved are one module with one set of variables and constants.
LEMMA RelationsAreProved ==
  /\ Relations!Init => RelationsProved!Init
  /\ [Relations!Next]_(Relations!vars) => [RelationsProved!Next]_(RelationsProved!vars)
  /\ RelationsProved!TypeOK => Relations!TypeOK
  /\ RelationsProved!BlocksAreRespected => Relations!BlocksAreRespected
<1>1. Relations!Init => RelationsProved!Init
  BY DEF
         Relations!Init, Relations!NoEntry, Relations!Pair,
         RelationsProved!Init, RelationsProved!NoEntry, RelationsProved!Pair
<1>2. [Relations!Next]_(Relations!vars) => [RelationsProved!Next]_(RelationsProved!vars)
  BY DEF
         Relations!Next, Relations!vars, Relations!NoEntry, Relations!Pair, Relations!Online,
         Relations!Visible, Relations!PushPresence, Relations!Between, Relations!Marked,
         Relations!Opened, Relations!Open, Relations!Close, Relations!SetShows,
         Relations!StateFor, Relations!SetState, Relations!Create, Relations!Patch,
         Relations!Delete, Relations!SetBlock, Relations!Send, Relations!Settle,
         Relations!Restart, RelationsProved!Next, RelationsProved!vars, RelationsProved!NoEntry,
         RelationsProved!Pair, RelationsProved!Online, RelationsProved!Visible,
         RelationsProved!PushPresence, RelationsProved!Between, RelationsProved!Marked,
         RelationsProved!Opened, RelationsProved!Open, RelationsProved!Close,
         RelationsProved!SetShows, RelationsProved!StateFor, RelationsProved!SetState,
         RelationsProved!Create, RelationsProved!Patch, RelationsProved!Delete,
         RelationsProved!SetBlock, RelationsProved!Send, RelationsProved!Settle,
         RelationsProved!Restart
<1>3. RelationsProved!TypeOK => Relations!TypeOK
  BY DEF
         Relations!TypeOK, Relations!Pair,
         RelationsProved!TypeOK, RelationsProved!Pair
<1>4. RelationsProved!BlocksAreRespected => Relations!BlocksAreRespected
  BY DEF
         Relations!BlocksAreRespected, Relations!Withheld, Relations!Announced,
         Relations!AskedIsKept, Relations!StateFor, Relations!EntriesAgree,
         Relations!WaitsForAReason, Relations!WithheldStays, Relations!Online, Relations!Visible,
         Relations!Pair, RelationsProved!BlocksAreRespected, RelationsProved!Withheld,
         RelationsProved!Announced, RelationsProved!AskedIsKept, RelationsProved!StateFor,
         RelationsProved!EntriesAgree, RelationsProved!WaitsForAReason,
         RelationsProved!WithheldStays, RelationsProved!Online, RelationsProved!Visible,
         RelationsProved!Pair
<1> QED
  BY <1>1, <1>2, <1>3, <1>4

\* The server takes steps of contacts and presence, or leaves their variables alone.
LEMMA WholeRelations ==
  /\ Init => Relations!Init
  /\ [Next]_vars => [Relations!Next]_(Relations!vars)
<1>1. RelationsStep => Relations!Next
  BY DEF RelationsStep
<1>2. ASSUME UNCHANGED relationsVars PROVE UNCHANGED Relations!vars
  BY <1>2 DEF relationsVars, Relations!vars
<1>3. NamesStep \/ LogStep \/ SessionsStep \/ UNCHANGED vars => UNCHANGED relationsVars
  BY DEF NamesStep, LogStep, SessionsStep, vars
<1> QED
  BY <1>1, <1>2, <1>3 DEF Init, Next

\* pushPresence, setRelationshipState, markPendingDeliveries: what a stream last
\* heard of somebody is "online" only while the rules let its user see that, whoever
\* may be seen is announced, a contact is blocked or muted exactly while its owner
\* asks for that, and a message waits for somebody who is there only if a block
\* withheld it, for any number of users and streams and through any restarts.
THEOREM Blocking == Spec => []BlocksAreRespected
<1>1. Spec => RelationsProved!Spec
  BY WholeRelations, RelationsAreProved, PTL DEF Spec, RelationsProved!Spec
<1>2. RelationsProved!BlocksAreRespected => BlocksAreRespected
  BY RelationsAreProved DEF BlocksAreRespected
<1> QED
  BY <1>1, <1>2, RelationsProved!Blocking, PTL

-----------------------------------------------------------------------------
(* The access log.                                                         *)

\* A part of a sequence, by its places.
LEMMA LogSlice ==
  ASSUME NEW S, NEW s \in Seq(S), NEW m \in 1..Len(s) + 1, NEW n \in m - 1..Len(s)
  PROVE  /\ SubSeq(s, m, n) \in Seq(S) /\ Len(SubSeq(s, m, n)) = n - m + 1
         /\ \A i \in 1..n - m + 1 : SubSeq(s, m, n)[i] = s[m + i - 1]
<1>1. Len(s) \in Nat /\ m \in Int /\ n \in Int /\ n - m + 1 >= 0 /\ \A i \in m..n : s[i] \in S
  OBVIOUS
<1>2. /\ SubSeq(s, m, n) \in Seq(S)
      /\ Len(SubSeq(s, m, n)) = IF m <= n THEN n - m + 1 ELSE 0
      /\ \A i \in 1..n - m + 1 : SubSeq(s, m, n)[i] = s[m + i - 1]
  BY <1>1, SubSeqProperties
<1> QED
  BY <1>1, <1>2

\* What waits on the way to the table has a type: rows and client data.
LEMMA LogItemTypes ==
  ASSUME Log!Types
  PROVE  /\ \A k \in Log!Logs(queue) : k \in DOMAIN queue /\ queue[k] \in Log!Rows
         /\ \A k \in Log!Metas(queue) : k \in DOMAIN queue /\ queue[k] \in Log!Data
         /\ \A k \in Log!Unwritten :
              k \in Nat /\ k \in DOMAIN flush.batch /\ flush.batch[k] \in Log!Rows
         /\ \A k \in Log!Unapplied :
              k \in Nat /\ k \in DOMAIN flush.batch /\ flush.batch[k] \in Log!Data
         /\ \A k \in DOMAIN table : table[k] \in Log!Rows
<1>1. \A k \in DOMAIN queue : queue[k] \in Log!Rows \cup Log!Data
  BY DEF Log!Types
<1>2. flush.batch \in Seq(Log!Rows \cup Log!Data) /\ table \in Seq(Log!Rows)
  BY DEF Log!Types
<1>3. \A k \in DOMAIN flush.batch : k \in Nat /\ flush.batch[k] \in Log!Rows \cup Log!Data
  BY <1>2
<1>4. \A k \in DOMAIN table : table[k] \in Log!Rows
  BY <1>2
<1>5. \A x \in Log!Rows : x.type = "log"
  BY DEF Log!Rows
<1>6. \A x \in Log!Data : x.type = "client-meta"
  BY DEF Log!Data
<1> QED
  BY <1>1, <1>3, <1>4, <1>5, <1>6 DEF Log!Logs, Log!Metas, Log!Unwritten, Log!Unapplied

\* An item that is appended is the last one.
LEMMA LogAppendItem ==
  ASSUME NEW s \in Seq(Log!Rows \cup Log!Data), NEW e \in Log!Rows \cup Log!Data
  PROVE  LET t == Append(s, e) IN
         /\ t \in Seq(Log!Rows \cup Log!Data) /\ Len(t) = Len(s) + 1
         /\ DOMAIN t = DOMAIN s \cup {Len(s) + 1} /\ t[Len(s) + 1] = e
         /\ \A k \in DOMAIN s : t[k] = s[k] /\ k < Len(s) + 1
         /\ e \in Log!Rows =>
              Log!Logs(t) = Log!Logs(s) \cup {Len(s) + 1} /\ Log!Metas(t) = Log!Metas(s)
         /\ e \in Log!Data =>
              Log!Logs(t) = Log!Logs(s) /\ Log!Metas(t) = Log!Metas(s) \cup {Len(s) + 1}
<1> DEFINE t == Append(s, e)
<1>1. t \in Seq(Log!Rows \cup Log!Data) /\ Len(t) = Len(s) + 1
  OBVIOUS
<1>2. DOMAIN t = DOMAIN s \cup {Len(s) + 1} /\ t[Len(s) + 1] = e
  OBVIOUS
<1>3. \A k \in DOMAIN s : t[k] = s[k] /\ k < Len(s) + 1
  OBVIOUS
<1> HIDE DEF t
<1>4. e \in Log!Rows => e.type = "log"
  BY DEF Log!Rows
<1>5. e \in Log!Data => e.type = "client-meta"
  BY DEF Log!Data
<1>6. e \in Log!Rows => Log!Logs(t) = Log!Logs(s) \cup {Len(s) + 1} /\ Log!Metas(t) = Log!Metas(s)
  BY <1>2, <1>3, <1>4 DEF Log!Logs, Log!Metas
<1>7. e \in Log!Data => Log!Logs(t) = Log!Logs(s) /\ Log!Metas(t) = Log!Metas(s) \cup {Len(s) + 1}
  BY <1>2, <1>3, <1>5 DEF Log!Logs, Log!Metas
<1> QED
  BY <1>1, <1>2, <1>3, <1>6, <1>7 DEF t

-----------------------------------------------------------------------------
(* Requests.                                                               *)

\* A request keeps a name that its user has.
LEMMA LogBeginRequestInv ==
  ASSUME Log!AccessLogAssumption, Log!Orderly, Log!BeginRequest
  PROVE  Log!Orderly'
<1>1. /\ UNCHANGED <<queue, processing, flush, table, saved, metaOf, name, renaming, closing, rows,
                     droppedRows, refused, unlogged, lost, due, faults>>
      /\ UNCHANGED <<Log!Unwritten, Log!Unapplied>>
      /\ requests' = Append(requests, name)
  BY DEF Log!BeginRequest, Log!Unwritten, Log!Unapplied
<1>2. \A k \in DOMAIN requests' : requests'[k] \in 1..name
  <2>1. requests \in Seq(Nat) /\ name \in 1..name /\ \A k \in DOMAIN requests :
          requests[k] \in 1..name
    BY DEF Log!Orderly, Log!Types, Log!Numbered
  <2> QED
    BY <1>1, <2>1
<1>3. Log!Types'
  BY <1>1 DEF Log!Orderly, Log!Types
<1>4. Log!TypeOK' /\ Log!QueueIsServed' /\ Log!RollbackCuts' /\ Log!FailedBatchIsGone'
  BY <1>1 DEF Log!Orderly, Log!TypeOK, Log!QueueIsServed, Log!RollbackCuts,
              Log!FailedBatchIsGone, Log!IdsOf, Log!NoFlush
<1>5. Log!WrittenOnce' /\ Log!LostIsGone' /\ Log!UpdatesLead'
  BY <1>1 DEF Log!Orderly, Log!WrittenOnce, Log!LostIsGone, Log!UpdatesLead, Log!Logs
<1>6. Log!Numbered'
  BY <1>1, <1>2 DEF Log!Orderly, Log!Numbered, Log!Logs
<1>7. Log!MetaFollows'
  BY <1>1 DEF Log!Orderly, Log!MetaFollows, Log!Coming, Log!Logs, Log!Metas, Log!Contains
<1> QED
  BY <1>3, <1>4, <1>5, <1>6, <1>7 DEF Log!Orderly

\* A row that is queued is numbered after all others, and has the client data of
\* its session if that is remembered.
LEMMA LogFinishRequestInv ==
  ASSUME Log!AccessLogAssumption, Log!Orderly, NEW s \in Session, Log!FinishRequest(s)
  PROVE  Log!Orderly'
<1> DEFINE e == Log!Log(rows + 1, Head(requests), s, Log!Contains(metaOf, s))
<1>1. UNCHANGED <<flush, table, saved, metaOf, name, renaming, closing, lost, due, faults>>
  BY DEF Log!FinishRequest
<1>2. UNCHANGED <<Log!Unwritten, Log!Unapplied>>
  BY <1>1 DEF Log!Unwritten, Log!Unapplied
<1>3. requests # <<>> /\ requests' = Tail(requests) /\ rows' = rows + 1
  BY DEF Log!FinishRequest
<1>4. /\ droppedRows' \in {droppedRows, droppedRows + 1}
      /\ \/ UNCHANGED <<queue, processing>>
         \/ queue' = Append(queue, e) /\ processing' = TRUE /\ closing = "no"
              /\ Len(queue) < LogQueue
  <2>1. Len(queue) \in Nat /\ LogQueue \in Nat
    BY DEF Log!Orderly, Log!Types, Log!AccessLogAssumption
  <2> QED
    BY <2>1 DEF Log!FinishRequest, Log!Enqueue
<1>5. Head(requests) \in 1..name /\ \A k \in DOMAIN requests' : requests'[k] \in 1..name
  <2>1. requests \in Seq(Nat) /\ \A k \in DOMAIN requests : requests[k] \in 1..name
    BY DEF Log!Orderly, Log!Types, Log!Numbered
  <2> QED
    BY <1>3, <2>1
<1>6. requests' \in Seq(Nat) /\ rows \in Nat /\ name \in Nat /\ droppedRows' \in Nat
  BY <1>3, <1>4 DEF Log!Orderly, Log!Types
<1>7. /\ e \in Log!Rows /\ e.id = rows + 1 /\ e.user \in 1..name /\ e.session = s
      /\ e.meta = Log!Contains(metaOf, s)
  BY <1>5, <1>6 DEF Log!Rows, Log!Log, Log!Contains
<1> HIDE DEF e
<1>8. \A k \in Log!Logs(queue) : queue[k].id \in 1..rows /\ queue[k].id \notin lost
  BY DEF Log!Orderly, Log!Numbered, Log!LostIsGone
<1>9. lost \cup due \subseteq 1..rows
  BY DEF Log!Orderly, Log!TypeOK
<1>10. /\ \A k \in Log!Unwritten : flush.batch[k].id \in 1..rows
       /\ \A k \in DOMAIN table : table[k].id \in 1..rows
  BY DEF Log!Orderly, Log!Numbered, Log!TypeOK
<1>11. /\ Log!Types' /\ Log!TypeOK' /\ Log!Numbered' /\ Log!LostIsGone' /\ Log!WrittenOnce'
       /\ Log!UpdatesLead' /\ Log!MetaFollows'
       /\ (queue' # <<>> => processing') /\ (closing = "closed" => ~processing')
  <2>1. CASE UNCHANGED <<queue, processing>>
    <3>1. Log!Types'
      BY <1>1, <1>3, <1>6, <2>1 DEF Log!Orderly, Log!Types
    <3>2. Log!TypeOK'
      BY <1>1, <1>3, <1>6, <1>9, <1>10, <2>1 DEF Log!Orderly, Log!TypeOK
    <3>3. Log!WrittenOnce' /\ Log!LostIsGone' /\ Log!UpdatesLead'
      BY <1>1, <1>2, <2>1 DEF Log!Orderly, Log!WrittenOnce, Log!LostIsGone, Log!UpdatesLead,
                              Log!Logs
    <3>4. Log!Numbered'
      BY <1>1, <1>2, <1>3, <1>5, <1>6, <2>1 DEF Log!Orderly, Log!Numbered, Log!Logs
    <3>5. Log!MetaFollows'
      BY <1>1, <1>2, <2>1 DEF Log!Orderly, Log!MetaFollows, Log!Coming, Log!Logs, Log!Metas,
                              Log!Contains
    <3> QED
      BY <2>1, <3>1, <3>2, <3>3, <3>4, <3>5 DEF Log!Orderly, Log!QueueIsServed, Log!RollbackCuts
  <2>2. CASE /\ queue' = Append(queue, e) /\ processing' = TRUE /\ closing = "no"
             /\ Len(queue) < LogQueue
    <3> DEFINE n == Len(queue) + 1
    <3>1. queue \in Seq(Log!Rows \cup Log!Data)
      BY DEF Log!Orderly, Log!Types
    <3>2. queue' \in Seq(Log!Rows \cup Log!Data) /\ Len(queue') = n /\ n \in Nat
      BY <1>7, <2>2, <3>1, LogAppendItem
    <3>3. /\ Log!Logs(queue)' = Log!Logs(queue) \cup {n} /\ Log!Metas(queue)' = Log!Metas(queue)
          /\ queue'[n] = e
      BY <1>7, <2>2, <3>1, LogAppendItem DEF Log!Logs, Log!Metas
    <3>4. \A k \in DOMAIN queue : queue'[k] = queue[k] /\ k < n /\ k \in Nat
      BY <1>7, <2>2, <3>1, LogAppendItem
    <3>5. \A k \in Log!Logs(queue) : queue'[k] = queue[k] /\ k < n /\ k \in Nat
      BY <3>4 DEF Log!Logs
    <3>6. \A k \in Log!Metas(queue) : queue'[k] = queue[k] /\ k < n /\ k \in Nat
      BY <3>4 DEF Log!Metas
    <3>7. n = Len(queue) + 1
      OBVIOUS
    <3> HIDE DEF n
    <3>8. Log!Types'
      BY <1>1, <1>3, <1>6, <2>2, <3>2 DEF Log!Orderly, Log!Types
    <3>9. Log!TypeOK'
      <4>1. Len(queue') <= LogQueue
        BY <2>2, <3>1, <3>2, <3>7 DEF Log!AccessLogAssumption
      <4>2. \A k \in DOMAIN table' : table'[k].id \in 1..rows' /\ table'[k].user \in 1..name'
        BY <1>1, <1>3, <1>6, <1>10 DEF Log!Orderly, Log!TypeOK
      <4>3. lost' \cup due' \subseteq 1..rows'
        BY <1>1, <1>3, <1>6, <1>9
      <4> QED
        BY <1>1, <2>2, <4>1, <4>2, <4>3 DEF Log!Orderly, Log!TypeOK
    <3>10. Log!LostIsGone'
      <4>1. \A k \in Log!Unwritten' : (flush.batch)'[k].id \notin lost'
        BY <1>1, <1>2 DEF Log!Orderly, Log!LostIsGone
      <4>2. \A k \in Log!Logs(queue) : queue'[k].id \notin lost'
        BY <1>1, <1>8, <3>5
      <4>3. e.id \notin lost'
        BY <1>1, <1>6, <1>7, <1>9
      <4> QED
        BY <3>3, <4>1, <4>2, <4>3 DEF Log!LostIsGone
    <3>11. Log!WrittenOnce'
      <4>1. \A j, k \in Log!Logs(queue)' : j < k => queue'[j].id < queue'[k].id
        <5>1. \A j, k \in Log!Logs(queue) : j < k => queue'[j].id < queue'[k].id
          BY <3>5 DEF Log!Orderly, Log!WrittenOnce
        <5>2. \A j \in Log!Logs(queue) : queue'[j].id < e.id
          BY <1>6, <1>7, <1>8, <3>5
        <5>3. \A j \in Log!Logs(queue) : ~(n < j) /\ ~(n < n)
          BY <3>2, <3>5
        <5>4. ASSUME NEW j \in Log!Logs(queue)', NEW k \in Log!Logs(queue)', j < k
              PROVE  queue'[j].id < queue'[k].id
          <6>1. j \in Log!Logs(queue)
            BY <3>2, <3>3, <5>3, <5>4
          <6>2. CASE k = n
            BY <3>3, <5>2, <6>1, <6>2
          <6>3. CASE k \in Log!Logs(queue)
            BY <5>1, <5>4, <6>1, <6>3
          <6> QED
            BY <3>3, <6>2, <6>3
        <5> QED
          BY <5>4
      <4>2. \A j \in DOMAIN table', k \in Log!Logs(queue)' : table'[j].id < queue'[k].id
        <5>1. \A j \in DOMAIN table, k \in Log!Logs(queue) : table[j].id < queue'[k].id
          BY <3>5 DEF Log!Orderly, Log!WrittenOnce
        <5>2. \A j \in DOMAIN table : table[j].id < e.id
          BY <1>6, <1>7, <1>10
        <5> QED
          BY <1>1, <3>3, <5>1, <5>2
      <4>3. \A j \in Log!Unwritten', k \in Log!Logs(queue)' : (flush.batch)'[j].id < queue'[k].id
        <5>1. \A j \in Log!Unwritten, k \in Log!Logs(queue) : flush.batch[j].id < queue'[k].id
          BY <3>5 DEF Log!Orderly, Log!WrittenOnce
        <5>2. \A j \in Log!Unwritten : flush.batch[j].id < e.id
          BY <1>6, <1>7, <1>10
        <5> QED
          BY <1>1, <1>2, <3>3, <5>1, <5>2
      <4> QED
        BY <1>1, <1>2, <4>1, <4>2, <4>3 DEF Log!Orderly, Log!WrittenOnce
    <3>12. Log!Numbered'
      <4>1. \A k \in Log!Logs(queue)' : queue'[k].id \in 1..rows' /\ queue'[k].user \in 1..name'
        <5>1. \A k \in Log!Logs(queue) : queue'[k].id \in 1..rows' /\ queue'[k].user \in 1..name'
          BY <1>1, <1>3, <1>6, <3>5 DEF Log!Orderly, Log!Numbered
        <5>2. e.id \in 1..rows' /\ e.user \in 1..name'
          BY <1>1, <1>3, <1>6, <1>7
        <5> QED
          BY <3>3, <5>1, <5>2
      <4>2. \A k \in Log!Unwritten' :
              (flush.batch)'[k].id \in 1..rows' /\ (flush.batch)'[k].user \in 1..name'
        BY <1>1, <1>2, <1>3, <1>6 DEF Log!Orderly, Log!Numbered
      <4> QED
        BY <1>1, <1>5, <4>1, <4>2 DEF Log!Orderly, Log!Numbered
    <3>13. Log!UpdatesLead'
      <4>1. e.id \notin due
        BY <1>6, <1>7, <1>9
      <4>2. faults["failures"] = 0 => \A k \in Log!Logs(queue)' : queue'[k].id \in due =>
              queue'[k].user = name
        BY <3>3, <3>5, <4>1 DEF Log!Orderly, Log!UpdatesLead
      <4> QED
        BY <1>1, <1>2, <4>2 DEF Log!Orderly, Log!UpdatesLead
    <3>14. Log!MetaFollows'
      <4>1. \A t : Log!Coming(t)' <=> Log!Coming(t)
        BY <1>1, <1>2, <3>3, <3>6 DEF Log!Coming
      <4>2. \A t : Log!Contains(metaOf, t)' <=> Log!Contains(metaOf, t)
        BY <1>1 DEF Log!Contains
      <4>3. ASSUME faults["failures"] = 0, NEW k \in Log!Logs(queue)',
                   Log!Contains(metaOf, queue'[k].session)
            PROVE  queue'[k].meta \/ \E j \in Log!Metas(queue)' :
                     j > k /\ queue'[j].session = queue'[k].session
        <5>1. CASE k = n
          BY <1>7, <3>3, <4>3, <5>1
        <5>2. CASE k \in Log!Logs(queue)
          BY <3>3, <3>5, <3>6, <4>3, <5>2 DEF Log!Orderly, Log!MetaFollows
        <5> QED
          BY <3>3, <5>1, <5>2
      <4> QED
        BY <1>1, <1>2, <4>1, <4>2, <4>3 DEF Log!Orderly, Log!MetaFollows
    <3>15. closing # "closed" /\ processing'
      BY <2>2
    <3> QED
      BY <3>8, <3>9, <3>10, <3>11, <3>12, <3>13, <3>14, <3>15
  <2> QED
    BY <1>4, <2>1, <2>2
<1>12. Log!RollbackCuts' /\ Log!FailedBatchIsGone' /\ Log!QueueIsServed'
  BY <1>1, <1>11 DEF Log!Orderly, Log!RollbackCuts, Log!FailedBatchIsGone, Log!IdsOf,
                     Log!NoFlush, Log!QueueIsServed
<1> QED
  BY <1>11, <1>12 DEF Log!Orderly

\* The cache of client data keeps within its limit and forgets sessions only.
LEMMA LogRememberedFacts ==
  ASSUME metaOf \in Seq(Session), NEW s \in Session, LogCache \in Nat \ {0},
         Len(metaOf) <= LogCache
  PROVE  /\ Log!Remembered(s) \in Seq(Session) /\ Len(Log!Remembered(s)) <= LogCache
         /\ \A t : Log!Contains(Log!Remembered(s), t) => Log!Contains(metaOf, t) \/ t = s
<1> DEFINE others == IF Log!Contains(metaOf, s)
                     THEN Log!RemoveAt(metaOf, CHOOSE i \in DOMAIN metaOf : metaOf[i] = s)
                     ELSE IF Len(metaOf) >= LogCache THEN Tail(metaOf) ELSE metaOf
<1>1. /\ others \in Seq(Session) /\ Len(others) < LogCache
      /\ \A i \in 1..Len(others) : \E j \in 1..Len(metaOf) : others[i] = metaOf[j]
  <2>1. CASE Log!Contains(metaOf, s)
    <3>1. PICK n \in 1..Len(metaOf) : n = CHOOSE i \in DOMAIN metaOf : metaOf[i] = s
      BY <2>1 DEF Log!Contains
    <3> DEFINE a == SubSeq(metaOf, 1, n - 1)
               b == SubSeq(metaOf, n + 1, Len(metaOf))
    <3>2. others = a \o b
      BY <2>1, <3>1 DEF Log!RemoveAt
    <3>3. a \in Seq(Session) /\ Len(a) = n - 1 /\ \A i \in 1..n - 1 : a[i] = metaOf[i]
      <4>1. 1 \in 1..Len(metaOf) + 1 /\ n - 1 \in 1 - 1..Len(metaOf) /\ n - 1 - 1 + 1 = n - 1
        BY <3>1
      <4>2. /\ a \in Seq(Session) /\ Len(a) = n - 1 - 1 + 1
            /\ \A i \in 1..n - 1 - 1 + 1 : a[i] = metaOf[1 + i - 1]
        BY <4>1, LogSlice
      <4>3. \A i \in 1..n - 1 : 1 + i - 1 = i
        BY <3>1
      <4> QED
        BY <4>1, <4>2, <4>3
    <3>4. /\ b \in Seq(Session) /\ Len(b) = Len(metaOf) - n
          /\ \A i \in 1..Len(metaOf) - n : b[i] = metaOf[n + 1 + i - 1]
      <4>1. n + 1 \in 1..Len(metaOf) + 1 /\ Len(metaOf) \in n + 1 - 1..Len(metaOf)
        BY <3>1
      <4>2. /\ b \in Seq(Session) /\ Len(b) = Len(metaOf) - (n + 1) + 1
            /\ \A i \in 1..Len(metaOf) - (n + 1) + 1 : b[i] = metaOf[n + 1 + i - 1]
        BY <4>1, LogSlice
      <4>3. Len(metaOf) - (n + 1) + 1 = Len(metaOf) - n
        BY <3>1
      <4> QED
        BY <4>2, <4>3
    <3> HIDE DEF a, b, others
    <3>5. /\ others \in Seq(Session) /\ Len(others) = Len(a) + Len(b)
          /\ \A i \in 1..Len(a) + Len(b) : others[i] = IF i <= Len(a) THEN a[i] ELSE b[i - Len(a)]
      BY <3>2, <3>3, <3>4, ConcatProperties
    <3>10. Len(others) = Len(metaOf) - 1
      BY <3>1, <3>3, <3>4, <3>5
    <3>6. ASSUME NEW i \in 1..Len(others)
          PROVE  others[i] = IF i < n THEN metaOf[i] ELSE metaOf[i + 1]
      <4>1. CASE i < n
        <5>1. i <= n - 1 /\ i \in 1..n - 1 /\ i \in 1..Len(a) + Len(b)
          BY <3>1, <3>5, <4>1
        <5> QED
          BY <3>3, <3>5, <4>1, <5>1
      <4>2. CASE ~(i < n)
        <5>1. /\ ~(i <= n - 1) /\ i - (n - 1) \in 1..Len(metaOf) - n
              /\ n + 1 + (i - (n - 1)) - 1 = i + 1
          BY <3>1, <3>10, <4>2
        <5>2. b[i - (n - 1)] = metaOf[i + 1]
          BY <3>4, <5>1
        <5> QED
          BY <3>1, <3>3, <3>5, <4>2, <5>1, <5>2
      <4> QED
        BY <4>1, <4>2
    <3>7. Len(others) < LogCache
      BY <3>10
    <3>8. \A i \in 1..Len(others) :
            IF i < n THEN i \in 1..Len(metaOf) ELSE i + 1 \in 1..Len(metaOf)
      BY <3>1, <3>10
    <3> QED
      BY <3>5, <3>6, <3>7, <3>8
  <2>2. CASE ~Log!Contains(metaOf, s)
    BY <2>2
  <2> QED
    BY <2>1, <2>2
<1>2. Log!Remembered(s) = Append(others, s)
  BY DEF Log!Remembered
<1> HIDE DEF others
<1>3. /\ Log!Remembered(s) \in Seq(Session) /\ Len(Log!Remembered(s)) = Len(others) + 1
      /\ \A i \in 1..Len(others) : Log!Remembered(s)[i] = others[i]
      /\ Log!Remembered(s)[Len(others) + 1] = s
  BY <1>1, <1>2
<1>4. ASSUME NEW t, Log!Contains(Log!Remembered(s), t) PROVE Log!Contains(metaOf, t) \/ t = s
  <2>1. PICK i \in 1..Len(Log!Remembered(s)) : Log!Remembered(s)[i] = t
    BY <1>4 DEF Log!Contains
  <2>2. CASE i = Len(others) + 1
    BY <1>3, <2>1, <2>2
  <2>3. CASE i \in 1..Len(others)
    BY <1>1, <1>3, <2>1, <2>3 DEF Log!Contains
  <2> QED
    BY <1>1, <1>3, <2>1, <2>2, <2>3
<1> QED
  BY <1>1, <1>3, <1>4

\* Client data that is queued follows every row of its session that waits, and the
\* session that leaves the full cache is one whose rows nothing is promised for.
LEMMA LogClientMetaInv ==
  ASSUME Log!AccessLogAssumption, Log!Orderly, NEW s \in Session, Log!ClientMeta(s)
  PROVE  Log!Orderly'
<1> DEFINE e == [type |-> "client-meta", session |-> s]
<1>1. UNCHANGED <<flush, table, saved, name, requests, renaming, closing, rows, lost, due>>
  BY DEF Log!ClientMeta
<1>2. UNCHANGED <<Log!Unwritten, Log!Unapplied>>
  BY <1>1 DEF Log!Unwritten, Log!Unapplied
<1>3. /\ faults' \in [{"metas", "failures", "renames", "crashes"} -> Nat]
      /\ faults'["failures"] = faults["failures"]
  BY DEF Log!Orderly, Log!Types, Log!ClientMeta, Log!May
<1>4. /\ droppedRows' \in Nat /\ closing = "no"
      /\ \/ UNCHANGED <<queue, processing, metaOf>>
         \/ /\ queue' = Append(queue, e) /\ processing' = TRUE
            /\ metaOf' = Log!Remembered(s) /\ Len(queue) < LogQueue
  <2>1. Len(queue) \in Nat /\ LogQueue \in Nat /\ droppedRows \in Nat
    BY DEF Log!Orderly, Log!Types, Log!AccessLogAssumption
  <2> QED
    BY <2>1 DEF Log!ClientMeta, Log!Enqueue
<1>5. e \in Log!Data /\ e.session = s
  BY DEF Log!Data
<1> HIDE DEF e
<1>6. /\ Log!Types' /\ Log!TypeOK' /\ Log!Numbered' /\ Log!LostIsGone' /\ Log!WrittenOnce'
      /\ Log!UpdatesLead' /\ Log!MetaFollows'
      /\ (queue' # <<>> => processing')
  <2>1. CASE UNCHANGED <<queue, processing, metaOf>>
    <3>1. Log!Types'
      BY <1>1, <1>3, <1>4, <2>1 DEF Log!Orderly, Log!Types
    <3>2. Log!TypeOK' /\ Log!Numbered'
      BY <1>1, <1>2, <2>1 DEF Log!Orderly, Log!TypeOK, Log!Numbered, Log!Logs
    <3>3. Log!WrittenOnce' /\ Log!LostIsGone'
      BY <1>1, <1>2, <2>1 DEF Log!Orderly, Log!WrittenOnce, Log!LostIsGone, Log!Logs
    <3>4. Log!UpdatesLead'
      BY <1>1, <1>2, <1>3, <2>1 DEF Log!Orderly, Log!UpdatesLead, Log!Logs
    <3>5. Log!MetaFollows'
      BY <1>1, <1>2, <1>3, <2>1 DEF Log!Orderly, Log!MetaFollows, Log!Coming, Log!Logs,
                                    Log!Metas, Log!Contains
    <3> QED
      BY <2>1, <3>1, <3>2, <3>3, <3>4, <3>5 DEF Log!Orderly, Log!QueueIsServed
  <2>2. CASE /\ queue' = Append(queue, e) /\ processing' = TRUE
             /\ metaOf' = Log!Remembered(s) /\ Len(queue) < LogQueue
    <3> DEFINE n == Len(queue) + 1
    <3>1. queue \in Seq(Log!Rows \cup Log!Data)
      BY DEF Log!Orderly, Log!Types
    <3>2. queue' \in Seq(Log!Rows \cup Log!Data) /\ Len(queue') = n /\ n \in Nat
      BY <1>5, <2>2, <3>1, LogAppendItem
    <3>3. /\ Log!Logs(queue)' = Log!Logs(queue) /\ Log!Metas(queue)' = Log!Metas(queue) \cup {n}
          /\ queue'[n] = e
      BY <1>5, <2>2, <3>1, LogAppendItem DEF Log!Logs, Log!Metas
    <3>4. \A k \in DOMAIN queue : queue'[k] = queue[k] /\ k < n /\ k \in Nat
      BY <1>5, <2>2, <3>1, LogAppendItem
    <3>5. \A k \in Log!Logs(queue) : queue'[k] = queue[k] /\ k < n
      BY <3>4 DEF Log!Logs
    <3>6. \A k \in Log!Metas(queue) : queue'[k] = queue[k]
      BY <3>4 DEF Log!Metas
    <3>7. n = Len(queue) + 1
      OBVIOUS
    <3> HIDE DEF n
    <3>8. /\ metaOf' \in Seq(Session) /\ Len(metaOf') <= LogCache
          /\ \A t : Log!Contains(metaOf', t) => Log!Contains(metaOf, t) \/ t = s
      BY <2>2, LogRememberedFacts DEF Log!Orderly, Log!Types, Log!TypeOK, Log!AccessLogAssumption
    <3>9. Log!Types'
      BY <1>1, <1>3, <1>4, <2>2, <3>2, <3>8 DEF Log!Orderly, Log!Types
    <3>10. Log!TypeOK'
      <4>1. Len(queue') <= LogQueue
        BY <2>2, <3>1, <3>2, <3>7 DEF Log!AccessLogAssumption
      <4> QED
        BY <1>1, <2>2, <3>8, <4>1 DEF Log!Orderly, Log!TypeOK
    <3>11. Log!Numbered' /\ Log!LostIsGone'
      BY <1>1, <1>2, <3>3, <3>5 DEF Log!Orderly, Log!Numbered, Log!LostIsGone
    <3>12. Log!WrittenOnce'
      BY <1>1, <1>2, <3>3, <3>5 DEF Log!Orderly, Log!WrittenOnce
    <3>13. Log!UpdatesLead'
      BY <1>1, <1>2, <1>3, <3>3, <3>5 DEF Log!Orderly, Log!UpdatesLead
    <3>14. Log!MetaFollows'
      <4>1. \A t : Log!Coming(t)' <=> Log!Coming(t) \/ t = s
        BY <1>1, <1>2, <1>5, <3>3, <3>6 DEF Log!Coming
      <4>2. \A t : Log!Contains(metaOf', t) => Log!Contains(metaOf, t) \/ t = s
        BY <3>8
      <4>3. ASSUME faults["failures"] = 0, NEW k \in Log!Logs(queue)',
                   Log!Contains(metaOf', queue'[k].session)
            PROVE  queue'[k].meta \/ \E j \in Log!Metas(queue)' :
                     j > k /\ queue'[j].session = queue'[k].session
        <5>1. CASE queue'[k].session = s
          BY <1>5, <3>2, <3>3, <3>5, <5>1
        <5>2. CASE Log!Contains(metaOf, queue[k].session)
          BY <3>3, <3>5, <3>6, <4>3, <5>2 DEF Log!Orderly, Log!MetaFollows
        <5> QED
          BY <3>3, <3>5, <4>2, <4>3, <5>1, <5>2
      <4>4. ASSUME faults["failures"] = 0, NEW k \in DOMAIN table,
                   Log!Contains(metaOf', table[k].session)
            PROVE  table[k].meta \/ Log!Coming(table[k].session)'
        BY <1>1, <4>1, <4>2, <4>4 DEF Log!Orderly, Log!MetaFollows
      <4>5. ASSUME faults["failures"] = 0, NEW k \in Log!Unwritten,
                   Log!Contains(metaOf', flush.batch[k].session)
            PROVE  flush.batch[k].meta \/ Log!Coming(flush.batch[k].session)'
        BY <1>1, <4>1, <4>2, <4>5 DEF Log!Orderly, Log!MetaFollows
      <4> QED
        BY <1>1, <1>2, <1>3, <4>3, <4>4, <4>5 DEF Log!MetaFollows, Log!Contains
    <3>15. processing'
      BY <2>2
    <3> QED
      BY <3>9, <3>10, <3>11, <3>12, <3>13, <3>14, <3>15
  <2> QED
    BY <1>4, <2>1, <2>2
<1>7. Log!RollbackCuts' /\ Log!FailedBatchIsGone' /\ Log!QueueIsServed'
  BY <1>1, <1>4, <1>6 DEF Log!Orderly, Log!RollbackCuts, Log!FailedBatchIsGone, Log!IdsOf,
                          Log!NoFlush, Log!QueueIsServed
<1> QED
  BY <1>6, <1>7 DEF Log!Orderly

-----------------------------------------------------------------------------
(* Batches.                                                                *)

\* A batch is the front of the queue, and what was behind it moves up.
LEMMA LogTakeBatch ==
  ASSUME Log!AccessLogAssumption, Log!Types, Log!NextBatch, queue # <<>>
  PROVE  \E n \in 1..Len(queue) :
           /\ queue' \in Seq(Log!Rows \cup Log!Data) /\ Len(queue') = Len(queue) - n
           /\ flush'
                \in [step : {"resolving", "metas"}, batch : Seq(Log!Rows \cup Log!Data), at : {1}]
           /\ \A k \in Log!Logs(queue)' :
                k \in Nat /\ k + n \in Log!Logs(queue) /\ queue'[k] = queue[k + n]
           /\ \A k \in Log!Metas(queue)' :
                k \in Nat /\ k + n \in Log!Metas(queue) /\ queue'[k] = queue[k + n]
           /\ \A k \in Log!Unwritten' :
                k <= n /\ k \in Log!Logs(queue) /\ flush'.batch[k] = queue[k]
           /\ \A k \in Log!Unapplied' :
                k <= n /\ k \in Log!Metas(queue) /\ flush'.batch[k] = queue[k]
           /\ \A k \in Log!Metas(queue) :
                IF k <= n THEN k \in Log!Unapplied' /\ flush'.batch[k] = queue[k]
                ELSE k - n \in Log!Metas(queue)' /\ queue'[k - n] = queue[k]
           /\ \A k \in Log!Logs(queue) :
                IF k <= n THEN k \in Log!Unwritten' /\ flush'.batch[k] = queue[k]
                ELSE k - n \in Log!Logs(queue)' /\ queue'[k - n] = queue[k]
<1> DEFINE n == Log!Taken
           batch == SubSeq(queue, 1, n)
<1>1. queue \in Seq(Log!Rows \cup Log!Data) /\ Len(queue) \in Nat /\ \A k \in DOMAIN queue :
        k \in 1..Len(queue)
  BY DEF Log!Types
<1>2. n \in 1..Len(queue)
  <2>1. Len(queue) >= 1
    BY <1>1
  <2> QED
    BY <1>1, <2>1 DEF Log!Taken, Log!AccessLogAssumption
<1>3. /\ queue' = SubSeq(queue, n + 1, Len(queue))
      /\ flush' = [step |-> IF Log!Logs(batch) = {} THEN "metas" ELSE "resolving",
                   batch |-> batch, at |-> 1]
  BY DEF Log!NextBatch
<1> HIDE DEF n
<1>4. /\ queue' \in Seq(Log!Rows \cup Log!Data) /\ Len(queue') = Len(queue) - n
      /\ \A k \in 1..Len(queue) - n : queue'[k] = queue[k + n]
  <2>1. n + 1 \in 1..Len(queue) + 1 /\ Len(queue) \in n + 1 - 1..Len(queue)
        /\ Len(queue) - (n + 1) + 1 = Len(queue) - n
    BY <1>1, <1>2
  <2>2. /\ queue' \in Seq(Log!Rows \cup Log!Data) /\ Len(queue') = Len(queue) - (n + 1) + 1
        /\ \A k \in 1..Len(queue) - (n + 1) + 1 : queue'[k] = queue[n + 1 + k - 1]
    BY <1>1, <1>3, <2>1, LogSlice
  <2>3. \A k \in 1..Len(queue) - n : n + 1 + k - 1 = k + n
    BY <1>1, <1>2
  <2> QED
    BY <2>1, <2>2, <2>3
<1>5. batch \in Seq(Log!Rows \cup Log!Data) /\ Len(batch) = n /\ \A k \in 1..n :
        batch[k] = queue[k]
  <2>1. 1 \in 1..Len(queue) + 1 /\ n \in 1 - 1..Len(queue) /\ n - 1 + 1 = n
    BY <1>1, <1>2
  <2>2. /\ batch \in Seq(Log!Rows \cup Log!Data) /\ Len(batch) = n - 1 + 1
        /\ \A k \in 1..n - 1 + 1 : batch[k] = queue[1 + k - 1]
    BY <1>1, <2>1, LogSlice
  <2>3. \A k \in 1..n : 1 + k - 1 = k
    BY <1>2
  <2> QED
    BY <2>1, <2>2, <2>3
<1> HIDE DEF batch
<1>6. DOMAIN queue' = 1..Len(queue) - n /\ DOMAIN batch = 1..n /\ DOMAIN queue = 1..Len(queue)
  BY <1>1, <1>2, <1>4, <1>5, LenProperties
<1>7. \A k \in 1..Len(queue) - n : k \in Nat /\ k + n \in 1..Len(queue)
  BY <1>1, <1>2
<1>8. \A k \in 1..n : k \in 1..Len(queue) /\ k >= 1 /\ k <= n
  BY <1>1, <1>2
<1>9. /\ flush'.batch = batch /\ flush'.at = 1 /\ flush'.step \in {"metas", "resolving"}
      /\ flush'.step = "metas" => Log!Logs(batch) = {}
  BY <1>3
<1>10. /\ \A k \in Log!Logs(queue)' :
            k \in Nat /\ k + n \in Log!Logs(queue) /\ queue'[k] = queue[k + n]
       /\ \A k \in Log!Metas(queue)' :
            k \in Nat /\ k + n \in Log!Metas(queue) /\ queue'[k] = queue[k + n]
  BY <1>4, <1>6, <1>7 DEF Log!Logs, Log!Metas
<1>11. /\ \A k \in Log!Unwritten' : k <= n /\ k \in Log!Logs(queue) /\ flush'.batch[k] = queue[k]
       /\ \A k \in Log!Unapplied' : k <= n /\ k \in Log!Metas(queue) /\ flush'.batch[k] = queue[k]
  BY <1>5, <1>6, <1>8, <1>9 DEF Log!Unwritten, Log!Unapplied, Log!Logs, Log!Metas
<1>12. ASSUME NEW k \in Log!Metas(queue)
       PROVE  IF k <= n THEN k \in Log!Unapplied' /\ flush'.batch[k] = queue[k]
              ELSE k - n \in Log!Metas(queue)' /\ queue'[k - n] = queue[k]
  <2>1. k \in 1..Len(queue) /\ queue[k].type = "client-meta"
    BY <1>6 DEF Log!Metas
  <2>2. CASE k <= n
    <3>1. k \in 1..n /\ k >= 1
      BY <1>2, <2>1, <2>2
    <3> QED
      BY <1>5, <1>6, <1>9, <2>1, <2>2, <3>1 DEF Log!Unapplied, Log!Metas
  <2>3. CASE ~(k <= n)
    <3>1. k - n \in 1..Len(queue) - n /\ k - n + n = k
      BY <1>1, <1>2, <2>1, <2>3
    <3>2. queue'[k - n] = queue[k]
      BY <1>4, <3>1
    <3> QED
      BY <1>6, <2>1, <2>3, <3>1, <3>2 DEF Log!Metas
  <2> QED
    BY <2>2, <2>3
<1>13. flush' \in [step : {"resolving", "metas"}, batch : Seq(Log!Rows \cup Log!Data), at : {1}]
  BY <1>3, <1>5
<1>14. ASSUME NEW k \in Log!Logs(queue)
       PROVE  IF k <= n THEN k \in Log!Unwritten' /\ flush'.batch[k] = queue[k]
              ELSE k - n \in Log!Logs(queue)' /\ queue'[k - n] = queue[k]
  <2>1. k \in 1..Len(queue) /\ queue[k].type = "log"
    BY <1>6 DEF Log!Logs
  <2>2. CASE k <= n
    <3>1. k \in 1..n /\ k >= 1
      BY <1>2, <2>1, <2>2
    <3>2. k \in Log!Logs(batch) /\ flush'.batch[k] = queue[k]
      BY <1>5, <1>6, <1>9, <2>1, <3>1 DEF Log!Logs
    <3>3. flush'.step = "resolving"
      BY <1>9, <3>2
    <3> QED
      BY <1>9, <2>2, <3>1, <3>2, <3>3 DEF Log!Unwritten
  <2>3. CASE ~(k <= n)
    <3>1. k - n \in 1..Len(queue) - n /\ k - n + n = k
      BY <1>1, <1>2, <2>1, <2>3
    <3>2. queue'[k - n] = queue[k]
      BY <1>4, <3>1
    <3> QED
      BY <1>6, <2>1, <2>3, <3>1, <3>2 DEF Log!Logs
  <2> QED
    BY <2>2, <2>3
<1> QED
  BY <1>2, <1>4, <1>10, <1>11, <1>12, <1>13, <1>14

\* The flush goes on with a batch, or comes to its end.
LEMMA LogNextBatchInv ==
  ASSUME Log!AccessLogAssumption, Log!Orderly, Log!NextBatch, processing, Log!Unapplied = {},
         Log!Unwritten = {},
         flush.step \in {"none", "metas"},
         UNCHANGED <<processing, table, saved, metaOf, name, requests, renaming, closing, rows,
                     droppedRows, refused, unlogged, lost, due, faults>>
  PROVE  Log!Orderly'
<1>1. UNCHANGED <<processing, table, saved, metaOf, name, requests, renaming, closing, rows,
                  droppedRows, refused, unlogged, lost, due, faults>>
  OBVIOUS
<1>2. saved = table
  BY DEF Log!Orderly, Log!TypeOK
<1>3. CASE queue = <<>>
  <2>1. queue' = <<>> /\ flush' = [step |-> "prune", batch |-> <<>>, at |-> 1]
    <3>1. SubSeq(queue, Log!Taken + 1, Len(queue)) = <<>>
      BY <1>3 DEF Log!Taken, Log!AccessLogAssumption
    <3> QED
      BY <1>3, <3>1 DEF Log!NextBatch, Log!NoFlush
  <2>2. /\ Log!Logs(queue)' = {} /\ Log!Metas(queue)' = {} /\ Log!Unwritten' = {}
        /\ Log!Unapplied' = {}
    BY <2>1 DEF Log!Logs, Log!Metas, Log!Unwritten, Log!Unapplied
  <2>3. Log!Types' /\ Log!TypeOK'
    <3>1. Log!Types'
      BY <1>1, <2>1 DEF Log!Orderly, Log!Types
    <3>2. Log!TypeOK'
      BY <1>1, <1>2, <2>1 DEF Log!Orderly, Log!TypeOK, Log!AccessLogAssumption
    <3> QED
      BY <3>1, <3>2
  <2>4. Log!QueueIsServed' /\ Log!RollbackCuts' /\ Log!FailedBatchIsGone'
    BY <1>1, <2>1 DEF Log!Orderly, Log!QueueIsServed, Log!RollbackCuts, Log!FailedBatchIsGone,
                      Log!IdsOf
  <2>5. Log!WrittenOnce' /\ Log!LostIsGone' /\ Log!Numbered'
    BY <1>1, <2>2 DEF Log!Orderly, Log!WrittenOnce, Log!LostIsGone, Log!Numbered
  <2>6. Log!UpdatesLead'
    BY <1>1, <2>2 DEF Log!Orderly, Log!UpdatesLead
  <2>7. Log!MetaFollows'
    <3>1. \A t : ~Log!Coming(t)
      BY <1>3 DEF Log!Coming, Log!Metas
    <3> QED
      BY <1>1, <2>2, <3>1 DEF Log!Orderly, Log!MetaFollows, Log!Contains
  <2> QED
    BY <2>3, <2>4, <2>5, <2>6, <2>7 DEF Log!Orderly
<1>4. CASE queue # <<>>
  <2>1. PICK n \in 1..Len(queue) :
          /\ queue' \in Seq(Log!Rows \cup Log!Data) /\ Len(queue') = Len(queue) - n
          /\ flush'
               \in [step : {"resolving", "metas"}, batch : Seq(Log!Rows \cup Log!Data), at : {1}]
          /\ \A k \in Log!Logs(queue)' :
               k \in Nat /\ k + n \in Log!Logs(queue) /\ queue'[k] = queue[k + n]
          /\ \A k \in Log!Metas(queue)' :
               k \in Nat /\ k + n \in Log!Metas(queue) /\ queue'[k] = queue[k + n]
          /\ \A k \in Log!Unwritten' :
               k <= n /\ k \in Log!Logs(queue) /\ flush'.batch[k] = queue[k]
          /\ \A k \in Log!Unapplied' :
               k <= n /\ k \in Log!Metas(queue) /\ flush'.batch[k] = queue[k]
          /\ \A k \in Log!Metas(queue) :
               IF k <= n THEN k \in Log!Unapplied' /\ flush'.batch[k] = queue[k]
               ELSE k - n \in Log!Metas(queue)' /\ queue'[k - n] = queue[k]
    BY <1>4, LogTakeBatch DEF Log!Orderly
  <2>2. \A k \in Log!Logs(queue)' :
          k \in Nat /\ k + n \in Log!Logs(queue) /\ queue'[k] = queue[k + n]
    BY <2>1
  <2>3. \A k \in Log!Unwritten' : k <= n /\ k \in Log!Logs(queue) /\ flush'.batch[k] = queue[k]
    BY <2>1
  <2>4. /\ Len(queue) \in Nat /\ n \in Nat
        /\ \A k \in Log!Logs(queue) : k \in Nat
        /\ \A k \in Log!Metas(queue) : k \in Nat
    <3>1. queue \in Seq(Log!Rows \cup Log!Data)
      BY DEF Log!Orderly, Log!Types
    <3>2. Len(queue) \in Nat /\ \A k \in DOMAIN queue : k \in Nat
      BY <3>1
    <3> QED
      BY <3>2 DEF Log!Logs, Log!Metas
  <2>5. Log!Types'
    BY <1>1, <2>1 DEF Log!Orderly, Log!Types
  <2>6. Log!TypeOK'
    <3>1. Len(queue') <= LogQueue
      <4>1. Len(queue) <= LogQueue /\ Len(queue') = Len(queue) - n
        BY <2>1 DEF Log!Orderly, Log!TypeOK
      <4> QED
        BY <2>4, <4>1 DEF Log!AccessLogAssumption
    <3>2. flush'.step \in {"resolving", "metas"}
      BY <2>1
    <3> QED
      BY <1>1, <1>2, <3>1, <3>2 DEF Log!Orderly, Log!TypeOK
  <2>7. Log!QueueIsServed' /\ Log!FailedBatchIsGone'
    BY <1>1 DEF Log!Orderly, Log!QueueIsServed, Log!FailedBatchIsGone, Log!IdsOf
  <2>8. Log!RollbackCuts'
    <3>1. flush'.step \in {"resolving", "metas"}
      BY <2>1
    <3> QED
      BY <1>1, <3>1 DEF Log!Orderly, Log!RollbackCuts
  <2>9. Log!LostIsGone' /\ Log!Numbered'
    BY <1>1, <2>2, <2>3 DEF Log!Orderly, Log!LostIsGone, Log!Numbered
  <2>10. Log!UpdatesLead'
    BY <1>1, <2>2, <2>3 DEF Log!Orderly, Log!UpdatesLead
  <2>11. Log!WrittenOnce'
    <3>1. \A j, k \in Log!Logs(queue) : j < k => queue[j].id < queue[k].id
      BY DEF Log!Orderly, Log!WrittenOnce
    <3>2. \A j, k \in Log!Unwritten' : j < k => flush'.batch[j].id < flush'.batch[k].id
      BY <2>3, <3>1
    <3>3. \A j, k \in Log!Logs(queue)' : j < k => queue'[j].id < queue'[k].id
      <4>1. \A j, k \in Log!Logs(queue)' : j < k => j + n < k + n
        BY <2>2
      <4> QED
        BY <2>2, <3>1, <4>1
    <3>4. \A j \in Log!Unwritten', k \in Log!Logs(queue)' : flush'.batch[j].id < queue'[k].id
      <4>1. \A j \in Log!Unwritten', k \in Log!Logs(queue)' : j < k + n
        <5> TAKE j \in Log!Unwritten', k \in Log!Logs(queue)'
        <5>1. k # 0
          <6>1. k \in DOMAIN queue' /\ queue' \in Seq(Log!Rows \cup Log!Data)
            BY <2>1 DEF Log!Logs
          <6> QED
            BY <6>1
        <5>2. j <= n /\ j \in Nat /\ k \in Nat
          BY <2>2, <2>3, <2>4
        <5> QED
          BY <2>4, <5>1, <5>2
      <4> QED
        BY <2>2, <2>3, <3>1, <4>1
    <3>5. /\ \A j \in DOMAIN table', k \in Log!Unwritten' : table'[j].id < flush'.batch[k].id
          /\ \A j \in DOMAIN table', k \in Log!Logs(queue)' : table'[j].id < queue'[k].id
      BY <1>1, <2>2, <2>3 DEF Log!Orderly, Log!WrittenOnce
    <3> QED
      BY <1>1, <3>2, <3>3, <3>4, <3>5 DEF Log!Orderly, Log!WrittenOnce
  <2>12. Log!MetaFollows'
    <3>1. \A k \in Log!Metas(queue) :
            IF k <= n THEN k \in Log!Unapplied' /\ flush'.batch[k] = queue[k]
            ELSE k - n \in Log!Metas(queue)' /\ queue'[k - n] = queue[k]
      BY <2>1
    <3>2. ASSUME NEW t, NEW k \in Log!Metas(queue), queue[k].session = t PROVE Log!Coming(t)'
      BY <3>1, <3>2 DEF Log!Coming
    <3>3. ASSUME NEW t, Log!Coming(t) PROVE Log!Coming(t)'
      BY <3>2, <3>3 DEF Log!Coming
    <3>4. ASSUME faults["failures"] = 0, NEW k \in Log!Logs(queue)',
                 Log!Contains(metaOf, queue'[k].session)
          PROVE  queue'[k].meta \/ \E j \in Log!Metas(queue)' :
                   j > k /\ queue'[j].session = queue'[k].session
      <4>1. CASE ~queue'[k].meta
        <5>1. PICK j \in Log!Metas(queue) : j > k + n /\ queue[j].session = queue[k + n].session
          BY <2>2, <3>4, <4>1 DEF Log!Orderly, Log!MetaFollows
        <5>2. ~(j <= n) /\ j - n > k
          BY <2>2, <2>4, <5>1
        <5>3. j - n \in Log!Metas(queue)' /\ queue'[j - n] = queue[j]
          BY <3>1, <5>2
        <5> QED
          BY <2>2, <5>1, <5>2, <5>3
      <4> QED
        BY <4>1
    <3>5. ASSUME faults["failures"] = 0, NEW k \in Log!Unwritten',
                 Log!Contains(metaOf, flush'.batch[k].session)
          PROVE  flush'.batch[k].meta \/ Log!Coming(flush.batch[k].session)'
      <4>1. queue[k].meta \/ \E j \in Log!Metas(queue) : queue[j].session = queue[k].session
        BY <2>3, <3>5 DEF Log!Orderly, Log!MetaFollows
      <4> QED
        BY <2>3, <3>2, <4>1
    <3>6. ASSUME faults["failures"] = 0, NEW k \in DOMAIN table,
                 Log!Contains(metaOf, table[k].session)
          PROVE  table[k].meta \/ Log!Coming(table[k].session)'
      <4>1. table[k].meta \/ Log!Coming(table[k].session)
        BY <3>6 DEF Log!Orderly, Log!MetaFollows
      <4>2. CASE Log!Coming(table[k].session)
        <5>1. PICK t : t = table[k].session
          OBVIOUS
        <5> QED
          BY <1>1, <3>3, <4>2, <5>1
      <4> QED
        BY <4>1, <4>2
    <3> QED
      BY <1>1, <3>4, <3>5, <3>6 DEF Log!MetaFollows, Log!Contains
  <2> QED
    BY <2>5, <2>6, <2>7, <2>8, <2>9, <2>10, <2>11, <2>12 DEF Log!Orderly
<1> QED
  BY <1>3, <1>4

\* A flush begins with the first batch, or with an empty queue.
LEMMA LogBeginFlushInv ==
  ASSUME Log!AccessLogAssumption, Log!Orderly, Log!BeginFlush
  PROVE  Log!Orderly'
<1>1. Log!Unapplied = {} /\ Log!Unwritten = {}
  BY DEF Log!BeginFlush, Log!Orderly, Log!RollbackCuts, Log!NoFlush, Log!Unapplied,
         Log!Unwritten, Log!Metas
<1> QED
  BY <1>1, LogNextBatchInv DEF Log!BeginFlush

\* A rollback goes back to the table as it is before the first row.
LEMMA LogBeginTransactionInv ==
  ASSUME Log!AccessLogAssumption, Log!Orderly, Log!BeginTransaction
  PROVE  Log!Orderly'
<1>1. /\ UNCHANGED <<queue, processing, table, metaOf, name, requests, renaming, closing, rows,
                     droppedRows, refused, unlogged, lost, due, faults>>
      /\ flush.step = "resolving" /\ flush' = [flush EXCEPT !.step = "inserting"]
      /\ saved' = table
  BY DEF Log!BeginTransaction
<1>2. flush'.step = "inserting" /\ flush'.batch = flush.batch /\ flush'.at = flush.at
  BY <1>1 DEF Log!Orderly, Log!Types
<1>3. UNCHANGED <<Log!Unwritten, Log!Unapplied>>
  BY <1>1, <1>2 DEF Log!Unwritten, Log!Unapplied
<1>4. saved = table
  BY <1>1 DEF Log!Orderly, Log!TypeOK
<1>5. Log!Types'
  BY <1>1 DEF Log!Orderly, Log!Types
<1>6. Log!TypeOK' /\ Log!QueueIsServed' /\ Log!RollbackCuts' /\ Log!FailedBatchIsGone'
  BY <1>1, <1>2, <1>4 DEF Log!Orderly, Log!TypeOK, Log!QueueIsServed, Log!RollbackCuts,
                          Log!FailedBatchIsGone, Log!IdsOf
<1>7. Log!WrittenOnce' /\ Log!LostIsGone' /\ Log!UpdatesLead'
  BY <1>1, <1>2, <1>3 DEF Log!Orderly, Log!WrittenOnce, Log!LostIsGone, Log!UpdatesLead, Log!Logs
<1>8. Log!Numbered'
  BY <1>1, <1>2, <1>3, <1>4 DEF Log!Orderly, Log!Numbered, Log!Logs
<1>9. Log!MetaFollows'
  BY <1>1, <1>2, <1>3 DEF Log!Orderly, Log!MetaFollows, Log!Coming, Log!Logs, Log!Metas,
                          Log!Contains
<1> QED
  BY <1>5, <1>6, <1>7, <1>8, <1>9 DEF Log!Orderly

\* The next row of the batch goes to the end of the table.
LEMMA LogInsertRowInv ==
  ASSUME Log!AccessLogAssumption, Log!Orderly, Log!InsertRow
  PROVE  Log!Orderly'
<1>1. /\ UNCHANGED <<queue, processing, saved, metaOf, name, requests, renaming, closing, rows,
                     droppedRows, refused, unlogged, lost, due, faults>>
      /\ flush.step = "inserting"
  BY DEF Log!InsertRow
<1>2. PICK k \in Log!Unwritten : /\ \A j \in Log!Unwritten : k <= j
                                 /\ table' = Append(table, flush.batch[k])
                                 /\ flush' = [flush EXCEPT !.at = k + 1]
  BY DEF Log!InsertRow
<1>3. /\ \A j \in Log!Unwritten : j \in Nat /\ flush.batch[j] \in Log!Rows
      /\ k \in DOMAIN flush.batch /\ flush.batch \in Seq(Log!Rows \cup Log!Data)
  BY LogItemTypes DEF Log!Orderly, Log!Types
<1>4. flush'.step = "inserting" /\ flush'.batch = flush.batch /\ flush'.at = k + 1
  BY <1>1, <1>2 DEF Log!Orderly, Log!Types
<1>5. k >= 1 /\ k >= flush.at /\ flush.at \in Nat
  BY <1>1, <1>3 DEF Log!Unwritten, Log!Orderly, Log!Types
<1>6. Log!Unwritten' \subseteq Log!Unwritten \ {k} /\ UNCHANGED Log!Unapplied
  BY <1>1, <1>3, <1>4, <1>5 DEF Log!Unwritten, Log!Unapplied, Log!Logs
<1>7. \A j \in Log!Unwritten' : j \in Log!Unwritten /\ k < j
  BY <1>2, <1>3, <1>6
<1> DEFINE r == flush.batch[k]
           n == Len(table) + 1
<1>8. /\ table' \in Seq(Log!Rows) /\ Len(table') = n /\ n \in Nat /\ table'[n] = r
      /\ DOMAIN table' = DOMAIN table \cup {n} /\ \A j \in DOMAIN table :
           table'[j] = table[j] /\ j < n
  <2>1. table \in Seq(Log!Rows) /\ r \in Log!Rows
    BY <1>3 DEF Log!Orderly, Log!Types
  <2> QED
    BY <1>2, <2>1
<1>9. r.id \in 1..rows /\ r.user \in 1..name /\ r.id \notin lost
  BY DEF Log!Orderly, Log!Numbered, Log!LostIsGone
<1> HIDE DEF r, n
<1>10. Log!Types'
  <2>1. flush' \in [step : {"none", "resolving", "inserting", "metas", "prune"},
                    batch : Seq(Log!Rows \cup Log!Data), at : Nat \ {0}]
    <3>1. k + 1 \in Nat \ {0}
      BY <1>3
    <3> QED
      BY <1>2, <3>1 DEF Log!Orderly, Log!Types
  <2> QED
    BY <1>1, <1>8, <2>1 DEF Log!Orderly, Log!Types
<1>11. Log!TypeOK'
  <2>1. \A j \in DOMAIN table' : table'[j].id \in 1..rows /\ table'[j].user \in 1..name
    BY <1>8, <1>9 DEF Log!Orderly, Log!TypeOK
  <2> QED
    BY <1>1, <1>4, <2>1 DEF Log!Orderly, Log!TypeOK
<1>12. Log!QueueIsServed' /\ Log!RollbackCuts'
  <2>1. Len(saved) <= Len(table') /\ \A j \in DOMAIN saved : j \in DOMAIN table
    <3>1. saved \in Seq(Log!Rows) /\ table \in Seq(Log!Rows) /\ Len(saved) <= Len(table)
      BY DEF Log!Orderly, Log!Types, Log!RollbackCuts
    <3> QED
      BY <1>8, <3>1 DEF n
  <2> QED
    BY <1>1, <1>4, <1>8, <2>1 DEF Log!Orderly, Log!QueueIsServed, Log!RollbackCuts
<1>13. Log!FailedBatchIsGone'
  BY <1>1, <1>8, <1>9 DEF Log!Orderly, Log!FailedBatchIsGone, Log!IdsOf
<1>14. Log!LostIsGone'
  BY <1>1, <1>4, <1>7 DEF Log!Orderly, Log!LostIsGone, Log!Logs
<1>15. Log!Numbered'
  BY <1>1, <1>4, <1>7 DEF Log!Orderly, Log!Numbered, Log!Logs
<1>16. Log!WrittenOnce'
  <2>1. \A i, j \in DOMAIN table' : i < j => table'[i].id < table'[j].id
    <3>1. \A i, j \in DOMAIN table : i < j => table'[i].id < table'[j].id
      BY <1>8 DEF Log!Orderly, Log!WrittenOnce
    <3>2. \A i \in DOMAIN table : table'[i].id < r.id
      BY <1>8 DEF Log!Orderly, Log!WrittenOnce, r
    <3>3. \A i \in DOMAIN table : ~(n < i) /\ i \in Nat
      BY <1>8 DEF Log!Orderly, Log!Types
    <3>4. ASSUME NEW i \in DOMAIN table', NEW j \in DOMAIN table', i < j
          PROVE  table'[i].id < table'[j].id
      <4>1. i \in DOMAIN table
        BY <1>8, <3>3, <3>4
      <4>2. CASE j = n
        BY <1>8, <3>2, <4>1, <4>2
      <4>3. CASE j \in DOMAIN table
        BY <3>1, <3>4, <4>1, <4>3
      <4> QED
        BY <1>8, <4>2, <4>3
    <3> QED
      BY <3>4
  <2>2. \A i \in DOMAIN table', j \in Log!Unwritten' : table'[i].id < (flush.batch)'[j].id
    <3>1. \A i \in DOMAIN table, j \in Log!Unwritten' : table'[i].id < (flush.batch)'[j].id
      BY <1>4, <1>7, <1>8 DEF Log!Orderly, Log!WrittenOnce
    <3>2. \A j \in Log!Unwritten' : r.id < (flush.batch)'[j].id
      BY <1>4, <1>7 DEF Log!Orderly, Log!WrittenOnce, r
    <3> QED
      BY <1>8, <3>1, <3>2
  <2>3. \A i \in DOMAIN table', j \in Log!Logs(queue)' : table'[i].id < queue'[j].id
    <3>1. \A i \in DOMAIN table, j \in Log!Logs(queue) : table'[i].id < queue[j].id
      BY <1>8 DEF Log!Orderly, Log!WrittenOnce
    <3>2. \A j \in Log!Logs(queue) : r.id < queue[j].id
      BY DEF Log!Orderly, Log!WrittenOnce, r
    <3> QED
      BY <1>1, <1>8, <3>1, <3>2 DEF Log!Logs
  <2>4. /\ \A i, j \in Log!Unwritten' : i < j => (flush.batch)'[i].id < (flush.batch)'[j].id
        /\ \A i, j \in Log!Logs(queue)' : i < j => queue'[i].id < queue'[j].id
        /\ \A i \in Log!Unwritten', j \in Log!Logs(queue)' : (flush.batch)'[i].id < queue'[j].id
    BY <1>1, <1>4, <1>7 DEF Log!Orderly, Log!WrittenOnce, Log!Logs
  <2> QED
    BY <2>1, <2>2, <2>3, <2>4 DEF Log!WrittenOnce
<1>17. Log!UpdatesLead'
  <2>1. ASSUME faults["failures"] = 0
        PROVE  \A j \in DOMAIN table' : table'[j].id \in due =>
                 table'[j].user >= name - Len(renaming)
    <3>1. r.id \in due => r.user = name
      BY <2>1 DEF Log!Orderly, Log!UpdatesLead, r
    <3>2. name >= name - Len(renaming)
      BY DEF Log!Orderly, Log!Types
    <3> QED
      BY <1>8, <2>1, <3>1, <3>2 DEF Log!Orderly, Log!UpdatesLead
  <2> QED
    BY <1>1, <1>4, <1>7, <2>1 DEF Log!Orderly, Log!UpdatesLead, Log!Logs
<1>18. Log!MetaFollows'
  <2>1. \A t : Log!Coming(t)' <=> Log!Coming(t)
    BY <1>1, <1>4, <1>6 DEF Log!Coming, Log!Metas
  <2>2. ASSUME faults["failures"] = 0, NEW j \in DOMAIN table',
               Log!Contains(metaOf, table'[j].session)
        PROVE  table'[j].meta \/ Log!Coming(table[j].session)'
    <3>1. CASE j = n
      <4>1. r.meta \/ Log!Coming(r.session)
        BY <1>8, <2>2, <3>1 DEF Log!Orderly, Log!MetaFollows, r
      <4>2. PICK t : t = r.session
        OBVIOUS
      <4> QED
        BY <1>8, <2>1, <3>1, <4>1, <4>2
    <3>2. CASE j \in DOMAIN table
      <4>1. table[j].meta \/ Log!Coming(table[j].session)
        BY <1>8, <2>2, <3>2 DEF Log!Orderly, Log!MetaFollows
      <4>2. PICK t : t = table[j].session
        OBVIOUS
      <4> QED
        BY <1>8, <2>1, <3>2, <4>1, <4>2
    <3> QED
      BY <1>8, <3>1, <3>2
  <2>3. ASSUME faults["failures"] = 0, NEW j \in Log!Unwritten',
               Log!Contains(metaOf, (flush.batch)'[j].session)
        PROVE  (flush.batch)'[j].meta \/ Log!Coming(flush.batch[j].session)'
    <3>1. flush.batch[j].meta \/ Log!Coming(flush.batch[j].session)
      BY <1>4, <1>7, <2>3 DEF Log!Orderly, Log!MetaFollows
    <3>2. PICK t : t = flush.batch[j].session
      OBVIOUS
    <3> QED
      BY <1>4, <2>1, <3>1, <3>2
  <2> QED
    BY <1>1, <2>2, <2>3 DEF Log!Orderly, Log!MetaFollows, Log!Contains, Log!Logs, Log!Metas
<1> QED
  BY <1>10, <1>11, <1>12, <1>13, <1>14, <1>15, <1>16, <1>17, <1>18 DEF Log!Orderly

\* What was written is saved, and all client data of the batch is still to come.
LEMMA LogCommitInv ==
  ASSUME Log!AccessLogAssumption, Log!Orderly, Log!Commit
  PROVE  Log!Orderly'
<1>1. /\ UNCHANGED <<queue, processing, table, metaOf, name, requests, renaming, closing, rows,
                     droppedRows, refused, unlogged, lost, due, faults>>
      /\ flush.step = "inserting" /\ Log!Unwritten = {} /\ saved' = table
      /\ flush' = [flush EXCEPT !.step = "metas", !.at = 1]
  BY DEF Log!Commit
<1>2. flush'.step = "metas" /\ flush'.batch = flush.batch /\ flush'.at = 1
  BY <1>1 DEF Log!Orderly, Log!Types
<1>3. Log!Unwritten' = {}
  BY <1>2 DEF Log!Unwritten
<1>4. UNCHANGED Log!Unapplied
  <2>1. \A k \in Log!Metas(flush.batch) : k >= 1
    <3>1. flush.batch \in Seq(Log!Rows \cup Log!Data)
      BY DEF Log!Orderly, Log!Types
    <3> QED
      BY <3>1 DEF Log!Metas
  <2> QED
    BY <1>1, <1>2, <2>1 DEF Log!Unapplied, Log!Metas
<1>5. Log!Types'
  <2>1. flush' \in [step : {"none", "resolving", "inserting", "metas", "prune"},
                    batch : Seq(Log!Rows \cup Log!Data), at : Nat \ {0}]
    <3>1. flush' = [step |-> "metas", batch |-> flush.batch, at |-> 1]
      BY <1>1 DEF Log!Orderly, Log!Types
    <3>2. flush.batch \in Seq(Log!Rows \cup Log!Data)
      BY DEF Log!Orderly, Log!Types
    <3> QED
      BY <3>1, <3>2
  <2> QED
    BY <1>1, <2>1 DEF Log!Orderly, Log!Types
<1>6. Log!TypeOK' /\ Log!QueueIsServed' /\ Log!FailedBatchIsGone'
  BY <1>1, <1>2 DEF Log!Orderly, Log!TypeOK, Log!QueueIsServed, Log!FailedBatchIsGone, Log!IdsOf
<1>7. Log!RollbackCuts'
  <2>1. table \in Seq(Log!Rows)
    BY DEF Log!Orderly, Log!Types
  <2> QED
    BY <1>1, <1>2, <2>1 DEF Log!Orderly, Log!RollbackCuts
<1>8. Log!WrittenOnce' /\ Log!LostIsGone' /\ Log!UpdatesLead'
  BY <1>1, <1>2, <1>3 DEF Log!Orderly, Log!WrittenOnce, Log!LostIsGone, Log!UpdatesLead, Log!Logs
<1>9. Log!Numbered'
  BY <1>1, <1>2, <1>3 DEF Log!Orderly, Log!Numbered, Log!Logs, Log!TypeOK
<1>10. Log!MetaFollows'
  BY <1>1, <1>2, <1>3, <1>4 DEF Log!Orderly, Log!MetaFollows, Log!Coming, Log!Logs, Log!Metas,
                                Log!Contains
<1> QED
  BY <1>5, <1>6, <1>7, <1>8, <1>9, <1>10 DEF Log!Orderly

\* Client data fills the rows of its session; or the next batch is taken.
LEMMA LogApplyMetaInv ==
  ASSUME Log!AccessLogAssumption, Log!Orderly, Log!ApplyMeta
  PROVE  Log!Orderly'
<1>1. /\ UNCHANGED <<processing, metaOf, name, requests, renaming, closing, rows, droppedRows,
                     refused, unlogged, lost, due, faults>>
      /\ flush.step = "metas" /\ saved = table
  BY DEF Log!ApplyMeta, Log!Orderly, Log!TypeOK
<1>2. Log!Unwritten = {}
  BY <1>1 DEF Log!Unwritten
<1>3. CASE Log!Unapplied = {} /\ Log!NextBatch /\ UNCHANGED <<table, saved>>
  BY <1>1, <1>2, <1>3, LogNextBatchInv DEF Log!Orderly, Log!TypeOK
<1>4. ASSUME NEW k \in Log!Unapplied,
             \A j \in Log!Unapplied : k <= j,
             table' = [i \in DOMAIN table |->
                         IF table[i].session = flush.batch[k].session
                         THEN [table[i] EXCEPT !.meta = TRUE] ELSE table[i]],
             saved' = table', flush' = [flush EXCEPT !.at = k + 1], queue' = queue
      PROVE  Log!Orderly'
  <2>1. /\ \A j \in Log!Unapplied : j \in Nat /\ flush.batch[j] \in Log!Data
        /\ flush.batch \in Seq(Log!Rows \cup Log!Data) /\ table \in Seq(Log!Rows)
    BY LogItemTypes DEF Log!Orderly, Log!Types
  <2>2. flush'.step = "metas" /\ flush'.batch = flush.batch /\ flush'.at = k + 1
    BY <1>1, <1>4 DEF Log!Orderly, Log!Types
  <2>3. Log!Unwritten' = {}
    BY <2>2 DEF Log!Unwritten
  <2>4. \A j \in Log!Unapplied : j = k \/ j \in Log!Unapplied'
    BY <1>1, <1>4, <2>1, <2>2 DEF Log!Unapplied, Log!Metas
  <2>5. /\ DOMAIN table' = DOMAIN table
        /\ \A i \in DOMAIN table :
             /\ table'[i] \in Log!Rows /\ table'[i].id = table[i].id
             /\ table'[i].user = table[i].user
             /\ table'[i].session = table[i].session
             /\ table'[i].meta = (table[i].meta \/ table[i].session = flush.batch[k].session)
    <3>1. \A i \in DOMAIN table : table[i] \in Log!Rows
      BY <2>1
    <3> QED
      BY <1>4, <3>1 DEF Log!Rows
  <2>6. table' \in Seq(Log!Rows) /\ Len(table') = Len(table)
    <3>1. DOMAIN table = 1..Len(table) /\ Len(table) \in Nat
      BY <2>1
    <3>2. table' \in [1..Len(table) -> Log!Rows]
      BY <1>4, <2>5, <3>1
    <3> QED
      BY <3>1, <3>2
  <2>7. Log!Types'
    <3>1. flush' \in [step : {"none", "resolving", "inserting", "metas", "prune"},
                      batch : Seq(Log!Rows \cup Log!Data), at : Nat \ {0}]
      <4>1. flush \in [step : {"none", "resolving", "inserting", "metas", "prune"},
                       batch : Seq(Log!Rows \cup Log!Data), at : Nat \ {0}]
        BY DEF Log!Orderly, Log!Types
      <4>2. k + 1 \in Nat \ {0}
        BY <2>1
      <4> QED
        BY <1>4, <4>1, <4>2
    <3> QED
      BY <1>1, <1>4, <2>6, <3>1 DEF Log!Orderly, Log!Types
  <2>8. Log!TypeOK' /\ Log!QueueIsServed' /\ Log!FailedBatchIsGone'
    BY <1>1, <1>4, <2>2, <2>5 DEF Log!Orderly, Log!TypeOK, Log!QueueIsServed,
                                  Log!FailedBatchIsGone, Log!IdsOf
  <2>9. Log!RollbackCuts'
    <3>1. Len(saved') <= Len(table') /\ \A i \in DOMAIN saved' : saved'[i].id = table'[i].id
      BY <1>4, <2>6
    <3> QED
      BY <1>1, <2>2, <3>1 DEF Log!Orderly, Log!RollbackCuts
  <2>10. Log!WrittenOnce' /\ Log!LostIsGone'
    BY <1>1, <1>4, <2>3, <2>5 DEF Log!Orderly, Log!WrittenOnce, Log!LostIsGone, Log!Logs
  <2>11. Log!Numbered'
    BY <1>1, <1>4, <2>3, <2>5 DEF Log!Orderly, Log!Numbered, Log!Logs, Log!TypeOK
  <2>12. Log!UpdatesLead'
    BY <1>1, <1>4, <2>3, <2>5 DEF Log!Orderly, Log!UpdatesLead, Log!Logs
  <2>13. Log!MetaFollows'
    <3>1. \A t : Log!Coming(t) => Log!Coming(t)' \/ t = flush.batch[k].session
      BY <1>4, <2>2, <2>4 DEF Log!Coming, Log!Metas
    <3>2. ASSUME faults["failures"] = 0, NEW j \in DOMAIN table',
                 Log!Contains(metaOf, table'[j].session)
          PROVE  table'[j].meta \/ Log!Coming(table[j].session)'
      <4>1. table[j].meta \/ Log!Coming(table[j].session)
        BY <2>5, <3>2 DEF Log!Orderly, Log!MetaFollows
      <4>2. PICK t : t = table[j].session
        OBVIOUS
      <4> QED
        BY <2>5, <3>1, <4>1, <4>2
    <3> QED
      BY <1>1, <1>4, <2>3, <3>2 DEF Log!Orderly, Log!MetaFollows, Log!Contains, Log!Logs,
                                    Log!Metas
  <2> QED
    BY <2>7, <2>8, <2>9, <2>10, <2>11, <2>12, <2>13 DEF Log!Orderly
<1> QED
  BY <1>3, <1>4 DEF Log!ApplyMeta

\* No batch is left: rows of the queue alone are on their way.
LEMMA LogNoBatch ==
  ASSUME flush = Log!NoFlush \/ flush.batch = <<>>
  PROVE  Log!Unwritten = {} /\ Log!Unapplied = {}
  BY DEF Log!NoFlush, Log!Unwritten, Log!Unapplied, Log!Logs, Log!Metas

\* A flush that ends is followed by another one if something waits.
LEMMA LogEndFlushInv ==
  ASSUME Log!AccessLogAssumption, Log!Orderly, Log!EndFlush
  PROVE  Log!Orderly'
<1>1. /\ UNCHANGED <<queue, table, saved, metaOf, name, requests, renaming, closing, rows,
                     droppedRows, refused, unlogged, lost, due, faults>>
      /\ flush.step = "prune" /\ flush' = Log!NoFlush /\ processing' = (queue # <<>>)
  BY DEF Log!EndFlush
<1>2. Log!Unwritten = {} /\ Log!Unapplied = {}
  BY <1>1, LogNoBatch DEF Log!Orderly, Log!RollbackCuts
<1>3. Log!Unwritten' = {} /\ Log!Unapplied' = {}
  BY <1>1 DEF Log!NoFlush, Log!Unwritten, Log!Unapplied, Log!Logs, Log!Metas
<1>4. Log!Types'
  BY <1>1 DEF Log!Orderly, Log!Types, Log!NoFlush
<1>5. Log!TypeOK' /\ Log!QueueIsServed' /\ Log!FailedBatchIsGone'
  BY <1>1 DEF Log!Orderly, Log!TypeOK, Log!QueueIsServed, Log!FailedBatchIsGone, Log!IdsOf,
              Log!NoFlush
<1>6. Log!RollbackCuts'
  <2>1. closing = "closed" => queue = <<>>
    BY DEF Log!Orderly, Log!RollbackCuts, Log!QueueIsServed
  <2> QED
    BY <1>1, <2>1 DEF Log!Orderly, Log!RollbackCuts, Log!NoFlush
<1>7. Log!WrittenOnce' /\ Log!LostIsGone' /\ Log!Numbered'
  BY <1>1, <1>3 DEF Log!Orderly, Log!WrittenOnce, Log!LostIsGone, Log!Numbered, Log!Logs
<1>8. Log!UpdatesLead'
  BY <1>1, <1>3 DEF Log!Orderly, Log!UpdatesLead, Log!Logs
<1>9. Log!MetaFollows'
  BY <1>1, <1>2, <1>3 DEF Log!Orderly, Log!MetaFollows, Log!Coming, Log!Logs, Log!Metas,
                          Log!Contains
<1> QED
  BY <1>4, <1>5, <1>6, <1>7, <1>8, <1>9 DEF Log!Orderly

\* A failed batch takes what it has written with it.
LEMMA LogFailFlushInv ==
  ASSUME Log!AccessLogAssumption, Log!Orderly, Log!FailFlush
  PROVE  Log!Orderly'
<1>1. /\ UNCHANGED <<queue, saved, metaOf, name, requests, renaming, closing, rows, droppedRows,
                     due>>
      /\ flush.step \in {"resolving", "inserting", "metas"}
      /\ flush' = Log!NoFlush /\ processing' = (queue # <<>>)
      /\ lost' = lost \cup {flush.batch[k].id : k \in Log!Unwritten}
                      \cup (Log!IdsOf(table) \ Log!IdsOf(saved))
  BY DEF Log!FailFlush, Log!InBatch
<1>2. table' = saved
  BY DEF Log!FailFlush, Log!Orderly, Log!TypeOK
<1>3. faults' \in [{"metas", "failures", "renames", "crashes"} -> Nat] /\ faults'["failures"] # 0
  BY DEF Log!FailFlush, Log!May, Log!Orderly, Log!Types
<1>4. Log!Unwritten' = {} /\ Log!Unapplied' = {}
  BY <1>1 DEF Log!NoFlush, Log!Unwritten, Log!Unapplied, Log!Logs, Log!Metas
<1>5. /\ saved \in Seq(Log!Rows) /\ table \in Seq(Log!Rows)
      /\ \A k \in DOMAIN saved : k \in DOMAIN table /\ saved[k].id = table[k].id
  <2>1. saved \in Seq(Log!Rows) /\ table \in Seq(Log!Rows) /\ Len(saved) <= Len(table)
    BY DEF Log!Orderly, Log!Types, Log!RollbackCuts
  <2>2. \A k \in DOMAIN saved : k \in DOMAIN table
    BY <2>1
  <2> QED
    BY <2>1, <2>2 DEF Log!Orderly, Log!RollbackCuts
<1>6. Log!Types'
  BY <1>1, <1>2, <1>3, <1>5 DEF Log!Orderly, Log!Types, Log!NoFlush
<1>7. Log!TypeOK'
  <2>1. \A k \in DOMAIN saved : saved[k].id \in 1..rows /\ saved[k].user \in 1..name
    BY <1>5 DEF Log!Orderly, Log!TypeOK, Log!Numbered
  <2>2. lost' \subseteq 1..rows
    BY <1>1 DEF Log!Orderly, Log!TypeOK, Log!Numbered, Log!IdsOf
  <2> QED
    BY <1>1, <1>2, <2>1, <2>2 DEF Log!Orderly, Log!TypeOK, Log!NoFlush
<1>8. Log!QueueIsServed' /\ Log!RollbackCuts'
  <2>1. closing = "closed" => queue = <<>>
    BY DEF Log!Orderly, Log!RollbackCuts, Log!QueueIsServed
  <2>2. Len(saved') <= Len(table') /\ \A k \in DOMAIN saved' : saved'[k].id = table'[k].id
    BY <1>1, <1>2, <1>5
  <2> QED
    BY <1>1, <2>1, <2>2 DEF Log!Orderly, Log!RollbackCuts, Log!NoFlush, Log!QueueIsServed
<1>9. Log!FailedBatchIsGone'
  <2>1. ASSUME NEW k \in DOMAIN saved, NEW j \in Log!Unwritten, saved[k].id = flush.batch[j].id
        PROVE  FALSE
    <3>1. table[k].id < flush.batch[j].id /\ table[k].id \in Nat
      BY <1>5 DEF Log!Orderly, Log!WrittenOnce, Log!TypeOK
    <3> QED
      BY <1>5, <2>1, <3>1
  <2>2. \A k \in DOMAIN saved : saved[k].id \notin lost
    BY <1>5 DEF Log!Orderly, Log!FailedBatchIsGone, Log!IdsOf
  <2> QED
    BY <1>1, <1>2, <2>1, <2>2 DEF Log!FailedBatchIsGone, Log!IdsOf
<1>10. Log!LostIsGone'
  <2>1. ASSUME NEW k \in Log!Logs(queue) PROVE queue[k].id \notin lost'
    <3>1. queue[k].id \notin lost /\ queue[k].id \in Nat
      BY DEF Log!Orderly, Log!LostIsGone, Log!Numbered
    <3>2. \A j \in Log!Unwritten : flush.batch[j].id \in Nat /\ flush.batch[j].id < queue[k].id
      BY DEF Log!Orderly, Log!WrittenOnce, Log!Numbered
    <3>3. \A j \in DOMAIN table : table[j].id \in Nat /\ table[j].id < queue[k].id
      BY DEF Log!Orderly, Log!WrittenOnce, Log!TypeOK
    <3>4. \A j \in Log!Unwritten : flush.batch[j].id # queue[k].id
      BY <3>1, <3>2
    <3>5. queue[k].id \notin Log!IdsOf(table)
      BY <3>1, <3>3 DEF Log!IdsOf
    <3> QED
      BY <1>1, <3>1, <3>4, <3>5
  <2> QED
    BY <1>1, <1>4, <2>1 DEF Log!LostIsGone, Log!Logs
<1>11. Log!WrittenOnce'
  BY <1>1, <1>2, <1>4, <1>5 DEF Log!Orderly, Log!WrittenOnce, Log!Logs
<1>12. Log!Numbered'
  BY <1>1, <1>2, <1>4 DEF Log!Orderly, Log!Numbered, Log!Logs
<1>13. Log!UpdatesLead' /\ Log!MetaFollows'
  BY <1>1, <1>3 DEF Log!Orderly, Log!UpdatesLead, Log!MetaFollows
<1> QED
  BY <1>6, <1>7, <1>8, <1>9, <1>10, <1>11, <1>12, <1>13 DEF Log!Orderly


-----------------------------------------------------------------------------
(* Renames, crash and close.                                               *)

\* A rename replaces a name by the next one and leaves everything else as it is.
LEMMA LogRenamedItems ==
  ASSUME NEW s \in Seq(Log!Rows \cup Log!Data), NEW old \in Nat
  PROVE  LET t == Log!Renamed(s, old) IN
         /\ t \in Seq(Log!Rows \cup Log!Data) /\ Len(t) = Len(s) /\ DOMAIN t = DOMAIN s
         /\ Log!Logs(t) = Log!Logs(s) /\ Log!Metas(t) = Log!Metas(s)
         /\ \A k \in Log!Logs(s) :
              /\ t[k].id = s[k].id /\ t[k].session = s[k].session /\ t[k].meta = s[k].meta
              /\ t[k].user = IF s[k].user = old THEN old + 1 ELSE s[k].user
         /\ \A k \in Log!Metas(s) : t[k] = s[k]
         /\ s \in Seq(Log!Rows) => t \in Seq(Log!Rows) /\ Log!Logs(s) = DOMAIN s
<1> DEFINE t == Log!Renamed(s, old)
<1>1. DOMAIN s = 1..Len(s) /\ Len(s) \in Nat /\ \A k \in DOMAIN s :
        s[k] \in Log!Rows \cup Log!Data
  OBVIOUS
<1>2. \A x \in Log!Rows : x.type = "log"
  BY DEF Log!Rows
<1>3. \A x \in Log!Data : x.type = "client-meta"
  BY DEF Log!Data
<1>4. /\ DOMAIN t = DOMAIN s
      /\ \A k \in DOMAIN s : t[k] = IF s[k].type = "log" /\ s[k].user = old
                                    THEN [s[k] EXCEPT !.user = old + 1] ELSE s[k]
  BY DEF Log!Renamed
<1> HIDE DEF t
<1>5. ASSUME NEW r \in Log!Rows
      PROVE  LET q == [r EXCEPT !.user = old + 1] IN
             /\ q \in Log!Rows /\ q.id = r.id /\ q.session = r.session /\ q.meta = r.meta
             /\ q.user = old + 1
  BY DEF Log!Rows
<1>6. \A k \in DOMAIN s : s[k] \in Log!Rows =>
        /\ t[k] \in Log!Rows /\ t[k].id = s[k].id /\ t[k].session = s[k].session
        /\ t[k].meta = s[k].meta /\ t[k].user = IF s[k].user = old THEN old + 1 ELSE s[k].user
  BY <1>2, <1>4, <1>5
<1>7. \A k \in DOMAIN s : s[k] \in Log!Data => t[k] = s[k]
  BY <1>3, <1>4
<1>8. t \in [1..Len(s) -> Log!Rows \cup Log!Data]
  <2>1. \A k \in DOMAIN s : t[k] \in Log!Rows \cup Log!Data
    BY <1>1, <1>6, <1>7
  <2>2. t = [k \in 1..Len(s) |-> t[k]]
    BY <1>1 DEF t, Log!Renamed
  <2> QED
    BY <1>1, <2>1, <2>2
<1>9. t \in Seq(Log!Rows \cup Log!Data) /\ Len(t) = Len(s)
  BY <1>1, <1>8
<1>10. Log!Logs(t) = Log!Logs(s) /\ Log!Metas(t) = Log!Metas(s)
  BY <1>1, <1>2, <1>3, <1>4, <1>6, <1>7 DEF Log!Logs, Log!Metas
<1>11. \A k \in Log!Logs(s) : k \in DOMAIN s /\ s[k] \in Log!Rows
  BY <1>1, <1>3 DEF Log!Logs
<1>12. \A k \in Log!Metas(s) : k \in DOMAIN s /\ s[k] \in Log!Data
  BY <1>1, <1>2 DEF Log!Metas
<1>13. ASSUME s \in Seq(Log!Rows) PROVE t \in Seq(Log!Rows) /\ Log!Logs(s) = DOMAIN s
  <2>1. \A k \in DOMAIN s : s[k] \in Log!Rows
    BY <1>13
  <2>2. \A k \in DOMAIN s : t[k] \in Log!Rows
    BY <1>6, <2>1
  <2>3. t \in [1..Len(s) -> Log!Rows]
    BY <1>1, <1>8, <2>2
  <2>4. Log!Logs(s) = DOMAIN s
    BY <1>2, <2>1 DEF Log!Logs
  <2> QED
    BY <1>1, <2>3, <2>4
<1> QED
  BY <1>4, <1>6, <1>7, <1>9, <1>10, <1>11, <1>12, <1>13 DEF t

\* The rows of the queue that are due get the new name at once, and those of the
\* table have a name that the UPDATEs under way lead to it.
LEMMA LogRenameQueuedInv ==
  ASSUME Log!AccessLogAssumption, Log!Orderly, Log!RenameQueued
  PROVE  Log!Orderly'
<1>1. /\ UNCHANGED <<processing, flush, table, saved, metaOf, requests, closing, rows, droppedRows,
                     lost>>
      /\ name' = name + 1 /\ queue' = Log!Renamed(queue, name)
      /\ renaming' = Append(renaming, name)
      /\ due' = {queue[k].id : k \in {i \in Log!Logs(queue) : queue[i].user = name}}
                \cup {table[k].id : k \in {i \in DOMAIN table : table[i].user \in Log!Replaced}}
      /\ closing # "closed"
  BY DEF Log!RenameQueued
<1>2. /\ faults' \in [{"metas", "failures", "renames", "crashes"} -> Nat]
      /\ faults'["failures"] = faults["failures"]
  BY DEF Log!RenameQueued, Log!May, Log!Orderly, Log!Types
<1>3. UNCHANGED <<Log!Unwritten, Log!Unapplied>>
  BY <1>1 DEF Log!Unwritten, Log!Unapplied
<1>4. /\ queue \in Seq(Log!Rows \cup Log!Data) /\ renaming \in Seq(Nat) /\ name \in Nat
      /\ rows \in Nat
  BY DEF Log!Orderly, Log!Types
<1>5. /\ queue' \in Seq(Log!Rows \cup Log!Data) /\ Len(queue') = Len(queue)
      /\ Log!Logs(queue)' = Log!Logs(queue) /\ Log!Metas(queue)' = Log!Metas(queue)
      /\ \A k \in Log!Metas(queue) : queue'[k] = queue[k]
  <2>1. /\ queue' \in Seq(Log!Rows \cup Log!Data) /\ Len(queue') = Len(queue)
        /\ Log!Logs(Log!Renamed(queue, name)) = Log!Logs(queue)
        /\ Log!Metas(Log!Renamed(queue, name)) = Log!Metas(queue)
        /\ \A k \in Log!Metas(queue) : queue'[k] = queue[k]
    BY <1>1, <1>4, LogRenamedItems
  <2>2. /\ Log!Logs(queue)' = Log!Logs(Log!Renamed(queue, name))
        /\ Log!Metas(queue)' = Log!Metas(Log!Renamed(queue, name))
    BY <1>1 DEF Log!Logs, Log!Metas
  <2> QED
    BY <2>1, <2>2
<1>6. \A k \in Log!Logs(queue) :
        /\ queue'[k].id = queue[k].id /\ queue'[k].session = queue[k].session
        /\ queue'[k].meta = queue[k].meta
        /\ queue'[k].user = IF queue[k].user = name THEN name + 1 ELSE queue[k].user
  BY <1>1, <1>4, LogRenamedItems
<1>7. queue' # <<>> => queue # <<>>
  BY <1>4, <1>5
<1>8. /\ renaming' \in Seq(Nat) /\ Len(renaming') = Len(renaming) + 1 /\ Len(renaming) \in Nat
      /\ \A i \in DOMAIN renaming : renaming'[i] = renaming[i]
      /\ DOMAIN renaming' = DOMAIN renaming \cup {Len(renaming) + 1}
      /\ renaming'[Len(renaming) + 1] = name
      /\ DOMAIN renaming = 1..Len(renaming)
  BY <1>1, <1>4
<1>9. Log!Types'
  BY <1>1, <1>2, <1>4, <1>5, <1>8 DEF Log!Orderly, Log!Types
<1>10. /\ \A k \in Log!Logs(queue) : queue[k].id \in 1..rows
       /\ \A k \in DOMAIN table : table[k].id \in 1..rows /\ table[k].user \in 1..name
  BY DEF Log!Orderly, Log!Numbered, Log!TypeOK
<1>11. Log!TypeOK'
  <2>1. due' \subseteq 1..rows
    BY <1>1, <1>10
  <2>2. \A k \in DOMAIN table : table[k].user \in 1..name'
    BY <1>1, <1>4, <1>10
  <2> QED
    BY <1>1, <1>5, <1>10, <2>1, <2>2 DEF Log!Orderly, Log!TypeOK
<1>12. Log!QueueIsServed' /\ Log!RollbackCuts' /\ Log!FailedBatchIsGone'
  BY <1>1, <1>7 DEF Log!Orderly, Log!QueueIsServed, Log!RollbackCuts, Log!FailedBatchIsGone,
                    Log!IdsOf, Log!NoFlush
<1>13. Log!WrittenOnce'
  BY <1>1, <1>3, <1>5, <1>6 DEF Log!Orderly, Log!WrittenOnce
<1>14. Log!LostIsGone'
  BY <1>1, <1>3, <1>5, <1>6 DEF Log!Orderly, Log!LostIsGone
<1>15. Log!Numbered'
  <2>1. \A n \in 1..name : n \in 1..name'
    BY <1>1, <1>4
  <2>2. name + 1 \in 1..name' /\ name' \in Nat \ {0}
    BY <1>1, <1>4
  <2>3. \A k \in Log!Logs(queue) : queue'[k].id \in 1..rows /\ queue'[k].user \in 1..name'
    BY <1>6, <2>1, <2>2 DEF Log!Orderly, Log!Numbered
  <2>4. \A k \in Log!Unwritten : flush.batch[k].id \in 1..rows /\ flush.batch[k].user \in 1..name'
    BY <2>1 DEF Log!Orderly, Log!Numbered
  <2>5. /\ \A k \in DOMAIN saved : saved[k].user \in 1..name'
        /\ \A k \in DOMAIN requests : requests[k] \in 1..name'
    BY <2>1 DEF Log!Orderly, Log!Numbered
  <2> QED
    BY <1>1, <1>3, <1>5, <2>2, <2>3, <2>4, <2>5 DEF Log!Numbered
<1>16. Log!MetaFollows'
  <2>1. \A t : Log!Coming(t)' <=> Log!Coming(t)
    BY <1>1, <1>3, <1>5 DEF Log!Coming
  <2>2. \A t : Log!Contains(metaOf, t)' <=> Log!Contains(metaOf, t)
    BY <1>1 DEF Log!Contains
  <2>3. ASSUME faults["failures"] = 0, NEW k \in Log!Logs(queue),
               Log!Contains(metaOf, queue[k].session)
        PROVE  queue[k].meta \/ \E j \in Log!Metas(queue) :
                 j > k /\ queue'[j].session = queue[k].session
    BY <1>5, <2>3 DEF Log!Orderly, Log!MetaFollows
  <2> QED
    BY <1>1, <1>2, <1>3, <1>5, <1>6, <2>1, <2>2, <2>3 DEF Log!Orderly, Log!MetaFollows
<1>17. Log!UpdatesLead'
  <2>1. \A i \in DOMAIN renaming' : renaming'[i] = name' - Len(renaming') + i - 1
    <3>1. name' - Len(renaming') = name - Len(renaming)
      BY <1>1, <1>4, <1>8
    <3>2. \A i \in DOMAIN renaming : renaming[i] = name - Len(renaming) + i - 1
      BY DEF Log!Orderly, Log!UpdatesLead
    <3>3. \A i \in DOMAIN renaming : renaming'[i] = name' - Len(renaming') + i - 1
      BY <1>8, <3>1, <3>2
    <3>4. name = name - Len(renaming) + (Len(renaming) + 1) - 1
      BY <1>4, <1>8
    <3> QED
      BY <1>8, <3>1, <3>3, <3>4
  <2>2. Len(renaming') < name'
    <3>1. Len(renaming) < name
      BY DEF Log!Orderly, Log!UpdatesLead
    <3> QED
      BY <1>1, <1>4, <1>8, <3>1
  <2>3. \A n \in Log!Replaced : n \in Nat /\ n >= name' - Len(renaming')
    <3>1. name' - Len(renaming') = name - Len(renaming)
      BY <1>1, <1>4, <1>8
    <3>2. name >= name' - Len(renaming')
      BY <1>4, <1>8, <3>1
    <3>3. ASSUME NEW i \in DOMAIN renaming
          PROVE  renaming[i] \in Nat /\ renaming[i] >= name' - Len(renaming')
      <4>1. renaming[i] = name - Len(renaming) + i - 1
        BY DEF Log!Orderly, Log!UpdatesLead
      <4>2. i \in Nat /\ i >= 1 /\ renaming[i] \in Nat
        BY <1>4
      <4> QED
        BY <1>4, <1>8, <3>1, <4>1, <4>2
    <3> QED
      BY <1>4, <3>2, <3>3 DEF Log!Replaced, Log!ToSet
  <2>4. \A j, k \in DOMAIN table : table[j].id = table[k].id => j = k
    <3>1. \A j, k \in DOMAIN table : j < k => table[j].id # table[k].id
      BY <1>10 DEF Log!Orderly, Log!WrittenOnce
    <3>2. \A j \in DOMAIN table : j \in Nat
      BY DEF Log!Orderly, Log!Types
    <3> QED
      BY <3>1, <3>2
  <2>5. \A j \in DOMAIN table, k \in Log!Logs(queue) : table[j].id # queue[k].id
    BY <1>10 DEF Log!Orderly, Log!WrittenOnce
  <2>6. \A k \in DOMAIN table : table[k].id \in due' => table[k].user >= name' - Len(renaming')
    BY <1>1, <2>3, <2>4, <2>5
  <2>7. \A k \in Log!Unwritten : flush.batch[k].id \notin due'
    <3>1. \A k \in Log!Unwritten, j \in Log!Logs(queue) : flush.batch[k].id # queue[j].id
      BY <1>10 DEF Log!Orderly, Log!WrittenOnce, Log!Numbered
    <3>2. \A k \in Log!Unwritten, j \in DOMAIN table : flush.batch[k].id # table[j].id
      BY <1>10 DEF Log!Orderly, Log!WrittenOnce, Log!Numbered
    <3> QED
      BY <1>1, <3>1, <3>2
  <2>8. \A k \in Log!Logs(queue) : queue[k].id \in due' => queue'[k].user = name'
    <3>1. \A j, k \in Log!Logs(queue) : queue[j].id = queue[k].id => j = k
      <4>1. \A j, k \in Log!Logs(queue) : j < k => queue[j].id # queue[k].id
        BY <1>10 DEF Log!Orderly, Log!WrittenOnce
      <4>2. \A j \in Log!Logs(queue) : j \in Nat
        BY <1>4 DEF Log!Logs
      <4> QED
        BY <4>1, <4>2
    <3> QED
      BY <1>1, <1>6, <2>5, <3>1
  <2> QED
    BY <1>1, <1>3, <1>5, <1>6, <2>1, <2>2, <2>6, <2>7, <2>8 DEF Log!UpdatesLead
<1> QED
  BY <1>9, <1>11, <1>12, <1>13, <1>14, <1>15, <1>16, <1>17 DEF Log!Orderly

\* The oldest UPDATE replaces the oldest name by the next one.
LEMMA LogRenameTableInv ==
  ASSUME Log!AccessLogAssumption, Log!Orderly, Log!RenameTable
  PROVE  Log!Orderly'
<1> DEFINE old == Head(renaming)
<1>1. /\ UNCHANGED <<queue, processing, flush, metaOf, name, requests, closing, rows, droppedRows,
                     lost, due, faults>>
      /\ renaming # <<>> /\ renaming' = Tail(renaming)
      /\ table' = Log!Renamed(table, old)
      /\ saved' = IF flush.step = "inserting" THEN saved ELSE table'
  BY DEF Log!RenameTable
<1>2. UNCHANGED <<Log!Unwritten, Log!Unapplied>>
  BY <1>1 DEF Log!Unwritten, Log!Unapplied
<1>3. /\ renaming \in Seq(Nat) /\ name \in Nat /\ table \in Seq(Log!Rows)
      /\ saved \in Seq(Log!Rows)
      /\ table \in Seq(Log!Rows \cup Log!Data)
  BY DEF Log!Orderly, Log!Types
<1>4. /\ Len(renaming) \in Nat /\ Len(renaming) >= 1 /\ Len(renaming') = Len(renaming) - 1
      /\ renaming' \in Seq(Nat) /\ old = renaming[1] /\ old \in Nat /\ 1 \in DOMAIN renaming
      /\ \A i \in DOMAIN renaming' :
           renaming'[i] = renaming[i + 1] /\ i + 1 \in DOMAIN renaming /\ i \in Nat
  BY <1>1, <1>3
<1> HIDE DEF old
<1>5. old = name - Len(renaming) /\ old >= 1 /\ old + 1 <= name
  <2>1. renaming[1] = name - Len(renaming) + 1 - 1 /\ Len(renaming) < name
    BY <1>4 DEF Log!Orderly, Log!UpdatesLead
  <2> QED
    BY <1>3, <1>4, <2>1
<1>6. /\ table' \in Seq(Log!Rows) /\ Len(table') = Len(table) /\ DOMAIN table' = DOMAIN table
      /\ Log!Logs(table) = DOMAIN table
  BY <1>1, <1>3, <1>4, LogRenamedItems
<1>7. \A k \in DOMAIN table :
        /\ table'[k].id = table[k].id /\ table'[k].session = table[k].session
        /\ table'[k].meta = table[k].meta
        /\ table'[k].user = IF table[k].user = old THEN old + 1 ELSE table[k].user
  <2>1. table \in Seq(Log!Rows \cup Log!Data) /\ old \in Nat /\ table' = Log!Renamed(table, old)
    BY <1>1, <1>3, <1>4
  <2>2. \A k \in Log!Logs(table) :
          /\ table'[k].id = table[k].id /\ table'[k].session = table[k].session
          /\ table'[k].meta = table[k].meta
          /\ table'[k].user = IF table[k].user = old THEN old + 1 ELSE table[k].user
    BY <2>1, LogRenamedItems
  <2> QED
    BY <1>6, <2>2
<1>8. \A k \in DOMAIN table : table[k].id \in 1..rows /\ table[k].user \in 1..name
  BY DEF Log!Orderly, Log!TypeOK
<1>9. \A k \in DOMAIN table : table'[k].user \in 1..name
  <2>1. old + 1 \in 1..name
    BY <1>3, <1>4, <1>5
  <2> QED
    BY <1>7, <1>8, <2>1
<1>10. Log!Types'
  <2>1. saved' \in Seq(Log!Rows)
    BY <1>1, <1>3, <1>6
  <2> QED
    BY <1>1, <1>4, <1>6, <2>1 DEF Log!Orderly, Log!Types
<1>11. Log!TypeOK'
  BY <1>1, <1>6, <1>7, <1>8, <1>9 DEF Log!Orderly, Log!TypeOK
<1>12. Log!QueueIsServed' /\ Log!FailedBatchIsGone'
  BY <1>1, <1>6, <1>7 DEF Log!Orderly, Log!QueueIsServed, Log!FailedBatchIsGone, Log!IdsOf
<1>13. Log!RollbackCuts'
  <2>1. Len(saved') <= Len(table') /\ \A k \in DOMAIN saved' : saved'[k].id = table'[k].id
    <3>1. CASE flush.step = "inserting"
      <4>1. Len(saved) <= Len(table) /\ \A k \in DOMAIN saved : saved[k].id = table[k].id
        BY DEF Log!Orderly, Log!RollbackCuts
      <4>2. \A k \in DOMAIN saved : k \in DOMAIN table
        BY <1>3, <4>1
      <4>3. \A k \in DOMAIN saved : saved[k].id = table'[k].id
        BY <1>7, <4>1, <4>2
      <4>4. saved' = saved
        BY <1>1, <3>1
      <4> QED
        BY <1>6, <4>1, <4>3, <4>4
    <3>2. CASE flush.step # "inserting"
      <4>1. saved' = table' /\ Len(table') \in Nat
        BY <1>1, <1>6, <3>2
      <4> QED
        BY <4>1
    <3> QED
      BY <3>1, <3>2
  <2> QED
    BY <1>1, <2>1 DEF Log!Orderly, Log!RollbackCuts, Log!NoFlush
<1>14. Log!WrittenOnce' /\ Log!LostIsGone'
  BY <1>1, <1>2, <1>6, <1>7 DEF Log!Orderly, Log!WrittenOnce, Log!LostIsGone, Log!Logs
<1>15. Log!Numbered'
  <2>1. \A k \in DOMAIN saved' : saved'[k].user \in 1..name
    BY <1>1, <1>6, <1>9 DEF Log!Orderly, Log!Numbered
  <2> QED
    BY <1>1, <1>2, <2>1 DEF Log!Orderly, Log!Numbered, Log!Logs
<1>16. Log!MetaFollows'
  <2>1. \A t : Log!Coming(t)' <=> Log!Coming(t)
    BY <1>1, <1>2 DEF Log!Coming, Log!Metas
  <2>2. ASSUME faults["failures"] = 0, NEW k \in DOMAIN table',
               Log!Contains(metaOf, table'[k].session)
        PROVE  table'[k].meta \/ Log!Coming(table[k].session)'
    <3>1. table[k].meta \/ Log!Coming(table[k].session)
      BY <1>6, <1>7, <2>2 DEF Log!Orderly, Log!MetaFollows
    <3>2. PICK t : t = table[k].session
      OBVIOUS
    <3> QED
      BY <1>6, <1>7, <2>1, <3>1, <3>2
  <2>3. ASSUME faults["failures"] = 0, NEW k \in Log!Unwritten,
               Log!Contains(metaOf, flush.batch[k].session)
        PROVE  flush.batch[k].meta \/ Log!Coming(flush.batch[k].session)'
    <3>1. flush.batch[k].meta \/ Log!Coming(flush.batch[k].session)
      BY <2>3 DEF Log!Orderly, Log!MetaFollows
    <3>2. PICK t : t = flush.batch[k].session
      OBVIOUS
    <3> QED
      BY <1>1, <2>1, <3>1, <3>2
  <2> QED
    BY <1>1, <1>2, <1>6, <1>7, <2>2, <2>3 DEF Log!Orderly, Log!MetaFollows, Log!Contains,
                                              Log!Logs, Log!Metas
<1>17. Log!UpdatesLead'
  <2>1. ASSUME NEW i \in DOMAIN renaming' PROVE renaming'[i] = name - Len(renaming') + i - 1
    <3>1. renaming[i + 1] = name - Len(renaming) + (i + 1) - 1
      BY <1>4 DEF Log!Orderly, Log!UpdatesLead
    <3>2. /\ renaming'[i] = renaming[i + 1] /\ i \in Nat
          /\ Len(renaming') = Len(renaming) - 1 /\ Len(renaming) \in Nat
      BY <1>4
    <3>3. name - Len(renaming) + (i + 1) - 1 = name - Len(renaming') + i - 1
      BY <1>3, <3>2
    <3> QED
      BY <3>1, <3>2, <3>3
  <2>2. Len(renaming') < name
    <3>1. Len(renaming) < name
      BY DEF Log!Orderly, Log!UpdatesLead
    <3> QED
      BY <1>3, <1>4, <3>1
  <2>3. ASSUME faults["failures"] = 0, NEW k \in DOMAIN table, table[k].id \in due
        PROVE  table'[k].user >= name - Len(renaming')
    <3>1. table[k].user >= name - Len(renaming) /\ table[k].user \in Nat
      BY <1>8, <2>3 DEF Log!Orderly, Log!UpdatesLead
    <3>2. table'[k].user = IF table[k].user = old THEN old + 1 ELSE table[k].user
      BY <1>7
    <3>3. old \in Nat /\ name - Len(renaming) = old /\ name - Len(renaming') = old + 1
      BY <1>3, <1>4, <1>5
    <3>4. table[k].user >= old
      BY <3>1, <3>3
    <3>5. table'[k].user >= old + 1
      BY <3>1, <3>2, <3>3, <3>4
    <3> QED
      BY <3>3, <3>5
  <2> QED
    BY <1>1, <1>2, <1>6, <1>7, <2>1, <2>2, <2>3 DEF Log!Orderly, Log!UpdatesLead, Log!Logs
<1> QED
  BY <1>10, <1>11, <1>12, <1>13, <1>14, <1>15, <1>16, <1>17 DEF Log!Orderly

\* The rows that were saved are left, and those on their way are lost.
LEMMA LogCrashInv ==
  ASSUME Log!AccessLogAssumption, Log!Orderly, Log!Crash
  PROVE  Log!Orderly'
<1>1. /\ UNCHANGED <<name, rows>> /\ droppedRows' = 0
      /\ saved' = table'
      /\ lost' = lost \cup Log!InQueue \cup Log!InBatch \cup (Log!IdsOf(table) \ Log!IdsOf(saved))
      /\ queue' = <<>> /\ processing' = FALSE /\ flush' = Log!NoFlush
      /\ metaOf' = <<>> /\ requests' = <<>> /\ renaming' = <<>> /\ closing' = "no" /\ due' = {}
  BY DEF Log!Crash
<1>2. table' = saved
  BY DEF Log!Crash, Log!Orderly, Log!TypeOK
<1>3. faults' \in [{"metas", "failures", "renames", "crashes"} -> Nat]
  BY DEF Log!Crash, Log!May, Log!Orderly, Log!Types
<1>4. /\ saved \in Seq(Log!Rows) /\ table \in Seq(Log!Rows)
      /\ \A k \in DOMAIN saved : k \in DOMAIN table /\ saved[k].id = table[k].id
  <2>1. saved \in Seq(Log!Rows) /\ table \in Seq(Log!Rows) /\ Len(saved) <= Len(table)
    BY DEF Log!Orderly, Log!Types, Log!RollbackCuts
  <2>2. \A k \in DOMAIN saved : k \in DOMAIN table
    BY <2>1
  <2> QED
    BY <2>1, <2>2 DEF Log!Orderly, Log!RollbackCuts
<1>5. /\ Log!Unwritten' = {} /\ Log!Unapplied' = {} /\ Log!Logs(queue)' = {}
      /\ Log!Metas(queue)' = {}
  BY <1>1 DEF Log!NoFlush, Log!Unwritten, Log!Unapplied, Log!Logs, Log!Metas
<1>6. Log!Types'
  <2>1. /\ queue' \in Seq(Log!Rows \cup Log!Data) /\ metaOf' \in Seq(Session)
        /\ requests' \in Seq(Nat) /\ renaming' \in Seq(Nat)
    BY <1>1
  <2>2. flush' \in [step : {"none", "resolving", "inserting", "metas", "prune"},
                    batch : Seq(Log!Rows \cup Log!Data), at : Nat \ {0}]
    <3>1. <<>> \in Seq(Log!Rows \cup Log!Data) /\ 1 \in Nat \ {0}
      OBVIOUS
    <3> QED
      BY <1>1, <3>1 DEF Log!NoFlush
  <2> QED
    BY <1>1, <1>2, <1>3, <1>4, <2>1, <2>2 DEF Log!Orderly, Log!Types
<1>7. Log!TypeOK'
  <2>1. \A k \in DOMAIN saved : saved[k].id \in 1..rows /\ saved[k].user \in 1..name
    BY <1>4 DEF Log!Orderly, Log!TypeOK, Log!Numbered
  <2>2. Len(queue') <= LogQueue /\ Len(metaOf') <= LogCache
    BY <1>1 DEF Log!AccessLogAssumption
  <2>3. /\ lost \subseteq 1..rows /\ Log!IdsOf(table) \subseteq 1..rows
        /\ Log!InQueue \subseteq 1..rows /\ Log!InBatch \subseteq 1..rows
    BY DEF Log!Orderly, Log!TypeOK, Log!Numbered, Log!IdsOf, Log!InQueue, Log!InBatch
  <2>4. lost' \cup due' \subseteq 1..rows
    BY <1>1, <2>3
  <2> QED
    BY <1>1, <1>2, <2>1, <2>2, <2>4 DEF Log!TypeOK, Log!NoFlush
<1>8. Log!QueueIsServed' /\ Log!RollbackCuts' /\ Log!FailedBatchIsGone' /\ Log!LostIsGone'
  <2>1. Len(saved') <= Len(table')
    BY <1>1, <1>2, <1>4
  <2>2. ASSUME NEW k \in DOMAIN saved PROVE saved[k].id \notin lost'
    <3>1. k \in DOMAIN table /\ table[k].id = saved[k].id /\ table[k].id \in Nat
      BY <1>4 DEF Log!Orderly, Log!TypeOK
    <3>2. saved[k].id \notin lost
      BY <3>1 DEF Log!Orderly, Log!FailedBatchIsGone, Log!IdsOf
    <3>3. \A j \in Log!Unwritten : flush.batch[j].id \in Nat /\ table[k].id < flush.batch[j].id
      BY <3>1 DEF Log!Orderly, Log!WrittenOnce, Log!Numbered
    <3>4. \A j \in Log!Logs(queue) : queue[j].id \in Nat /\ table[k].id < queue[j].id
      BY <3>1 DEF Log!Orderly, Log!WrittenOnce, Log!Numbered
    <3>5. saved[k].id \notin Log!InBatch
      BY <3>1, <3>3 DEF Log!InBatch
    <3>6. saved[k].id \notin Log!InQueue
      BY <3>1, <3>4 DEF Log!InQueue
    <3>7. saved[k].id \in Log!IdsOf(saved)
      BY DEF Log!IdsOf
    <3> QED
      BY <1>1, <3>2, <3>5, <3>6, <3>7
  <2>3. Log!FailedBatchIsGone'
    BY <1>1, <1>2, <2>2 DEF Log!FailedBatchIsGone, Log!IdsOf
  <2> QED
    BY <1>1, <1>5, <2>1, <2>3 DEF Log!QueueIsServed, Log!RollbackCuts, Log!NoFlush, Log!LostIsGone
<1>9. Log!WrittenOnce'
  BY <1>2, <1>4, <1>5 DEF Log!Orderly, Log!WrittenOnce
<1>10. Log!Numbered'
  BY <1>1, <1>2, <1>5 DEF Log!Orderly, Log!Numbered
<1>11. Log!UpdatesLead'
  BY <1>1, <1>5 DEF Log!Orderly, Log!Numbered, Log!UpdatesLead
<1>12. Log!MetaFollows'
  BY <1>1, <1>5 DEF Log!MetaFollows, Log!Contains
<1> QED
  BY <1>6, <1>7, <1>8, <1>9, <1>10, <1>11, <1>12 DEF Log!Orderly

\* The close ends while no flush runs and nothing waits.
LEMMA LogCloseInv ==
  ASSUME Log!AccessLogAssumption, Log!Orderly, Log!Close \/ Log!Closed \/ UNCHANGED Log!vars
  PROVE  Log!Orderly'
<1>1. /\ UNCHANGED <<queue, processing, flush, table, saved, metaOf, name, requests, renaming, rows,
                     droppedRows, refused, unlogged, lost, due, faults>>
      /\ closing' \in {"no", "closing", "closed"}
      /\ closing' = "closed" => ~processing
  BY DEF Log!Close, Log!Closed, Log!vars, Log!Orderly, Log!Types, Log!RollbackCuts
<1>2. UNCHANGED <<Log!Unwritten, Log!Unapplied>>
  BY <1>1 DEF Log!Unwritten, Log!Unapplied
<1>3. /\ Log!Types' /\ Log!TypeOK' /\ Log!QueueIsServed' /\ Log!RollbackCuts'
      /\ Log!FailedBatchIsGone'
  BY <1>1 DEF Log!Orderly, Log!Types, Log!TypeOK, Log!QueueIsServed, Log!RollbackCuts,
              Log!FailedBatchIsGone, Log!IdsOf, Log!NoFlush
<1>4. Log!WrittenOnce' /\ Log!LostIsGone' /\ Log!UpdatesLead' /\ Log!Numbered'
  BY <1>1, <1>2 DEF Log!Orderly, Log!WrittenOnce, Log!LostIsGone, Log!UpdatesLead, Log!Numbered,
                    Log!Logs
<1>5. Log!MetaFollows'
  BY <1>1, <1>2 DEF Log!Orderly, Log!MetaFollows, Log!Coming, Log!Logs, Log!Metas, Log!Contains
<1> QED
  BY <1>3, <1>4, <1>5 DEF Log!Orderly

-----------------------------------------------------------------------------

\* The log begins in order.
LEMMA LogOrderlyInit == ASSUME Log!AccessLogAssumption, Log!Init PROVE Log!Orderly
<1>1. Log!Unwritten = {} /\ Log!Unapplied = {} /\ Log!Logs(queue) = {} /\ Log!Metas(queue) = {}
  BY DEF Log!Init, Log!NoFlush, Log!Unwritten, Log!Unapplied, Log!Logs, Log!Metas
<1>2. Log!Types
  <2>1. /\ queue \in Seq(Log!Rows \cup Log!Data) /\ table \in Seq(Log!Rows)
        /\ saved \in Seq(Log!Rows)
        /\ metaOf \in Seq(Session) /\ requests \in Seq(Nat) /\ renaming \in Seq(Nat)
    BY DEF Log!Init
  <2>2. flush \in [step : {"none", "resolving", "inserting", "metas", "prune"},
                   batch : Seq(Log!Rows \cup Log!Data), at : Nat \ {0}]
    <3>1. <<>> \in Seq(Log!Rows \cup Log!Data) /\ 1 \in Nat \ {0}
      OBVIOUS
    <3> QED
      BY <3>1 DEF Log!Init, Log!NoFlush
  <2> QED
    <3>1. /\ processing \in BOOLEAN /\ closing \in {"no", "closing", "closed"}
          /\ name \in Nat /\ rows \in Nat /\ droppedRows \in Nat
      BY DEF Log!Init
    <3>2. faults \in [{"metas", "failures", "renames", "crashes"} -> Nat]
      BY DEF Log!Init
    <3> QED
      BY <2>1, <2>2, <3>1, <3>2 DEF Log!Types
<1>3. Log!Numbered /\ Log!RollbackCuts /\ Log!LostIsGone /\ Log!UpdatesLead
  BY <1>1 DEF Log!Init, Log!NoFlush, Log!Numbered, Log!RollbackCuts, Log!LostIsGone,
              Log!UpdatesLead
<1>4. Log!TypeOK /\ Log!QueueIsServed /\ Log!FailedBatchIsGone
  <2>1. Len(queue) <= LogQueue /\ Len(metaOf) <= LogCache
    BY DEF Log!Init, Log!AccessLogAssumption
  <2>2. flush.step = "none" /\ processing = FALSE /\ saved = table
    BY DEF Log!Init, Log!NoFlush
  <2>3. DOMAIN table = {} /\ lost = {} /\ due = {} /\ queue = <<>>
    BY DEF Log!Init
  <2>4. Log!TypeOK
    BY <2>1, <2>2, <2>3 DEF Log!TypeOK
  <2> QED
    BY <2>3, <2>4 DEF Log!QueueIsServed, Log!FailedBatchIsGone
<1>5. Log!WrittenOnce /\ Log!MetaFollows
  BY <1>1 DEF Log!Init, Log!WrittenOnce, Log!MetaFollows
<1> QED
  BY <1>2, <1>3, <1>4, <1>5 DEF Log!Orderly

\* Every step of the log keeps its order.
LEMMA LogOrderlyNext == ASSUME Log!AccessLogAssumption, Log!Orderly, [Log!Next]_(Log!vars)
                        PROVE  Log!Orderly'
<1>1. CASE Log!BeginRequest
  BY <1>1, LogBeginRequestInv
<1>2. CASE \E s \in Session : Log!FinishRequest(s) \/ Log!ClientMeta(s)
  BY <1>2, LogFinishRequestInv, LogClientMetaInv
<1>3. CASE Log!Flushing
  BY <1>3, LogBeginFlushInv, LogBeginTransactionInv, LogInsertRowInv, LogCommitInv,
     LogApplyMetaInv, LogEndFlushInv
     DEF Log!Flushing
<1>4. CASE Log!FailFlush
  BY <1>4, LogFailFlushInv
<1>5. CASE Log!RenameQueued \/ Log!RenameTable
  BY <1>5, LogRenameQueuedInv, LogRenameTableInv
<1>6. CASE Log!Crash
  BY <1>6, LogCrashInv
<1>7. CASE Log!Close \/ Log!Closed \/ UNCHANGED Log!vars
  BY <1>7, LogCloseInv
<1> QED
  BY <1>1, <1>2, <1>3, <1>4, <1>5, <1>6, <1>7 DEF Log!Next

-----------------------------------------------------------------------------
(* Where every row is.                                                     *)

\* The rows that are accounted for.
LogFound == Log!IdsOf(table) \cup Log!InBatch \cup Log!InQueue

\* A step that keeps what is found keeps every row, if it gives nothing else up.
LEMMA LogFoundKeeps ==
  ASSUME Log!IInv, LogFound \ lost' \subseteq LogFound', rows' = rows, lost \subseteq lost',
         refused \cup unlogged \subseteq refused' \cup unlogged'
  PROVE  Log!EveryRowArrives'
BY DEF Log!IInv, Log!EveryRowArrives, Log!Expected, LogFound

\* The batch that is taken holds what leaves the queue.
LEMMA LogBatchFound ==
  ASSUME Log!AccessLogAssumption, Log!IInv, Log!NextBatch, UNCHANGED table, Log!Unwritten = {}
  PROVE  LogFound \subseteq LogFound'
<1>1. Log!Types
  BY DEF Log!IInv, Log!Orderly
<1>2. Log!InBatch = {} /\ Log!IdsOf(table)' = Log!IdsOf(table)
  BY DEF Log!InBatch, Log!IdsOf
<1>3. CASE queue = <<>>
  <2>1. Log!InQueue = {}
    BY <1>3 DEF Log!InQueue, Log!Logs
  <2> QED
    BY <1>2, <2>1 DEF LogFound
<1>4. CASE queue # <<>>
  <2>1. PICK n \in 1..Len(queue) :
          \A k \in Log!Logs(queue) :
            IF k <= n THEN k \in Log!Unwritten' /\ flush'.batch[k] = queue[k]
            ELSE k - n \in Log!Logs(queue)' /\ queue'[k - n] = queue[k]
    BY <1>1, <1>4, LogTakeBatch
  <2>2. ASSUME NEW k \in Log!Logs(queue) PROVE queue[k].id \in Log!InBatch' \cup Log!InQueue'
    <3>1. CASE k <= n
      <4>1. k \in Log!Unwritten' /\ flush'.batch[k].id = queue[k].id
        BY <2>1, <3>1
      <4> QED
        BY <4>1 DEF Log!InBatch
    <3>2. CASE ~(k <= n)
      <4>1. k - n \in Log!Logs(queue)' /\ queue'[k - n].id = queue[k].id
        BY <2>1, <3>2
      <4> QED
        BY <4>1 DEF Log!InQueue
    <3> QED
      BY <3>1, <3>2
  <2>3. Log!InQueue \subseteq Log!InBatch' \cup Log!InQueue'
    BY <2>2 DEF Log!InQueue
  <2> QED
    BY <1>2, <2>3 DEF LogFound
<1> QED
  BY <1>3, <1>4

\* The row that is inserted goes from the batch to the table.
LEMMA LogInsertFound ==
  ASSUME Log!IInv, Log!InsertRow
  PROVE  LogFound \subseteq LogFound'
<1>1. PICK k \in Log!Unwritten : /\ \A j \in Log!Unwritten : k <= j
                                 /\ table' = Append(table, flush.batch[k])
                                 /\ flush' = [flush EXCEPT !.at = k + 1]
  BY DEF Log!InsertRow
<1>2. /\ Log!Types /\ flush.step = "inserting" /\ queue' = queue
      /\ \A j \in Log!Unwritten : j \in Nat /\ flush.batch[j] \in Log!Rows
  BY LogItemTypes DEF Log!IInv, Log!Orderly, Log!InsertRow
<1>3. flush'.step = "inserting" /\ flush'.batch = flush.batch /\ flush'.at = k + 1
  BY <1>1, <1>2 DEF Log!Types
<1>4. table \in Seq(Log!Rows) /\ flush.batch[k] \in Log!Rows /\ Len(table) \in Nat
  BY <1>2 DEF Log!Types
<1>5. /\ DOMAIN table' = DOMAIN table \cup {Len(table) + 1}
      /\ table'[Len(table) + 1] = flush.batch[k]
      /\ \A j \in DOMAIN table : table'[j] = table[j]
  BY <1>1, <1>4
<1>6. Log!IdsOf(table) \subseteq Log!IdsOf(table') /\ flush.batch[k].id \in Log!IdsOf(table')
  BY <1>5 DEF Log!IdsOf
<1>7. \A j \in Log!Unwritten \ {k} : j \in Log!Unwritten'
  <2> SUFFICES ASSUME NEW j \in Log!Unwritten, j # k
               PROVE  j \in Log!Unwritten'
    OBVIOUS
  <2>1. k <= j /\ j \in Nat /\ k \in Nat
    BY <1>1, <1>2
  <2>2. j >= k + 1
    BY <2>1
  <2>3. j \in Log!Logs(flush.batch)
    BY <1>2 DEF Log!Unwritten
  <2> QED
    BY <1>3, <2>2, <2>3 DEF Log!Unwritten
<1>8. Log!InBatch \subseteq Log!InBatch' \cup {flush.batch[k].id}
  BY <1>3, <1>7 DEF Log!InBatch
<1>9. Log!InQueue' = Log!InQueue /\ Log!IdsOf(table)' = Log!IdsOf(table')
  BY <1>2 DEF Log!InQueue, Log!Logs, Log!IdsOf
<1> QED
  BY <1>6, <1>8, <1>9 DEF LogFound

\* Client data changes no id, and a rename neither.
LEMMA LogSameIds ==
  ASSUME NEW s, NEW t, DOMAIN t = DOMAIN s, \A k \in DOMAIN s : t[k].id = s[k].id
  PROVE  Log!IdsOf(t) = Log!IdsOf(s)
BY DEF Log!IdsOf

\* The steps of a flush keep every row.
LEMMA LogFlushingFound ==
  ASSUME Log!AccessLogAssumption, Log!IInv, Log!Flushing
  PROVE  LogFound \subseteq LogFound'
<1>1. CASE Log!BeginFlush
  <2>1. Log!Unwritten = {} /\ Log!NextBatch /\ UNCHANGED table
    BY <1>1 DEF Log!BeginFlush, Log!Unwritten
  <2> QED
    BY <2>1, LogBatchFound
<1>2. CASE Log!BeginTransaction
  <2>1. /\ UNCHANGED <<queue, table>> /\ flush.step = "resolving"
        /\ flush'.step = "inserting" /\ flush'.batch = flush.batch /\ flush'.at = flush.at
    BY <1>2 DEF Log!BeginTransaction, Log!IInv, Log!Orderly, Log!Types
  <2>2. Log!Unwritten' = Log!Unwritten
    BY <2>1 DEF Log!Unwritten
  <2> QED
    BY <2>1, <2>2 DEF LogFound, Log!InBatch, Log!InQueue, Log!IdsOf, Log!Logs
<1>3. CASE Log!InsertRow
  BY <1>3, LogInsertFound
<1>4. CASE Log!Commit
  <2>1. UNCHANGED <<queue, table>> /\ Log!Unwritten = {}
    BY <1>4 DEF Log!Commit
  <2> QED
    BY <2>1 DEF LogFound, Log!InBatch, Log!InQueue, Log!IdsOf, Log!Logs
<1>5. CASE Log!ApplyMeta
  <2>1. Log!Unwritten = {}
    BY <1>5 DEF Log!ApplyMeta, Log!Unwritten
  <2>2. CASE Log!NextBatch /\ UNCHANGED table
    BY <2>1, <2>2, LogBatchFound
  <2>3. ASSUME NEW k \in Log!Unapplied, queue' = queue,
               table' = [i \in DOMAIN table |->
                           IF table[i].session = flush.batch[k].session
                           THEN [table[i] EXCEPT !.meta = TRUE] ELSE table[i]]
        PROVE  LogFound \subseteq LogFound'
    <3>1. \A i \in DOMAIN table : table[i] \in Log!Rows
      BY LogItemTypes DEF Log!IInv, Log!Orderly
    <3>2. \A x \in Log!Rows : [x EXCEPT !.meta = TRUE].id = x.id
      BY DEF Log!Rows
    <3>3. DOMAIN table' = DOMAIN table /\ \A i \in DOMAIN table : table'[i].id = table[i].id
      BY <2>3, <3>1, <3>2
    <3>4. Log!IdsOf(table') = Log!IdsOf(table)
      BY <3>3, LogSameIds
    <3>5. Log!InQueue' = Log!InQueue /\ Log!InBatch = {} /\ Log!IdsOf(table)' = Log!IdsOf(table')
      BY <2>1, <2>3 DEF Log!InQueue, Log!InBatch, Log!Logs, Log!IdsOf
    <3> QED
      BY <3>4, <3>5 DEF LogFound
  <2> QED
    BY <1>5, <2>2, <2>3 DEF Log!ApplyMeta
<1>6. CASE Log!EndFlush
  <2>1. UNCHANGED <<queue, table>> /\ Log!Unwritten = {}
    BY <1>6 DEF Log!EndFlush, Log!Unwritten
  <2> QED
    BY <2>1 DEF LogFound, Log!InBatch, Log!InQueue, Log!IdsOf, Log!Logs
<1> QED
  BY <1>1, <1>2, <1>3, <1>4, <1>5, <1>6 DEF Log!Flushing

\* A batch that fails and a process that dies give up what is lost with them only.
LEMMA LogCutFound ==
  ASSUME Log!IInv, Log!FailFlush \/ Log!Crash
  PROVE  LogFound \ lost' \subseteq LogFound'
<1>1. table' = saved /\ Log!IdsOf(table)' = Log!IdsOf(saved)
  <2>1. table' = saved
    BY DEF Log!FailFlush, Log!Crash, Log!IInv, Log!Orderly, Log!TypeOK
  <2> QED
    BY <2>1 DEF Log!IdsOf
<1>2. Log!InBatch \subseteq lost' /\ Log!IdsOf(table) \ Log!IdsOf(saved) \subseteq lost'
  BY DEF Log!FailFlush, Log!Crash
<1>3. Log!InQueue \subseteq lost' \/ Log!InQueue' = Log!InQueue
  BY DEF Log!FailFlush, Log!Crash, Log!InQueue, Log!Logs
<1> QED
  BY <1>1, <1>2, <1>3 DEF LogFound

\* A rename keeps the number of every row.
LEMMA LogRenameFound ==
  ASSUME Log!IInv, Log!RenameQueued \/ Log!RenameTable
  PROVE  LogFound \subseteq LogFound'
<1>1. /\ queue \in Seq(Log!Rows \cup Log!Data) /\ table \in Seq(Log!Rows)
      /\ table \in Seq(Log!Rows \cup Log!Data)
      /\ name \in Nat /\ renaming \in Seq(Nat)
  <2>1. \A s \in Seq(Log!Rows) : s \in Seq(Log!Rows \cup Log!Data)
    OBVIOUS
  <2> QED
    BY <2>1 DEF Log!IInv, Log!Orderly, Log!Types
<1>2. UNCHANGED flush /\ Log!InBatch' = Log!InBatch
  BY DEF Log!RenameQueued, Log!RenameTable, Log!InBatch, Log!Unwritten
<1>3. CASE Log!RenameQueued
  <2>1. queue' = Log!Renamed(queue, name) /\ table' = table
    BY <1>3 DEF Log!RenameQueued
  <2>2. Log!Logs(queue') = Log!Logs(queue) /\ \A k \in Log!Logs(queue) :
          queue'[k].id = queue[k].id
    BY <1>1, <2>1, LogRenamedItems
  <2>3. Log!InQueue' = Log!InQueue /\ Log!IdsOf(table)' = Log!IdsOf(table)
    BY <2>1, <2>2 DEF Log!InQueue, Log!Logs, Log!IdsOf
  <2> QED
    BY <1>2, <2>3 DEF LogFound
<1>4. CASE Log!RenameTable
  <2>1. renaming # <<>> /\ table' = Log!Renamed(table, Head(renaming)) /\ queue' = queue
    BY <1>4 DEF Log!RenameTable
  <2>2. Head(renaming) \in Nat
    BY <1>1, <2>1
  <2>3. /\ DOMAIN table' = DOMAIN table /\ Log!Logs(table) = DOMAIN table
        /\ \A k \in Log!Logs(table) : table'[k].id = table[k].id
    BY <1>1, <2>1, <2>2, LogRenamedItems
  <2>4. Log!IdsOf(table') = Log!IdsOf(table)
    BY <2>3, LogSameIds
  <2>5. Log!InQueue' = Log!InQueue /\ Log!IdsOf(table)' = Log!IdsOf(table')
    BY <2>1 DEF Log!InQueue, Log!Logs, Log!IdsOf
  <2> QED
    BY <1>2, <2>4, <2>5 DEF LogFound
<1> QED
  BY <1>3, <1>4

\* Client data that is queued pushes no row out.
LEMMA LogMetaFound ==
  ASSUME Log!IInv, NEW s \in Session, Log!ClientMeta(s)
  PROVE  LogFound \subseteq LogFound'
<1> DEFINE e == [type |-> "client-meta", session |-> s]
<1>1. /\ UNCHANGED <<flush, table>> /\ e \in Log!Data /\ queue \in Seq(Log!Rows \cup Log!Data)
      /\ UNCHANGED queue \/ queue' = Append(queue, e)
  BY DEF Log!ClientMeta, Log!Enqueue, Log!Data, Log!IInv, Log!Orderly, Log!Types
<1>2. Log!InBatch' = Log!InBatch /\ Log!IdsOf(table)' = Log!IdsOf(table)
  BY <1>1 DEF Log!InBatch, Log!Unwritten, Log!IdsOf
<1> HIDE DEF e
<1>3. Log!InQueue' = Log!InQueue
  <2>1. CASE UNCHANGED queue
    BY <2>1 DEF Log!InQueue, Log!Logs
  <2>2. CASE queue' = Append(queue, e)
    <3>1. /\ Log!Logs(queue') = Log!Logs(queue) /\ Log!Logs(queue) \subseteq DOMAIN queue
          /\ \A k \in DOMAIN queue : queue'[k] = queue[k]
      BY <1>1, <2>2, LogAppendItem DEF Log!Logs
    <3> QED
      BY <3>1 DEF Log!InQueue, Log!Logs
  <2> QED
    BY <1>1, <2>1, <2>2
<1> QED
  BY <1>2, <1>3 DEF LogFound

\* A row that is finished is queued, or refused and known to be.
LEMMA LogRowFound ==
  ASSUME Log!IInv, NEW s \in Session, Log!FinishRequest(s)
  PROVE  Log!EveryRowArrives'
<1> DEFINE e == Log!Log(rows + 1, Head(requests), s, Log!Contains(metaOf, s))
<1>1. /\ UNCHANGED <<flush, table, lost>> /\ rows \in Nat /\ rows' = rows + 1
      /\ queue \in Seq(Log!Rows \cup Log!Data)
      /\ refused \cup unlogged \subseteq refused' \cup unlogged'
      /\ \/ UNCHANGED queue /\ rows + 1 \in refused' \cup unlogged'
         \/ queue' = Append(queue, e)
  BY DEF Log!FinishRequest, Log!Enqueue, Log!IInv, Log!Orderly, Log!Types
<1>2. 1..rows + 1 \subseteq 1..rows \cup {rows + 1}
  BY <1>1
<1>3. Log!InBatch' = Log!InBatch /\ Log!IdsOf(table)' = Log!IdsOf(table)
  BY <1>1 DEF Log!InBatch, Log!Unwritten, Log!IdsOf
<1>4. e \in Log!Rows /\ e.id = rows + 1
  <2>1. Head(requests) \in Nat
    <3>1. requests \in Seq(Nat) /\ requests # <<>>
      BY DEF Log!FinishRequest, Log!IInv, Log!Orderly, Log!Types
    <3> QED
      BY <3>1
  <2> QED
    BY <1>1, <2>1 DEF Log!Rows, Log!Log, Log!Contains
<1> HIDE DEF e
<1>5. Log!InQueue \subseteq Log!InQueue' /\ rows + 1 \in Log!InQueue' \cup refused' \cup unlogged'
  <2>1. CASE UNCHANGED queue /\ rows + 1 \in refused' \cup unlogged'
    BY <2>1 DEF Log!InQueue, Log!Logs
  <2>2. CASE queue' = Append(queue, e)
    <3>1. /\ Log!Logs(queue') = Log!Logs(queue) \cup {Len(queue) + 1}
          /\ Log!Logs(queue) \subseteq DOMAIN queue
          /\ queue'[Len(queue) + 1] = e /\ \A k \in DOMAIN queue : queue'[k] = queue[k]
      BY <1>1, <1>4, <2>2, LogAppendItem DEF Log!Logs
    <3>2. e.id \in {queue'[k].id : k \in Log!Logs(queue')}
      BY <3>1
    <3>3. Log!InQueue' = {queue'[k].id : k \in Log!Logs(queue')}
      BY DEF Log!InQueue, Log!Logs
    <3>4. Log!InQueue \subseteq {queue'[k].id : k \in Log!Logs(queue')}
      BY <3>1 DEF Log!InQueue
    <3> QED
      BY <1>4, <3>2, <3>3, <3>4
  <2> QED
    BY <1>1, <2>1, <2>2
<1>6. Log!Expected \subseteq LogFound
  BY DEF Log!IInv, Log!EveryRowArrives, LogFound
<1>7. LogFound \subseteq LogFound'
  BY <1>3, <1>5 DEF LogFound
<1>8. Log!Expected' \subseteq Log!Expected \cup ({rows + 1} \ (refused' \cup unlogged'))
  BY <1>1, <1>2 DEF Log!Expected
<1>9. {rows + 1} \ (refused' \cup unlogged') \subseteq LogFound'
  BY <1>5 DEF LogFound
<1> QED
  BY <1>6, <1>7, <1>8, <1>9 DEF Log!EveryRowArrives, LogFound

\* Every step accounts for every row.
LEMMA LogEveryRowNext ==
  ASSUME Log!AccessLogAssumption, Log!IInv, [Log!Next]_(Log!vars)
  PROVE  Log!EveryRowArrives'
<1>1. CASE Log!BeginRequest \/ Log!Close \/ Log!Closed \/ UNCHANGED Log!vars
  <2>1. UNCHANGED <<queue, flush, table, rows, refused, unlogged, lost>>
    BY <1>1 DEF Log!BeginRequest, Log!Close, Log!Closed, Log!vars
  <2>2. LogFound' = LogFound
    BY <2>1 DEF LogFound, Log!InBatch, Log!InQueue, Log!IdsOf, Log!Logs, Log!Unwritten
  <2> QED
    BY <2>1, <2>2, LogFoundKeeps
<1>2. ASSUME NEW s \in Session, Log!FinishRequest(s) PROVE Log!EveryRowArrives'
  BY <1>2, LogRowFound
<1>3. ASSUME NEW s \in Session, Log!ClientMeta(s) PROVE Log!EveryRowArrives'
  <2>1. UNCHANGED <<rows, refused, unlogged, lost>>
    BY <1>3 DEF Log!ClientMeta
  <2> QED
    BY <1>3, <2>1, LogMetaFound, LogFoundKeeps
<1>4. CASE Log!Flushing
  <2>1. UNCHANGED <<rows, refused, unlogged, lost>>
    BY <1>4 DEF Log!Flushing, Log!BeginFlush, Log!BeginTransaction, Log!InsertRow, Log!Commit,
                Log!ApplyMeta, Log!EndFlush
  <2> QED
    BY <1>4, <2>1, LogFlushingFound, LogFoundKeeps
<1>5. CASE Log!FailFlush \/ Log!Crash
  <2>1. /\ rows' = rows /\ lost \subseteq lost'
        /\ refused \cup unlogged \subseteq refused' \cup unlogged'
    BY <1>5 DEF Log!FailFlush, Log!Crash
  <2> QED
    BY <1>5, <2>1, LogCutFound, LogFoundKeeps
<1>6. CASE Log!RenameQueued \/ Log!RenameTable
  <2>1. UNCHANGED <<rows, refused, unlogged, lost>>
    BY <1>6 DEF Log!RenameQueued, Log!RenameTable
  <2> QED
    BY <1>6, <2>1, LogRenameFound, LogFoundKeeps
<1> QED
  BY <1>1, <1>2, <1>3, <1>4, <1>5, <1>6 DEF Log!Next

\* The module of the log has the cardinalities of this one.
LEMMA LogCardinality == \A S : Log!Cardinality(S) = Cardinality(S)
BY Zenon DEF Log!Cardinality, Cardinality

\* The counter follows what the full queue refuses.
LEMMA LogCountedNext ==
  ASSUME Log!IInv, [Log!Next]_(Log!vars)
  PROVE  Log!RefusalsAreCounted' /\ refused' \subseteq 1..rows'
<1>1. /\ refused \subseteq 1..rows /\ Log!RefusalsAreCounted /\ rows \in Nat
      /\ droppedRows \in Nat
      /\ faults \in [{"metas", "failures", "renames", "crashes"} -> Nat]
  BY DEF Log!IInv, Log!Orderly, Log!Types
<1>2. IsFiniteSet(refused) /\ Cardinality(refused) \in Nat
  <2>1. IsFiniteSet(1..rows)
    BY <1>1, FS_Interval
  <2> QED
    BY <1>1, <2>1, FS_Subset, FS_CardinalityType
<1>3. CASE UNCHANGED <<refused, droppedRows>> /\ rows' \in {rows, rows + 1}
           /\ faults'["metas"] \in {faults["metas"], faults["metas"] + 1}
  BY <1>1, <1>2, <1>3, LogCardinality DEF Log!RefusalsAreCounted
<1>4. ASSUME NEW s \in Session, Log!FinishRequest(s)
      PROVE  Log!RefusalsAreCounted' /\ refused' \subseteq 1..rows'
  <2>1. rows' = rows + 1 /\ UNCHANGED faults
    BY <1>4 DEF Log!FinishRequest
  <2>2. CASE UNCHANGED <<refused, droppedRows>>
    BY <1>3, <2>1, <2>2
  <2>3. CASE droppedRows' = droppedRows + 1 /\ refused' = refused \cup {rows + 1}
    <3>1. rows + 1 \notin refused
      BY <1>1
    <3>2. Cardinality(refused') = Cardinality(refused) + 1
      BY <1>2, <2>3, <3>1, FS_AddElement
    <3>3. refused' \subseteq 1..rows'
      BY <1>1, <2>1, <2>3
    <3> QED
      BY <1>1, <1>2, <2>1, <2>3, <3>2, <3>3, LogCardinality DEF Log!RefusalsAreCounted
  <2> QED
    BY <1>4, <2>2, <2>3 DEF Log!FinishRequest
<1>5. ASSUME NEW s \in Session, Log!ClientMeta(s)
      PROVE  Log!RefusalsAreCounted' /\ refused' \subseteq 1..rows'
  <2>1. UNCHANGED <<refused, rows>> /\ droppedRows' \in {droppedRows, droppedRows + 1}
        /\ faults' = [faults EXCEPT !["metas"] = @ + 1]
    BY <1>5 DEF Log!ClientMeta, Log!May
  <2>2. faults'["metas"] = faults["metas"] + 1 /\ faults["metas"] \in Nat
    BY <1>1, <2>1
  <2> QED
    BY <1>1, <1>2, <2>1, <2>2, LogCardinality DEF Log!RefusalsAreCounted
<1>6. CASE Log!Crash
  <2>1. refused' = {} /\ droppedRows' = 0 /\ faults'["metas"] \in Nat
    BY <1>1, <1>6 DEF Log!Crash, Log!May
  <2>2. Cardinality(refused') = 0
    BY <2>1, FS_EmptySet
  <2> QED
    BY <2>1, <2>2, LogCardinality DEF Log!RefusalsAreCounted
<1>7. CASE Log!FailFlush \/ Log!RenameQueued
  <2>1. UNCHANGED <<refused, droppedRows, rows>> /\ faults'["metas"] = faults["metas"]
    BY <1>1, <1>7 DEF Log!FailFlush, Log!RenameQueued, Log!May
  <2> QED
    BY <1>3, <2>1
<1>8. CASE Log!BeginRequest \/ Log!Flushing \/ Log!RenameTable \/ Log!Close \/ Log!Closed
             \/ UNCHANGED Log!vars
  <2>1. UNCHANGED <<refused, droppedRows, rows, faults>>
    BY <1>8 DEF Log!BeginRequest, Log!RenameTable, Log!Close, Log!Closed, Log!vars,
                Log!Flushing, Log!BeginFlush,
                Log!BeginTransaction, Log!InsertRow, Log!Commit, Log!ApplyMeta, Log!EndFlush
  <2> QED
    BY <1>3, <2>1
<1> QED
  BY <1>4, <1>5, <1>6, <1>7, <1>8 DEF Log!Next

\* The log begins empty.
LEMMA LogInitInv == ASSUME Log!AccessLogAssumption, Log!Init PROVE Log!IInv
<1>1. rows = 0 /\ refused = {} /\ droppedRows = 0 /\ faults["metas"] = 0
  BY DEF Log!Init
<1>2. Log!EveryRowArrives
  BY <1>1 DEF Log!EveryRowArrives, Log!Expected
<1>3. Log!RefusalsAreCounted
  BY <1>1, FS_EmptySet, LogCardinality DEF Log!RefusalsAreCounted
<1> QED
  BY <1>1, <1>2, <1>3, LogOrderlyInit DEF Log!IInv

\* Every step of the log preserves the invariant.
LEMMA LogNextInv == ASSUME Log!AccessLogAssumption, Log!IInv, [Log!Next]_(Log!vars)
                    PROVE  Log!IInv'
<1>1. Log!Orderly'
  BY LogOrderlyNext DEF Log!IInv
<1> QED
  BY <1>1, LogEveryRowNext, LogCountedNext DEF Log!IInv

\* The invariant gives the promises of the log.
LEMMA LogPromises ==
  ASSUME Log!IInv
  PROVE  /\ Log!TypeOK /\ Log!QueueIsServed /\ Log!WrittenOnce /\ Log!FailedBatchIsGone
         /\ Log!EveryRowArrives /\ Log!RefusalsAreCounted
         /\ Log!MetaReachesRows /\ Log!RenameReaches /\ Log!CloseLosesNothing
<1>0. Log!Orderly /\ Log!EveryRowArrives
  BY DEF Log!IInv
<1>1. Log!MetaReachesRows
  <2>1. SUFFICES ASSUME queue = <<>>, flush.step \in {"none", "prune"}, faults["failures"] = 0,
                        NEW k \in DOMAIN table, Log!Contains(metaOf, table[k].session)
                 PROVE  table[k].meta
    BY DEF Log!MetaReachesRows
  <2>2. Log!Unapplied = {} /\ Log!Metas(queue) = {}
    BY <1>0, <2>1, LogNoBatch DEF Log!Orderly, Log!RollbackCuts, Log!Metas
  <2> QED
    BY <1>0, <2>1, <2>2 DEF Log!Orderly, Log!MetaFollows, Log!Coming
<1>2. Log!RenameReaches
  <2>1. SUFFICES ASSUME renaming = <<>>, faults["failures"] = 0,
                        NEW k \in DOMAIN table, table[k].id \in due
                 PROVE  table[k].user = name
    BY DEF Log!RenameReaches
  <2>2. table[k].user >= name - Len(renaming)
    BY <1>0, <2>1 DEF Log!Orderly, Log!UpdatesLead
  <2>3. table[k].user \in 1..name /\ name \in Nat /\ Len(renaming) = 0
    BY <1>0, <2>1 DEF Log!Orderly, Log!TypeOK, Log!Types
  <2> QED
    BY <2>2, <2>3
<1>3. Log!CloseLosesNothing
  <2>1. SUFFICES ASSUME closing = "closed"
                 PROVE  Log!Expected \subseteq Log!IdsOf(table)
    BY DEF Log!CloseLosesNothing
  <2>2. ~processing
    BY <1>0, <2>1 DEF Log!Orderly, Log!RollbackCuts
  <2>3. queue = <<>> /\ flush.step = "none"
    BY <1>0, <2>2 DEF Log!Orderly, Log!QueueIsServed, Log!TypeOK, Log!Types
  <2>4. Log!Unwritten = {} /\ Log!Logs(queue) = {}
    BY <2>3 DEF Log!Unwritten, Log!Logs
  <2>5. Log!InBatch = {} /\ Log!InQueue = {}
    BY <2>4 DEF Log!InBatch, Log!InQueue
  <2> QED
    BY <1>0, <2>5 DEF Log!EveryRowArrives
<1> QED
  BY <1>0, <1>1, <1>2, <1>3 DEF Log!Orderly, Log!IInv

\* The server takes steps of the access log, or leaves its variables alone.
LEMMA WholeLog ==
  /\ Init => Log!Init
  /\ [Next]_vars => [Log!Next]_(Log!vars)
<1>1. LogStep => Log!Next
  BY DEF LogStep
<1>2. ASSUME UNCHANGED logVars PROVE UNCHANGED Log!vars
  BY <1>2 DEF logVars, Log!vars
<1>3. NamesStep \/ RelationsStep \/ SessionsStep \/ UNCHANGED vars => UNCHANGED logVars
  BY DEF NamesStep, RelationsStep, SessionsStep, vars
<1> QED
  BY <1>1, <1>2, <1>3 DEF Init, Next

\* What the log promises holds with what makes it inductive.
LEMMA LogInvariance == Spec => []Log!IInv
<1>1. Init => Log!IInv
  BY ServerAssumption, WholeLog, LogInitInv DEF ServerAssumption
<1>2. Log!IInv /\ [Next]_vars => Log!IInv'
  BY ServerAssumption, WholeLog, LogNextInv DEF ServerAssumption
<1> QED
  BY <1>1, <1>2, PTL DEF Spec

\* createAccessLogStore: whatever the queue accepts is served, arrives in the table
\* once and in order, and gets the client data of its session; a failed batch is gone
\* as a whole; what the full queue refuses is counted; renames, also those that
\* overlap, reach the rows of before; and after a close all that was accepted is in
\* the table or its batch failed, for all bounds of the queue, the batches and the
\* cache, with any number of failing statements and crashes.
THEOREM Logging == Spec => []LogIsComplete
<1>1. Log!IInv => LogIsComplete
  BY LogPromises DEF LogIsComplete
<1> QED
  BY <1>1, LogInvariance, PTL

-----------------------------------------------------------------------------
(* The file of the sessions.                                               *)

\* Sessions and SessionsProved are one module with one set of variables and constants.
LEMMA SessionsAreProved ==
  /\ Sessions!TtlAssumption <=> SessionsProved!TtlAssumption
  /\ Sessions!Init => SessionsProved!Init
  /\ [Sessions!Next]_(Sessions!vars) => [SessionsProved!Next]_(SessionsProved!vars)
  /\ SessionsProved!TypeOK => Sessions!TypeOK
  /\ SessionsProved!SessionsSurviveRestarts => Sessions!SessionsSurviveRestarts
<1>1. Sessions!TtlAssumption <=> SessionsProved!TtlAssumption
  BY DEF
         Sessions!TtlAssumption,
         SessionsProved!TtlAssumption
<1>2. Sessions!Init => SessionsProved!Init
  BY DEF
         Sessions!Init, Sessions!NoSession, Sessions!Never, Sessions!NoTimer,
         SessionsProved!Init, SessionsProved!NoSession, SessionsProved!Never,
         SessionsProved!NoTimer
<1>3. [Sessions!Next]_(Sessions!vars) => [SessionsProved!Next]_(SessionsProved!vars)
  BY DEF
         Sessions!Next, Sessions!vars, Sessions!Never, Sessions!NoTimer, Sessions!NoSession,
         Sessions!Live, Sessions!Smaller, Sessions!Snapshot, Sessions!Written,
         Sessions!NotWritten, Sessions!PersistNow, Sessions!Issue, Sessions!End,
         Sessions!Revoke, Sessions!Over, Sessions!CleanSessions, Sessions!Refreshed,
         Sessions!Due, Sessions!Saved, Sessions!Request, Sessions!TimerFires, Sessions!Tick,
         Sessions!Stop, Sessions!Start,
         SessionsProved!Next, SessionsProved!vars, SessionsProved!Never, SessionsProved!NoTimer,
         SessionsProved!NoSession, SessionsProved!Live, SessionsProved!Smaller,
         SessionsProved!Snapshot, SessionsProved!Written, SessionsProved!NotWritten,
         SessionsProved!PersistNow, SessionsProved!Issue, SessionsProved!End,
         SessionsProved!Revoke, SessionsProved!Over, SessionsProved!CleanSessions,
         SessionsProved!Refreshed, SessionsProved!Due, SessionsProved!Saved,
         SessionsProved!Request, SessionsProved!TimerFires, SessionsProved!Tick,
         SessionsProved!Stop, SessionsProved!Start
<1>4. SessionsProved!TypeOK => Sessions!TypeOK
  BY DEF
         Sessions!TypeOK, Sessions!NoTimer, Sessions!NoSession, Sessions!Never, Sessions!Live,
         SessionsProved!TypeOK, SessionsProved!NoTimer, SessionsProved!NoSession,
         SessionsProved!Never, SessionsProved!Live
<1>5. SessionsProved!SessionsSurviveRestarts => Sessions!SessionsSurviveRestarts
  BY DEF
         Sessions!SessionsSurviveRestarts, Sessions!SessionsEnd, Sessions!EndedStaysEnded,
         Sessions!UsersStaySignedIn, Sessions!Live, Sessions!NoSession, Sessions!Never,
         Sessions!Over, Sessions!Snapshot, Sessions!Smaller, Sessions!Refreshed, Sessions!Due,
         SessionsProved!SessionsSurviveRestarts, SessionsProved!SessionsEnd,
         SessionsProved!EndedStaysEnded, SessionsProved!UsersStaySignedIn, SessionsProved!Live,
         SessionsProved!NoSession, SessionsProved!Never, SessionsProved!Over,
         SessionsProved!Snapshot, SessionsProved!Smaller, SessionsProved!Refreshed,
         SessionsProved!Due
<1> QED
  BY <1>1, <1>2, <1>3, <1>4, <1>5

\* The server takes steps of the session file, or leaves its variables alone.
LEMMA WholeSessions ==
  /\ Init => Sessions!Init
  /\ [Next]_vars => [Sessions!Next]_(Sessions!vars)
<1>1. SessionsStep => Sessions!Next
  BY DEF SessionsStep
<1>2. ASSUME UNCHANGED sessionsVars PROVE UNCHANGED Sessions!vars
  BY <1>2 DEF sessionsVars, Sessions!vars
<1>3. NamesStep \/ RelationsStep \/ LogStep \/ UNCHANGED vars => UNCHANGED sessionsVars
  BY DEF NamesStep, RelationsStep, LogStep, vars
<1> QED
  BY <1>1, <1>2, <1>3 DEF Init, Next

\* issueSession, requireSession, persistSessions: on either side of every restart a
\* session ends in time, one that ended stays ended, and whoever uses theirs stays
\* signed in, for all periods, sessions, failures and stops.
THEOREM Surviving == Spec => []SessionsSurviveRestarts
<1>1. SessionsProved!Spec => []SessionsProved!SessionsSurviveRestarts
  BY ServerAssumption, SessionsAreProved, SessionsProved!Surviving DEF ServerAssumption
<1>2. Spec => SessionsProved!Spec
  BY WholeSessions, SessionsAreProved, PTL DEF Spec, SessionsProved!Spec
<1>3. SessionsProved!SessionsSurviveRestarts => SessionsSurviveRestarts
  BY SessionsAreProved DEF SessionsSurviveRestarts
<1> QED
  BY <1>1, <1>2, <1>3, PTL

-----------------------------------------------------------------------------
\* createServer: every part of the server keeps the types of its variables.
THEOREM TypeCorrect == Spec => []TypeOK
<1>1. /\ NamesProved!Spec => []NamesProved!TypeOK
      /\ SessionsProved!Spec => []SessionsProved!TypeOK
  BY ServerAssumption, NamesAreProved, SessionsAreProved, NamesProved!TypeCorrect,
     SessionsProved!TypeCorrect DEF ServerAssumption
<1>2. Spec => NamesProved!Spec /\ RelationsProved!Spec /\ SessionsProved!Spec
  BY WholeNames, WholeRelations, WholeSessions, NamesAreProved, RelationsAreProved,
     SessionsAreProved, PTL DEF Spec, NamesProved!Spec, RelationsProved!Spec, SessionsProved!Spec
<1>3. Log!IInv => Log!TypeOK
  BY LogPromises
<1>4. NamesProved!TypeOK /\ RelationsProved!TypeOK /\ SessionsProved!TypeOK /\ Log!TypeOK
      => TypeOK
  BY NamesAreProved, RelationsAreProved, SessionsAreProved DEF TypeOK
<1> QED
  BY <1>1, <1>2, <1>3, <1>4, LogInvariance, RelationsProved!TypeCorrect, PTL
=============================================================================
