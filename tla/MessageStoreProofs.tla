------------------------- MODULE MessageStoreProofs -------------------------
(***************************************************************************)
(* IInv is an inductive invariant of MessageStore, for every set of users, *)
(* messages, nonces and client ids and for every well formed pair of files *)
(* at the first start.  Of a store that has written messages.jsonl before  *)
(* (Migrated), DInv is one too: a restart loads what the last flush wrote, *)
(* nothing on disk is forgotten, and the store implements MessageLedger.   *)
(***************************************************************************)
EXTENDS MessageStore, TLAPS, SequenceTheorems

\* w is m after a handler or the start changed marks or payload in place: it
\* keeps the keys of m, and its payload is redacted exactly if it is recalled.
Amends(m, w) ==
  /\ w \in Message
  /\ w.id = m.id /\ w.from = m.from /\ w.to = m.to
  /\ w.clientId = m.clientId /\ w.sequence = m.sequence
  /\ ReplayNonce(w) = ReplayNonce(m)
  /\ PayloadSound(w)

AmendsAll(rows, new) ==
  /\ new = [k \in DOMAIN rows |-> new[k]]
  /\ \A k \in DOMAIN rows : Amends(rows[k], new[k])

(***************************************************************************)
(* Rows changed in place keep their keys, their order and their sequence   *)
(* numbers (the handlers that only mark, recall or hide messages).         *)
(***************************************************************************)
LEMMA AmendedRows ==
  ASSUME NEW rows \in Seq(Message), NEW new, AmendsAll(rows, new), WellFormed(rows)
  PROVE  /\ new \in Seq(Message)
         /\ Len(new) = Len(rows)
         /\ WellFormed(new)
         /\ PayloadsSound(new)
         /\ ClientKeys(new) = ClientKeys(rows)
         /\ NonceKeys(new) = NonceKeys(rows)
         /\ {m.sequence : m \in Rows(new)} = {m.sequence : m \in Rows(rows)}
<1>1. DOMAIN new = DOMAIN rows /\ DOMAIN rows = 1 .. Len(rows)
  BY DEF AmendsAll
<1>2. \A k \in DOMAIN rows : new[k] \in Message
  BY DEF AmendsAll, Amends
<1>3. new \in Seq(Message) /\ Len(new) = Len(rows)
  BY <1>1, <1>2 DEF AmendsAll
<1>4. \A k \in DOMAIN rows :
        /\ new[k].id = rows[k].id
        /\ new[k].sequence = rows[k].sequence
        /\ ClientKey(new[k]) = ClientKey(rows[k])
        /\ ReplayNonce(new[k]) = ReplayNonce(rows[k])
        /\ NonceKey(new[k]) = NonceKey(rows[k])
  BY DEF AmendsAll, Amends, ClientKey, NonceKey
<1>5. WellFormed(new)
  BY <1>1, <1>4 DEF WellFormed
<1>6. PayloadsSound(new)
  BY <1>1 DEF PayloadsSound, Rows, AmendsAll, Amends
<1>7. ClientKeys(new) = ClientKeys(rows)
  BY <1>1, <1>4 DEF ClientKeys, Rows
<1>8. NonceKeys(new) = NonceKeys(rows)
  BY <1>1, <1>4 DEF NonceKeys, Rows
<1>9. {m.sequence : m \in Rows(new)} = {m.sequence : m \in Rows(rows)}
  BY <1>1, <1>4 DEF Rows
<1> QED
  BY <1>3, <1>5, <1>6, <1>7, <1>8, <1>9

(***************************************************************************)
(* In rows ordered by sequence the newest row has the largest number, so   *)
(* loadMessages continues above it.                                        *)
(***************************************************************************)
LEMMA SequenceAfterRows ==
  ASSUME NEW rows \in Seq(Message), WellFormed(rows)
  PROVE  /\ SequenceAfter(rows) \in Nat \ {0}
         /\ \A m \in Rows(rows) : m.sequence < SequenceAfter(rows)
<1> DEFINE S == {0} \cup {m.sequence : m \in Rows(rows)}
           Top(n) == \A m \in Rows(rows) : m.sequence <= n
<1>1. S \subseteq Nat /\ \A m \in Rows(rows) : m.sequence \in Nat
  <2>1. \A k \in DOMAIN rows : rows[k] \in Message
    OBVIOUS
  <2>2. \A m \in Message : m.sequence \in Nat
    BY DEF Message
  <2> QED
    BY <2>1, <2>2 DEF Rows
<1>2. \E n \in S : Top(n)
  <2>1. CASE rows = <<>>
    BY <2>1 DEF Rows
  <2>2. CASE rows # <<>>
    <3>1. Len(rows) \in DOMAIN rows /\ DOMAIN rows = 1 .. Len(rows) /\ Len(rows) \in Nat
      BY <2>2
    <3>2. \A k \in DOMAIN rows : rows[k].sequence <= rows[Len(rows)].sequence
      <4> TAKE k \in DOMAIN rows
      <4>1. rows[k].sequence \in Nat /\ rows[Len(rows)].sequence \in Nat
        BY <1>1, <3>1 DEF Rows
      <4>2. k < Len(rows) \/ k = Len(rows)
        BY <3>1
      <4> QED
        BY <3>1, <4>1, <4>2 DEF WellFormed
    <3> QED
      BY <3>1, <3>2 DEF Rows
  <2> QED
    BY <2>1, <2>2
<1>3. PICK n \in S : n = (CHOOSE x \in S : Top(x)) /\ Top(n)
  BY <1>2
<1>4. SequenceAfter(rows) = 1 + n
  BY <1>3 DEF SequenceAfter
<1>5. n \in Nat
  BY <1>1, <1>3
<1>6. \A m \in Rows(rows) : m.sequence \in Nat /\ m.sequence <= n
  BY <1>1, <1>3
<1> HIDE DEF S, Top
<1> QED
  BY <1>4, <1>5, <1>6

-----------------------------------------------------------------------------

LEMMA InitInv == Init => IInv
<1> SUFFICES ASSUME Init PROVE IInv
  OBVIOUS
<1>1. messagesLog = InitialLog /\ messagesJson = InitialJson
  BY DEF Init
<1>2. TypeOK
  <2>1. messagesLog \in Seq(Message) /\ messagesJson \in Seq(Message)
    BY <1>1, InitialAssumption
  <2>2. messages \in Seq(Message) /\ pendingMessageAppends \in Seq(Nat \ {0})
    BY DEF Init
  <2>3. messageClientIndex = {} /\ messageNonceIndex = {} /\ online = {} /\ blocked = {}
    BY DEF Init
  <2>4. nextMessageSequence \in Nat \ {0}
    <3>1. nextMessageSequence = 1
      BY DEF Init
    <3> QED
      BY <3>1
  <2>5. /\ messagesDirty \in BOOLEAN /\ messagesRequireFullPersist \in BOOLEAN
        /\ pendingMessagesPersistTimer \in BOOLEAN /\ flushing \in BOOLEAN
        /\ phase \in {"up", "stopping", "down"} /\ logEnd \in LogEnd
    BY DEF Init, LogEnd
  <2> QED
    BY <2>1, <2>2, <2>3, <2>4, <2>5 DEF TypeOK
<1>3. SenderKeysUnique /\ RecallRedacts
  BY <1>1, InitialAssumption
     DEF Init, SenderKeysUnique, RecallRedacts, WellFormed, PayloadsSound, Rows
<1>4. IndexesAgree /\ PendingIsTail /\ IdlePhases
  BY DEF Init, IndexesAgree, PendingIsTail, IdlePhases, NothingPending
<1> QED
  BY <1>2, <1>3, <1>4 DEF IInv

(***************************************************************************)
(* Scheduling, seen from the invariant.                                    *)
(***************************************************************************)
LEMMA ChangeRowsInv ==
  ASSUME IInv, Running, NEW new, ChangeRows(new), AmendsAll(messages, new),
         online' \subseteq User, blocked' \subseteq User \X User
  PROVE  IInv'
<1>1. TypeOK /\ SenderKeysUnique /\ IndexesAgree /\ RecallRedacts /\ PendingIsTail /\ IdlePhases
  BY DEF IInv
<1>2. /\ messages' = new
      /\ UNCHANGED <<messageClientIndex, messageNonceIndex, nextMessageSequence,
                     flushing, phase, messagesJson, messagesLog, logEnd>>
  BY DEF ChangeRows, processVars, diskVars
<1>3. /\ new \in Seq(Message)
      /\ Len(new) = Len(messages)
      /\ WellFormed(new)
      /\ PayloadsSound(new)
      /\ ClientKeys(new) = ClientKeys(messages)
      /\ NonceKeys(new) = NonceKeys(messages)
      /\ {m.sequence : m \in Rows(new)} = {m.sequence : m \in Rows(messages)}
  BY <1>1, AmendedRows DEF TypeOK, SenderKeysUnique
<1>4. \/ new = messages /\ UNCHANGED persistVars
      \/ ScheduleFull
  BY DEF ChangeRows, ScheduleIfChanged
<1>5. TypeOK'
  <2>1. /\ messagesDirty' \in BOOLEAN
        /\ messagesRequireFullPersist' \in BOOLEAN
        /\ pendingMessageAppends' \in Seq(Nat \ {0})
        /\ pendingMessagesPersistTimer' \in BOOLEAN
    <3>1. <<>> \in Seq(Nat \ {0})
      OBVIOUS
    <3> QED
      BY <1>1, <1>4, <3>1 DEF TypeOK, ScheduleFull, persistVars
  <2> QED
    BY <1>1, <1>2, <1>3, <2>1 DEF TypeOK
<1>6. SenderKeysUnique' /\ RecallRedacts'
  BY <1>1, <1>2, <1>3 DEF SenderKeysUnique, RecallRedacts
<1>7. IndexesAgree'
  <2> SUFFICES ASSUME phase # "down"
               PROVE  /\ messageClientIndex = ClientKeys(new)
                      /\ messageNonceIndex = NonceKeys(new)
                      /\ \A m \in Rows(new) : m.sequence < nextMessageSequence
    BY <1>2 DEF IndexesAgree
  <2>1. \A m \in Rows(new) : \E w \in Rows(messages) : w.sequence = m.sequence
    BY <1>3
  <2> QED
    BY <1>1, <1>3, <2>1 DEF IndexesAgree
<1>8. PendingIsTail' /\ IdlePhases'
  <2>1. CASE new = messages /\ UNCHANGED persistVars
    BY <1>1, <1>2, <2>1 DEF PendingIsTail, IdlePhases, NothingPending, persistVars
  <2>2. CASE ScheduleFull
    BY <1>1, <1>2, <2>2 DEF PendingIsTail, IdlePhases, ScheduleFull, Running
  <2> QED
    BY <1>4, <2>1, <2>2
<1> QED
  BY <1>5, <1>6, <1>7, <1>8 DEF IInv

LEMMA RecallInv ==
  ASSUME IInv, NEW u \in User, NEW k \in DOMAIN messages, RecallMessage(u, k)
  PROVE  IInv'
<1> DEFINE w == Redacted([messages[k] EXCEPT !.recalled = TRUE])
           new == [messages EXCEPT ![k] = w]
<1>1. Running /\ ChangeRows(new) /\ UNCHANGED <<online, blocked>>
  BY DEF RecallMessage, contextVars
<1>2. \A j \in DOMAIN messages : messages[j] \in Message
  BY DEF IInv, TypeOK
<1>3. \A m \in Rows(messages) : PayloadSound(m)
  BY DEF IInv, RecallRedacts, PayloadsSound
<1>4. Amends(messages[k], w)
  <2>1. messages[k] \in Message /\ messages[k] \in Rows(messages)
    BY <1>2 DEF Rows
  <2>2. /\ w.id = messages[k].id /\ w.from = messages[k].from /\ w.to = messages[k].to
        /\ w.clientId = messages[k].clientId /\ w.sequence = messages[k].sequence
        /\ w.recalled /\ w.nonce = Empty /\ ~w.ciphertext
        /\ w.recalledNonce = IF messages[k].nonce # Empty /\ messages[k].recalledNonce = Empty
                             THEN messages[k].nonce ELSE messages[k].recalledNonce
    BY <2>1 DEF Redacted, Message
  <2>3. w \in Message
    BY <2>1 DEF Redacted, Message
  <2>4. PayloadSound(messages[k])
    BY <2>1, <1>3
  <2> HIDE DEF w
  <2>5. w.recalledNonce # Empty /\ ReplayNonce(w) = ReplayNonce(messages[k])
    BY <2>2, <2>4 DEF PayloadSound, ReplayNonce
  <2>6. PayloadSound(w)
    BY <2>2, <2>5 DEF PayloadSound
  <2> QED
    BY <2>2, <2>3, <2>5, <2>6 DEF Amends
<1>5. \A j \in DOMAIN messages : Amends(messages[j], messages[j])
  BY <1>2, <1>3 DEF Amends, Rows
<1>6. AmendsAll(messages, new)
  BY <1>4, <1>5 DEF AmendsAll
<1> HIDE DEF new
<1> QED
  BY <1>1, <1>6, ChangeRowsInv DEF IInv, TypeOK

(***************************************************************************)
(* Handlers that only set delivered, read or deletedFor amend the rows.    *)
(***************************************************************************)
LEMMA MarksAmend ==
  ASSUME IInv, NEW k \in DOMAIN messages
  PROVE  /\ Amends(messages[k], messages[k])
         /\ Amends(messages[k], [messages[k] EXCEPT !.delivered = TRUE])
         /\ Amends(messages[k], [messages[k] EXCEPT !.delivered = TRUE, !.read = TRUE])
         /\ \A u \in User :
              Amends(messages[k], [messages[k] EXCEPT !.deletedFor = @ \cup {u}])
<1>1. messages[k] \in Message /\ PayloadSound(messages[k])
  BY DEF IInv, TypeOK, RecallRedacts, PayloadsSound, Rows
<1>2. Amends(messages[k], messages[k])
  BY <1>1 DEF Amends
<1>3. Amends(messages[k], [messages[k] EXCEPT !.delivered = TRUE])
  BY <1>1 DEF Amends, Message, PayloadSound, ReplayNonce
<1>4. Amends(messages[k], [messages[k] EXCEPT !.delivered = TRUE, !.read = TRUE])
  BY <1>1 DEF Amends, Message, PayloadSound, ReplayNonce
<1>5. ASSUME NEW u \in User
      PROVE  Amends(messages[k], [messages[k] EXCEPT !.deletedFor = @ \cup {u}])
  <2> DEFINE w == [messages[k] EXCEPT !.deletedFor = @ \cup {u}]
  <2>1. w \in Message
    <3>1. messages[k].deletedFor \cup {u} \in SUBSET User
      BY <1>1 DEF Message
    <3> QED
      BY <1>1, <3>1 DEF Message
  <2>2. /\ w.id = messages[k].id /\ w.from = messages[k].from /\ w.to = messages[k].to
        /\ w.clientId = messages[k].clientId /\ w.sequence = messages[k].sequence
        /\ w.nonce = messages[k].nonce /\ w.recalledNonce = messages[k].recalledNonce
        /\ w.recalled = messages[k].recalled /\ w.ciphertext = messages[k].ciphertext
    BY <1>1 DEF Message
  <2>3. Amends(messages[k], w)
    <3> HIDE DEF w
    <3> QED
      BY <1>1, <2>1, <2>2 DEF Amends, PayloadSound, ReplayNonce
  <2> QED
    BY <2>3
<1> QED
  BY <1>2, <1>3, <1>4, <1>5

LEMMA DeleteInv ==
  ASSUME IInv, NEW u \in User, NEW k \in DOMAIN messages, DeleteMessage(u, k)
  PROVE  IInv'
<1> DEFINE w == [messages[k] EXCEPT !.deletedFor = @ \cup {u}]
           new == [messages EXCEPT ![k] = w]
<1>1. Running /\ ChangeRows(new) /\ UNCHANGED <<online, blocked>>
  BY DEF DeleteMessage, contextVars
<1>2. Amends(messages[k], w) /\ \A j \in DOMAIN messages : Amends(messages[j], messages[j])
  BY MarksAmend
<1> HIDE DEF w
<1>3. AmendsAll(messages, new)
  BY <1>2 DEF AmendsAll
<1> HIDE DEF new
<1> QED
  BY <1>1, <1>3, ChangeRowsInv DEF IInv, TypeOK

LEMMA MarkReadInv ==
  ASSUME IInv, NEW u \in User, NEW v \in User, MarkRead(u, v)
  PROVE  IInv'
<1> DEFINE new == [k \in DOMAIN messages |->
                     IF BecomesRead(messages[k], u, v)
                     THEN [messages[k] EXCEPT !.delivered = TRUE, !.read = TRUE]
                     ELSE messages[k]]
<1>1. Running /\ ChangeRows(new) /\ UNCHANGED <<online, blocked>>
  BY DEF MarkRead, contextVars
<1>2. AmendsAll(messages, new)
  BY MarksAmend DEF AmendsAll
<1> HIDE DEF new
<1> QED
  BY <1>1, <1>2, ChangeRowsInv DEF IInv, TypeOK

LEMMA ConnectInv ==
  ASSUME IInv, NEW u \in User, Connect(u)
  PROVE  IInv'
<1> DEFINE new == [k \in DOMAIN messages |->
                     IF BecomesDelivered(messages[k], u)
                     THEN [messages[k] EXCEPT !.delivered = TRUE]
                     ELSE messages[k]]
<1>1. Running /\ ChangeRows(new) /\ online' = online \cup {u} /\ blocked' = blocked
  BY DEF Connect
<1>2. AmendsAll(messages, new)
  BY MarksAmend DEF AmendsAll
<1> HIDE DEF new
<1> QED
  BY <1>1, <1>2, ChangeRowsInv DEF IInv, TypeOK

(***************************************************************************)
(* Users coming and going, and block lists, touch neither rows nor files.  *)
(***************************************************************************)
LEMMA ContextInv ==
  ASSUME IInv, UNCHANGED <<rowVars, persistVars, diskVars, flushing>>,
         phase' = phase \/ (phase = "up" /\ phase' = "stopping"),
         online' \subseteq User, blocked' \subseteq User \X User
  PROVE  IInv'
<1> USE DEF rowVars, persistVars, diskVars
<1>1. TypeOK'
  BY DEF IInv, TypeOK
<1>2. SenderKeysUnique' /\ RecallRedacts'
  BY DEF IInv, SenderKeysUnique, RecallRedacts
<1>3. IndexesAgree'
  BY DEF IInv, IndexesAgree
<1>4. PendingIsTail' /\ IdlePhases'
  BY DEF IInv, PendingIsTail, IdlePhases, NothingPending
<1> QED
  BY <1>1, <1>2, <1>3, <1>4 DEF IInv

-----------------------------------------------------------------------------

(***************************************************************************)
(* An accepted message is new under its keys, and goes to the end of the   *)
(* rows and of the pending appends (handleSendMessage).                    *)
(***************************************************************************)
LEMMA SendInv ==
  ASSUME IInv, NEW i \in Id, NEW u \in User, NEW v \in User, NEW c \in ClientId,
         NEW n \in Nonce, NEW r \in Id \cup {Empty}, SendMessage(i, u, v, c, n, r)
  PROVE  IInv'
<1> DEFINE e == NewMessage(i, u, v, c, n, r)
           N == Len(messages)
<1>1. TypeOK /\ SenderKeysUnique /\ IndexesAgree /\ RecallRedacts /\ PendingIsTail /\ IdlePhases
  BY DEF IInv
<1>2. /\ Running
      /\ i \notin Ids(messages)
      /\ <<u, c>> \notin messageClientIndex
      /\ <<u, n>> \notin messageNonceIndex
      /\ messages' = Append(messages, e)
      /\ messageClientIndex' = messageClientIndex \cup {<<u, c>>}
      /\ messageNonceIndex' = messageNonceIndex \cup {<<u, n>>}
      /\ nextMessageSequence' = nextMessageSequence + 1
      /\ messagesDirty' = TRUE
      /\ pendingMessageAppends' = Append(pendingMessageAppends, N + 1)
      /\ pendingMessagesPersistTimer' = TRUE
      /\ UNCHANGED <<messagesRequireFullPersist, flushing, phase, messagesJson,
                     messagesLog, logEnd, online, blocked>>
  BY DEF SendMessage, MayAccept, ScheduleAppend, processVars, diskVars, contextVars
<1>3. /\ e \in Message
      /\ e.id = i
      /\ ClientKey(e) = <<u, c>>
      /\ ReplayNonce(e) = n
      /\ NonceKey(e) = <<u, n>>
      /\ e.sequence = nextMessageSequence
      /\ PayloadSound(e)
  <2>1. n # Empty /\ nextMessageSequence \in Nat \ {0}
    BY <1>1, EmptyAssumption DEF TypeOK
  <2>2. e \in Message
    BY <2>1 DEF NewMessage, Message
  <2> QED
    BY <2>1, <2>2 DEF NewMessage, ClientKey, NonceKey, ReplayNonce, PayloadSound
<1> HIDE DEF e
<1>4. /\ messages \in Seq(Message) /\ N \in Nat /\ DOMAIN messages = 1 .. N
      /\ messages' \in Seq(Message) /\ Len(messages') = N + 1
      /\ DOMAIN messages' = 1 .. (N + 1)
      /\ messages'[N + 1] = e
      /\ \A k \in 1 .. N : messages'[k] = messages[k]
  BY <1>1, <1>2, <1>3 DEF TypeOK
<1>5. Rows(messages') = Rows(messages) \cup {e}
  BY <1>4 DEF Rows
<1>6. TypeOK'
  <2>1. nextMessageSequence' \in Nat \ {0}
    BY <1>1, <1>2 DEF TypeOK
  <2>2. pendingMessageAppends' \in Seq(Nat \ {0})
    BY <1>1, <1>2, <1>4 DEF TypeOK
  <2>3. messageClientIndex' \subseteq User \X ClientId /\ messageNonceIndex' \subseteq User \X Nonce
    BY <1>1, <1>2 DEF TypeOK
  <2> QED
    BY <1>1, <1>2, <1>4, <2>1, <2>2, <2>3 DEF TypeOK
<1>7. SenderKeysUnique'
  <2>1. \A k \in 1 .. N :
          /\ messages[k].id # e.id
          /\ ClientKey(messages[k]) # ClientKey(e)
          /\ NonceKey(messages[k]) # NonceKey(e)
          /\ messages[k].sequence < e.sequence
    <3> TAKE k \in 1 .. N
    <3>1. messages[k] \in Rows(messages) /\ phase # "down"
      BY <1>2, <1>4 DEF Rows, Running
    <3>2. messages[k].id # e.id
      BY <1>2, <1>3, <3>1 DEF Ids
    <3>3. ClientKey(messages[k]) # ClientKey(e)
      BY <1>1, <1>2, <1>3, <3>1 DEF IndexesAgree, ClientKeys
    <3>4. ReplayNonce(messages[k]) # Empty
      BY <1>1, <3>1 DEF RecallRedacts, PayloadsSound, PayloadSound, ReplayNonce
    <3>5. NonceKey(messages[k]) # NonceKey(e)
      BY <1>1, <1>2, <1>3, <3>1, <3>4 DEF IndexesAgree, NonceKeys
    <3>6. messages[k].sequence < e.sequence
      BY <1>1, <1>3, <3>1 DEF IndexesAgree
    <3> QED
      BY <3>2, <3>3, <3>5, <3>6
  <2>2. WellFormed(messages')
    <3> SUFFICES ASSUME NEW j \in 1 .. (N + 1), NEW k \in 1 .. (N + 1), j < k
                 PROVE  /\ messages'[j].id # messages'[k].id
                        /\ ClientKey(messages'[j]) # ClientKey(messages'[k])
                        /\ NonceKey(messages'[j]) # NonceKey(messages'[k])
                        /\ messages'[j].sequence < messages'[k].sequence
      BY <1>4 DEF WellFormed
    <3>1. CASE k = N + 1
      BY <1>4, <2>1, <3>1
    <3>2. CASE k # N + 1
      <4>1. j \in 1 .. N /\ k \in 1 .. N
        BY <1>4, <3>2
      <4> QED
        BY <1>1, <1>4, <4>1 DEF SenderKeysUnique, WellFormed
    <3> QED
      BY <3>1, <3>2
  <2> QED
    BY <1>1, <1>2, <2>2 DEF SenderKeysUnique
<1>8. RecallRedacts'
  <2>1. PayloadsSound(messages')
    BY <1>1, <1>3, <1>5 DEF RecallRedacts, PayloadsSound
  <2> QED
    BY <1>1, <1>2, <2>1 DEF RecallRedacts
<1>9. IndexesAgree'
  <2> SUFFICES ASSUME phase # "down"
               PROVE  /\ messageClientIndex' = ClientKeys(messages')
                      /\ messageNonceIndex' = NonceKeys(messages')
                      /\ \A m \in Rows(messages') : m.sequence < nextMessageSequence'
    BY <1>2 DEF IndexesAgree
  <2>1. ClientKeys(messages') = ClientKeys(messages) \cup {<<u, c>>}
    BY <1>3, <1>5 DEF ClientKeys
  <2>2. NonceKeys(messages') = NonceKeys(messages) \cup {<<u, n>>}
    BY <1>3, <1>5, EmptyAssumption DEF NonceKeys
  <2>3. \A m \in Rows(messages') : m.sequence < nextMessageSequence'
    <3>1. \A m \in Rows(messages) : m \in Message /\ m.sequence < nextMessageSequence
      BY <1>1, <1>4 DEF IndexesAgree, Rows
    <3>2. \A m \in Message : m.sequence \in Nat
      BY DEF Message
    <3>3. nextMessageSequence \in Nat
      BY <1>1 DEF TypeOK
    <3> QED
      BY <1>2, <1>3, <1>5, <3>1, <3>2, <3>3
  <2> QED
    BY <1>1, <1>2, <2>1, <2>2, <2>3 DEF IndexesAgree
<1>10. PendingIsTail'
  <2> DEFINE P == Len(pendingMessageAppends)
             L == Len(messagesLog)
  <2> SUFFICES ASSUME phase # "down", ~flushing, ~messagesRequireFullPersist
               PROVE  /\ Len(pendingMessageAppends') + L <= Len(messages')
                      /\ \A k \in 1 .. Len(pendingMessageAppends') :
                           pendingMessageAppends'[k]
                             = Len(messages') - Len(pendingMessageAppends') + k
                      /\ \A k \in 1 .. L :
                           messagesLog[k]
                             = messages'[Len(messages') - Len(pendingMessageAppends') - L + k]
    BY <1>2 DEF PendingIsTail
  <2>1. /\ P \in Nat /\ L \in Nat
        /\ pendingMessageAppends \in Seq(Nat \ {0})
        /\ P + L <= N
        /\ \A k \in 1 .. P : pendingMessageAppends[k] = N - P + k
        /\ \A k \in 1 .. L : messagesLog[k] = messages[N - P - L + k]
    BY <1>1 DEF PendingIsTail, TypeOK
  <2>2. /\ Len(pendingMessageAppends') = P + 1
        /\ pendingMessageAppends'[P + 1] = N + 1
        /\ \A k \in 1 .. P : pendingMessageAppends'[k] = pendingMessageAppends[k]
    BY <1>2, <1>4, <2>1
  <2>3. \A k \in 1 .. L : N - P - L + k \in 1 .. N
    BY <1>4, <2>1
  <2> HIDE DEF P, L
  <2>4. \A k \in 1 .. (P + 1) : pendingMessageAppends'[k] = (N + 1) - (P + 1) + k
    <3> TAKE k \in 1 .. (P + 1)
    <3>1. CASE k = P + 1
      BY <1>4, <2>1, <2>2, <3>1
    <3>2. CASE k # P + 1
      <4>1. k \in 1 .. P
        BY <2>1, <3>2
      <4> QED
        BY <1>4, <2>1, <2>2, <4>1
    <3> QED
      BY <3>1, <3>2
  <2>5. \A k \in 1 .. L : messagesLog[k] = messages'[(N + 1) - (P + 1) - L + k]
    <3> TAKE k \in 1 .. L
    <3>1. (N + 1) - (P + 1) - L + k = N - P - L + k
      BY <1>4, <2>1
    <3> QED
      BY <1>4, <2>1, <2>3, <3>1
  <2> QED
    BY <1>4, <2>1, <2>2, <2>4, <2>5
<1>11. IdlePhases'
  BY <1>1, <1>2 DEF IdlePhases, NothingPending, Running
<1> QED
  BY <1>6, <1>7, <1>8, <1>9, <1>10, <1>11 DEF IInv

-----------------------------------------------------------------------------

(***************************************************************************)
(* A stretch of well formed rows is well formed, and so are two stretches  *)
(* that follow each other: what an append leaves in messages.jsonl is the  *)
(* part of memory from where the log started.                              *)
(***************************************************************************)
LEMMA StretchRows ==
  ASSUME NEW rows \in Seq(Message), WellFormed(rows), PayloadsSound(rows),
         NEW d \in Nat, NEW part, NEW n \in Nat, d + n <= Len(rows),
         part = [k \in 1 .. n |-> rows[d + k]]
  PROVE  /\ part \in Seq(Message)
         /\ Len(part) = n
         /\ WellFormed(part)
         /\ PayloadsSound(part)
<1>1. \A k \in 1 .. n : d + k \in DOMAIN rows /\ part[k] = rows[d + k]
  OBVIOUS
<1>2. \A k \in DOMAIN rows : rows[k] \in Message
  OBVIOUS
<1>3. part \in Seq(Message) /\ Len(part) = n /\ DOMAIN part = 1 .. n
  BY <1>1, <1>2
<1>4. WellFormed(part)
  <2> SUFFICES ASSUME NEW j \in 1 .. n, NEW k \in 1 .. n, j < k
               PROVE  /\ part[j].id # part[k].id
                      /\ ClientKey(part[j]) # ClientKey(part[k])
                      /\ NonceKey(part[j]) # NonceKey(part[k])
                      /\ part[j].sequence < part[k].sequence
    BY <1>3 DEF WellFormed
  <2>1. d + j < d + k
    OBVIOUS
  <2> QED
    BY <1>1, <2>1 DEF WellFormed
<1>5. PayloadsSound(part)
  BY <1>1, <1>3 DEF PayloadsSound, Rows
<1> QED
  BY <1>3, <1>4, <1>5

(***************************************************************************)
(* The log after an append of the first n pending rows.                    *)
(***************************************************************************)
LEMMA AppendStretch ==
  ASSUME IInv, FlushDue, ~messagesRequireFullPersist,
         NEW n \in 0 .. Len(pendingMessageAppends), NEW log,
         log = messagesLog \o SubSeq(AppendedRows, 1, n)
  PROVE  /\ log \in Seq(Message)
         /\ WellFormed(log)
         /\ PayloadsSound(log)
         /\ Len(log) = Len(messagesLog) + n
         /\ \A k \in 1 .. Len(log) :
              log[k] = messages[Len(messages) - Len(pendingMessageAppends)
                                  - Len(messagesLog) + k]
         /\ n = Len(pendingMessageAppends) => SubSeq(AppendedRows, 1, n) = AppendedRows
<1> DEFINE P == Len(pendingMessageAppends)
           L == Len(messagesLog)
           N == Len(messages)
           d == N - P - L
<1>1. /\ messages \in Seq(Message) /\ messagesLog \in Seq(Message)
      /\ pendingMessageAppends \in Seq(Nat \ {0})
      /\ WellFormed(messages) /\ PayloadsSound(messages)
  BY DEF IInv, TypeOK, SenderKeysUnique, RecallRedacts
<1>2. /\ P \in Nat /\ L \in Nat /\ N \in Nat /\ n \in Nat /\ n <= P
      /\ P + L <= N
      /\ \A k \in 1 .. P : pendingMessageAppends[k] = N - P + k
      /\ \A k \in 1 .. L : messagesLog[k] = messages[N - P - L + k]
  BY <1>1 DEF IInv, PendingIsTail, FlushDue, Running
<1>3. /\ DOMAIN pendingMessageAppends = 1 .. P /\ DOMAIN messagesLog = 1 .. L
      /\ DOMAIN messages = 1 .. N
  BY <1>1
<1> HIDE DEF P, L, N
<1>4. d \in Nat /\ d + (L + n) <= N
  BY <1>2
<1>5. /\ AppendedRows \in Seq(Message) /\ Len(AppendedRows) = P
      /\ \A k \in 1 .. P : AppendedRows[k] = messages[N - P + k]
  <2>1. \A k \in 1 .. P : N - P + k \in 1 .. N
    BY <1>2
  <2>2. \A k \in 1 .. N : messages[k] \in Message
    BY <1>1, <1>3 DEF N
  <2> QED
    BY <1>2, <1>3, <2>1, <2>2 DEF AppendedRows
<1>6. /\ SubSeq(AppendedRows, 1, n) \in Seq(Message)
      /\ Len(SubSeq(AppendedRows, 1, n)) = n
      /\ \A k \in 1 .. n : SubSeq(AppendedRows, 1, n)[k] = messages[N - P + k]
  BY <1>2, <1>5
<1> DEFINE tail == SubSeq(AppendedRows, 1, n)
<1> HIDE DEF tail
<1>7. /\ Len(log) = L + n /\ log \in Seq(Message)
      /\ \A k \in 1 .. L : log[k] = messagesLog[k]
      /\ \A k \in 1 .. n : log[L + k] = tail[k]
  BY <1>1, <1>2, <1>6 DEF tail, L
<1>8. \A k \in 1 .. (L + n) : log[k] = messages[d + k]
  <2> TAKE k \in 1 .. (L + n)
  <2>1. CASE k <= L
    <3>1. k \in 1 .. L
      BY <1>2, <2>1
    <3> QED
      BY <1>2, <1>7, <3>1
  <2>2. CASE k > L
    <3>1. k - L \in 1 .. n /\ L + (k - L) = k /\ N - P + (k - L) = d + k
      BY <1>2, <2>2
    <3>2. log[L + (k - L)] = tail[k - L]
      BY <1>7, <3>1
    <3>3. tail[k - L] = messages[N - P + (k - L)]
      BY <1>6, <3>1 DEF tail
    <3> QED
      BY <3>1, <3>2, <3>3
  <2>3. k <= L \/ k > L
    BY <1>2
  <2> QED
    BY <2>1, <2>2, <2>3
<1>9. log = [k \in 1 .. (L + n) |-> messages[d + k]]
  BY <1>7, <1>8
<1>10. WellFormed(log) /\ PayloadsSound(log)
  <2>1. L + n \in Nat /\ Len(messages) = N
    BY <1>2 DEF N
  <2> HIDE DEF d
  <2> QED
    BY <1>1, <1>4, <1>9, <2>1, StretchRows
<1>11. n = P => SubSeq(AppendedRows, 1, n) = AppendedRows
  BY <1>5
<1> QED
  BY <1>7, <1>8, <1>10, <1>11 DEF P, L, N

LEMMA LogEndAfterType ==
  ASSUME logEnd \in LogEnd, NEW n, NEW cut \in LogEnd
  PROVE  LogEndAfter(n, cut) \in LogEnd
  BY DEF LogEndAfter, LogEnd

LEMMA ClearPendingFacts ==
  ASSUME ClearPending
  PROVE  /\ NothingPending'
         /\ messagesDirty' \in BOOLEAN
         /\ messagesRequireFullPersist' \in BOOLEAN
         /\ pendingMessagesPersistTimer' \in BOOLEAN
         /\ pendingMessageAppends' \in Seq(Nat \ {0})
         /\ pendingMessageAppends' = <<>>
<1>1. <<>> \in Seq(Nat \ {0})
  OBVIOUS
<1> QED
  BY <1>1 DEF ClearPending, NothingPending

(***************************************************************************)
(* Appending writes the pending rows behind those that are in the log.     *)
(***************************************************************************)
LEMMA FlushAppendInv ==
  ASSUME IInv, FlushAppend
  PROVE  IInv'
<1> DEFINE P == Len(pendingMessageAppends)
           log == messagesLog \o AppendedRows
<1>1. /\ TypeOK /\ SenderKeysUnique /\ IndexesAgree /\ RecallRedacts /\ PendingIsTail /\ IdlePhases
      /\ P \in Nat
  BY DEF IInv, TypeOK
<1>2. /\ FlushDue /\ ~messagesRequireFullPersist /\ ClearPending
      /\ messagesLog' = log
      /\ UNCHANGED <<messages, messageClientIndex, messageNonceIndex, nextMessageSequence,
                     flushing, phase, messagesJson, online, blocked>>
      /\ logEnd' = LogEndAfter(P, "whole")
  BY DEF FlushAppend, rowVars, processVars, contextVars
<1>3. P \in 0 .. P /\ FlushDue /\ ~messagesRequireFullPersist
  BY <1>1, <1>2
<1>4. SubSeq(AppendedRows, 1, P) = AppendedRows
  BY <1>3, AppendStretch
<1>5. /\ log \in Seq(Message)
      /\ WellFormed(log)
      /\ PayloadsSound(log)
      /\ Len(log) = Len(messagesLog) + P
      /\ \A k \in 1 .. Len(log) :
           log[k] = messages[Len(messages) - P - Len(messagesLog) + k]
  BY <1>3, <1>4, AppendStretch
<1> HIDE DEF log
<1>6. TypeOK'
  <2>1. logEnd \in LogEnd /\ "whole" \in LogEnd
    BY <1>1 DEF TypeOK, LogEnd
  <2>2. logEnd' \in LogEnd
    BY <1>2, <2>1, LogEndAfterType
  <2> QED
    BY <1>1, <1>2, <1>5, <2>2, ClearPendingFacts DEF TypeOK
<1>7. SenderKeysUnique' /\ RecallRedacts' /\ IndexesAgree'
  BY <1>1, <1>2, <1>5 DEF SenderKeysUnique, RecallRedacts, IndexesAgree
<1>8. PendingIsTail'
  <2>1. pendingMessageAppends' = <<>> /\ messages' = messages /\ messagesLog' = log
    BY <1>2, ClearPendingFacts
  <2>2. /\ phase # "down" /\ ~flushing
        /\ P + Len(messagesLog) <= Len(messages)
        /\ Len(messages) \in Nat /\ Len(messagesLog) \in Nat /\ Len(log) \in Nat
    BY <1>1, <1>2, <1>5 DEF PendingIsTail, FlushDue, Running, TypeOK
  <2>3. \A k \in 1 .. Len(log) : log[k] = messages[(Len(messages) - 0) - Len(log) + k]
    <3> TAKE k \in 1 .. Len(log)
    <3>1. Len(messages) - P - Len(messagesLog) + k = (Len(messages) - 0) - Len(log) + k
      BY <1>1, <1>5, <2>2
    <3> QED
      BY <1>5, <3>1
  <2>4. 0 + Len(log) <= Len(messages)
    BY <1>1, <1>5, <2>2
  <2> QED
    BY <2>1, <2>3, <2>4 DEF PendingIsTail
<1>9. IdlePhases'
  BY <1>1, <1>2, ClearPendingFacts DEF IdlePhases, NothingPending, FlushDue, Running
<1> QED
  BY <1>6, <1>7, <1>8, <1>9 DEF IInv

(***************************************************************************)
(* A full flush writes what is in memory, first to messages.json ...       *)
(***************************************************************************)
LEMMA FlushJsonInv ==
  ASSUME IInv, FlushJson
  PROVE  IInv'
<1>1. TypeOK /\ SenderKeysUnique /\ IndexesAgree /\ RecallRedacts /\ PendingIsTail /\ IdlePhases
  BY DEF IInv
<1>2. /\ Running /\ ClearPending
      /\ messagesJson' = messages
      /\ flushing' = TRUE
      /\ UNCHANGED <<messages, messageClientIndex, messageNonceIndex, nextMessageSequence,
                     phase, messagesLog, logEnd, online, blocked>>
  BY DEF FlushJson, FlushDue, rowVars, contextVars
<1>3. TypeOK'
  BY <1>1, <1>2, ClearPendingFacts DEF TypeOK
<1>4. SenderKeysUnique' /\ RecallRedacts' /\ IndexesAgree'
  BY <1>1, <1>2 DEF SenderKeysUnique, RecallRedacts, IndexesAgree
<1>5. PendingIsTail' /\ IdlePhases'
  BY <1>2, ClearPendingFacts DEF PendingIsTail, IdlePhases, NothingPending, Running
<1> QED
  BY <1>3, <1>4, <1>5 DEF IInv

(***************************************************************************)
(* ... and then to messages.jsonl.                                         *)
(***************************************************************************)
LEMMA FlushLogInv ==
  ASSUME IInv, FlushLog
  PROVE  IInv'
<1>1. TypeOK /\ SenderKeysUnique /\ IndexesAgree /\ RecallRedacts /\ PendingIsTail /\ IdlePhases
  BY DEF IInv
<1>2. /\ flushing /\ messagesLog' = messages /\ flushing' = FALSE /\ logEnd' = "whole"
      /\ UNCHANGED <<messages, messageClientIndex, messageNonceIndex, nextMessageSequence,
                     messagesDirty, messagesRequireFullPersist, pendingMessageAppends,
                     pendingMessagesPersistTimer, phase, messagesJson, online, blocked>>
  BY DEF FlushLog, rowVars, persistVars, contextVars
<1>3. TypeOK'
  BY <1>1, <1>2 DEF TypeOK, LogEnd
<1>4. SenderKeysUnique' /\ RecallRedacts' /\ IndexesAgree'
  BY <1>1, <1>2 DEF SenderKeysUnique, RecallRedacts, IndexesAgree
<1>5. PendingIsTail'
  <2>1. pendingMessageAppends' = <<>> /\ messages' = messages /\ messagesLog' = messages
    BY <1>1, <1>2 DEF IdlePhases, NothingPending
  <2>2. Len(messages) \in Nat /\ Len(<<>>) = 0
    BY <1>1 DEF TypeOK
  <2>3. \A k \in 1 .. Len(messages) : (Len(messages) - 0) - Len(messages) + k = k
    BY <2>2
  <2> QED
    BY <2>1, <2>2, <2>3 DEF PendingIsTail
<1>6. IdlePhases'
  BY <1>1, <1>2 DEF IdlePhases, NothingPending
<1> QED
  BY <1>3, <1>4, <1>5, <1>6 DEF IInv

(***************************************************************************)
(* A process that ends, cleanly or not, leaves well formed files.          *)
(***************************************************************************)
LEMMA LoseMemoryInv ==
  ASSUME IInv, LoseMemory, UNCHANGED <<messagesJson, blocked>>,
         logEnd' \in LogEnd, messagesLog' \in Seq(Message),
         WellFormed(messagesLog'), PayloadsSound(messagesLog')
  PROVE  IInv'
<1>1. /\ messages' = <<>> /\ messageClientIndex' = {} /\ messageNonceIndex' = {}
      /\ nextMessageSequence' = 1 /\ ClearPending /\ flushing' = FALSE
      /\ phase' = "down" /\ online' = {}
  BY DEF LoseMemory
<1>2. TypeOK'
  <2>1. 1 \in Nat \ {0} /\ <<>> \in Seq(Message)
    OBVIOUS
  <2> QED
    BY <1>1, <2>1, ClearPendingFacts DEF IInv, TypeOK
<1>3. SenderKeysUnique' /\ RecallRedacts'
  <2>1. WellFormed(<<>>) /\ PayloadsSound(<<>>)
    BY DEF WellFormed, PayloadsSound, Rows
  <2> QED
    BY <1>1, <2>1 DEF IInv, SenderKeysUnique, RecallRedacts
<1>4. IndexesAgree' /\ PendingIsTail' /\ IdlePhases'
  BY <1>1, ClearPendingFacts DEF IndexesAgree, PendingIsTail, IdlePhases, NothingPending
<1> QED
  BY <1>2, <1>3, <1>4 DEF IInv

LEMMA EndInv ==
  ASSUME IInv, Exit \/ Crash
  PROVE  IInv'
<1>1. LoseMemory /\ UNCHANGED <<messagesJson, messagesLog, logEnd, blocked>>
  BY DEF Exit, Crash, diskVars
<1>2. /\ logEnd \in LogEnd /\ messagesLog \in Seq(Message)
      /\ WellFormed(messagesLog) /\ PayloadsSound(messagesLog)
  BY DEF IInv, TypeOK, SenderKeysUnique, RecallRedacts
<1> QED
  BY <1>1, <1>2, LoseMemoryInv

LEMMA CrashInAppendInv ==
  ASSUME IInv, NEW n \in 0 .. Len(pendingMessageAppends), NEW cut \in LogEnd,
         CrashInAppend(n, cut)
  PROVE  IInv'
<1>1. /\ FlushDue /\ ~messagesRequireFullPersist
      /\ messagesLog' = messagesLog \o SubSeq(AppendedRows, 1, n)
      /\ logEnd' = LogEndAfter(n, cut)
      /\ LoseMemory
      /\ UNCHANGED <<messagesJson, blocked>>
  BY DEF CrashInAppend
<1>2. /\ messagesLog' \in Seq(Message)
      /\ WellFormed(messagesLog') /\ PayloadsSound(messagesLog')
  BY <1>1, AppendStretch
<1>3. logEnd' \in LogEnd
  BY <1>1, LogEndAfterType DEF IInv, TypeOK
<1> QED
  BY <1>1, <1>2, <1>3, LoseMemoryInv

(***************************************************************************)
(* A start loads well formed rows, and rebuilds indexes and sequence from  *)
(* them; scrubbing old plaintext schedules a full flush (loadMessages).    *)
(***************************************************************************)
LEMMA StartInv ==
  ASSUME IInv, Start
  PROVE  IInv'
<1> DEFINE old == Loadable
           new == Scrubbed(Loadable)
<1>1. TypeOK /\ SenderKeysUnique /\ RecallRedacts /\ IdlePhases
  BY DEF IInv
<1>2. old \in Seq(Message) /\ WellFormed(old) /\ PayloadsSound(old)
  BY <1>1 DEF Loadable, TypeOK, SenderKeysUnique, RecallRedacts
<1>3. AmendsAll(old, new)
  <2> SUFFICES ASSUME NEW k \in DOMAIN old
               PROVE  Amends(old[k], [old[k] EXCEPT !.text = FALSE])
    BY DEF AmendsAll, Scrubbed
  <2>1. old[k] \in Message /\ PayloadSound(old[k])
    BY <1>2 DEF PayloadsSound, Rows
  <2> HIDE DEF old
  <2> QED
    BY <2>1 DEF Amends, Message, PayloadSound, ReplayNonce
<1>4. /\ phase = "down" /\ phase' = "up"
      /\ messages' = new
      /\ messageClientIndex' = ClientKeys(old)
      /\ messageNonceIndex' = NonceKeys(old)
      /\ nextMessageSequence' = SequenceAfter(old)
      /\ IF \E m \in Rows(old) : m.text THEN ScheduleFull ELSE UNCHANGED persistVars
      /\ UNCHANGED <<flushing, messagesJson, messagesLog, logEnd, online, blocked>>
  BY DEF Start, diskVars, contextVars
<1>5. /\ new \in Seq(Message) /\ Len(new) = Len(old)
      /\ WellFormed(new) /\ PayloadsSound(new)
      /\ ClientKeys(new) = ClientKeys(old) /\ NonceKeys(new) = NonceKeys(old)
      /\ {m.sequence : m \in Rows(new)} = {m.sequence : m \in Rows(old)}
  <2> HIDE DEF old, new
  <2> QED
    BY <1>2, <1>3, AmendedRows
<1>6. /\ SequenceAfter(old) \in Nat \ {0}
      /\ \A m \in Rows(old) : m.sequence < SequenceAfter(old)
  <2> HIDE DEF old
  <2> QED
    BY <1>2, SequenceAfterRows
<1>7. (\A m \in Rows(old) : ~m.text) => new = old
  <2> SUFFICES ASSUME \A m \in Rows(old) : ~m.text, NEW k \in DOMAIN old
               PROVE  [old[k] EXCEPT !.text = FALSE] = old[k]
    BY <1>2 DEF Scrubbed
  <2>1. old[k] \in Message /\ ~old[k].text
    BY <1>2 DEF Rows
  <2> HIDE DEF old
  <2> QED
    BY <2>1 DEF Message
<1>8. ~flushing /\ NothingPending
  BY <1>1, <1>4 DEF IdlePhases
<1> HIDE DEF old, new
<1>9. /\ ClientKeys(old) \subseteq User \X ClientId
      /\ NonceKeys(old) \subseteq User \X Nonce
  <2>1. \A m \in Rows(old) : m \in Message /\ ReplayNonce(m) \in Nonce \cup {Empty}
    <3>1. \A m \in Message : ReplayNonce(m) \in Nonce \cup {Empty}
      BY DEF Message, ReplayNonce
    <3>2. \A k \in DOMAIN old : old[k] \in Message
      BY <1>2
    <3> QED
      BY <3>1, <3>2 DEF Rows
  <2>2. \A m \in Rows(old) : ClientKey(m) \in User \X ClientId
    BY <2>1 DEF ClientKey, Message
  <2>3. \A m \in Rows(old) : ReplayNonce(m) # Empty => NonceKey(m) \in User \X Nonce
    BY <2>1 DEF NonceKey, Message
  <2> QED
    BY <2>2, <2>3 DEF ClientKeys, NonceKeys
<1>10. /\ messagesDirty' \in BOOLEAN /\ messagesRequireFullPersist' \in BOOLEAN
       /\ pendingMessagesPersistTimer' \in BOOLEAN
       /\ pendingMessageAppends' \in Seq(Nat \ {0})
  <2>1. <<>> \in Seq(Nat \ {0})
    OBVIOUS
  <2> QED
    BY <1>1, <1>4, <2>1 DEF TypeOK, ScheduleFull, persistVars
<1>11. TypeOK'
  BY <1>1, <1>4, <1>5, <1>6, <1>9, <1>10 DEF TypeOK
<1>12. SenderKeysUnique' /\ RecallRedacts'
  BY <1>1, <1>4, <1>5 DEF SenderKeysUnique, RecallRedacts
<1>13. IndexesAgree'
  <2>1. \A m \in Rows(new) : \E w \in Rows(old) : w.sequence = m.sequence
    BY <1>5
  <2>2. \A m \in Rows(new) : m.sequence < SequenceAfter(old)
    BY <1>6, <2>1
  <2> QED
    BY <1>4, <1>5, <2>2 DEF IndexesAgree
<1>14. PendingIsTail'
  <2>1. CASE \E m \in Rows(old) : m.text
    BY <1>4, <2>1 DEF PendingIsTail, ScheduleFull
  <2>2. CASE ~ \E m \in Rows(old) : m.text
    <3>1. messages' = old /\ pendingMessageAppends' = <<>> /\ messagesLog' = messagesLog
      BY <1>4, <1>7, <1>8, <2>2 DEF persistVars, NothingPending
    <3>2. messagesLog = old \/ messagesLog = <<>>
      BY DEF old, Loadable
    <3>3. Len(old) \in Nat /\ Len(<<>>) = 0
      BY <1>2
    <3>4. \A k \in 1 .. Len(old) : (Len(old) - 0) - Len(old) + k = k
      BY <3>3
    <3> QED
      BY <3>1, <3>2, <3>3, <3>4 DEF PendingIsTail
  <2> QED
    BY <2>1, <2>2
<1>15. IdlePhases'
  BY <1>4, <1>8 DEF IdlePhases
<1> QED
  BY <1>11, <1>12, <1>13, <1>14, <1>15 DEF IInv

-----------------------------------------------------------------------------

LEMMA NextInv == IInv /\ [Next]_vars => IInv'
<1> SUFFICES ASSUME IInv, [Next]_vars PROVE IInv'
  OBVIOUS
<1>1. CASE Handler
  <2>1. ASSUME NEW i \in Id, NEW u \in User, NEW v \in User, NEW c \in ClientId,
               NEW n \in Nonce, NEW r \in Id \cup {Empty}, SendMessage(i, u, v, c, n, r)
        PROVE  IInv'
    BY <2>1, SendInv
  <2>2. ASSUME NEW u \in User, NEW k \in DOMAIN messages,
               RecallMessage(u, k) \/ DeleteMessage(u, k)
        PROVE  IInv'
    BY <2>2, RecallInv, DeleteInv
  <2>3. ASSUME NEW u \in User, NEW v \in User, MarkRead(u, v)
        PROVE  IInv'
    BY <2>3, MarkReadInv
  <2>4. ASSUME NEW u \in User, NEW v \in User, SetBlock(u, v)
        PROVE  IInv'
    <3>1. online' \subseteq User /\ blocked' \subseteq User \X User
      BY <2>4 DEF SetBlock, IInv, TypeOK
    <3> QED
      BY <2>4, <3>1, ContextInv DEF SetBlock, processVars
  <2>5. ASSUME NEW u \in User, Connect(u)
        PROVE  IInv'
    BY <2>5, ConnectInv
  <2>6. ASSUME NEW u \in User, Disconnect(u)
        PROVE  IInv'
    <3>1. online' \subseteq User /\ blocked' \subseteq User \X User
      BY <2>6 DEF Disconnect, IInv, TypeOK
    <3> QED
      BY <2>6, <3>1, ContextInv DEF Disconnect, processVars
  <2>7. CASE PatchUser
    <3>1. UNCHANGED <<rowVars, flushing, phase, diskVars, online, blocked>>
      BY <2>7 DEF PatchUser, processVars, contextVars
    <3>2. /\ messagesRequireFullPersist' = TRUE /\ pendingMessageAppends' = <<>>
          /\ messagesDirty' = TRUE /\ pendingMessagesPersistTimer' = TRUE
      BY <2>7 DEF PatchUser, ScheduleFull
    <3>3. TypeOK'
      <4>1. <<>> \in Seq(Nat \ {0})
        OBVIOUS
      <4> QED
        BY <3>1, <3>2, <4>1 DEF IInv, TypeOK, rowVars, diskVars
    <3>4. SenderKeysUnique' /\ RecallRedacts' /\ IndexesAgree'
      BY <3>1 DEF IInv, SenderKeysUnique, RecallRedacts, IndexesAgree, rowVars, diskVars
    <3>5. PendingIsTail' /\ IdlePhases'
      BY <2>7, <3>1, <3>2 DEF PatchUser, Running, PendingIsTail, IdlePhases
    <3> QED
      BY <3>3, <3>4, <3>5 DEF IInv
  <2> QED
    BY <1>1, <2>1, <2>2, <2>3, <2>4, <2>5, <2>6, <2>7 DEF Handler
<1>2. CASE Flush
  BY <1>2, FlushAppendInv, FlushJsonInv, FlushLogInv DEF Flush
<1>3. CASE Lifecycle
  <2>1. CASE Shutdown
    <3>1. online' \subseteq User /\ blocked' \subseteq User \X User
      BY <2>1 DEF Shutdown, IInv, TypeOK
    <3> QED
      BY <2>1, <3>1, ContextInv DEF Shutdown
  <2>2. CASE RepairLog
    <3>1. TypeOK'
      BY <2>2 DEF RepairLog, IInv, TypeOK, LogEnd, rowVars, persistVars, processVars,
                  contextVars
    <3>2. /\ SenderKeysUnique' /\ RecallRedacts' /\ IndexesAgree'
          /\ PendingIsTail' /\ IdlePhases'
      BY <2>2 DEF RepairLog, IInv, SenderKeysUnique, RecallRedacts, IndexesAgree, PendingIsTail,
                  IdlePhases, NothingPending, rowVars, persistVars, processVars
    <3> QED
      BY <3>1, <3>2 DEF IInv
  <2> QED
    BY <1>3, <2>1, <2>2, StartInv, EndInv, CrashInAppendInv DEF Lifecycle
<1>4. CASE UNCHANGED vars
  <2>1. online' \subseteq User /\ blocked' \subseteq User \X User
    BY <1>4 DEF vars, contextVars, IInv, TypeOK
  <2> QED
    BY <1>4, <2>1, ContextInv DEF vars, processVars, contextVars
<1> QED
  BY <1>1, <1>2, <1>3, <1>4 DEF Next

(***************************************************************************)
(* IInv is an invariant of the store.                                      *)
(***************************************************************************)
THEOREM Invariance == Spec => []IInv
  BY InitInv, NextInv, PTL DEF Spec

\* Every variable keeps its type.
THEOREM TypeCorrect == Spec => []TypeOK
<1>1. IInv => TypeOK
  BY DEF IInv
<1> QED
  BY <1>1, Invariance, PTL

\* No sender ever has two stored messages with one nonce or client id.
THEOREM SenderKeys == Spec => []SenderKeysUnique
<1>1. IInv => SenderKeysUnique
  BY DEF IInv
<1> QED
  BY <1>1, Invariance, PTL

\* The indexes that answer retries are those of a rebuild.
THEOREM Indexes == Spec => []IndexesAgree
<1>1. IInv => IndexesAgree
  BY DEF IInv
<1> QED
  BY <1>1, Invariance, PTL

\* A recalled message has no payload, in memory and in the files.
THEOREM Recalls == Spec => []RecallRedacts
<1>1. IInv => RecallRedacts
  BY DEF IInv
<1> QED
  BY <1>1, Invariance, PTL

\* An append never repeats and never skips a row.
THEOREM PendingTail == Spec => []PendingIsTail
<1>1. IInv => PendingIsTail
  BY DEF IInv
<1> QED
  BY <1>1, Invariance, PTL

-----------------------------------------------------------------------------
(* The files.  What a row may become: more marked, recalled, never else.   *)

OutgrowsAll(rows, new) ==
  DOMAIN new = DOMAIN rows /\ \A k \in DOMAIN rows : Outgrows(rows[k], new[k])

LEMMA OutgrowsItself ==
  ASSUME NEW m \in Message, PayloadSound(m)
  PROVE  Outgrows(m, m)
<1>1. m.ciphertext = (m.ciphertext /\ ~m.recalled)
  BY DEF Message, PayloadSound
<1> QED
  BY <1>1 DEF Outgrows, Entry, Ledger!Grows

LEMMA OutgrowsOn ==
  ASSUME NEW a \in Message, NEW b \in Message, NEW c \in Message,
         Outgrows(a, b), Outgrows(b, c)
  PROVE  Outgrows(a, c)
<1>1. \A m \in Message : m.ciphertext \in BOOLEAN /\ m.recalled \in BOOLEAN
                          /\ m.delivered \in BOOLEAN /\ m.read \in BOOLEAN
  BY DEF Message
<1>2. c.ciphertext = (a.ciphertext /\ ~c.recalled)
  BY <1>1 DEF Outgrows, Entry, Ledger!Grows
<1>3. a.recalled => c.delivered = a.delivered /\ c.read = a.read
  BY <1>1 DEF Outgrows, Entry, Ledger!Grows
<1> QED
  BY <1>1, <1>2, <1>3 DEF Outgrows, Entry, Ledger!Grows

\* The marks the handlers set: the message is hidden for a user, delivered,
\* read or recalled.  Only recalled messages are not marked any more.
LEMMA MarksOutgrow ==
  ASSUME IInv, NEW k \in DOMAIN messages
  PROVE  LET m == messages[k] IN
           /\ Outgrows(m, m)
           /\ ~m.recalled => /\ Outgrows(m, [m EXCEPT !.delivered = TRUE])
                             /\ Outgrows(m, [m EXCEPT !.delivered = TRUE, !.read = TRUE])
           /\ \A u \in User : Outgrows(m, [m EXCEPT !.deletedFor = @ \cup {u}])
           /\ Outgrows(m, Redacted([m EXCEPT !.recalled = TRUE]))
<1> DEFINE m == messages[k]
<1>1. m \in Message /\ PayloadSound(m)
  BY DEF IInv, TypeOK, RecallRedacts, PayloadsSound, Rows
<1> HIDE DEF m
<1>2. m.ciphertext = (m.ciphertext /\ ~m.recalled) /\ m.recalled \in BOOLEAN
  BY <1>1 DEF Message, PayloadSound
<1>3. Outgrows(m, m)
  BY <1>1, OutgrowsItself
<1>4. ASSUME ~m.recalled
      PROVE  /\ Outgrows(m, [m EXCEPT !.delivered = TRUE])
             /\ Outgrows(m, [m EXCEPT !.delivered = TRUE, !.read = TRUE])
  BY <1>1, <1>2, <1>4
     DEF Outgrows, Entry, Ledger!Grows, Message, ClientKey, NonceKey, ReplayNonce
<1>5. ASSUME NEW u \in User
      PROVE  Outgrows(m, [m EXCEPT !.deletedFor = @ \cup {u}])
  BY <1>1, <1>2 DEF Outgrows, Entry, Ledger!Grows, Message, ClientKey, NonceKey, ReplayNonce
<1>6. Outgrows(m, Redacted([m EXCEPT !.recalled = TRUE]))
  <2> DEFINE w == Redacted([m EXCEPT !.recalled = TRUE])
  <2>1. /\ w.id = m.id /\ w.from = m.from /\ w.to = m.to /\ w.replyToId = m.replyToId
        /\ w.clientId = m.clientId /\ w.delivered = m.delivered /\ w.read = m.read
        /\ w.deletedFor = m.deletedFor
        /\ w.recalled = TRUE /\ w.nonce = Empty /\ w.ciphertext = FALSE
        /\ w.recalledNonce = IF m.nonce # Empty /\ m.recalledNonce = Empty
                             THEN m.nonce ELSE m.recalledNonce
    BY <1>1 DEF Redacted, Message
  <2> HIDE DEF w
  <2>2. ReplayNonce(w) = ReplayNonce(m)
    BY <1>1, <2>1 DEF PayloadSound, ReplayNonce
  <2>3. Outgrows(m, w)
    BY <1>1, <1>2, <2>1, <2>2 DEF Outgrows, Entry, Ledger!Grows, ClientKey, NonceKey
  <2> QED
    BY <2>3 DEF w
<1> QED
  BY <1>3, <1>4, <1>5, <1>6 DEF m

-----------------------------------------------------------------------------
(* The kinds of steps.                                                     *)

\* Marks at most: rows stay where they are, and if one changed, a full flush
\* is scheduled.
Amended ==
  /\ UNCHANGED <<flushing, messagesJson, messagesLog>>
  /\ phase' = phase \/ (phase = "up" /\ phase' = "stopping")
  /\ OutgrowsAll(messages, messages')
  /\ \/ messages' = messages /\ UNCHANGED persistVars
     \/ Running /\ ScheduleFull

\* The process ends: cleanly, or with the first n pending rows written.
Ended ==
  /\ phase # "down"
  /\ LoseMemory
  /\ UNCHANGED messagesJson
  /\ \/ UNCHANGED messagesLog
     \/ /\ FlushDue /\ ~messagesRequireFullPersist
        /\ \E n \in 0 .. Len(pendingMessageAppends) :
             messagesLog' = messagesLog \o SubSeq(AppendedRows, 1, n)

Sent == \E i \in Id, u, v \in User, c \in ClientId, n \in Nonce, r \in Id \cup {Empty} :
          SendMessage(i, u, v, c, n, r)

LEMMA ChangeRowsAmends ==
  ASSUME Running, NEW new, ChangeRows(new), OutgrowsAll(messages, new)
  PROVE  Amended
  BY DEF ChangeRows, ScheduleIfChanged, Amended, processVars, diskVars

LEMMA NothingAmends ==
  ASSUME IInv, UNCHANGED <<messages, persistVars, flushing, messagesJson, messagesLog>>,
         phase' = phase \/ (phase = "up" /\ phase' = "stopping")
  PROVE  Amended
  BY MarksOutgrow DEF Amended, OutgrowsAll

LEMMA HandlerKinds ==
  ASSUME IInv, Handler
  PROVE  Amended \/ Sent
<1>1. ASSUME NEW u \in User, NEW k \in DOMAIN messages, RecallMessage(u, k)
      PROVE  Amended
  <2>1. OutgrowsAll(messages, [messages EXCEPT ![k] = Redacted([@ EXCEPT !.recalled = TRUE])])
    BY MarksOutgrow DEF OutgrowsAll
  <2> QED
    BY <1>1, <2>1, ChangeRowsAmends DEF RecallMessage
<1>2. ASSUME NEW u \in User, NEW k \in DOMAIN messages, DeleteMessage(u, k)
      PROVE  Amended
  <2>1. OutgrowsAll(messages, [messages EXCEPT ![k].deletedFor = @ \cup {u}])
    BY MarksOutgrow DEF OutgrowsAll
  <2> QED
    BY <1>2, <2>1, ChangeRowsAmends DEF DeleteMessage
<1>3. ASSUME NEW u \in User, NEW v \in User, MarkRead(u, v)
      PROVE  Amended
  <2> DEFINE new == [k \in DOMAIN messages |->
                       IF BecomesRead(messages[k], u, v)
                       THEN [messages[k] EXCEPT !.delivered = TRUE, !.read = TRUE]
                       ELSE messages[k]]
  <2>1. OutgrowsAll(messages, new)
    BY MarksOutgrow DEF OutgrowsAll, BecomesRead
  <2>2. Running /\ ChangeRows(new)
    BY <1>3 DEF MarkRead
  <2> HIDE DEF new
  <2> QED
    BY <2>1, <2>2, ChangeRowsAmends
<1>4. ASSUME NEW u \in User, Connect(u)
      PROVE  Amended
  <2> DEFINE new == [k \in DOMAIN messages |->
                       IF BecomesDelivered(messages[k], u)
                       THEN [messages[k] EXCEPT !.delivered = TRUE]
                       ELSE messages[k]]
  <2>1. OutgrowsAll(messages, new)
    BY MarksOutgrow DEF OutgrowsAll, BecomesDelivered
  <2>2. Running /\ ChangeRows(new)
    BY <1>4 DEF Connect
  <2> HIDE DEF new
  <2> QED
    BY <2>1, <2>2, ChangeRowsAmends
<1>5. ASSUME NEW u \in User, NEW v \in User, SetBlock(u, v) \/ Disconnect(u)
      PROVE  Amended
  BY <1>5, NothingAmends DEF SetBlock, Disconnect, rowVars, processVars, diskVars
<1>6. ASSUME PatchUser
      PROVE  Amended
  BY <1>6, MarksOutgrow DEF PatchUser, Amended, OutgrowsAll, rowVars, processVars, diskVars
<1> QED
  BY <1>1, <1>2, <1>3, <1>4, <1>5, <1>6 DEF Handler, Sent

LEMMA Kinds ==
  ASSUME IInv, [Next]_vars
  PROVE  Amended \/ Sent \/ FlushAppend \/ FlushJson \/ FlushLog \/ Ended \/ Start
<1>1. CASE Shutdown \/ RepairLog \/ UNCHANGED vars
  BY <1>1, NothingAmends
     DEF Shutdown, RepairLog, vars, rowVars, processVars, diskVars
<1>2. CASE Exit \/ Crash
  BY <1>2 DEF Exit, Crash, Ended, diskVars
<1>3. ASSUME NEW n \in 0 .. Len(pendingMessageAppends), NEW cut \in LogEnd,
             CrashInAppend(n, cut)
      PROVE  Ended
  BY <1>3 DEF CrashInAppend, Ended, FlushDue, Running
<1> QED
  BY <1>1, <1>2, <1>3, HandlerKinds DEF Next, Flush, Lifecycle

-----------------------------------------------------------------------------
(* DInv is inductive.                                                      *)

\* A beginning of rows, changed in marks only, has the replies it had.
LEMMA RepliesCarry ==
  ASSUME NEW rows, NEW new, RepliesPrecede(rows), DOMAIN new \subseteq DOMAIN rows,
         \A k \in DOMAIN new : \A j \in DOMAIN rows : j < k => j \in DOMAIN new,
         \A k \in DOMAIN new :
           /\ new[k].id = rows[k].id /\ new[k].from = rows[k].from /\ new[k].to = rows[k].to
           /\ new[k].replyToId = rows[k].replyToId
  PROVE  RepliesPrecede(new)
<1> SUFFICES ASSUME NEW k \in DOMAIN new, new[k].replyToId # Empty
             PROVE  \E j \in DOMAIN new :
                      /\ j < k /\ new[j].id = new[k].replyToId
                      /\ Between(new[j], new[k].from, new[k].to)
  BY DEF RepliesPrecede
<1>1. PICK j \in DOMAIN rows : /\ j < k /\ rows[j].id = rows[k].replyToId
                               /\ Between(rows[j], rows[k].from, rows[k].to)
  BY DEF RepliesPrecede
<1>2. j \in DOMAIN new
  BY <1>1
<1> QED
  BY <1>1, <1>2 DEF Between

\* With messages.jsonl a beginning of memory, an append of the first n pending
\* rows leaves a longer one.
LEMMA AppendLengthens ==
  ASSUME IInv, DInv, FlushDue, ~messagesRequireFullPersist,
         NEW n \in 0 .. Len(pendingMessageAppends), NEW log,
         log = messagesLog \o SubSeq(AppendedRows, 1, n)
  PROVE  /\ log \in Seq(Message) /\ log # <<>>
         /\ Len(log) = Len(messagesLog) + n /\ Len(log) <= Len(messages)
         /\ \A k \in 1 .. Len(log) : log[k] = messages[k]
         /\ \A k \in 1 .. Len(messagesLog) : log[k] = messagesLog[k]
         /\ RepliesPrecede(log)
         /\ n = Len(pendingMessageAppends) =>
              log = messages /\ SubSeq(AppendedRows, 1, n) = AppendedRows
<1> DEFINE N == Len(messages)
           P == Len(pendingMessageAppends)
           L == Len(messagesLog)
<1>1. /\ messages \in Seq(Message) /\ messagesLog \in Seq(Message)
      /\ pendingMessageAppends \in Seq(Nat \ {0})
      /\ phase # "down" /\ ~flushing
  BY DEF IInv, TypeOK, FlushDue, Running
<1>2. N \in Nat /\ P \in Nat /\ L \in Nat /\ n \in Nat /\ n <= P /\ L + P = N /\ L # 0
  BY <1>1 DEF DInv, LogIsBeginning
<1>3. /\ log \in Seq(Message) /\ Len(log) = L + n
      /\ \A k \in 1 .. Len(log) : log[k] = messages[N - P - L + k]
      /\ n = P => SubSeq(AppendedRows, 1, n) = AppendedRows
  BY AppendStretch
<1>4. \A k \in 1 .. L : messagesLog[k] = messages[N - P - L + k]
  BY <1>1, <1>2 DEF IInv, PendingIsTail
<1> HIDE DEF N, P, L
<1>5. \A k \in 1 .. (L + n) : N - P - L + k = k
  BY <1>2
<1>6. /\ \A k \in 1 .. Len(log) : log[k] = messages[k]
      /\ \A k \in 1 .. L : log[k] = messagesLog[k]
  <2>1. \A k \in 1 .. (L + n) : log[k] = messages[k]
    BY <1>3, <1>5
  <2>2. ASSUME NEW k \in 1 .. L
        PROVE  k \in 1 .. (L + n) /\ messagesLog[k] = messages[k]
    <3>1. k \in 1 .. (L + n)
      BY <1>2
    <3>2. N - P - L + k = k
      BY <1>5, <3>1
    <3> QED
      BY <1>4, <3>1, <3>2
  <2> QED
    BY <1>3, <2>1, <2>2
<1>7. /\ DOMAIN log = 1 .. (L + n) /\ DOMAIN messages = 1 .. N /\ L + n <= N
      /\ log # <<>>
  BY <1>1, <1>2, <1>3 DEF N
<1>8. RepliesPrecede(log)
  <2>1. RepliesPrecede(messages)
    BY DEF DInv
  <2>2. /\ 1 .. (L + n) \subseteq 1 .. N
        /\ \A k \in 1 .. (L + n) : \A j \in 1 .. N : j < k => j \in 1 .. (L + n)
    BY <1>2
  <2>3. \A k \in 1 .. (L + n) : log[k] = messages[k]
    BY <1>3, <1>6
  <2> QED
    BY <1>3, <1>6, <1>7, <2>1, <2>2, <2>3, RepliesCarry
<1>9. n = P => log = messages
  <2> SUFFICES ASSUME n = P PROVE log = messages
    OBVIOUS
  <2>1. Len(log) = Len(messages)
    BY <1>2, <1>3 DEF N
  <2> QED
    BY <1>1, <1>3, <1>6, <2>1, SeqEqual
<1> QED
  BY <1>2, <1>3, <1>6, <1>7, <1>8, <1>9 DEF N, P, L

LEMMA AmendedDInv ==
  ASSUME IInv, IInv', DInv, Amended
  PROVE  DInv'
<1>1. /\ messages \in Seq(Message) /\ messages' \in Seq(Message)
      /\ messagesLog \in Seq(Message) /\ messagesLog' = messagesLog
      /\ DOMAIN messages' = DOMAIN messages
      /\ \A k \in DOMAIN messages : Outgrows(messages[k], messages'[k])
  BY DEF IInv, TypeOK, Amended, OutgrowsAll
<1>2. Len(messages') = Len(messages)
  BY <1>1
<1>3. LogIsBeginning'
  <2> SUFFICES ASSUME phase' # "down" PROVE
        /\ Len(messagesLog) <= Len(messages')
        /\ \A k \in 1 .. Len(messagesLog) : Outgrows(messagesLog[k], messages'[k])
        /\ ~flushing' /\ ~messagesRequireFullPersist' =>
             Len(messagesLog) + Len(pendingMessageAppends') = Len(messages')
    BY <1>1 DEF LogIsBeginning
  <2>1. phase # "down"
    BY DEF Amended
  <2>2. /\ Len(messagesLog) <= Len(messages)
        /\ \A k \in 1 .. Len(messagesLog) : Outgrows(messagesLog[k], messages[k])
        /\ ~flushing /\ ~messagesRequireFullPersist =>
             Len(messagesLog) + Len(pendingMessageAppends) = Len(messages)
    BY <2>1 DEF DInv, LogIsBeginning
  <2>3. ASSUME NEW k \in 1 .. Len(messagesLog)
        PROVE  Outgrows(messagesLog[k], messages'[k])
    <3>1. k \in DOMAIN messagesLog /\ k \in DOMAIN messages
      BY <1>1, <2>2
    <3>2. messagesLog[k] \in Message /\ messages[k] \in Message /\ messages'[k] \in Message
      BY <1>1, <3>1
    <3> QED
      BY <1>1, <2>2, <3>1, <3>2, OutgrowsOn
  <2>4. ~messagesRequireFullPersist' => UNCHANGED <<messages, persistVars>>
    BY DEF Amended, ScheduleFull
  <2> QED
    BY <1>2, <2>2, <2>3, <2>4 DEF Amended, persistVars
<1>4. RepliesPrecede(messages')
  <2>1. \A k \in DOMAIN messages :
          /\ messages'[k].id = messages[k].id
          /\ messages'[k].from = messages[k].from /\ messages'[k].to = messages[k].to
          /\ messages'[k].replyToId = messages[k].replyToId
    BY <1>1 DEF Outgrows, Ledger!Grows, Entry
  <2> QED
    BY <1>1, <2>1, RepliesCarry DEF DInv
<1> QED
  BY <1>1, <1>3, <1>4 DEF DInv, Amended, ScheduleFull, persistVars

LEMMA SentDInv ==
  ASSUME IInv, IInv', DInv, Sent
  PROVE  DInv'
<1>1. PICK i \in Id, u \in User, v \in User, c \in ClientId, n \in Nonce, r \in Id \cup {Empty} :
        SendMessage(i, u, v, c, n, r)
  BY DEF Sent
<1> DEFINE e == NewMessage(i, u, v, c, n, r)
           N == Len(messages)
<1>2. /\ messages' = Append(messages, e)
      /\ r # Empty => ReplyTarget(messages, u, v, r)
      /\ Running
      /\ messagesDirty' = TRUE
      /\ pendingMessageAppends' = Append(pendingMessageAppends, N + 1)
      /\ UNCHANGED <<messagesRequireFullPersist, flushing, phase, messagesLog>>
  BY <1>1 DEF SendMessage, MayAccept, ScheduleAppend, processVars, diskVars
<1>3. e.from = u /\ e.to = v /\ e.replyToId = r
  BY DEF NewMessage
<1> HIDE DEF e
<1>4. /\ messages \in Seq(Message) /\ messages' \in Seq(Message)
      /\ messagesLog \in Seq(Message) /\ pendingMessageAppends \in Seq(Nat \ {0})
  BY DEF IInv, TypeOK
<1>5. /\ N \in Nat /\ DOMAIN messages = 1 .. N
      /\ Len(messages') = N + 1 /\ DOMAIN messages' = 1 .. (N + 1)
      /\ messages'[N + 1] = e /\ \A k \in 1 .. N : messages'[k] = messages[k]
      /\ Len(pendingMessageAppends') = Len(pendingMessageAppends) + 1
      /\ Len(pendingMessageAppends) \in Nat /\ Len(messagesLog) \in Nat
  BY <1>2, <1>4
<1> HIDE DEF N
<1>6. LogIsBeginning'
  <2>1. /\ Len(messagesLog) <= N
        /\ \A k \in 1 .. Len(messagesLog) : Outgrows(messagesLog[k], messages[k])
        /\ ~messagesRequireFullPersist =>
             Len(messagesLog) + Len(pendingMessageAppends) = N
    BY <1>2 DEF DInv, LogIsBeginning, Running, N
  <2>2. \A k \in 1 .. Len(messagesLog) : messages'[k] = messages[k]
    BY <1>5, <2>1
  <2>3. /\ Len(messagesLog) <= Len(messages')
        /\ ~messagesRequireFullPersist =>
             Len(messagesLog) + Len(pendingMessageAppends') = Len(messages')
    BY <1>5, <2>1
  <2> QED
    BY <1>2, <2>1, <2>2, <2>3 DEF LogIsBeginning
<1>7. RepliesPrecede(messages')
  <2> SUFFICES ASSUME NEW k \in 1 .. (N + 1), messages'[k].replyToId # Empty
               PROVE  \E j \in 1 .. (N + 1) :
                        /\ j < k /\ messages'[j].id = messages'[k].replyToId
                        /\ Between(messages'[j], messages'[k].from, messages'[k].to)
    BY <1>5 DEF RepliesPrecede
  <2>1. CASE k = N + 1
    <3>1. PICK j \in 1 .. N : messages[j].id = r /\ Between(messages[j], u, v)
      BY <1>2, <1>3, <1>5, <2>1 DEF ReplyTarget, Rows
    <3>2. j \in 1 .. (N + 1) /\ j < k
      BY <1>5, <2>1
    <3> QED
      BY <1>3, <1>5, <2>1, <3>1, <3>2
  <2>2. CASE k # N + 1
    <3>1. k \in 1 .. N
      BY <1>5, <2>2
    <3>2. PICK j \in 1 .. N : /\ j < k /\ messages[j].id = messages[k].replyToId
                              /\ Between(messages[j], messages[k].from, messages[k].to)
      BY <1>5, <3>1 DEF DInv, RepliesPrecede
    <3>3. j \in 1 .. (N + 1)
      BY <1>5
    <3> QED
      BY <1>5, <3>1, <3>2, <3>3
  <2> QED
    BY <2>1, <2>2
<1> QED
  BY <1>2, <1>6, <1>7 DEF DInv

LEMMA FlushDInv ==
  ASSUME IInv, IInv', DInv, FlushAppend \/ FlushJson \/ FlushLog
  PROVE  DInv'
<1>1. /\ messages \in Seq(Message) /\ messagesLog \in Seq(Message)
      /\ \A k \in DOMAIN messages : Outgrows(messages[k], messages[k])
      /\ UNCHANGED <<messages, phase>>
      /\ phase # "down"
  BY MarksOutgrow DEF IInv, TypeOK, IdlePhases, FlushAppend, FlushJson, FlushLog, rowVars,
                      processVars, FlushDue, Running
<1>2. pendingMessageAppends' = <<>> /\ ~messagesRequireFullPersist'
  BY DEF FlushAppend, FlushJson, FlushLog, ClearPending, IInv, IdlePhases, NothingPending,
         persistVars
<1>3. CASE messagesLog' = messages
  <2>1. messages # <<>>
    BY <1>1 DEF DInv, LogIsBeginning
  <2>2. Len(messages) + Len(<<>>) = Len(messages) /\ Len(messages) <= Len(messages)
    BY <1>1
  <2>3. LogIsBeginning'
    BY <1>1, <1>2, <1>3, <2>2 DEF LogIsBeginning
  <2> QED
    BY <1>1, <1>2, <1>3, <2>1, <2>3 DEF DInv
<1>4. CASE FlushAppend
  <2>1. messagesLog \o AppendedRows = messages
    <3> DEFINE P == Len(pendingMessageAppends)
    <3>1. P \in 0 .. P
      BY DEF IInv, TypeOK
    <3>2. /\ messagesLog \o SubSeq(AppendedRows, 1, P) = messages
          /\ SubSeq(AppendedRows, 1, P) = AppendedRows
      BY <1>4, <3>1, AppendLengthens DEF FlushAppend
    <3> QED
      BY <3>2
  <2> QED
    BY <1>3, <1>4, <2>1 DEF FlushAppend
<1>5. CASE FlushJson
  <2>1. messagesLog' = messagesLog /\ flushing' = TRUE
    BY <1>5 DEF FlushJson
  <2> QED
    BY <1>1, <1>2, <2>1 DEF DInv, LogIsBeginning
<1> QED
  BY <1>3, <1>4, <1>5 DEF FlushLog

LEMMA EndedDInv ==
  ASSUME IInv, DInv, Ended
  PROVE  DInv'
<1>1. /\ phase' = "down" /\ messages' = <<>> /\ ~messagesRequireFullPersist'
      /\ pendingMessageAppends' = <<>>
  BY DEF Ended, LoseMemory, ClearPending
<1>2. messagesLog' # <<>> /\ RepliesPrecede(messagesLog')
  BY AppendLengthens DEF Ended, DInv
<1>3. RepliesPrecede(<<>>)
  BY DEF RepliesPrecede
<1> QED
  BY <1>1, <1>2, <1>3 DEF DInv, LogIsBeginning

LEMMA StartDInv ==
  ASSUME IInv, DInv, Start
  PROVE  DInv'
<1>1. /\ messagesLog \in Seq(Message) /\ PayloadsSound(messagesLog)
      /\ Loadable = messagesLog /\ messagesLog # <<>>
  BY DEF IInv, TypeOK, RecallRedacts, Loadable, DInv
<1>2. /\ messages' = [k \in DOMAIN messagesLog |-> [messagesLog[k] EXCEPT !.text = FALSE]]
      /\ IF \E m \in Rows(messagesLog) : m.text THEN ScheduleFull ELSE UNCHANGED persistVars
      /\ messagesLog' = messagesLog
  BY <1>1 DEF Start, Scrubbed, diskVars
<1>3. NothingPending
  BY DEF IInv, IdlePhases, Start
<1>4. DOMAIN messages' = DOMAIN messagesLog /\ Len(messages') = Len(messagesLog)
  BY <1>1, <1>2
<1>5. ASSUME NEW k \in DOMAIN messagesLog
      PROVE  Outgrows(messagesLog[k], messages'[k])
  <2> DEFINE m == messagesLog[k]
             w == [m EXCEPT !.text = FALSE]
  <2>1. m \in Message /\ PayloadSound(m)
    BY <1>1 DEF PayloadsSound, Rows
  <2>2. /\ w.id = m.id /\ w.from = m.from /\ w.to = m.to /\ w.replyToId = m.replyToId
        /\ w.clientId = m.clientId /\ w.delivered = m.delivered /\ w.read = m.read
        /\ w.deletedFor = m.deletedFor /\ w.recalled = m.recalled /\ w.nonce = m.nonce
        /\ w.recalledNonce = m.recalledNonce /\ w.ciphertext = m.ciphertext
    BY <2>1 DEF Message
  <2>3. Outgrows(m, m)
    BY <2>1, OutgrowsItself
  <2> HIDE DEF w
  <2>4. Outgrows(m, w)
    BY <2>2, <2>3 DEF Outgrows, Entry, Ledger!Grows, ClientKey, NonceKey, ReplayNonce
  <2> QED
    BY <1>2, <2>4 DEF w
<1>6. LogIsBeginning'
  <2>1. \A k \in 1 .. Len(messagesLog) : Outgrows(messagesLog[k], messages'[k])
    BY <1>1, <1>5
  <2>2. ~messagesRequireFullPersist' => pendingMessageAppends' = <<>>
    BY <1>2, <1>3 DEF ScheduleFull, NothingPending, persistVars
  <2>3. Len(messagesLog) + Len(<<>>) = Len(messagesLog) /\ Len(messagesLog) <= Len(messagesLog)
    BY <1>1
  <2> QED
    BY <1>2, <1>4, <2>1, <2>2, <2>3 DEF LogIsBeginning
<1>7. RepliesPrecede(messages')
  <2>1. \A k \in DOMAIN messagesLog :
          /\ messages'[k].id = messagesLog[k].id
          /\ messages'[k].from = messagesLog[k].from /\ messages'[k].to = messagesLog[k].to
          /\ messages'[k].replyToId = messagesLog[k].replyToId
    BY <1>5 DEF Outgrows, Ledger!Grows, Entry
  <2> QED
    BY <1>4, <2>1, RepliesCarry DEF DInv
<1> QED
  BY <1>2, <1>3, <1>6, <1>7 DEF DInv, ScheduleFull, NothingPending, persistVars

LEMMA DurableStep == IInv /\ IInv' /\ DInv /\ [Next]_vars => DInv'
  BY Kinds, AmendedDInv, SentDInv, FlushDInv, EndedDInv, StartDInv

LEMMA DurableInit == Init /\ Migrated => DInv
<1>1. RepliesPrecede(<<>>)
  BY DEF RepliesPrecede
<1> QED
  BY <1>1 DEF Init, Migrated, DInv, LogIsBeginning

\* messages.jsonl stays a beginning of memory, and misses nothing but pending
\* rows while appending suffices.
THEOREM Durability == Spec /\ Migrated => []DInv
<1>1. IInv /\ IInv' /\ DInv /\ [Next]_vars => DInv'
  BY DurableStep
<1> QED
  BY <1>1, DurableInit, Invariance, PTL DEF Spec

\* When nothing is pending, a restart loads exactly what is in memory.
THEOREM Clean == Spec /\ Migrated => []CleanMeansDurable
<1>1. IInv /\ DInv => CleanMeansDurable
  <2> SUFFICES ASSUME IInv, DInv, Running, ~messagesDirty PROVE Loadable = messages
    BY DEF CleanMeansDurable
  <2>1. /\ messages \in Seq(Message) /\ messagesLog \in Seq(Message)
        /\ ~messagesRequireFullPersist /\ pendingMessageAppends = <<>> /\ Len(<<>>) = 0
        /\ phase # "down" /\ ~flushing
    BY DEF IInv, TypeOK, DInv, Running
  <2>2. Len(messagesLog) = Len(messages)
    BY <2>1 DEF DInv, LogIsBeginning
  <2>3. ASSUME NEW k \in 1 .. Len(messagesLog)
        PROVE  messagesLog[k] = messages[k]
    <3>1. messagesLog[k] = messages[Len(messages) - 0 - Len(messagesLog) + k]
      BY <2>1 DEF IInv, PendingIsTail
    <3>2. Len(messages) - 0 - Len(messagesLog) + k = k
      BY <2>1, <2>2
    <3> QED
      BY <3>1, <3>2
  <2>4. messagesLog = messages
    BY <2>1, <2>2, <2>3, SeqEqual
  <2> QED
    BY <2>4 DEF DInv, Loadable
<1> QED
  BY <1>1, Invariance, Durability, PTL

\* A reply refers to a message of its conversation, in memory and in what a
\* restart loads, whatever a crash lost.
THEOREM Replies == Spec /\ Migrated => []ReplyTargetsResolve
<1>1. ASSUME NEW rows, RepliesPrecede(rows)
      PROVE  \A m \in Rows(rows) :
               m.replyToId # Empty => ReplyTarget(rows, m.from, m.to, m.replyToId)
  BY <1>1 DEF RepliesPrecede, Rows, ReplyTarget
<1>2. DInv => ReplyTargetsResolve
  BY <1>1 DEF DInv, Loadable, ReplyTargetsResolve
<1> QED
  BY <1>2, Durability, PTL

\* What a step leaves in the file holds what was there, with more marks at most.
LEMMA LogKept ==
  ASSUME IInv, DInv, [Next]_vars
  PROVE  \/ messagesLog' = messagesLog
         \/ FlushLog
         \/ \E n \in 0 .. Len(pendingMessageAppends) :
              /\ FlushDue /\ ~messagesRequireFullPersist
              /\ messagesLog' = messagesLog \o SubSeq(AppendedRows, 1, n)
<1>1. CASE FlushAppend
  <2> DEFINE P == Len(pendingMessageAppends)
  <2>1. P \in 0 .. P
    BY DEF IInv, TypeOK
  <2>2. FlushDue /\ ~messagesRequireFullPersist /\ messagesLog' = messagesLog \o AppendedRows
    BY <1>1 DEF FlushAppend
  <2>3. SubSeq(AppendedRows, 1, P) = AppendedRows
    BY <2>1, <2>2, AppendLengthens
  <2> QED
    BY <2>1, <2>2, <2>3
<1>2. CASE Amended \/ Sent \/ FlushJson \/ Start \/ Ended
  BY <1>2 DEF Amended, Sent, SendMessage, FlushJson, Start, Ended, diskVars
<1> QED
  BY <1>1, <1>2, Kinds

\* What a restart would load never loses a message or a mark.
THEOREM Remembering == Spec /\ Migrated => DurableNeverForgets
<1> DEFINE Kept == \A m \in Rows(Loadable) : \E w \in Rows(Loadable') : Remembers(m, w)
<1>1. ASSUME IInv, DInv, DInv', [Next]_vars
      PROVE  Kept
  <2> SUFFICES ASSUME NEW m \in Rows(messagesLog)
               PROVE  \E w \in Rows(messagesLog') : Remembers(m, w)
    BY <1>1 DEF DInv, Loadable
  <2>1. PICK k \in DOMAIN messagesLog : m = messagesLog[k]
    BY DEF Rows
  <2>2. messagesLog \in Seq(Message) /\ messages \in Seq(Message)
    BY <1>1 DEF IInv, TypeOK
  <2>3. Remembers(m, m)
    BY DEF Remembers
  <2>4. ASSUME NEW n \in 0 .. Len(pendingMessageAppends),
               FlushDue, ~messagesRequireFullPersist,
               messagesLog' = messagesLog \o SubSeq(AppendedRows, 1, n)
        PROVE  m \in Rows(messagesLog')
    <3>1. /\ messagesLog' \in Seq(Message)
          /\ Len(messagesLog') = Len(messagesLog) + n
          /\ \A j \in 1 .. Len(messagesLog) : messagesLog'[j] = messagesLog[j]
      BY <1>1, <2>4, AppendLengthens
    <3>2. k \in 1 .. Len(messagesLog) /\ k \in DOMAIN messagesLog'
      BY <2>1, <2>2, <3>1, n \in Nat
    <3> QED
      BY <2>1, <3>1, <3>2 DEF Rows
  <2>5. ASSUME FlushLog
        PROVE  \E w \in Rows(messagesLog') : Remembers(m, w)
    <3>1. phase # "down" /\ messagesLog' = messages
      BY <1>1, <2>5 DEF FlushLog, IInv, IdlePhases
    <3>2. Outgrows(m, messages[k]) /\ k \in DOMAIN messages
      BY <1>1, <2>1, <2>2, <3>1 DEF DInv, LogIsBeginning
    <3>3. Remembers(m, messages[k])
      BY <3>2 DEF Outgrows, Entry, Ledger!Grows, Remembers
    <3> QED
      BY <3>1, <3>2, <3>3 DEF Rows
  <2> QED
    BY <1>1, <2>3, <2>4, <2>5, LogKept
<1>2. IInv /\ DInv /\ DInv' /\ [Next]_vars => [Kept]_vars
  BY <1>1
<1> QED
  BY <1>2, Invariance, Durability, PTL DEF Spec, DurableNeverForgets

-----------------------------------------------------------------------------
(* The store implements MessageLedger.                                     *)

LEMMA EntriesFacts ==
  ASSUME NEW rows \in Seq(Message)
  PROVE  /\ Entries(rows) \in Seq({Entry(m) : m \in Message})
         /\ DOMAIN Entries(rows) = DOMAIN rows /\ Len(Entries(rows)) = Len(rows)
         /\ \A k \in DOMAIN rows : Entries(rows)[k] = Entry(rows[k])
  BY DEF Entries

\* Marks amend entries and leave the backup alone.
LEMMA AmendedLedger ==
  ASSUME IInv, DInv, Amended
  PROVE  [Ledger!Next]_(Ledger!ledgerVars)
<1>1. Loadable' = Loadable
  BY DEF Amended, Loadable
<1>2. CASE phase = "down"
  <2>1. phase' = "down"
    BY <1>2 DEF Amended
  <2> QED
    BY <1>1, <1>2, <2>1 DEF Ledger!ledgerVars
<1>3. CASE phase # "down"
  <2>1. phase' # "down"
    BY <1>3 DEF Amended
  <2>2. /\ DOMAIN Entries(messages') = DOMAIN Entries(messages)
        /\ \A k \in DOMAIN Entries(messages) :
             Ledger!Grows(Entries(messages)[k], Entries(messages')[k])
    BY DEF Amended, OutgrowsAll, Outgrows, Entries
  <2>3. Ledger!Amend
    BY <1>1, <1>3, <2>1, <2>2 DEF Ledger!Amend
  <2> QED
    BY <2>3 DEF Ledger!Next
<1> QED
  BY <1>2, <1>3

\* An accepted message is a fresh entry at the end, under keys nothing has.
LEMMA SentLedger ==
  ASSUME IInv, IInv', DInv, Sent
  PROVE  Ledger!Accept
<1>1. PICK i \in Id, u \in User, v \in User, c \in ClientId, n \in Nonce, r \in Id \cup {Empty} :
        SendMessage(i, u, v, c, n, r)
  BY DEF Sent
<1> DEFINE e == NewMessage(i, u, v, c, n, r)
           N == Len(messages)
<1>2. /\ messages' = Append(messages, e)
      /\ phase # "down" /\ phase' = phase
      /\ Loadable' = Loadable
  BY <1>1 DEF SendMessage, Running, processVars, diskVars, Loadable
<1>3. ~e.read /\ ~e.recalled /\ e.ciphertext /\ e.deletedFor = {}
  BY DEF NewMessage
<1> HIDE DEF e
<1>4. messages \in Seq(Message) /\ messages' \in Seq(Message)
  BY DEF IInv, TypeOK
<1>5. /\ N \in Nat /\ Len(messages') = N + 1
      /\ messages'[N + 1] = e /\ \A k \in 1 .. N : messages'[k] = messages[k]
  BY <1>2, <1>4
<1>6. /\ Len(Entries(messages)) = N /\ Len(Entries(messages')) = N + 1
      /\ DOMAIN Entries(messages) = 1 .. N
      /\ \A k \in 1 .. N : Entries(messages)[k] = Entry(messages[k])
      /\ \A k \in 1 .. N + 1 : Entries(messages')[k] = Entry(messages'[k])
      /\ Entries(messages) \in Seq({Entry(m) : m \in Message})
      /\ Entries(messages') \in Seq({Entry(m) : m \in Message})
  <2>1. /\ Entries(messages) \in Seq({Entry(m) : m \in Message})
        /\ Len(Entries(messages)) = Len(messages) /\ DOMAIN Entries(messages) = DOMAIN messages
        /\ \A k \in DOMAIN messages : Entries(messages)[k] = Entry(messages[k])
    BY <1>4, EntriesFacts
  <2>2. /\ Entries(messages') \in Seq({Entry(m) : m \in Message})
        /\ Len(Entries(messages')) = Len(messages')
        /\ \A k \in DOMAIN messages' : Entries(messages')[k] = Entry(messages'[k])
    BY <1>4, EntriesFacts
  <2>3. DOMAIN messages = 1 .. N /\ DOMAIN messages' = 1 .. N + 1
    BY <1>4, <1>5
  <2> QED
    BY <1>5, <2>1, <2>2, <2>3
<1> HIDE DEF N
<1>7. SubSeq(Entries(messages'), 1, N) = Entries(messages)
  <2> DEFINE s == SubSeq(Entries(messages'), 1, N)
  <2>1. /\ s \in Seq({Entry(m) : m \in Message}) /\ Len(s) = N
        /\ \A k \in 1 .. N : s[k] = Entries(messages')[k]
    BY <1>5, <1>6
  <2>2. \A k \in 1 .. N : s[k] = Entries(messages)[k]
    BY <1>5, <1>6, <2>1
  <2> HIDE DEF s
  <2>3. s = Entries(messages)
    BY <1>6, <2>1, <2>2, SeqEqual
  <2> QED
    BY <2>3 DEF s
<1>8. Entries(messages')[N + 1] = Entry(e)
  BY <1>5, <1>6
<1>9. ASSUME NEW k \in 1 .. N
      PROVE  /\ Entries(messages)[k].id # Entry(e).id
             /\ Entries(messages)[k].key # Entry(e).key
             /\ Entries(messages)[k].nonce # Entry(e).nonce
  <2>1. /\ k \in DOMAIN messages' /\ N + 1 \in DOMAIN messages' /\ k < N + 1
        /\ messages'[k] = messages[k]
    BY <1>4, <1>5
  <2>2. /\ messages[k].id # e.id
        /\ ClientKey(messages[k]) # ClientKey(e)
        /\ NonceKey(messages[k]) # NonceKey(e)
    BY <1>5, <2>1 DEF IInv, SenderKeysUnique, WellFormed
  <2> QED
    BY <1>6, <2>2 DEF Entry
<1>10. Ledger!Fresh(Entry(e))
  BY <1>3 DEF Entry, Ledger!Fresh
<1> QED
  BY <1>2, <1>6, <1>7, <1>8, <1>9, <1>10 DEF Ledger!Accept

\* The last write of a flush brings the backup up to the book.
LEMMA FlushLedger ==
  ASSUME IInv, DInv, DInv', FlushAppend \/ FlushLog
  PROVE  Ledger!Persist
<1>1. UNCHANGED <<messages, phase>> /\ phase # "down"
  BY DEF FlushAppend, FlushLog, FlushDue, Running, IInv, IdlePhases, rowVars, processVars
<1>2. messagesLog' = messages
  <2>1. CASE FlushAppend
    <3> DEFINE P == Len(pendingMessageAppends)
    <3>1. P \in 0 .. P
      BY DEF IInv, TypeOK
    <3>2. /\ messagesLog \o SubSeq(AppendedRows, 1, P) = messages
          /\ SubSeq(AppendedRows, 1, P) = AppendedRows
      BY <2>1, <3>1, AppendLengthens DEF FlushAppend
    <3> QED
      BY <2>1, <3>2 DEF FlushAppend
  <2> QED
    BY <2>1 DEF FlushLog
<1>3. Loadable' = messages
  BY <1>2 DEF DInv, Loadable
<1> QED
  BY <1>1, <1>3 DEF Ledger!Persist

\* A start opens the book at the backup: scrubbing changes no entry.
LEMMA StartLedger ==
  ASSUME IInv, DInv, Start
  PROVE  UNCHANGED Ledger!ledgerVars
<1>1. /\ Loadable' = Loadable /\ Loadable \in Seq(Message)
      /\ messages' = Scrubbed(Loadable)
      /\ phase = "down" /\ phase' # "down"
  BY DEF Start, diskVars, Loadable, IInv, TypeOK
<1>2. Entries(messages') = Entries(Loadable)
  <2>1. ASSUME NEW m \in Message
        PROVE  Entry([m EXCEPT !.text = FALSE]) = Entry(m)
    BY DEF Entry, ClientKey, NonceKey, ReplayNonce, Message
  <2>2. \A k \in DOMAIN Loadable : Loadable[k] \in Message
    BY <1>1
  <2>3. /\ DOMAIN messages' = DOMAIN Loadable
        /\ \A k \in DOMAIN Loadable : messages'[k] = [Loadable[k] EXCEPT !.text = FALSE]
    BY <1>1 DEF Scrubbed
  <2> QED
    BY <2>1, <2>2, <2>3 DEF Entries
<1> QED
  BY <1>1, <1>2 DEF Ledger!ledgerVars

\* A process that ends leaves the backup, longer by what it had appended.
LEMMA EndedLedger ==
  ASSUME IInv, DInv, DInv', Ended
  PROVE  Ledger!Crash
<1>1. /\ phase # "down" /\ phase' = "down"
      /\ Loadable = messagesLog /\ Loadable' = messagesLog'
      /\ messages \in Seq(Message) /\ messagesLog \in Seq(Message)
  BY DEF Ended, LoseMemory, DInv, Loadable, IInv, TypeOK
<1>2. ASSUME NEW n \in 0 .. Len(pendingMessageAppends),
             FlushDue, ~messagesRequireFullPersist,
             messagesLog' = messagesLog \o SubSeq(AppendedRows, 1, n)
      PROVE  \E j \in Len(Entries(messagesLog)) .. Len(Entries(messages)) :
               Entries(messagesLog') = SubSeq(Entries(messages), 1, j)
  <2> DEFINE j == Len(messagesLog')
             T == {Entry(m) : m \in Message}
             s == SubSeq(Entries(messages), 1, j)
  <2>1. /\ messagesLog' \in Seq(Message)
        /\ Len(messagesLog') = Len(messagesLog) + n /\ Len(messagesLog') <= Len(messages)
        /\ \A k \in 1 .. Len(messagesLog') : messagesLog'[k] = messages[k]
    BY <1>2, AppendLengthens
  <2>2. j \in Len(messagesLog) .. Len(messages) /\ j \in Nat
    BY <1>1, <2>1, n \in Nat
  <2>3. /\ Entries(messagesLog') \in Seq(T) /\ Len(Entries(messagesLog')) = j
        /\ Entries(messages) \in Seq(T) /\ Len(Entries(messages)) = Len(messages)
        /\ Len(Entries(messagesLog)) = Len(messagesLog)
    BY <1>1, <2>1, EntriesFacts
  <2>4. \A k \in 1 .. j : k \in DOMAIN messagesLog' /\ k \in DOMAIN messages
    BY <1>1, <2>1, <2>2
  <2>5. \A k \in 1 .. j : Entries(messagesLog')[k] = Entries(messages)[k]
    BY <1>1, <2>1, <2>4, EntriesFacts
  <2> HIDE DEF j, T
  <2>6. s \in Seq(T) /\ Len(s) = j /\ \A k \in 1 .. j : s[k] = Entries(messages)[k]
    BY <1>1, <2>2, <2>3
  <2> HIDE DEF s
  <2>7. Entries(messagesLog') = s
    BY <2>3, <2>5, <2>6, SeqEqual
  <2> QED
    BY <2>2, <2>3, <2>7 DEF s
<1>3. \/ Entries(messagesLog') = Entries(messagesLog)
      \/ \E j \in Len(Entries(messagesLog)) .. Len(Entries(messages)) :
           Entries(messagesLog') = SubSeq(Entries(messages), 1, j)
  BY <1>2 DEF Ended
<1> QED
  BY <1>1, <1>3 DEF Ledger!Crash

\* Every step of the store is a step of the ledger or leaves it alone.
LEMMA LedgerStep ==
  IInv /\ IInv' /\ DInv /\ DInv' /\ [Next]_vars => [Ledger!Next]_(Ledger!ledgerVars)
<1> SUFFICES ASSUME IInv, IInv', DInv, DInv', [Next]_vars
             PROVE  [Ledger!Next]_(Ledger!ledgerVars)
  OBVIOUS
<1>1. CASE Sent
  BY <1>1, SentLedger DEF Ledger!Next
<1>2. CASE FlushAppend \/ FlushLog
  BY <1>2, FlushLedger DEF Ledger!Next
<1>3. CASE FlushJson
  <2>1. Loadable' = Loadable /\ UNCHANGED <<messages, phase>>
    BY <1>3 DEF FlushJson, DInv, Loadable, rowVars
  <2> QED
    BY <2>1 DEF Ledger!ledgerVars
<1>4. CASE Ended
  BY <1>4, EndedLedger DEF Ledger!Next
<1>5. CASE Start
  BY <1>5, StartLedger
<1> QED
  BY <1>1, <1>2, <1>3, <1>4, <1>5, AmendedLedger, Kinds

LEMMA LedgerInit == Init => Ledger!Init
  BY DEF Init, Ledger!Init, Loadable, InitialRows

\* The store with its indexes, timers and two files implements the ledger: a
\* list that only gains marks, and a backup that a crash falls back to.
THEOREM Implementation == Spec /\ Migrated => ImplementsLedger
  BY LedgerInit, LedgerStep, Invariance, Durability, PTL
     DEF Spec, ImplementsLedger, Ledger!Spec
=============================================================================
