--------------------------- MODULE Relationships ----------------------------
(***************************************************************************)
(* Contacts, blocks and presence: the contact handlers                     *)
(* (routes/contact-routes.js), the relationship helpers (server.js), the   *)
(* privacy setting (routes/account-routes.js), and what every open event   *)
(* stream has been told of who is online (services/realtime-hub.js,        *)
(* routes/event-routes.js).  The server can stop and start again: streams  *)
(* end, and the load keeps the block lists and the muted flags but not the *)
(* states of the entries.  The handlers are synchronous once the body is   *)
(* read, and their writes of users.json work here.                         *)
(***************************************************************************)
EXTENDS Naturals, FiniteSets

CONSTANTS User, Slot   \* each user may have a stream in every slot

VARIABLES
  open,    \* streams <<user, slot>>
  told,    \* the users each open stream was last told to be online
  shows,   \* users with showOnlineStatus
  blocks,  \* <<v, t>> when t is in v's blockedUsers
  entry,   \* contact entry of each pair
  doubt,   \* ghost: <<stream, t>> when its own user has let t off the block list
           \* since the stream was last told of t
  asked,   \* ghost: what v last asked for as the state of t
  sent,    \* <<v, t>> when v has sent messages to t
  waiting, \* <<v, t>> when one of them is not marked delivered
  held     \* ghost: those of them a block withheld when t last opened a stream

vars == <<open, told, shows, blocks, entry, doubt, asked, sent, waiting, held>>

\* An entry without a relationshipState is "none" as removeUserContact makes it, and
\* "unset" as the load leaves it.
NoEntry == [state |-> "none", muted |-> FALSE, removed |-> FALSE]
Pair == {p \in User \X User : p[1] # p[2]}

-----------------------------------------------------------------------------
(* Presence.                                                               *)

Online(t, streams) == \E c \in streams : c[1] = t

Visible(v, t, streams, shown, blocked) ==
  Online(t, streams) /\ (v = t \/ (t \in shown /\ {<<v, t>>, <<t, v>>} \cap blocked = {}))

\* pushPresence, after the change: each stream is told what its user may see.
PushPresence(t, streams, fresh) ==
  /\ told' = [c \in streams |-> LET was == IF c \in open THEN told[c] ELSE {}
                                IN  IF Visible(c[1], t, streams, shows', blocks') THEN was \cup {t} ELSE was \ {t}]
  /\ doubt' = {d \in doubt : d[1] \in streams /\ d[2] # t} \cup fresh

\* isBlockedBetween
Between(p) == {p, <<p[2], p[1]>>} \cap blocks # {}

\* Mutant of Marked: only the recipient's own blocks count.
MarkedBySender(v) == {p \in waiting : p[2] = v /\ <<p[2], p[1]>> \notin blocks}

\* markPendingDeliveries: what it marks for v.
Marked(v) == {p \in waiting : p[2] = v /\ ~Between(p)}

Opened(v, s) ==
  /\ open' = open \cup {<<v, s>>}
  /\ waiting' = waiting \ Marked(v)
  /\ held' = {p \in held : p[2] # v} \cup {p \in waiting : p[2] = v /\ Between(p)}

\* attachConnection, the "ready" event of the new stream and the deliveries.
Open(v, s) ==
  /\ <<v, s>> \notin open /\ Opened(v, s)
  /\ LET ready == {t \in User : Visible(v, t, open', shows, blocks)}
     IN  told' = [c \in open' |-> IF c = <<v, s>> THEN ready
                                  ELSE IF ~Online(v, open) /\ Visible(c[1], v, open', shows, blocks)
                                       THEN told[c] \cup {v} ELSE told[c]]
  /\ doubt' = IF Online(v, open) THEN doubt ELSE {d \in doubt : d[2] # v}
  /\ UNCHANGED <<shows, blocks, entry, asked, sent>>

\* detachConnection for one, disconnectUserRealtime for all streams of a user.
Close(v, gone) ==
  /\ gone # {} /\ gone \subseteq {c \in open : c[1] = v}
  /\ open' = open \ gone
  /\ UNCHANGED <<shows, blocks, entry, asked, sent, waiting, held>>
  /\ IF Online(v, open') THEN told' = [c \in open' |-> told[c]] /\ doubt' = {d \in doubt : d[1] \in open'}
     ELSE PushPresence(v, open', {})

\* handleMeSettingsPatch
SetShows(v) ==
  /\ shows' = IF v \in shows THEN shows \ {v} ELSE shows \cup {v}
  /\ UNCHANGED <<open, blocks, entry, asked, sent, waiting, held>>
  /\ PushPresence(v, open, {})

-----------------------------------------------------------------------------
(* Contacts.                                                               *)

StateFor(p) ==
  IF p \in blocks THEN "blocked" ELSE IF entry[p].state = "muted" \/ entry[p].muted THEN "muted" ELSE "normal"

\* setRelationshipState; pins and notes are left out of an entry.
SetState(p, state) ==
  /\ blocks' = IF state = "blocked" THEN blocks \cup {p} ELSE blocks \ {p}
  /\ entry' = [entry EXCEPT ![p] =
       [state |-> state, muted |-> state = "muted", removed |-> FALSE]]

\* handleContactCreate
Create(p) ==
  /\ ~Between(p)
  /\ entry[p] = NoEntry \/ entry[p].removed
  /\ LET known == IF entry[p].state \in {"none", "unset"} THEN "normal" ELSE entry[p].state
     IN  entry' = [entry EXCEPT ![p] = [entry[p] EXCEPT !.state = known, !.removed = FALSE]]
  /\ UNCHANGED <<open, told, shows, blocks, doubt, asked, sent, waiting, held>>

\* handleContactPatch: a patch of the pin or the note alone keeps the state.
Patch(p, mute) ==
  /\ ~(p \in blocks /\ mute # "kept")
  /\ SetState(p, IF mute = "kept" THEN StateFor(p) ELSE mute)
  /\ asked' = IF mute = "kept" THEN asked ELSE [asked EXCEPT ![p] = mute]
  /\ UNCHANGED <<open, told, shows, doubt, sent, waiting, held>>

\* handleContactDelete
Delete(p) ==
  /\ entry' = [entry EXCEPT ![p] = [entry[p] EXCEPT !.removed = TRUE]]
  /\ UNCHANGED <<open, told, shows, blocks, doubt, asked, sent, waiting, held>>

\* handleContactBlock: the state, and the presence of the one who blocks.
SetBlock(p, on) ==
  /\ SetState(p, IF on THEN "blocked" ELSE "normal")
  /\ asked' = [asked EXCEPT ![p] = IF on THEN "blocked" ELSE "normal"]
  /\ UNCHANGED <<open, shows, sent, waiting, held>>
  /\ PushPresence(p[1], open, IF ~on /\ p \in blocks THEN {c \in open : c[1] = p[1]} \X {p[2]} ELSE {})

\* The part of handleSendMessage: both get an entry they may lack, and a message
\* to someone who is offline waits.
Send(p) ==
  /\ ~Between(p)
  /\ entry' = [q \in Pair |-> IF q \in {p, <<p[2], p[1]>>} /\ entry[q] = NoEntry
                             THEN [NoEntry EXCEPT !.state = "normal"] ELSE entry[q]]
  /\ sent' = sent \cup {p}
  /\ waiting' = IF Online(p[2], open) THEN waiting ELSE waiting \cup {p}
  /\ UNCHANGED <<open, told, shows, blocks, doubt, asked, held>>

\* The last message that waits is recalled or deleted by its recipient, or, unless
\* a block forbids it, read.
Settle(p, read) ==
  /\ p \in waiting /\ ~(read /\ Between(p))
  /\ waiting' = waiting \ {p} /\ held' = held \ {p}
  /\ UNCHANGED <<open, told, shows, blocks, entry, doubt, asked, sent>>

\* A stop and the next start: no stream is left, and normalizeUserContacts drops the
\* state of every entry.  A message or its mark may not have been written.
Restart ==
  /\ open' = {} /\ told' = [c \in {} |-> {}] /\ doubt' = {}
  /\ entry' = [p \in Pair |-> IF entry[p] = NoEntry THEN NoEntry ELSE [entry[p] EXCEPT !.state = "unset"]]
  /\ waiting' \in SUBSET sent /\ held' = {}
  /\ UNCHANGED <<shows, blocks, asked, sent>>

-----------------------------------------------------------------------------

Init ==
  /\ open = {} /\ told = [c \in {} |-> {}]
  /\ shows \in SUBSET User
  /\ blocks = {} /\ entry = [p \in Pair |-> NoEntry]
  /\ asked = [p \in Pair |-> "normal"]
  /\ doubt = {} /\ sent = {} /\ waiting = {} /\ held = {}

Next ==
  \/ \E v \in User : \/ \E s \in Slot : Open(v, s) \/ Close(v, {<<v, s>>})
                     \/ Close(v, {c \in open : c[1] = v})
                     \/ SetShows(v)
  \/ \E p \in Pair : \/ Create(p) \/ Delete(p) \/ Send(p)
                     \/ \E on \in BOOLEAN : SetBlock(p, on) \/ Settle(p, on)
                     \/ \E mute \in {"kept", "muted", "normal"} : Patch(p, mute)
  \/ Restart

Spec == Init /\ [][Next]_vars

-----------------------------------------------------------------------------
(* Properties.                                                             *)

\* Every variable keeps its type.
TypeOK ==
  /\ open \subseteq User \X Slot /\ told \in [open -> SUBSET User]
  /\ shows \subseteq User /\ {blocks, sent, waiting, held} \subseteq SUBSET Pair
  /\ entry \in [Pair -> [state : {"none", "unset", "normal", "muted", "blocked"}, muted : BOOLEAN,
                         removed : BOOLEAN]]
  /\ asked \in [Pair -> {"normal", "muted", "blocked"}]
  /\ doubt \subseteq open \X User

\* The last word of any stream about another user is "online" only while that
\* user is, shows it, and does not block the one who looks.
Withheld ==
  \A c \in open : \A t \in told[c] :
    Online(t, open) /\ (t = c[1] \/ (t \in shows /\ <<t, c[1]>> \notin blocks))

\* Whoever may be seen has been announced on every stream, unless the one who
\* looks has only just taken t off the block list: that is not announced.
Announced ==
  \A c \in open, t \in User :
    Visible(c[1], t, open, shows, blocks) => t \in told[c] \/ <<c, t>> \in doubt

\* relationshipStateFor: a contact is blocked or muted exactly while that is what its
\* owner last asked for; no pin, note, message, removal, new contact or restart
\* lifts a block or changes what is muted.
AskedIsKept == \A p \in Pair : StateFor(p) = asked[p]

\* The state of an entry, which a load drops, never says more than the block list and
\* the muted flag, which a load keeps; and no contact is muted and blocked at once.
EntriesAgree ==
  \A p \in Pair : /\ entry[p].state = "blocked" => p \in blocks
                  /\ entry[p].state = "muted" => entry[p].muted
                  /\ entry[p].muted => p \notin blocks

\* markPendingDeliveries: a message waits while its recipient is online only if a
\* block stood between the two when the recipient last opened a stream ...
WaitsForAReason == \A p \in waiting : Online(p[2], open) => p \in held

\* ... and what such a block withheld is not reported as delivered meanwhile.
WithheldStays == held \subseteq waiting

\* What the rules of contacts and presence promise.
BlocksAreRespected ==
  Withheld /\ Announced /\ AskedIsKept /\ EntriesAgree /\ WaitsForAReason /\ WithheldStays

\* What makes the above inductive: it is, with the types.
IInv == TypeOK /\ BlocksAreRespected
=============================================================================
