----------------------------- MODULE ClientTrust -----------------------------
(***************************************************************************)
(* The trust in the key of a contact (public/app.js): cachePeerInfo, which *)
(* every answer and event with a key goes through, the pin the user sets   *)
(* after the safety code, the pages of a conversation whose rows carry the *)
(* key their sender had at the time, and the choice of the key when a      *)
(* message is encrypted at once, after a retry or after a reconnect, or is *)
(* an attachment that was read in between.                                 *)
(*                                                                         *)
(* One contact, whose keys are numbered in the order of its changes (0: no *)
(* key); one message of the user, and attachments beside it.  An action    *)
(* runs from await to await.                                               *)
(***************************************************************************)
EXTENDS Naturals

CONSTANTS
  MaxKeys,    \* keys the contact has in the end
  MaxAnswers, \* answers and events that bring a key
  MaxTrusts,  \* dialogs
  MaxSends    \* clicks on send or retry, attachments, and reconnects

\* Assumed of the constants: the contact has a key.
TrustAssumption == {MaxKeys, MaxAnswers, MaxTrusts, MaxSends} \subseteq Nat /\ MaxKeys > 0

Key == 1..MaxKeys

VARIABLES
  trust,      \* the entries of the contact in peerKeyPins, peerObservedKeys,
              \* peerKeys, peerKeyMismatches and peerKeyUnverified
  serverKey,  \* the key of the contact at the server
  wire,       \* keys of answers and events on their way
  rows,       \* keys of the messages of the contact in the history
  opening,    \* the key of an opening that is being decrypted, or 0
  dialog,     \* the key the dialog asks about, or 0
  confirmed,  \* keys the user has confirmed
  message,    \* the user's message: none, queued, failed or sent
  batches,    \* attachments being read: for each batch whether the key of this contact
              \* was known and not in doubt when the files were chosen
  paged,      \* the last key came with a page of older messages
  encrypted,  \* how the last message was encrypted
  connected,
  used

vars == <<trust, serverKey, wire, rows, opening, dialog, confirmed, message, batches, paged,
          encrypted, connected, used>>

May(kind, bound) == used[kind] < bound /\ used' = [used EXCEPT ![kind] = @ + 1]

Trust(t) == trust' = t /\ paged' = FALSE

Paused(t) == t.mismatch \/ t.unverified

-----------------------------------------------------------------------------
(* Keys that arrive.                                                       *)

\* Mutant of Cached: a changed key is used at once.
CachedNewKey(t, k) ==
  IF t.pin = 0
  THEN [pin |-> 0, observed |-> k, key |-> k, mismatch |-> FALSE, unverified |-> TRUE]
  ELSE [pin |-> t.pin, observed |-> k, key |-> k, mismatch |-> k # t.pin, unverified |-> FALSE]

\* cachePeerInfo
Cached(t, k) ==
  IF t.pin = 0
  THEN [pin |-> 0, observed |-> k, key |-> k, mismatch |-> FALSE, unverified |-> TRUE]
  ELSE [pin |-> t.pin, observed |-> k, key |-> t.pin, mismatch |-> k # t.pin, unverified |-> FALSE]

Rotate ==
  /\ serverKey < MaxKeys /\ serverKey' = serverKey + 1
  /\ UNCHANGED <<trust, paged, wire, rows, opening, dialog, confirmed, message, batches,
                 encrypted, connected, used>>

\* A message of the contact, which stays in the history with the key, and whose
\* event brings it.
PeerSends ==
  /\ May("answers", MaxAnswers)
  /\ rows' = rows \cup {serverKey}
  /\ wire' = wire \cup {serverKey}
  /\ UNCHANGED <<trust, paged, serverKey, opening, dialog, confirmed, message, batches,
                 encrypted, connected>>

\* The server answers with a user, a conversation or a bundle.
Answer ==
  /\ May("answers", MaxAnswers)
  /\ wire' = wire \cup {serverKey}
  /\ UNCHANGED <<trust, paged, serverKey, rows, opening, dialog, confirmed, message, batches,
                 encrypted, connected>>

Arrive(k) ==
  /\ k \in wire /\ wire' = wire \ {k}
  /\ Trust(Cached(trust, k))
  /\ UNCHANGED <<serverKey, rows, opening, dialog, confirmed, message, batches, encrypted,
                 connected, used>>

\* openConversation: the key of the contact, then those of the rows, the last
\* of them k, ...
Open(k) ==
  /\ opening = 0 /\ k \in rows \cup {serverKey}
  /\ May("answers", MaxAnswers)
  /\ Trust(Cached(trust, k)) /\ opening' = serverKey
  /\ UNCHANGED <<serverKey, wire, rows, dialog, confirmed, message, batches, encrypted, connected>>

\* ... and when all rows are decrypted the key of the contact again.
OpenShown ==
  /\ opening # 0 /\ opening' = 0
  /\ Trust(Cached(trust, opening))
  /\ UNCHANGED <<serverKey, wire, rows, dialog, confirmed, message, batches, encrypted,
                 connected, used>>

\* loadOlderMessages: the key of the contact, then those of the rows.
LoadOlder(k) ==
  /\ k \in rows \cup {serverKey}
  /\ May("answers", MaxAnswers)
  /\ trust' = Cached(Cached(trust, serverKey), k) /\ paged' = TRUE
  /\ UNCHANGED <<serverKey, wire, rows, opening, dialog, confirmed, message, batches,
                 encrypted, connected>>

-----------------------------------------------------------------------------
(* trustObservedPeerKey.                                                   *)

AskTrust ==
  /\ trust.observed # 0 /\ Paused(trust) /\ dialog = 0
  /\ May("trusts", MaxTrusts)
  /\ dialog' = trust.observed
  /\ UNCHANGED <<trust, paged, serverKey, wire, rows, opening, confirmed, message, batches,
                 encrypted, connected>>

CancelTrust ==
  /\ dialog # 0 /\ dialog' = 0
  /\ UNCHANGED <<trust, paged, serverKey, wire, rows, opening, confirmed, message, batches,
                 encrypted, connected, used>>

\* Mutant of Confirm: the key that is observed now is pinned.
ConfirmObserved ==
  /\ dialog # 0 /\ dialog' = 0
  /\ confirmed' = confirmed \cup {dialog}
  /\ Trust([trust EXCEPT !.pin = trust.observed, !.key = trust.observed,
                         !.mismatch = FALSE, !.unverified = FALSE])
  /\ UNCHANGED <<serverKey, wire, rows, opening, message, batches, encrypted, connected, used>>

\* The key the dialog was opened for is pinned, also when another one has been
\* observed meanwhile.
Confirm ==
  /\ dialog # 0 /\ dialog' = 0
  /\ confirmed' = confirmed \cup {dialog}
  /\ Trust([trust EXCEPT !.pin = dialog, !.key = dialog, !.mismatch = FALSE, !.unverified = FALSE])
  /\ UNCHANGED <<serverKey, wire, rows, opening, message, batches, encrypted, connected, used>>

-----------------------------------------------------------------------------
(* Sending.                                                                *)

NotSent == [key |-> 0, paused |-> FALSE, pin |-> 0, how |-> "none", known |-> FALSE]

\* encryptOutboundMessage: the key in use is reported as if it were observed,
\* and a mismatch is only looked for afterwards.  An attachment that is sent does not
\* end the user's message.
Encrypt(how, known) ==
  IF trust.key = 0
  THEN message' = "failed" /\ UNCHANGED <<trust, paged, encrypted>>
  ELSE LET t == Cached(trust, trust.key)
       IN /\ Trust(t)
          /\ IF t.mismatch
             THEN message' = "failed" /\ UNCHANGED encrypted
             ELSE /\ message' = IF how = "file" THEN message ELSE "sent"
                  /\ encrypted' = [key |-> t.key, paused |-> Paused(trust), pin |-> t.pin,
                                   how |-> how, known |-> known]

\* sendMessageWithRetry
Send(how, known) ==
  /\ May("sends", MaxSends)
  /\ IF connected THEN Encrypt(how, known)
     ELSE message' = "queued" /\ UNCHANGED <<trust, paged, encrypted>>
  /\ UNCHANGED <<serverKey, wire, rows, opening, dialog, confirmed, connected>>

\* submitMessage
Submit ==
  /\ message \in {"none", "sent"} /\ ~Paused(trust)
  /\ Send("typed", trust.key # 0)
  /\ UNCHANGED batches

\* sendAttachmentFiles, up to its first await: the trust in the contact whose
\* conversation is open, this one or another, is looked at once for all files.
ChooseFiles(here) ==
  /\ connected /\ (here => ~Paused(trust))
  /\ May("sends", MaxSends)
  /\ batches' = batches \cup {here /\ trust.key # 0}
  /\ UNCHANGED <<trust, paged, serverKey, wire, rows, opening, dialog, confirmed, message,
                 encrypted, connected>>

\* A file has been read and checked: it goes to whoever is the open contact by now, here
\* to this one, whatever has become of the trust.  Other files may follow.
SendFile(known) ==
  /\ known \in batches /\ batches' \in {batches, batches \ {known}}
  /\ Send("file", known)

\* The retry button, and flushPendingOutbox: neither looks at the trust.
Resend ==
  /\ connected /\ message \in {"queued", "failed"}
  /\ Send("again", FALSE)
  /\ UNCHANGED batches

Connection ==
  /\ May("sends", MaxSends) /\ connected' = ~connected
  /\ UNCHANGED <<trust, paged, serverKey, wire, rows, opening, dialog, confirmed, message,
                 batches, encrypted>>

-----------------------------------------------------------------------------

Init ==
  /\ trust = [pin |-> 0, observed |-> 0, key |-> 0, mismatch |-> FALSE, unverified |-> FALSE]
  /\ serverKey = 1 /\ wire = {} /\ rows = {} /\ opening = 0
  /\ dialog = 0 /\ confirmed = {}
  /\ message = "none" /\ batches = {} /\ paged = FALSE /\ encrypted = NotSent /\ connected = TRUE
  /\ used = [kind \in {"answers", "trusts", "sends"} |-> 0]

Next ==
  \/ Rotate \/ PeerSends \/ Answer
  \/ \E k \in Key : Arrive(k) \/ Open(k) \/ LoadOlder(k)
  \/ OpenShown
  \/ AskTrust \/ CancelTrust \/ Confirm
  \/ \E b \in BOOLEAN : ChooseFiles(b) \/ SendFile(b)
  \/ Submit \/ Resend \/ Connection

Spec == Init /\ [][Next]_vars

-----------------------------------------------------------------------------
(* Properties.                                                             *)

\* Every variable keeps its type; a contact with a pin is never unverified, one
\* without never mismatched, and a key in use is the pin if there is one.
TypeOK ==
  /\ {trust.pin, trust.observed, trust.key, opening, dialog} \subseteq {0} \cup Key
  /\ wire \cup rows \cup confirmed \subseteq 1..serverKey
  /\ IF trust.pin = 0 THEN ~trust.mismatch ELSE ~trust.unverified /\ trust.key = trust.pin
  /\ message \in {"none", "queued", "failed", "sent"} /\ batches \subseteq BOOLEAN

\* Only the user pins: whatever arrives while a dialog is open or rows are
\* decrypted, the pin is a key the user was asked about.
PinIsConfirmed == trust.pin # 0 => trust.pin \in confirmed

\* What the user writes and sends at once is encrypted for a confirmed key only,
\* and never while the trust is in doubt.
TypedIsTrusted == encrypted.how = "typed" => encrypted.key \in confirmed /\ ~encrypted.paused

\* An attachment is encrypted for a confirmed key if the key of the contact was known
\* when its batch was chosen in the conversation, whatever arrives, is asked or is
\* confirmed while the files are read.  If it was not, or another conversation was open
\* then, nobody looks at the trust any more.
FilesAreTrusted == encrypted.how = "file" /\ encrypted.known => encrypted.key \in confirmed

\* A message for a contact with a pin is encrypted for the pin, also when it was
\* sent again after a change of the key.
PinIsUsed == encrypted.pin # 0 => encrypted.key = encrypted.pin

\* What the page promises of the keys it encrypts for.
OnlyConfirmedKeys == PinIsConfirmed /\ TypedIsTrusted /\ FilesAreTrusted /\ PinIsUsed

\* Sending begins after the key was confirmed (the README).
TrustedBeforeSending == encrypted.key # 0 => encrypted.key \in confirmed

\* The same of attachments, which look at the trust before their files are read.
FilesAreConfirmed == encrypted.how = "file" => encrypted.key \in confirmed

\* A change of the key pauses sending until it is confirmed (the README).
ChangePauses == encrypted.pin # 0 => ~encrypted.paused

\* Sending is not paused again for a confirmed key because the user scrolls up
\* to messages from before the change.
PausedMeansChanged == paged /\ trust.mismatch => serverKey # trust.pin

-----------------------------------------------------------------------------
(* What makes the above inductive.                                         *)

\* The page knows no key that the contact has not had yet, and has no dialog for
\* one.
KeysExist ==
  /\ serverKey \in Key
  /\ {trust.pin, trust.observed, trust.key, opening, dialog} \subseteq 0..serverKey

\* A contact without a pin whose key is known is unverified, so that nothing is
\* sent at once.
UnpinnedIsUnverified == trust.pin = 0 /\ trust.key # 0 => trust.unverified

\* trust and encrypted are what Cached and Encrypt make them.
Shape ==
  /\ trust \in [pin : Nat, observed : Nat, key : Nat, mismatch : BOOLEAN, unverified : BOOLEAN]
  /\ encrypted \in [key : Nat, paused : BOOLEAN, pin : Nat, known : BOOLEAN,
                    how : {"none", "typed", "file", "again"}]

\* A batch that knew the key of the contact knew a pin, which is never taken away.
KnownIsPinned == TRUE \in batches => trust.pin # 0

IInv ==
  /\ TypeOK
  /\ OnlyConfirmedKeys
  /\ KeysExist
  /\ UnpinnedIsUnverified
  /\ KnownIsPinned
  /\ Shape
=============================================================================
