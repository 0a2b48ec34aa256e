--------------------------- MODULE MCMessageStore ---------------------------
(***************************************************************************)
(* Instances of MessageStore for TLC.                                      *)
(***************************************************************************)
EXTENDS MessageStore, FiniteSetsExt, TLC

CONSTANTS alice, bob, c1, c2, c3, n1, n2, n3, i1, i2, i3

\* A message of an earlier run of the server.
FirstRow ==
  [id |-> i1, clientId |-> c1, sequence |-> 1, from |-> alice, to |-> bob,
   nonce |-> n1, recalledNonce |-> Empty, ciphertext |-> TRUE, text |-> FALSE,
   recalled |-> FALSE, delivered |-> FALSE, read |-> FALSE, deletedFor |-> {},
   replyToId |-> Empty]

BobBlocks == {<<bob, alice>>}
NoBlocks == {}
OneTextRow == <<[FirstRow EXCEPT !.text = TRUE]>>
OneRow == <<FirstRow>>
NoRows == <<>>

\* Bounds of the instance: how many marks (delivered, read, recalled, hidden for
\* a user) the rows in memory carry together, who sends, blocks or connects, and
\* whether messages reply to others.
CONSTANTS MaxMarks, MaySend, MayBlock, MayConnect, MayReply

One(b) == IF b THEN 1 ELSE 0

Marks(m) == One(m.delivered) + One(m.read) + One(m.recalled) + Cardinality(m.deletedFor)

Bounded ==
  /\ MapThenSumSet(LAMBDA k : Marks(messages[k]), DOMAIN messages) <= MaxMarks
  /\ \A m \in Rows(messages) : m.from \in MaySend /\ (m.replyToId # Empty => MayReply)
  /\ blocked \subseteq MayBlock
  /\ online \subseteq MayConnect

Symmetry == Permutations({c2, c3}) \cup Permutations({n2, n3}) \cup Permutations({i2, i3})
=============================================================================
