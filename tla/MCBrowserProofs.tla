--------------------------- MODULE MCBrowserProofs ---------------------------
(***************************************************************************)
(* The promises of the web client that hold for every value of the         *)
(* constants.  Outbox: what is written is shown once, kept until the       *)
(* server has it and never stuck.  Inbox: a conversation holds each        *)
(* message once, and scrolling and opening reach all of them.  Stream: the *)
(* state on the page is that of the event stream.  Trust: only the user    *)
(* pins a key, and what is typed and sent at once is encrypted for a       *)
(* confirmed key that is not in doubt.  Keys: the key bundle of an account *)
(* opens with its password, every device that types the password gets in,  *)
(* and one that is logged in has its identity in its vault.  Naming: a     *)
(* page that was told of every rename goes by the names of the server.     *)
(* Receipts: what is shown as read is read, and what is read is shown.     *)
(* Each is proved of the part alone and carried over to the whole client,  *)
(* whose other parts leave the variables of this one alone.                *)
(***************************************************************************)
EXTENDS MCBrowser, Sequences, FiniteSets, SequenceTheorems, FiniteSetTheorems,
        NaturalsInduction, WellFoundedInduction, TLAPS

-----------------------------------------------------------------------------
(* Counting.                                                               *)

\* The parts and this module count alike.
LEMMA SameCount ==
  ASSUME NEW S
  PROVE  /\ Inbox!Cardinality(S) = Cardinality(S)
         /\ Stream!Cardinality(S) = Cardinality(S)
         /\ Receipts!Cardinality(S) = Cardinality(S)
<1>1. Inbox!Cardinality(S) = Cardinality(S)
  BY DEF Inbox!Cardinality, Cardinality
<1>2. Stream!Cardinality(S) = Cardinality(S)
  BY DEF Stream!Cardinality, Cardinality
<1>3. Receipts!Cardinality(S) = Cardinality(S)
  BY DEF Receipts!Cardinality, Cardinality
<1> QED
  BY <1>1, <1>2, <1>3

-----------------------------------------------------------------------------
(* The outbox.                                                             *)

(* Tables and lists.                                                       *)

\* A set of numbers has a least one.
LEMMA OutboxLeast ==
  ASSUME NEW S \in SUBSET Nat, S # {}
  PROVE  Outbox!Min(S) \in S
<1>1. IsWellFoundedOn({s \in Nat \X Nat : s[1] < s[2]}, Nat)
  BY NatLessThanWellFounded DEF OpToRel
<1>2. PICK x \in S : \A y \in S : ~(<<y, x>> \in {s \in Nat \X Nat : s[1] < s[2]})
  BY <1>1, WFMin
<1>3. \A y \in S : <<y, x>> \in Nat \X Nat /\ ~(y < x)
  BY <1>2
<1>4. ASSUME NEW y \in S PROVE x <= y
  <2>1. x \in Nat /\ y \in Nat
    OBVIOUS
  <2>2. ~(y < x)
    BY <1>3
  <2> QED
    BY <2>1, <2>2
<1> QED
  BY <1>4 DEF Outbox!Min

\* What a table is.
LEMMA OutboxTableIs ==
  ASSUME NEW n \in Nat, NEW t
  PROVE  t \in Outbox!Table(n) <=> DOMAIN t \subseteq 1..n /\ t \in [DOMAIN t -> Outbox!Entry]
  BY DEF Outbox!Table

\* A table grows with the messages.
LEMMA OutboxTableGrows ==
  ASSUME NEW n \in Nat, NEW t \in Outbox!Table(n)
  PROVE  t \in Outbox!Table(n + 1)
<1>1. 1..n \subseteq 1..n + 1
  OBVIOUS
<1> QED
  BY <1>1, OutboxTableIs

\* The table u is t with the entry e for m.
OutboxPuts(t, m, e, u) ==
  /\ DOMAIN u = DOMAIN t \cup {m} /\ u[m] = e
  /\ \A k \in DOMAIN t : k # m => u[k] = t[k]

LEMMA OutboxWithPuts ==
  ASSUME NEW t, NEW m, NEW e
  PROVE  OutboxPuts(t, m, e, Outbox!With(t, m, e))
  BY DEF OutboxPuts, Outbox!With

LEMMA OutboxTablePuts ==
  ASSUME NEW n \in Nat, NEW t \in Outbox!Table(n), NEW m \in 1..n, NEW e \in Outbox!Entry, NEW u,
         u = Outbox!With(t, m, e)
  PROVE  u \in Outbox!Table(n)
<1>1. DOMAIN t \subseteq 1..n /\ t \in [DOMAIN t -> Outbox!Entry]
  BY OutboxTableIs
<1>2. u = [k \in DOMAIN t \cup {m} |-> IF k = m THEN e ELSE t[k]]
  BY DEF Outbox!With
<1>3. u \in [DOMAIN t \cup {m} -> Outbox!Entry] /\ DOMAIN t \cup {m} \subseteq 1..n
  BY <1>1, <1>2
<1>4. DOMAIN u \subseteq 1..n /\ u \in [DOMAIN u -> Outbox!Entry]
  BY <1>3
<1> QED
  BY <1>4, OutboxTableIs

LEMMA OutboxTableWithout ==
  ASSUME NEW n \in Nat, NEW t \in Outbox!Table(n), NEW m
  PROVE  /\ Outbox!Restrict(t, DOMAIN t \ {m}) \in Outbox!Table(n)
         /\ DOMAIN Outbox!Restrict(t, DOMAIN t \ {m}) = DOMAIN t \ {m}
         /\ \A k \in DOMAIN t \ {m} : Outbox!Restrict(t, DOMAIN t \ {m})[k] = t[k]
<1>1. DOMAIN t \subseteq 1..n /\ t \in [DOMAIN t -> Outbox!Entry]
  BY OutboxTableIs
<1>2. Outbox!Restrict(t, DOMAIN t \ {m}) = [k \in DOMAIN t \ {m} |-> t[k]]
  BY DEF Outbox!Restrict
<1>3. Outbox!Restrict(t, DOMAIN t \ {m}) \in [DOMAIN t \ {m} -> Outbox!Entry]
  BY <1>1, <1>2
<1> QED
  BY <1>1, <1>2, <1>3, OutboxTableIs

\* The lists by their parts.
OutboxPartsAgree(pending, outbox, bubbles, n) ==
  /\ pending \in Outbox!Table(n) /\ outbox \in Outbox!Table(n) /\ bubbles \subseteq Outbox!Bubble
  /\ \A m \in DOMAIN pending :
       /\ pending[m].transient <=> m \in Attachment
       /\ m \notin Attachment => m \in DOMAIN outbox
  /\ \A m \in DOMAIN outbox :
       /\ m \notin Attachment /\ m \in DOMAIN pending /\ outbox[m] = pending[m]
       /\ \E b \in bubbles : b.msg = m
  /\ \A b \in bubbles : b.msg <= n
  /\ \A b, c \in bubbles : b.msg = c.msg => b = c

LEMMA OutboxAgreeByParts ==
  ASSUME NEW n, NEW p, NEW o, NEW c
  PROVE  Outbox!ListsAgree([pending |-> p, outbox |-> o, cache |-> c], n)
            <=> OutboxPartsAgree(p, o, c, n)
  BY DEF Outbox!ListsAgree, OutboxPartsAgree, Outbox!Has

LEMMA OutboxAgreeIs ==
  ASSUME NEW n, NEW s
  PROVE  Outbox!ListsAgree(s, n)
           <=> /\ s = [pending |-> s.pending, outbox |-> s.outbox, cache |-> s.cache]
               /\ OutboxPartsAgree(s.pending, s.outbox, s.cache, n)
  BY DEF Outbox!ListsAgree, OutboxPartsAgree, Outbox!Has

\* A bubble or an entry that is marked stays one.
OutboxMarkedBubbleOf(b, set, shown) ==
  IF b.msg \in set THEN [Outbox!WithStatus(b, shown) EXCEPT !.pending = (shown # "failed")] ELSE b
OutboxMarkedEntryOf(e, shown) ==
  [Outbox!WithStatus(e, shown) EXCEPT !.tried = @ \/ shown = "failed"]

LEMMA OutboxMarkedBubbleType ==
  ASSUME NEW b \in Outbox!Bubble, NEW set, NEW st \in Outbox!Status
  PROVE  /\ OutboxMarkedBubbleOf(b, set, st) \in Outbox!Bubble
         /\ OutboxMarkedBubbleOf(b, set, st).msg = b.msg
<1> DEFINE f == (st = "failed")
           w == (st # "failed")
<1>2. f \in BOOLEAN /\ w \in BOOLEAN /\ st \in Outbox!Status \cup {"sent"}
  OBVIOUS
<1>3. /\ b.msg \in Outbox!Msg /\ b.fromServer \in BOOLEAN
      /\ b = [msg |-> b.msg, fromServer |-> b.fromServer, pending |-> b.pending,
              failed |-> b.failed, sendStatus |-> b.sendStatus]
  BY DEF Outbox!Bubble
<1>5. Outbox!WithStatus(b, st) = [b EXCEPT !.failed = f, !.sendStatus = st]
  BY DEF Outbox!WithStatus
<1> HIDE DEF f
<1>6. [Outbox!WithStatus(b, st) EXCEPT !.pending = (st # "failed")]
        = [Outbox!WithStatus(b, st) EXCEPT !.pending = w]
  OBVIOUS
<1> HIDE DEF w
<1>1. [Outbox!WithStatus(b, st) EXCEPT !.pending = (st # "failed")]
        = [msg |-> b.msg, fromServer |-> b.fromServer, pending |-> w, failed |-> f,
           sendStatus |-> st]
  <2>1. Outbox!WithStatus(b, st)
          = [msg |-> b.msg, fromServer |-> b.fromServer, pending |-> b.pending,
                             failed |-> f, sendStatus |-> st]
    BY <1>3, <1>5
  <2> QED
    BY <1>6, <2>1
<1>4. [msg |-> b.msg, fromServer |-> b.fromServer, pending |-> w, failed |-> f,
        sendStatus |-> st] \in Outbox!Bubble
  BY <1>2, <1>3 DEF Outbox!Bubble
<1> QED
  BY <1>1, <1>4 DEF OutboxMarkedBubbleOf

LEMMA OutboxMarkedEntryType ==
  ASSUME NEW e \in Outbox!Entry, NEW st \in Outbox!Status
  PROVE  /\ OutboxMarkedEntryOf(e, st) \in Outbox!Entry
         /\ OutboxMarkedEntryOf(e, st).sendStatus = st
         /\ OutboxMarkedEntryOf(e, st).transient = e.transient
<1> DEFINE t == e.tried \/ st = "failed"
           f == (st = "failed")
<1>2. t \in BOOLEAN /\ f \in BOOLEAN
  BY DEF Outbox!Entry
<1>3. /\ e.transient \in BOOLEAN
      /\ e = [tried |-> e.tried, failed |-> e.failed, sendStatus |-> e.sendStatus,
              transient |-> e.transient]
  BY DEF Outbox!Entry
<1>5. Outbox!WithStatus(e, st) = [e EXCEPT !.failed = f, !.sendStatus = st]
  BY DEF Outbox!WithStatus
<1> HIDE DEF f
<1>6. Outbox!WithStatus(e, st) = [tried |-> e.tried, failed |-> f, sendStatus |-> st,
                           transient |-> e.transient]
  BY <1>3, <1>5
<1>7. OutboxMarkedEntryOf(e, st) = [Outbox!WithStatus(e, st) EXCEPT !.tried = t]
  BY <1>6 DEF OutboxMarkedEntryOf
<1> HIDE DEF t
<1>1. OutboxMarkedEntryOf(e, st)
        = [tried |-> t, failed |-> f, sendStatus |-> st, transient |-> e.transient]
  BY <1>6, <1>7
<1>4. [tried |-> t, failed |-> f, sendStatus |-> st, transient |-> e.transient] \in Outbox!Entry
  BY <1>2, <1>3 DEF Outbox!Entry
<1> QED
  BY <1>1, <1>4

\* Marking changes the state of the texts in the set, and no list.
LEMMA OutboxMarkedAgree ==
  ASSUME NEW n \in Nat, NEW s, Outbox!ListsAgree(s, n), NEW set, NEW st \in Outbox!Status
  PROVE  /\ Outbox!ListsAgree(Outbox!Marked(s, set, st), n)
         /\ DOMAIN Outbox!Marked(s, set, st).outbox = DOMAIN s.outbox
         /\ \A k \in DOMAIN s.outbox :
              Outbox!Marked(s, set, st).outbox[k].sendStatus
                = IF k \in set THEN st ELSE s.outbox[k].sendStatus
<1> DEFINE M ==
             {m \in set : Outbox!Has(s, m) /\ m \in DOMAIN s.pending /\ ~s.pending[m].transient}
           S == {OutboxMarkedBubbleOf(b, set, st) : b \in s.cache}
           O == [m \in DOMAIN s.outbox |->
                   IF m \in set THEN OutboxMarkedEntryOf(s.pending[m], st) ELSE s.outbox[m]]
<1>1. /\ s = [pending |-> s.pending, outbox |-> s.outbox, cache |-> s.cache]
      /\ OutboxPartsAgree(s.pending, s.outbox, s.cache, n)
  BY OutboxAgreeIs
<1>2. M = set \cap DOMAIN s.outbox
  BY <1>1 DEF OutboxPartsAgree, Outbox!Has
<1>3. Outbox!Marked(s, set, st) = IF M = {} THEN [s EXCEPT !.cache = S]
                           ELSE [pending |-> O, outbox |-> O, cache |-> S]
  <2>1. M # {} => DOMAIN s.outbox \cup M = DOMAIN s.outbox
    BY <1>2
  <2>2. [m \in DOMAIN s.outbox |->
           IF m \in M THEN OutboxMarkedEntryOf(s.pending[m], st) ELSE s.outbox[m]]
          = O
    BY <1>2
  <2> QED
    BY <2>1, <2>2, Zenon DEF Outbox!Marked, OutboxMarkedBubbleOf, OutboxMarkedEntryOf
<1>4. /\ S \subseteq Outbox!Bubble /\ \A b \in S : b.msg <= n
      /\ \A b, c \in S : b.msg = c.msg => b = c
      /\ \A b \in s.cache : \E c \in S : c.msg = b.msg
  <2>1. \A b \in s.cache : OutboxMarkedBubbleOf(b, set, st) \in Outbox!Bubble
                           /\ OutboxMarkedBubbleOf(b, set, st).msg = b.msg
    BY <1>1, OutboxMarkedBubbleType DEF OutboxPartsAgree
  <2> QED
    BY <1>1, <2>1 DEF OutboxPartsAgree
<1> HIDE DEF M, S
<1>5. CASE M = {}
  <2>1. Outbox!Marked(s, set, st) = [pending |-> s.pending, outbox |-> s.outbox, cache |-> S]
    BY <1>1, <1>3, <1>5
  <2>2. OutboxPartsAgree(s.pending, s.outbox, S, n)
    BY <1>1, <1>4 DEF OutboxPartsAgree
  <2>3. Outbox!ListsAgree(Outbox!Marked(s, set, st), n)
    BY <2>1, <2>2, OutboxAgreeByParts
  <2>4. \A k \in DOMAIN s.outbox : k \notin set
    BY <1>2, <1>5
  <2> QED
    BY <2>1, <2>3, <2>4
<1>6. CASE M # {}
  <2>1. Outbox!Marked(s, set, st) = [pending |-> O, outbox |-> O, cache |-> S]
    BY <1>3, <1>6
  <2>2. \A k \in DOMAIN s.outbox :
          /\ s.outbox[k] \in Outbox!Entry /\ s.pending[k] \in Outbox!Entry
                                   /\ ~s.pending[k].transient /\ ~s.outbox[k].transient
    <3>1. /\ s.outbox \in [DOMAIN s.outbox -> Outbox!Entry]
          /\ s.pending \in [DOMAIN s.pending -> Outbox!Entry]
      BY <1>1, OutboxTableIs DEF OutboxPartsAgree
    <3> QED
      BY <1>1, <3>1 DEF OutboxPartsAgree, Outbox!Entry
  <2>3. \A k \in DOMAIN s.outbox : O[k] \in Outbox!Entry /\ ~O[k].transient
                /\ O[k].sendStatus = IF k \in set THEN st ELSE s.outbox[k].sendStatus
    <3>1. TAKE k \in DOMAIN s.outbox
    <3>2. O[k] = IF k \in set THEN OutboxMarkedEntryOf(s.pending[k], st) ELSE s.outbox[k]
      OBVIOUS
    <3> QED
      BY <2>2, <3>2, OutboxMarkedEntryType
  <2>4. DOMAIN O = DOMAIN s.outbox /\ O \in [DOMAIN O -> Outbox!Entry]
    BY <2>3
  <2> HIDE DEF O
  <2>5. O \in Outbox!Table(n)
    BY <1>1, <2>4, OutboxTableIs DEF OutboxPartsAgree
  <2>6. OutboxPartsAgree(O, O, S, n)
    BY <1>1, <1>4, <2>3, <2>4, <2>5 DEF OutboxPartsAgree
  <2>7. Outbox!ListsAgree(Outbox!Marked(s, set, st), n)
    BY <2>1, <2>6, OutboxAgreeByParts
  <2> QED
    BY <2>1, <2>3, <2>4, <2>7
<1> QED
  BY <1>5, <1>6

\* A confirmed message leaves the lists.
LEMMA OutboxForgetAgree ==
  ASSUME NEW n \in Nat, NEW s, Outbox!ListsAgree(s, n), NEW m
  PROVE  /\ Outbox!ListsAgree(Outbox!Forget(s, m), n)
         /\ DOMAIN Outbox!Forget(s, m).outbox = DOMAIN s.outbox \ {m}
         /\ m \notin DOMAIN Outbox!Forget(s, m).pending
         /\ \A k \in DOMAIN s.outbox \ {m} : Outbox!Forget(s, m).outbox[k] = s.outbox[k]
<1> DEFINE P == Outbox!Restrict(s.pending, DOMAIN s.pending \ {m})
           O == Outbox!Restrict(s.outbox, DOMAIN s.outbox \ {m})
           C == {b \in s.cache : b.msg # m}
<1>1. /\ s = [pending |-> s.pending, outbox |-> s.outbox, cache |-> s.cache]
      /\ OutboxPartsAgree(s.pending, s.outbox, s.cache, n)
  BY OutboxAgreeIs
<1>0. s.outbox \in Outbox!Table(n) /\ s.pending \in Outbox!Table(n)
  BY <1>1 DEF OutboxPartsAgree
<1>2. /\ O \in Outbox!Table(n) /\ DOMAIN O = DOMAIN s.outbox \ {m}
      /\ \A k \in DOMAIN s.outbox \ {m} : O[k] = s.outbox[k]
  BY <1>0, OutboxTableWithout
<1>3. /\ P \in Outbox!Table(n) /\ DOMAIN P = DOMAIN s.pending \ {m}
      /\ \A k \in DOMAIN s.pending \ {m} : P[k] = s.pending[k]
  BY <1>0, OutboxTableWithout
<1>4. Outbox!Forget(s, m)
        = IF m \in DOMAIN s.outbox THEN [pending |-> O, outbox |-> O, cache |-> C]
                     ELSE [pending |-> P, outbox |-> s.outbox, cache |-> C]
  <2>2. Outbox!Forget(s, m) = Outbox!Removed([s EXCEPT !.pending = P, !.cache = C], m)
    BY DEF Outbox!Forget
  <2> HIDE DEF P, C
  <2>0. s = [pending |-> s.pending, outbox |-> s.outbox, cache |-> s.cache]
    BY <1>1
  <2>1. [s EXCEPT !.pending = P, !.cache = C] = [pending |-> P, outbox |-> s.outbox, cache |-> C]
    <3> DEFINE t == [s EXCEPT !.pending = P, !.cache = C]
    <3>1. t = [i \in {"pending", "outbox", "cache"} |-> t[i]]
      BY <2>0
    <3>2. t.pending = P /\ t.outbox = s.outbox /\ t.cache = C
      BY <2>0
    <3> HIDE DEF t
    <3>3. t = [pending |-> P, outbox |-> s.outbox, cache |-> C]
      BY <3>1, <3>2
    <3> QED
      BY <3>3 DEF t
  <2>3. Outbox!Removed([pending |-> P, outbox |-> s.outbox, cache |-> C], m)
          = IF m \in DOMAIN s.outbox THEN [pending |-> O, outbox |-> O, cache |-> C]
            ELSE [pending |-> P, outbox |-> s.outbox, cache |-> C]
    <3> DEFINE r == [pending |-> P, outbox |-> s.outbox, cache |-> C]
    <3>1. r.outbox = s.outbox
      OBVIOUS
    <3>0. r = [pending |-> P, outbox |-> s.outbox, cache |-> C]
      OBVIOUS
    <3> HIDE DEF r
    <3>2. [r EXCEPT !.outbox = O, !.pending = O] = [pending |-> O, outbox |-> O, cache |-> C]
      <4> DEFINE t == [r EXCEPT !.outbox = O, !.pending = O]
      <4>1. t = [i \in {"pending", "outbox", "cache"} |-> t[i]]
        BY <3>0
      <4>2. t.pending = O /\ t.outbox = O /\ t.cache = C
        BY <3>0
      <4> HIDE DEF t
      <4>3. t = [pending |-> O, outbox |-> O, cache |-> C]
        BY <4>1, <4>2
      <4> QED
        BY <4>3 DEF t
    <3>3. Outbox!Removed(r, m)
            = IF m \in DOMAIN r.outbox THEN [r EXCEPT !.outbox = O, !.pending = O] ELSE r
      BY <3>1 DEF Outbox!Removed
    <3> QED
      BY <3>1, <3>2, <3>3 DEF r
  <2> QED
    BY <2>1, <2>2, <2>3
<1> HIDE DEF P, O
<1>5. CASE m \in DOMAIN s.outbox
  <2>1. Outbox!Forget(s, m) = [pending |-> O, outbox |-> O, cache |-> C]
    BY <1>4, <1>5
  <2>2. OutboxPartsAgree(O, O, C, n)
    BY <1>1, <1>2 DEF OutboxPartsAgree
  <2>3. Outbox!ListsAgree(Outbox!Forget(s, m), n)
    BY <2>1, <2>2, OutboxAgreeByParts
  <2> QED
    BY <1>2, <2>1, <2>3
<1>6. CASE m \notin DOMAIN s.outbox
  <2>1. Outbox!Forget(s, m) = [pending |-> P, outbox |-> s.outbox, cache |-> C]
    BY <1>4, <1>6
  <2>2. OutboxPartsAgree(P, s.outbox, C, n)
    BY <1>1, <1>3, <1>6 DEF OutboxPartsAgree
  <2>3. Outbox!ListsAgree(Outbox!Forget(s, m), n)
    BY <2>1, <2>2, OutboxAgreeByParts
  <2> QED
    BY <1>3, <1>6, <2>1, <2>3
<1> QED
  BY <1>5, <1>6

LEMMA OutboxServerBubbleType ==
  ASSUME NEW m \in Outbox!Msg
  PROVE  Outbox!ServerBubble(m) \in Outbox!Bubble /\ Outbox!ServerBubble(m).msg = m
  BY DEF Outbox!ServerBubble, Outbox!Bubble

\* An ingested message leaves the outbox and is shown once.
LEMMA OutboxIngestedAgree ==
  ASSUME NEW n \in Nat, NEW s, Outbox!ListsAgree(s, n), NEW m \in Outbox!Msg, m <= n
  PROVE  /\ Outbox!ListsAgree(Outbox!Ingested(s, m), n)
         /\ DOMAIN Outbox!Ingested(s, m).outbox = DOMAIN s.outbox \ {m}
         /\ \A k \in DOMAIN s.outbox \ {m} : Outbox!Ingested(s, m).outbox[k] = s.outbox[k]
<1> DEFINE t == IF m \in DOMAIN s.pending THEN Outbox!Forget(s, m) ELSE s
           C == {b \in t.cache : b.msg # m} \cup {Outbox!ServerBubble(m)}
<1>1. m \notin DOMAIN s.pending => m \notin DOMAIN s.outbox
  BY OutboxAgreeIs DEF OutboxPartsAgree
<1>2. /\ Outbox!ListsAgree(t, n) /\ DOMAIN t.outbox = DOMAIN s.outbox \ {m}
      /\ \A k \in DOMAIN s.outbox \ {m} : t.outbox[k] = s.outbox[k]
  BY <1>1, OutboxForgetAgree
<1>3. Outbox!Ingested(s, m) = [t EXCEPT !.cache = C]
  BY DEF Outbox!Ingested
<1> HIDE DEF t
<1>4. /\ t = [pending |-> t.pending, outbox |-> t.outbox, cache |-> t.cache]
      /\ OutboxPartsAgree(t.pending, t.outbox, t.cache, n)
  BY <1>2, OutboxAgreeIs
<1>5. Outbox!Ingested(s, m) = [pending |-> t.pending, outbox |-> t.outbox, cache |-> C]
  BY <1>3, <1>4
<1>6. OutboxPartsAgree(t.pending, t.outbox, C, n)
  BY <1>2, <1>4, OutboxServerBubbleType DEF OutboxPartsAgree
<1> HIDE DEF C
<1>7. Outbox!ListsAgree([pending |-> t.pending, outbox |-> t.outbox, cache |-> C], n)
  BY <1>6, OutboxAgreeByParts
<1>8. Outbox!ListsAgree(Outbox!Ingested(s, m), n)
  BY <1>5, <1>7
<1> QED
  BY <1>2, <1>5, <1>8

\* A new message is in the lists, a text also in the outbox.
LEMMA OutboxAddedAgree ==
  ASSUME NEW n \in Nat, NEW s, Outbox!ListsAgree(s, n), n + 1 \in Outbox!Msg,
         NEW online \in BOOLEAN
  PROVE  /\ Outbox!ListsAgree(Outbox!Added(s, n + 1, online), n + 1)
         /\ DOMAIN Outbox!Added(s, n + 1, online).outbox
              = DOMAIN s.outbox \cup (IF n + 1 \in Attachment THEN {} ELSE {n + 1})
         /\ \A k \in DOMAIN s.outbox :
              k # n + 1 /\ Outbox!Added(s, n + 1, online).outbox[k] = s.outbox[k]
<1> DEFINE m == n + 1
           file == m \in Attachment
           st == IF online THEN "sending" ELSE "queued"
           e == [tried |-> FALSE, failed |-> FALSE, transient |-> file, sendStatus |-> st]
           b == [msg |-> m, fromServer |-> FALSE, pending |-> TRUE, failed |-> FALSE,
                 sendStatus |-> st]
           P == Outbox!With(s.pending, m, e)
           O == Outbox!With(s.outbox, m, e)
           C == s.cache \cup {b}
<1>1. /\ s = [pending |-> s.pending, outbox |-> s.outbox, cache |-> s.cache]
      /\ OutboxPartsAgree(s.pending, s.outbox, s.cache, n)
  BY OutboxAgreeIs
<1>2. st \in Outbox!Status /\ st \in Outbox!Status \cup {"sent"}
  BY DEF Outbox!Status
<1>3. e \in Outbox!Entry /\ (e.transient <=> file)
  <2>1. file \in BOOLEAN
    OBVIOUS
  <2> QED
    BY <1>2, <2>1 DEF Outbox!Entry
<1>4. b \in Outbox!Bubble /\ b.msg = m
  BY <1>2 DEF Outbox!Bubble
<1>5. [s EXCEPT !.pending = P, !.cache = C] = [pending |-> P, outbox |-> s.outbox, cache |-> C]
  <2> HIDE DEF P, C
  <2> DEFINE t == [s EXCEPT !.pending = P, !.cache = C]
  <2>1. t = [i \in {"pending", "outbox", "cache"} |-> t[i]]
    BY <1>1
  <2>2. t.pending = P /\ t.outbox = s.outbox /\ t.cache = C
    BY <1>1
  <2> HIDE DEF t
  <2>3. t = [pending |-> P, outbox |-> s.outbox, cache |-> C]
    BY <2>1, <2>2
  <2> QED
    BY <2>3 DEF t
<1>6. Outbox!Upserted([pending |-> P, outbox |-> s.outbox, cache |-> C], m, e)
        = [pending |-> O, outbox |-> O, cache |-> C]
  <2> DEFINE r == [pending |-> P, outbox |-> s.outbox, cache |-> C]
             t == [r EXCEPT !.outbox = O, !.pending = O]
  <2> HIDE DEF P, C, e
  <2>1. r.outbox = s.outbox
    OBVIOUS
  <2>2. Outbox!Upserted(r, m, e) = t
    BY <2>1 DEF Outbox!Upserted
  <2> HIDE DEF O
  <2>3. t = [i \in {"pending", "outbox", "cache"} |-> t[i]]
    OBVIOUS
  <2>4. t.pending = O /\ t.outbox = O /\ t.cache = C
    OBVIOUS
  <2> HIDE DEF t
  <2>5. t = [pending |-> O, outbox |-> O, cache |-> C]
    BY <2>3, <2>4
  <2> QED
    BY <2>2, <2>5
<1>7. Outbox!Added(s, m, online) = IF file THEN [pending |-> P, outbox |-> s.outbox, cache |-> C]
                            ELSE [pending |-> O, outbox |-> O, cache |-> C]
  BY <1>5, <1>6 DEF Outbox!Added
<1>8. m \in 1..n + 1 /\ n + 1 \in Nat /\ 1..n \subseteq 1..n + 1 /\ m \notin 1..n
  OBVIOUS
<1>9. s.pending \in Outbox!Table(n + 1) /\ s.outbox \in Outbox!Table(n + 1)
  BY <1>1, OutboxTableGrows DEF OutboxPartsAgree
<1>10. DOMAIN s.pending \subseteq 1..n /\ DOMAIN s.outbox \subseteq 1..n
  BY <1>1, OutboxTableIs DEF OutboxPartsAgree
<1>11. /\ C \subseteq Outbox!Bubble /\ \A x \in C : x.msg <= n + 1
       /\ \A x, y \in C : x.msg = y.msg => x = y
       /\ \E x \in C : x.msg = m
       /\ \A x \in s.cache : x \in C
  <2>1. \A x \in s.cache : x.msg \in Nat /\ x.msg <= n
    BY <1>1 DEF OutboxPartsAgree, Outbox!Bubble, Outbox!Msg
  <2> HIDE DEF b
  <2>2. \A x \in C : x.msg <= n + 1
    BY <1>4, <2>1
  <2>3. \A x \in s.cache : x.msg # m
    BY <2>1
  <2> QED
    BY <1>1, <1>4, <2>2, <2>3 DEF OutboxPartsAgree
<1> HIDE DEF e, b, C, P, O, file
<1>12. /\ P \in Outbox!Table(n + 1) /\ DOMAIN P = DOMAIN s.pending \cup {m} /\ P[m] = e
       /\ \A k \in DOMAIN s.pending : k # m /\ P[k] = s.pending[k]
  <2>1. P = Outbox!With(s.pending, m, e)
    BY DEF P
  <2>2. P \in Outbox!Table(n + 1)
    BY <1>3, <1>8, <1>9, <2>1, OutboxTablePuts
  <2> HIDE DEF m
  <2>3. OutboxPuts(s.pending, m, e, P)
    BY <2>1, OutboxWithPuts
  <2>4. \A k \in DOMAIN s.pending : k # m
    BY <1>8, <1>10
  <2> QED
    BY <2>2, <2>3, <2>4 DEF OutboxPuts
<1>13. /\ O \in Outbox!Table(n + 1) /\ DOMAIN O = DOMAIN s.outbox \cup {m} /\ O[m] = e
       /\ \A k \in DOMAIN s.outbox : k # m /\ O[k] = s.outbox[k]
  <2>1. O = Outbox!With(s.outbox, m, e)
    BY DEF O
  <2>2. O \in Outbox!Table(n + 1)
    BY <1>3, <1>8, <1>9, <2>1, OutboxTablePuts
  <2> HIDE DEF m
  <2>3. OutboxPuts(s.outbox, m, e, O)
    BY <2>1, OutboxWithPuts
  <2>4. \A k \in DOMAIN s.outbox : k # m
    BY <1>8, <1>10
  <2> QED
    BY <2>2, <2>3, <2>4 DEF OutboxPuts
<1>14. CASE file
  <2>1. OutboxPartsAgree(P, s.outbox, C, n + 1)
    BY <1>1, <1>3, <1>9, <1>11, <1>12, <1>14 DEF OutboxPartsAgree, file
  <2>2. Outbox!Added(s, m, online) = [pending |-> P, outbox |-> s.outbox, cache |-> C]
    BY <1>7, <1>14
  <2>3. Outbox!ListsAgree(Outbox!Added(s, m, online), n + 1)
    BY <2>1, <2>2, OutboxAgreeByParts
  <2> QED
    BY <1>13, <1>14, <2>2, <2>3 DEF file
<1>15. CASE ~file
  <2>1. \A k \in DOMAIN O : O[k].transient <=> k \in Attachment
    BY <1>1, <1>3, <1>13, <1>15 DEF OutboxPartsAgree, file
  <2>2. \A k \in DOMAIN O : k \notin Attachment
    BY <1>1, <1>13, <1>15 DEF OutboxPartsAgree, file
  <2>3. \A k \in DOMAIN O : \E x \in C : x.msg = k
    BY <1>1, <1>11, <1>13 DEF OutboxPartsAgree
  <2>4. OutboxPartsAgree(O, O, C, n + 1)
    BY <1>11, <1>13, <2>1, <2>2, <2>3 DEF OutboxPartsAgree
  <2>5. Outbox!Added(s, m, online) = [pending |-> O, outbox |-> O, cache |-> C]
    BY <1>7, <1>15
  <2>6. Outbox!ListsAgree(Outbox!Added(s, m, online), n + 1)
    BY <2>4, <2>5, OutboxAgreeByParts
  <2> QED
    BY <1>13, <1>15, <2>5, <2>6 DEF file
<1> QED
  BY <1>14, <1>15

\* A reload shows the rows and what the outbox holds beside them.
LEMMA OutboxMergedAgree ==
  ASSUME NEW n \in Nat, NEW s, Outbox!ListsAgree(s, n), 1..n \subseteq Outbox!Msg,
         NEW brought \in SUBSET (1..n)
  PROVE  LET t == Outbox!Merged([s EXCEPT !.cache = {Outbox!ServerBubble(m) : m \in brought}])
         IN Outbox!ListsAgree(t, n) /\ t.outbox = s.outbox
<1> DEFINE R == {Outbox!ServerBubble(m) : m \in brought}
           Temp(m) == [msg |-> m, fromServer |-> FALSE, pending |-> ~s.outbox[m].failed,
                       failed |-> s.outbox[m].failed, sendStatus |-> s.outbox[m].sendStatus]
           r == [pending |-> s.pending, outbox |-> s.outbox, cache |-> R]
           C == R \cup {Temp(m) : m \in {k \in DOMAIN s.outbox : ~Outbox!Has(r, k)}}
<1>1. /\ s = [pending |-> s.pending, outbox |-> s.outbox, cache |-> s.cache]
      /\ OutboxPartsAgree(s.pending, s.outbox, s.cache, n)
  BY OutboxAgreeIs
<1>2. [s EXCEPT !.cache = R] = r
  BY <1>1
<1>3. Outbox!Merged(r) = [pending |-> s.pending, outbox |-> s.outbox, cache |-> C]
  <2>1. r.pending = s.pending /\ r.outbox = s.outbox /\ r.cache = R
    OBVIOUS
  <2>2. r = [i \in {"pending", "outbox", "cache"} |-> r[i]]
    OBVIOUS
  <2> HIDE DEF r
  <2> DEFINE t == [r EXCEPT !.cache = C]
  <2>3. Outbox!Merged(r) = t
    BY <2>1 DEF Outbox!Merged
  <2> HIDE DEF C, R
  <2>4. t = [i \in {"pending", "outbox", "cache"} |-> t[i]]
    BY <2>2
  <2>5. t.pending = s.pending /\ t.outbox = s.outbox /\ t.cache = C
    BY <2>1, <2>2
  <2> HIDE DEF t
  <2> QED
    BY <2>3, <2>4, <2>5
<1>4. \A b \in R : b \in Outbox!Bubble /\ b.msg \in brought /\ b = Outbox!ServerBubble(b.msg)
  BY OutboxServerBubbleType
<1>5. \A m \in brought : \E b \in R : b.msg = m
  BY OutboxServerBubbleType
<1>6. ASSUME NEW m \in DOMAIN s.outbox
      PROVE  Temp(m) \in Outbox!Bubble /\ Temp(m).msg = m /\ m <= n
  <2>1. s.outbox[m] \in Outbox!Entry /\ m \in 1..n
    BY <1>1, OutboxTableIs DEF OutboxPartsAgree
  <2>2. s.outbox[m].failed \in BOOLEAN /\ s.outbox[m].sendStatus \in Outbox!Status
    BY <2>1 DEF Outbox!Entry
  <2>3. (~s.outbox[m].failed) \in BOOLEAN
    OBVIOUS
  <2> QED
    BY <2>1, <2>2, <2>3 DEF Outbox!Bubble
<1>7. \A k : Outbox!Has(r, k) <=> k \in brought
  BY <1>4, <1>5 DEF Outbox!Has
<1> HIDE DEF R, Temp
<1>8. \A b \in C :
        b \in R \/ (b.msg \in DOMAIN s.outbox /\ b.msg \notin brought /\ b = Temp(b.msg)
                                /\ b \in Outbox!Bubble)
  BY <1>6, <1>7
<1>9. \A m \in DOMAIN s.outbox : \E b \in C : b.msg = m
  <2>1. TAKE m \in DOMAIN s.outbox
  <2>2. CASE m \in brought
    BY <1>5, <2>2
  <2>3. CASE m \notin brought
    BY <1>6, <1>7, <2>3
  <2> QED
    BY <2>2, <2>3
<1>10. /\ C \subseteq Outbox!Bubble /\ \A b \in C : b.msg <= n
       /\ \A b, c \in C : b.msg = c.msg => b = c
  <2>1. \A b \in C : b.msg <= n
    BY <1>4, <1>6, <1>8
  <2> QED
    BY <1>4, <1>8, <2>1
<1> HIDE DEF C
<1>11. OutboxPartsAgree(s.pending, s.outbox, C, n)
  BY <1>1, <1>9, <1>10 DEF OutboxPartsAgree
<1> QED
  BY <1>2, <1>3, <1>11, OutboxAgreeByParts DEF R

-----------------------------------------------------------------------------
(* The parts of the invariant.                                             *)

OutboxCallState == {"idle", "encrypting", "sent", "answered", "ingesting"}
OutboxRuns(s, c) == \A k \in DOMAIN s.outbox : s.outbox[k].sendStatus = "sending" => c[k] # "idle"
OutboxHasTexts(s, n, st) == \A m \in 1..n : m \notin Attachment \cup st => m \in DOMAIN s.outbox

OutboxListsInv ==
  /\ created \in 0..OutboxMessages /\ Outbox!ListsAgree(ui, created)
  /\ OutboxHasTexts(ui, created, outboxStored) /\ OutboxRuns(ui, call)
OutboxCallsInv ==
  /\ call \in [Outbox!Msg -> OutboxCallState]
  /\ \A m \in Outbox!Msg : call[m] # "idle" => m \in 1..created
  /\ \A m \in Outbox!Msg : call[m] \in {"answered", "ingesting"} => m \in outboxStored
OutboxFlushInv ==
  /\ flush \in [waiting : 0..OutboxMessages, rest : SUBSET Outbox!Msg]
  /\ flush.rest \subseteq 1..created
  /\ flush.waiting # 0 => call[flush.waiting] # "idle"
OutboxSubmitInv ==
  submitting \in 0..OutboxMessages /\ (submitting # 0 => call[submitting] # "idle")
OutboxRestInv ==
  /\ outboxConnected \in BOOLEAN /\ preparing \in BOOLEAN
  /\ outboxStored \subseteq 1..created /\ echo \cup outboxDecrypting \subseteq outboxStored
  /\ promised \subseteq 1..created
  /\ preparing => created + 1 \in Attachment
  /\ load \in [step : {"none", "asked", "decrypting"}, rows : SUBSET Outbox!Msg]
  /\ load.rows \subseteq outboxStored
OutboxGood ==
  OutboxListsInv /\ OutboxCallsInv /\ OutboxFlushInv /\ OutboxSubmitInv /\ OutboxRestInv

LEMMA OutboxSplit == Outbox!OutboxAssumption => (Outbox!IInv <=> OutboxGood)
<1> SUFFICES ASSUME Outbox!OutboxAssumption
             PROVE  Outbox!IInv <=> OutboxGood
  OBVIOUS
<1>1. OutboxMessages \in Nat /\ Outbox!Msg = 1..OutboxMessages
  BY DEF Outbox!OutboxAssumption, Outbox!Msg
<1>2. ASSUME Outbox!IInv PROVE OutboxGood
  <2>1. created \in 0..OutboxMessages /\ submitting \in 0..OutboxMessages
    BY <1>2 DEF Outbox!IInv, Outbox!TypeOK
  <2>2. OutboxListsInv
    BY <1>2, <2>1 DEF Outbox!IInv, Outbox!NothingLost, Outbox!SendingIsInFlight,
                      Outbox!outboundInFlight, OutboxListsInv, OutboxHasTexts, OutboxRuns
  <2>3. OutboxCallsInv
    BY <1>1, <1>2, <2>1 DEF Outbox!IInv, Outbox!TypeOK, Outbox!CallsAreReal, OutboxCallsInv,
                            OutboxCallState
  <2>4. OutboxFlushInv /\ OutboxSubmitInv
    BY <1>2, <2>1 DEF Outbox!IInv, Outbox!TypeOK, Outbox!CallsAreReal, OutboxFlushInv,
                      OutboxSubmitInv
  <2>5. OutboxRestInv
    BY <1>2 DEF Outbox!IInv, Outbox!TypeOK, Outbox!CallsAreReal, OutboxRestInv
  <2> QED
    BY <2>2, <2>3, <2>4, <2>5 DEF OutboxGood
<1>3. ASSUME OutboxGood PROVE Outbox!IInv
  <2>1. /\ created \in 0..OutboxMessages /\ submitting \in 0..OutboxMessages
        /\ flush.waiting \in 0..OutboxMessages
    BY <1>3 DEF OutboxGood, OutboxListsInv, OutboxSubmitInv, OutboxFlushInv
  <2>2. OutboxPartsAgree(ui.pending, ui.outbox, ui.cache, created)
    BY <1>3, OutboxAgreeIs DEF OutboxGood, OutboxListsInv
  <2>3. created \in Nat /\ 1..created \subseteq Outbox!Msg
    BY <1>1, <2>1
  <2>4. /\ DOMAIN ui.pending \subseteq Outbox!Msg /\ \A m \in DOMAIN ui.pending :
             ui.pending[m] \in Outbox!Entry
        /\ DOMAIN ui.outbox \subseteq Outbox!Msg /\ \A m \in DOMAIN ui.outbox :
             ui.outbox[m] \in Outbox!Entry
        /\ ui.cache \subseteq Outbox!Bubble
    BY <2>2, <2>3, OutboxTableIs DEF OutboxPartsAgree
  <2>5. Outbox!TypeOK
    <3>1. outboxConnected \in BOOLEAN /\ preparing \in BOOLEAN
      BY <1>3 DEF OutboxGood, OutboxRestInv
    <3>2. call \in [Outbox!Msg -> {"idle", "encrypting", "sent", "answered", "ingesting"}]
      BY <1>3 DEF OutboxGood, OutboxCallsInv, OutboxCallState
    <3>3. outboxDecrypting \cup echo \cup flush.rest \cup load.rows \cup promised
            \subseteq outboxStored \cup Outbox!Msg
      BY <1>3, <2>3 DEF OutboxGood, OutboxRestInv, OutboxFlushInv
    <3>4. (flush.waiting # 0 => call[flush.waiting] # "idle") /\ (submitting # 0 =>
             call[submitting] # "idle")
      BY <1>3 DEF OutboxGood, OutboxFlushInv, OutboxSubmitInv
    <3> QED
      BY <2>1, <2>4, <3>1, <3>2, <3>3, <3>4 DEF Outbox!TypeOK
  <2>6. Outbox!CallsAreReal
    <3>1. \A m \in Outbox!Msg : call[m] # "idle" => m <= created
      <4>1. \A m \in 1..created : m <= created
        OBVIOUS
      <4> QED
        BY <1>3, <4>1 DEF OutboxGood, OutboxCallsInv
    <3>2. /\ \A m \in Outbox!Msg : call[m] \in {"answered", "ingesting"} => m \in outboxStored
          /\ flush \in [waiting : 0..OutboxMessages, rest : SUBSET Outbox!Msg]
          /\ flush.rest \subseteq 1..created
      BY <1>3 DEF OutboxGood, OutboxCallsInv, OutboxFlushInv
    <3> QED
      BY <1>3, <3>1, <3>2 DEF OutboxGood, OutboxRestInv, Outbox!CallsAreReal
  <2>7. Outbox!NothingLost
    BY <1>3, <2>2 DEF OutboxGood, OutboxListsInv, OutboxHasTexts, Outbox!NothingLost,
                      OutboxPartsAgree, Outbox!Has
  <2>8. Outbox!SendingIsInFlight
    BY <1>3, <2>4 DEF OutboxGood, OutboxListsInv, OutboxRuns, Outbox!SendingIsInFlight,
                      Outbox!outboundInFlight
  <2> QED
    BY <1>3, <2>5, <2>6, <2>7, <2>8 DEF Outbox!IInv, OutboxGood, OutboxListsInv
<1> QED
  BY <1>2, <1>3

LEMMA OutboxInvImplies == Outbox!OutboxAssumption /\ Outbox!IInv =>
                            /\ Outbox!TypeOK /\ Outbox!ShownOnce /\ Outbox!NothingLost
                            /\ Outbox!SendingIsInFlight
  BY OutboxAgreeIs DEF Outbox!IInv, OutboxPartsAgree, Outbox!ShownOnce

\* Marking a set of messages: the texts stay, and only the marked ones change.
LEMMA OutboxMarkedRuns ==
  ASSUME NEW n \in Nat, NEW s, Outbox!ListsAgree(s, n), NEW set, NEW st \in Outbox!Status, NEW c,
         NEW stor,
         \A k \in DOMAIN s.outbox \ set : s.outbox[k].sendStatus = "sending" => c[k] # "idle",
         \A k \in DOMAIN s.outbox \cap set : st = "sending" => c[k] # "idle",
         OutboxHasTexts(s, n, stor)
  PROVE  /\ Outbox!ListsAgree(Outbox!Marked(s, set, st), n)
         /\ OutboxRuns(Outbox!Marked(s, set, st), c)
         /\ OutboxHasTexts(Outbox!Marked(s, set, st), n, stor)
<1>1. /\ Outbox!ListsAgree(Outbox!Marked(s, set, st), n)
      /\ DOMAIN Outbox!Marked(s, set, st).outbox = DOMAIN s.outbox
      /\ \A k \in DOMAIN s.outbox :
           Outbox!Marked(s, set, st).outbox[k].sendStatus
             = IF k \in set THEN st ELSE s.outbox[k].sendStatus
  BY OutboxMarkedAgree
<1> QED
  BY <1>1 DEF OutboxRuns, OutboxHasTexts

\* What a flush leaves that goes on from the calls c: lists u, calls d, itself f.
OutboxAdvances(u, d, f, n, stor, c) ==
  /\ Outbox!ListsAgree(u, n) /\ OutboxHasTexts(u, n, stor) /\ OutboxRuns(u, d)
  /\ d \in [Outbox!Msg -> OutboxCallState]
  /\ \A k \in Outbox!Msg : d[k] = c[k] \/ (d[k] = "encrypting" /\ k \in 1..n)
  /\ f \in [waiting : 0..OutboxMessages, rest : SUBSET Outbox!Msg] /\ f.rest \subseteq 1..n
  /\ f.waiting # 0 => d[f.waiting] # "idle"

\* The flush goes on to a message that waits, or ends.
LEMMA OutboxAdvanceAgree ==
  ASSUME Outbox!OutboxAssumption, NEW n \in 0..OutboxMessages, NEW s, Outbox!ListsAgree(s, n),
         NEW stor, OutboxHasTexts(s, n, stor),
         NEW c \in [Outbox!Msg -> OutboxCallState], OutboxRuns(s, c), NEW rest \in SUBSET (1..n),
         NEW online,
         NEW a, a = Outbox!Advance(s, c, online, rest)
  PROVE  OutboxAdvances(a.ui, a.call, a.flush, n, stor, c)
<1> DEFINE due == {m \in rest : m \in DOMAIN s.pending /\ c[m] = "idle"}
           m == Outbox!Min(due)
<1>1. /\ OutboxMessages \in Nat /\ Outbox!Msg = 1..OutboxMessages /\ n \in Nat
      /\ 1..n \subseteq Outbox!Msg
  BY DEF Outbox!OutboxAssumption, Outbox!Msg
<1>2. due \subseteq rest /\ due \in SUBSET Nat /\ rest \subseteq Outbox!Msg
  <2>1. rest \subseteq Outbox!Msg /\ Outbox!Msg \subseteq Nat
    BY <1>1
  <2> QED
    BY <2>1
<1>3. CASE online /\ due # {}
  <2>1. a = [ui |-> Outbox!Marked(s, {m}, "sending"), call |-> [c EXCEPT ![m] = "encrypting"],
             flush |-> [waiting |-> m, rest |-> {k \in rest : k > m}]]
    BY <1>3 DEF Outbox!Advance
  <2>2. m \in due
    BY <1>2, <1>3, OutboxLeast
  <2> HIDE DEF due, m
  <2>3. m \in 1..n /\ m \in Outbox!Msg /\ m \in 0..OutboxMessages
    BY <1>1, <1>2, <2>2
  <2> DEFINE d == [c EXCEPT ![m] = "encrypting"]
  <2>4. /\ d \in [Outbox!Msg -> OutboxCallState] /\ d[m] = "encrypting"
        /\ \A k \in Outbox!Msg : k # m => d[k] = c[k]
    BY <2>3 DEF OutboxCallState
  <2>5. DOMAIN s.outbox \subseteq Outbox!Msg
    BY <1>1, OutboxAgreeIs, OutboxTableIs DEF OutboxPartsAgree
  <2> HIDE DEF d
  <2>6. \A k \in DOMAIN s.outbox \ {m} : s.outbox[k].sendStatus = "sending" => d[k] # "idle"
    BY <2>4, <2>5 DEF OutboxRuns
  <2>7. \A k \in DOMAIN s.outbox \cap {m} : "sending" = "sending" => d[k] # "idle"
    BY <2>4
  <2>8. /\ Outbox!ListsAgree(Outbox!Marked(s, {m}, "sending"), n)
        /\ OutboxRuns(Outbox!Marked(s, {m}, "sending"), d)
        /\ OutboxHasTexts(Outbox!Marked(s, {m}, "sending"), n, stor)
    <3>1. "sending" \in Outbox!Status
      BY DEF Outbox!Status
    <3> QED
      BY <1>1, <2>6, <2>7, <3>1, OutboxMarkedRuns
  <2> DEFINE r == {k \in rest : k > m}
  <2>9. r \subseteq 1..n /\ r \in SUBSET Outbox!Msg
    BY <1>2
  <2> HIDE DEF r
  <2>10. [waiting |-> m, rest |-> r] \in [waiting : 0..OutboxMessages, rest : SUBSET Outbox!Msg]
    BY <2>3, <2>9
  <2>11. a = [ui |-> Outbox!Marked(s, {m}, "sending"), call |-> d,
              flush |-> [waiting |-> m, rest |-> r]]
    BY <2>1 DEF d, r
  <2>12. /\ a.ui = Outbox!Marked(s, {m}, "sending") /\ a.call = d
         /\ a.flush = [waiting |-> m, rest |-> r]
    BY <2>11
  <2> DEFINE f == [waiting |-> m, rest |-> r]
  <2>13. /\ f \in [waiting : 0..OutboxMessages, rest : SUBSET Outbox!Msg] /\ f.rest \subseteq 1..n
         /\ f.waiting = m
    BY <2>9, <2>10
  <2> HIDE DEF f
  <2>14. \A k \in Outbox!Msg : d[k] = c[k] \/ (d[k] = "encrypting" /\ k \in 1..n)
    BY <2>3, <2>4
  <2>15. OutboxAdvances(Outbox!Marked(s, {m}, "sending"), d, f, n, stor, c)
    BY <2>4, <2>8, <2>13, <2>14 DEF OutboxAdvances
  <2> QED
    BY <2>12, <2>15 DEF f
<1>4. CASE ~(online /\ due # {})
  <2> DEFINE u == IF online THEN s ELSE Outbox!Marked(s, due, "queued")
  <2>1. a = [ui |-> u, call |-> c, flush |-> Outbox!NoFlush]
    BY <1>4 DEF Outbox!Advance
  <2> HIDE DEF due
  <2>2. Outbox!ListsAgree(u, n) /\ OutboxRuns(u, c) /\ OutboxHasTexts(u, n, stor)
    <3>1. "queued" \in Outbox!Status /\ "queued" # "sending"
      BY DEF Outbox!Status
    <3>2. \A k \in DOMAIN s.outbox \ due : s.outbox[k].sendStatus = "sending" => c[k] # "idle"
      BY DEF OutboxRuns
    <3>3. \A k \in DOMAIN s.outbox \cap due : "queued" = "sending" => c[k] # "idle"
      BY <3>1
    <3>4. /\ Outbox!ListsAgree(Outbox!Marked(s, due, "queued"), n)
          /\ OutboxRuns(Outbox!Marked(s, due, "queued"), c)
          /\ OutboxHasTexts(Outbox!Marked(s, due, "queued"), n, stor)
      BY <1>1, <3>1, <3>2, <3>3, OutboxMarkedRuns
    <3> QED
      BY <3>4
  <2>3. /\ Outbox!NoFlush \in [waiting : 0..OutboxMessages, rest : SUBSET Outbox!Msg]
        /\ Outbox!NoFlush.rest = {} /\ Outbox!NoFlush.waiting = 0
    BY <1>1 DEF Outbox!NoFlush
  <2> HIDE DEF u
  <2>4. a.ui = u /\ a.call = c /\ a.flush = Outbox!NoFlush
    BY <2>1
  <2>5. OutboxAdvances(u, c, Outbox!NoFlush, n, stor, c)
    BY <2>2, <2>3 DEF OutboxAdvances
  <2> QED
    BY <2>4, <2>5
<1> QED
  BY <1>3, <1>4

-----------------------------------------------------------------------------
(* The steps.                                                              *)

\* Steps that leave the lists and the calls alone.
LEMMA OutboxQuietInv ==
  ASSUME OutboxGood, UNCHANGED <<ui, call, flush, submitting, created>>,
                                 outboxStored \subseteq outboxStored', OutboxRestInv'
  PROVE  OutboxGood'
<1>1. OutboxListsInv'
  BY DEF OutboxGood, OutboxListsInv, OutboxHasTexts, OutboxRuns
<1>2. OutboxCallsInv' /\ OutboxFlushInv' /\ OutboxSubmitInv'
  BY DEF OutboxGood, OutboxCallsInv, OutboxFlushInv, OutboxSubmitInv
<1> QED
  BY <1>1, <1>2 DEF OutboxGood

\* The first step of a call: the message is marked, and in flight while online.
LEMMA OutboxStartInv ==
  ASSUME Outbox!OutboxAssumption, OutboxGood, created' \in created..OutboxMessages,
         outboxStored' = outboxStored, flush' = flush,
         NEW m \in 1..created', NEW s, Outbox!StartCall(m, s), Outbox!ListsAgree(s, created'),
         OutboxHasTexts(s, created', outboxStored),
         \A k \in DOMAIN s.outbox \ {m} : s.outbox[k].sendStatus = "sending" => call[k] # "idle",
         call[m] = "idle"
  PROVE  /\ OutboxListsInv' /\ OutboxCallsInv' /\ OutboxFlushInv'
         /\ promised' \subseteq 1..created'
         /\ \A k \in Outbox!Msg : call[k] # "idle" => call'[k] # "idle"
         /\ outboxConnected => call'[m] # "idle"
<1> PICK n : n = created'
  OBVIOUS
<1>1. /\ OutboxMessages \in Nat /\ Outbox!Msg = 1..OutboxMessages
      /\ created \in 0..OutboxMessages /\ n \in 0..OutboxMessages
      /\ 1..created \subseteq 1..n /\ 1..n \subseteq Outbox!Msg /\ m \in 1..n /\ n \in Nat
  BY DEF Outbox!OutboxAssumption, Outbox!Msg, OutboxGood, OutboxListsInv
<1>2. DOMAIN s.outbox \subseteq 1..n
  BY <1>1, OutboxAgreeIs, OutboxTableIs DEF OutboxPartsAgree
<1>3. call \in [Outbox!Msg -> OutboxCallState] /\ promised \subseteq 1..n
  BY <1>1 DEF OutboxGood, OutboxCallsInv, OutboxRestInv
<1>4. "sending" \in Outbox!Status /\ "queued" \in Outbox!Status /\ "queued" # "sending"
  BY DEF Outbox!Status
<1>5. /\ call' \in [Outbox!Msg -> OutboxCallState] /\ (outboxConnected => call'[m] = "encrypting")
      /\ \A k \in Outbox!Msg : k # m \/ ~outboxConnected => call'[k] = call[k]
  <2>1. CASE outboxConnected
    <3>1. call' = [call EXCEPT ![m] = "encrypting"]
      BY <2>1 DEF Outbox!StartCall
    <3> QED
      BY <1>1, <1>3, <2>1, <3>1 DEF OutboxCallState
  <2>2. CASE ~outboxConnected
    BY <1>3, <2>2 DEF Outbox!StartCall
  <2> QED
    BY <2>1, <2>2
<1>6. Outbox!ListsAgree(ui', n) /\ OutboxRuns(ui', call') /\ OutboxHasTexts(ui', n, outboxStored)
  <2> PICK c : c = call'
    OBVIOUS
  <2>1. \A k \in DOMAIN s.outbox \ {m} : s.outbox[k].sendStatus = "sending" => c[k] # "idle"
    BY <1>1, <1>2, <1>5
  <2>2. ASSUME NEW st \in Outbox!Status, st = "sending" => outboxConnected
        PROVE  \A k \in DOMAIN s.outbox \cap {m} : st = "sending" => c[k] # "idle"
    BY <1>5, <2>2
  <2>3. ASSUME NEW st \in Outbox!Status, st = "sending" => outboxConnected,
               ui' = Outbox!Marked(s, {m}, st)
        PROVE  /\ Outbox!ListsAgree(ui', n) /\ OutboxRuns(ui', c)
               /\ OutboxHasTexts(ui', n, outboxStored)
    <3> PICK stor : stor = outboxStored
      OBVIOUS
    <3>1. OutboxHasTexts(s, n, stor)
      OBVIOUS
    <3> HIDE DEF OutboxListsInv
    <3>2. /\ Outbox!ListsAgree(Outbox!Marked(s, {m}, st), n)
          /\ OutboxRuns(Outbox!Marked(s, {m}, st), c)
          /\ OutboxHasTexts(Outbox!Marked(s, {m}, st), n, stor)
      BY <1>1, <2>1, <2>2, <2>3, <3>1, OutboxMarkedRuns
    <3> QED
      BY <2>3, <3>2
  <2>4. ui' = Outbox!Marked(s, {m}, IF outboxConnected THEN "sending" ELSE "queued")
    BY DEF Outbox!StartCall
  <2> QED
    BY <1>4, <2>3, <2>4
<1>7. OutboxListsInv'
  BY <1>1, <1>6 DEF OutboxListsInv
<1>8. OutboxCallsInv'
  <2>1. \A k \in Outbox!Msg : call'[k] # "idle" => k \in 1..n
    BY <1>1, <1>5 DEF OutboxGood, OutboxCallsInv
  <2>2. \A k \in Outbox!Msg : call'[k] \in {"answered", "ingesting"} => k \in outboxStored
    <3>1. ASSUME NEW k \in Outbox!Msg, call'[k] \in {"answered", "ingesting"}
          PROVE  k \in outboxStored
      <4>1. call'[k] = call[k]
        BY <1>5, <3>1
      <4> QED
        BY <3>1, <4>1 DEF OutboxGood, OutboxCallsInv
    <3> QED
      BY <3>1
  <2> QED
    BY <1>5, <2>1, <2>2 DEF OutboxCallsInv
<1>9. \A k \in Outbox!Msg : call[k] # "idle" => call'[k] # "idle"
  BY <1>5
<1>10. OutboxFlushInv'
  <2>1. flush.waiting # 0 => flush.waiting \in Outbox!Msg /\ call[flush.waiting] # "idle"
    BY <1>1 DEF OutboxGood, OutboxFlushInv
  <2> QED
    BY <1>1, <1>9, <2>1 DEF OutboxGood, OutboxFlushInv
<1>11. promised' \subseteq 1..n
  BY <1>1, <1>3 DEF Outbox!StartCall
<1> QED
  BY <1>5, <1>7, <1>8, <1>9, <1>10, <1>11

\* After a flush that goes on, the calls are those before it or new.
LEMMA OutboxAdvancesInv ==
  ASSUME Outbox!OutboxAssumption, UNCHANGED <<created, outboxStored>>,
                                              created \in 0..OutboxMessages,
         NEW n, n = created, NEW stor, stor = outboxStored, NEW c,
         \A k \in Outbox!Msg : c[k] # "idle" => k \in 1..n,
         \A k \in Outbox!Msg : c[k] \in {"answered", "ingesting"} => k \in stor,
         submitting' \in 0..OutboxMessages,
         submitting' # 0 => submitting' \in Outbox!Msg /\ c[submitting'] # "idle",
         OutboxAdvances(ui', call', flush', n, stor, c)
  PROVE  OutboxListsInv' /\ OutboxCallsInv' /\ OutboxFlushInv' /\ OutboxSubmitInv'
<1> PICK d : d = call'
  OBVIOUS
<1>1. OutboxAdvances(ui', d, flush', n, stor, c)
  OBVIOUS
<1>2. OutboxListsInv'
  BY <1>1 DEF OutboxAdvances, OutboxListsInv
<1>3. OutboxCallsInv'
  <2>1. \A k \in Outbox!Msg : d[k] # "idle" => k \in 1..n
    BY <1>1 DEF OutboxAdvances
  <2>2. ASSUME NEW k \in Outbox!Msg, d[k] \in {"answered", "ingesting"} PROVE k \in stor
    <3>1. d[k] = c[k]
      BY <1>1, <2>2 DEF OutboxAdvances
    <3> QED
      BY <2>2, <3>1
  <2>3. d \in [Outbox!Msg -> OutboxCallState]
    BY <1>1 DEF OutboxAdvances
  <2> QED
    BY <2>1, <2>2, <2>3 DEF OutboxCallsInv
<1>4. OutboxFlushInv'
  BY <1>1 DEF OutboxAdvances, OutboxFlushInv
<1>5. OutboxSubmitInv'
  <2>1. submitting' # 0 => d[submitting'] # "idle"
    BY <1>1 DEF OutboxAdvances
  <2> QED
    BY <2>1 DEF OutboxSubmitInv
<1> QED
  BY <1>2, <1>3, <1>4, <1>5

\* The end of a call, after which its caller goes on.
LEMMA OutboxEndsInv ==
  ASSUME Outbox!OutboxAssumption, OutboxGood, UNCHANGED <<created, outboxStored>>,
         NEW m \in Outbox!Msg, NEW s, Outbox!CallEnds(m, s), Outbox!ListsAgree(s, created),
         OutboxHasTexts(s, created, outboxStored),
         \A k \in DOMAIN s.outbox \ {m} : s.outbox[k].sendStatus = "sending" => call[k] # "idle",
         m \in DOMAIN s.outbox => s.outbox[m].sendStatus # "sending"
  PROVE  OutboxListsInv' /\ OutboxCallsInv' /\ OutboxFlushInv' /\ OutboxSubmitInv'
<1> PICK n : n = created
  OBVIOUS
<1> PICK stor : stor = outboxStored
  OBVIOUS
<1> DEFINE idle == [call EXCEPT ![m] = "idle"]
           a == Outbox!Advance(s, idle, outboxConnected, flush.rest)
<1>1. /\ OutboxMessages \in Nat /\ Outbox!Msg = 1..OutboxMessages /\ n \in 0..OutboxMessages
      /\ n \in Nat /\ 1..n \subseteq Outbox!Msg
  BY DEF Outbox!OutboxAssumption, Outbox!Msg, OutboxGood, OutboxListsInv
<1>2. DOMAIN s.outbox \subseteq Outbox!Msg
  BY <1>1, OutboxAgreeIs, OutboxTableIs DEF OutboxPartsAgree
<1>3. /\ idle \in [Outbox!Msg -> OutboxCallState] /\ idle[m] = "idle"
      /\ \A k \in Outbox!Msg : k # m => idle[k] = call[k]
  BY DEF OutboxGood, OutboxCallsInv, OutboxCallState
<1>4. /\ \A k \in Outbox!Msg : idle[k] # "idle" => k \in 1..n
      /\ \A k \in Outbox!Msg : idle[k] \in {"answered", "ingesting"} => k \in stor
  <2> HIDE DEF idle
  <2>1. ASSUME NEW k \in Outbox!Msg, idle[k] # "idle"
        PROVE  k \in 1..n /\ (idle[k] \in {"answered", "ingesting"} => k \in stor)
    <3>1. idle[k] = call[k]
      BY <1>3, <2>1
    <3> QED
      BY <2>1, <3>1 DEF OutboxGood, OutboxCallsInv
  <2> QED
    BY <2>1
<1>5. OutboxRuns(s, idle)
  <2> HIDE DEF idle
  <2> QED
    BY <1>2, <1>3 DEF OutboxRuns
<1>6. ui' = (IF flush.waiting = m THEN a.ui ELSE s)
      /\ call' = (IF flush.waiting = m THEN a.call ELSE idle)
      /\ flush' = (IF flush.waiting = m THEN a.flush ELSE flush)
      /\ submitting' = IF submitting = m THEN 0 ELSE submitting
  BY DEF Outbox!CallEnds
<1>7. flush.rest \in SUBSET (1..n) /\ flush.rest \subseteq 1..n
  BY DEF OutboxGood, OutboxFlushInv
<1>8. /\ submitting \in 0..OutboxMessages /\ submitting' \in 0..OutboxMessages
      /\ submitting' # 0 =>
           submitting' \in Outbox!Msg /\ submitting' # m /\ call[submitting'] # "idle"
  BY <1>1, <1>6 DEF OutboxGood, OutboxSubmitInv
<1> HIDE DEF idle
<1>9. CASE flush.waiting = m
  <2>1. OutboxAdvances(a.ui, a.call, a.flush, n, stor, idle)
    BY <1>1, <1>3, <1>5, <1>7, OutboxAdvanceAgree
  <2>2. OutboxAdvances(ui', call', flush', n, stor, idle)
    BY <1>6, <1>9, <2>1
  <2> QED
    BY <1>1, <1>3, <1>4, <1>8, <2>2, OutboxAdvancesInv
<1>10. CASE flush.waiting # m
  <2> HIDE DEF a
  <2>1. ui' = s /\ call' = idle /\ flush' = flush
    BY <1>6, <1>10
  <2>2. OutboxListsInv'
    BY <1>1, <1>5, <2>1 DEF OutboxListsInv
  <2>3. OutboxCallsInv'
    BY <1>3, <1>4, <2>1 DEF OutboxCallsInv
  <2>4. OutboxFlushInv'
    <3>1. flush.waiting # 0 => flush.waiting \in Outbox!Msg /\ call[flush.waiting] # "idle"
      BY <1>1 DEF OutboxGood, OutboxFlushInv
    <3>2. flush.waiting # 0 => idle[flush.waiting] # "idle"
      BY <1>3, <1>10, <3>1
    <3> QED
      BY <2>1, <3>2 DEF OutboxGood, OutboxFlushInv
  <2>5. OutboxSubmitInv'
    <3>1. submitting' # 0 => idle[submitting'] # "idle"
      BY <1>3, <1>8
    <3> QED
      BY <1>8, <2>1, <3>1 DEF OutboxSubmitInv
  <2> QED
    BY <2>2, <2>3, <2>4, <2>5
<1> QED
  BY <1>9, <1>10

LEMMA OutboxOfMessages ==
  ASSUME Outbox!OutboxAssumption, OutboxGood
  PROVE  /\ DOMAIN ui.outbox \subseteq Outbox!Msg
         /\ flush.waiting # 0 => flush.waiting \in Outbox!Msg
         /\ submitting # 0 => submitting \in Outbox!Msg
<1>1. /\ created \in Nat /\ 1..created \subseteq Outbox!Msg /\ OutboxMessages \in Nat
      /\ Outbox!Msg = 1..OutboxMessages
  BY DEF Outbox!OutboxAssumption, Outbox!Msg, OutboxGood, OutboxListsInv
<1>2. DOMAIN ui.outbox \subseteq 1..created
  BY <1>1, OutboxAgreeIs, OutboxTableIs DEF OutboxGood, OutboxListsInv, OutboxPartsAgree
<1>3. flush.waiting \in 0..OutboxMessages /\ submitting \in 0..OutboxMessages
  BY DEF OutboxGood, OutboxFlushInv, OutboxSubmitInv
<1> QED
  BY <1>1, <1>2, <1>3

\* A message that is stored leaves the outbox; the others stay.
LEMMA OutboxLeavesInv ==
  ASSUME Outbox!OutboxAssumption, OutboxGood, UNCHANGED <<created, outboxStored, flush,
                                                          submitting>>,
         NEW m \in outboxStored, NEW n, n = created,
         Outbox!ListsAgree(ui', n), DOMAIN ui'.outbox = DOMAIN ui.outbox \ {m},
         \A k \in DOMAIN ui.outbox \ {m} : ui'.outbox[k] = ui.outbox[k],
         \/ UNCHANGED call
         \/ m \in Outbox!Msg /\ call[m] # "idle" /\ call' = [call EXCEPT ![m] = "ingesting"]
  PROVE  OutboxListsInv' /\ OutboxCallsInv' /\ OutboxFlushInv' /\ OutboxSubmitInv'
<1>1. /\ call' \in [Outbox!Msg -> OutboxCallState]
      /\ \A k \in Outbox!Msg : call[k] # "idle" <=> call'[k] # "idle"
      /\ \A k \in Outbox!Msg : k # m => call'[k] = call[k]
  BY DEF OutboxGood, OutboxCallsInv, OutboxCallState
<1>2. /\ OutboxHasTexts(ui, n, outboxStored) /\ OutboxRuns(ui, call) /\ n \in 0..OutboxMessages
      /\ \A k \in DOMAIN ui.outbox : call[k] # "idle" => call'[k] # "idle"
  <2>1. OutboxHasTexts(ui, n, outboxStored) /\ OutboxRuns(ui, call) /\ n \in 0..OutboxMessages
    BY DEF OutboxGood, OutboxListsInv
  <2> QED
    BY <1>1, <2>1, OutboxOfMessages
<1>3. OutboxListsInv'
  BY <1>2 DEF OutboxListsInv, OutboxHasTexts, OutboxRuns
<1>4. OutboxCallsInv'
  BY <1>1 DEF OutboxGood, OutboxCallsInv
<1>5. /\ flush.waiting # 0 => call'[flush.waiting] # "idle"
      /\ submitting # 0 => call'[submitting] # "idle"
  BY <1>1, OutboxOfMessages DEF OutboxGood, OutboxFlushInv, OutboxSubmitInv
<1> QED
  BY <1>3, <1>4, <1>5 DEF OutboxGood, OutboxFlushInv, OutboxSubmitInv

LEMMA OutboxInitInv == Outbox!OutboxAssumption /\ Outbox!Init => Outbox!IInv
<1> SUFFICES ASSUME Outbox!OutboxAssumption, Outbox!Init
             PROVE  OutboxGood
  BY OutboxSplit
<1>1. /\ OutboxMessages \in Nat /\ Outbox!Msg = 1..OutboxMessages /\ 1..0 = {} /\ 0 \in Nat
      /\ 0 \in 0..OutboxMessages
  BY DEF Outbox!OutboxAssumption, Outbox!Msg
<1>2. ui = [pending |-> <<>>, outbox |-> <<>>, cache |-> {}] /\ created = 0 /\ outboxStored = {}
  BY DEF Outbox!Init
<1>3. <<>> \in Outbox!Table(0)
  <2>1. DOMAIN <<>> = {} /\ <<>> \in [{} -> Outbox!Entry]
    OBVIOUS
  <2> QED
    BY <1>1, <2>1, OutboxTableIs
<1>4. OutboxPartsAgree(<<>>, <<>>, {}, 0)
  BY <1>3 DEF OutboxPartsAgree
<1>5. Outbox!ListsAgree(ui, 0)
  BY <1>2, <1>4, OutboxAgreeByParts
<1>6. OutboxHasTexts(ui, 0, outboxStored) /\ OutboxRuns(ui, call)
  BY <1>1, <1>2 DEF OutboxHasTexts, OutboxRuns
<1>7. OutboxListsInv
  BY <1>1, <1>2, <1>5, <1>6 DEF OutboxListsInv
<1>8. OutboxCallsInv
  BY DEF Outbox!Init, OutboxCallsInv, OutboxCallState
<1>9. OutboxFlushInv /\ OutboxSubmitInv
  BY <1>1 DEF Outbox!Init, OutboxFlushInv, OutboxSubmitInv, Outbox!NoFlush
<1>10. OutboxRestInv
  BY <1>1 DEF Outbox!Init, OutboxRestInv
<1> QED
  BY <1>7, <1>8, <1>9, <1>10 DEF OutboxGood

\* A new message.
LEMMA OutboxWriteInv ==
  ASSUME Outbox!OutboxAssumption, OutboxGood, Outbox!Submit \/ Outbox!SendAttachment
  PROVE  OutboxGood'
<1>1. /\ OutboxMessages \in Nat /\ Outbox!Msg = 1..OutboxMessages
      /\ created \in 0..OutboxMessages /\ Attachment \subseteq Outbox!Msg
      /\ created \in Nat
  BY DEF Outbox!OutboxAssumption, Outbox!Msg, OutboxGood, OutboxListsInv
<1>2. created + 1 \in Outbox!Msg
  <2>1. CASE Outbox!Submit
    BY <1>1, <2>1 DEF Outbox!Submit
  <2>2. CASE Outbox!SendAttachment
    BY <1>1, <2>2 DEF Outbox!SendAttachment, OutboxGood, OutboxRestInv
  <2> QED
    BY <2>1, <2>2
<1> DEFINE m == created + 1
           s == Outbox!Added(ui, created + 1, outboxConnected)
<1>3. /\ created' = m /\ Outbox!StartCall(m, s)
      /\ UNCHANGED <<outboxConnected, flush, outboxDecrypting, load, outboxStored, echo>>
  BY DEF Outbox!Submit, Outbox!SendAttachment
<1>4. /\ created' \in created..OutboxMessages /\ m \in 1..created' /\ created \in Nat
      /\ \A k \in 1..created : k # m
  BY <1>1, <1>2, <1>3
<1>5. call[m] = "idle"
  BY <1>1, <1>2, <1>4 DEF OutboxGood, OutboxCallsInv, OutboxCallState
<1>6. outboxConnected \in BOOLEAN /\ Outbox!ListsAgree(ui, created)
  BY DEF OutboxGood, OutboxRestInv, OutboxListsInv
<1>7. /\ Outbox!ListsAgree(s, m)
      /\ DOMAIN s.outbox = DOMAIN ui.outbox \cup (IF m \in Attachment THEN {} ELSE {m})
      /\ \A k \in DOMAIN ui.outbox : k # m /\ s.outbox[k] = ui.outbox[k]
  BY <1>1, <1>2, <1>6, OutboxAddedAgree
<1> HIDE DEF s
<1>8. OutboxHasTexts(s, m, outboxStored)
  <2>1. ASSUME NEW k \in 1..m, k \notin Attachment \cup outboxStored PROVE k \in DOMAIN s.outbox
    <3>1. CASE k = m
      BY <1>7, <2>1, <3>1
    <3>2. CASE k # m
      <4>1. k \in 1..created
        BY <1>1, <3>2
      <4> QED
        BY <1>7, <2>1, <4>1 DEF OutboxGood, OutboxListsInv, OutboxHasTexts
    <3> QED
      BY <3>1, <3>2
  <2> QED
    BY <2>1 DEF OutboxHasTexts
<1>9. \A k \in DOMAIN s.outbox \ {m} : s.outbox[k].sendStatus = "sending" => call[k] # "idle"
  BY <1>7 DEF OutboxGood, OutboxListsInv, OutboxRuns
<1>10. outboxStored' = outboxStored /\ flush' = flush
  BY <1>3
<1> HIDE DEF m
<1>11. /\ OutboxListsInv' /\ OutboxCallsInv' /\ OutboxFlushInv' /\ promised' \subseteq 1..created'
       /\ \A k \in Outbox!Msg : call[k] # "idle" => call'[k] # "idle"
       /\ outboxConnected => call'[m] # "idle"
  <2>1. Outbox!ListsAgree(s, created') /\ OutboxHasTexts(s, created', outboxStored)
    BY <1>3, <1>7, <1>8
  <2> QED
    BY <1>3, <1>4, <1>5, <1>9, <1>10, <2>1, OutboxStartInv
<1>12. OutboxSubmitInv'
  <2>1. CASE Outbox!Submit
    <3>1. submitting' = IF outboxConnected THEN m ELSE 0
      BY <2>1 DEF Outbox!Submit, m
    <3>2. m \in 0..OutboxMessages
      BY <1>1, <1>2 DEF m
    <3> QED
      BY <1>1, <1>11, <3>1, <3>2 DEF OutboxSubmitInv
  <2>2. CASE Outbox!SendAttachment
    <3>1. submitting' = submitting /\ (submitting # 0 => submitting \in Outbox!Msg)
      BY <1>1, <2>2 DEF Outbox!SendAttachment, OutboxGood, OutboxSubmitInv
    <3> QED
      BY <1>11, <3>1 DEF OutboxGood, OutboxSubmitInv
  <2> QED
    BY <2>1, <2>2
<1>13. OutboxRestInv'
  <2>1. outboxStored \subseteq 1..created'
    BY <1>1, <1>4 DEF OutboxGood, OutboxRestInv
  <2>2. preparing' \in BOOLEAN /\ (preparing' => created' + 1 \in Attachment)
    <3>1. CASE Outbox!Submit
      BY <3>1 DEF Outbox!Submit, OutboxGood, OutboxRestInv
    <3>2. CASE Outbox!SendAttachment
      BY <3>2 DEF Outbox!SendAttachment
    <3> QED
      BY <3>1, <3>2
  <2> QED
    BY <1>3, <1>11, <2>1, <2>2 DEF OutboxGood, OutboxRestInv
<1> QED
  BY <1>11, <1>12, <1>13 DEF OutboxGood

LEMMA OutboxRetryInv ==
  ASSUME Outbox!OutboxAssumption, OutboxGood, NEW m \in Outbox!Msg, Outbox!Retry(m)
  PROVE  OutboxGood'
<1>1. /\ OutboxMessages \in Nat /\ Outbox!Msg = 1..OutboxMessages
      /\ created \in 0..OutboxMessages /\ created \in Nat
      /\ created \in created..OutboxMessages
  BY DEF Outbox!OutboxAssumption, Outbox!Msg, OutboxGood, OutboxListsInv
<1> DEFINE s == Outbox!Marked(ui, {m}, "sending")
<1>2. /\ Outbox!StartCall(m, s) /\ call[m] = "idle" /\ m \in DOMAIN ui.pending
      /\ UNCHANGED <<outboxConnected, flush, submitting, preparing, outboxDecrypting, load,
                     outboxStored, echo, created>>
  BY DEF Outbox!Retry, Outbox!Retryable, Outbox!outboundInFlight
<1>3. m \in 1..created
  BY <1>1, <1>2, OutboxAgreeIs, OutboxTableIs DEF OutboxGood, OutboxListsInv, OutboxPartsAgree
<1>4. "sending" \in Outbox!Status
  BY DEF Outbox!Status
<1>5. /\ Outbox!ListsAgree(s, created)
      /\ DOMAIN s.outbox = DOMAIN ui.outbox
      /\ \A k \in DOMAIN ui.outbox :
           s.outbox[k].sendStatus = IF k \in {m} THEN "sending" ELSE ui.outbox[k].sendStatus
  BY <1>1, <1>4, OutboxMarkedAgree DEF OutboxGood, OutboxListsInv
<1> HIDE DEF s
<1>6. OutboxHasTexts(s, created, outboxStored)
  BY <1>5 DEF OutboxGood, OutboxListsInv, OutboxHasTexts
<1>7. \A k \in DOMAIN s.outbox \ {m} : s.outbox[k].sendStatus = "sending" => call[k] # "idle"
  BY <1>5 DEF OutboxGood, OutboxListsInv, OutboxRuns
<1>8. /\ created' = created /\ created' \in created..OutboxMessages /\ m \in 1..created'
      /\ outboxStored' = outboxStored /\ flush' = flush
      /\ Outbox!ListsAgree(s, created') /\ OutboxHasTexts(s, created', outboxStored)
  BY <1>1, <1>2, <1>3, <1>5, <1>6
<1>9. /\ OutboxListsInv' /\ OutboxCallsInv' /\ OutboxFlushInv' /\ promised' \subseteq 1..created'
      /\ \A k \in Outbox!Msg : call[k] # "idle" => call'[k] # "idle"
  BY <1>2, <1>7, <1>8, OutboxStartInv
<1>10. OutboxSubmitInv'
  <2>1. submitting # 0 => submitting \in Outbox!Msg /\ call[submitting] # "idle"
    BY <1>1 DEF OutboxGood, OutboxSubmitInv
  <2> QED
    BY <1>2, <1>9, <2>1 DEF OutboxGood, OutboxSubmitInv
<1>11. OutboxRestInv'
  BY <1>2, <1>9 DEF OutboxGood, OutboxRestInv
<1> QED
  BY <1>9, <1>10, <1>11 DEF OutboxGood

LEMMA OutboxFailInv ==
  ASSUME Outbox!OutboxAssumption, OutboxGood, NEW m \in Outbox!Msg, Outbox!Fail(m)
  PROVE  OutboxGood'
<1> DEFINE s == Outbox!Marked(ui, {m}, "failed")
<1>1. /\ Outbox!CallEnds(m, s)
      /\ UNCHANGED <<outboxConnected, preparing, outboxDecrypting, load, outboxStored, echo,
                     created, promised>>
  BY DEF Outbox!Fail
<1>2. "failed" \in Outbox!Status /\ "failed" # "sending" /\ created \in Nat
  BY DEF Outbox!Status, OutboxGood, OutboxListsInv, Outbox!OutboxAssumption
<1>3. /\ Outbox!ListsAgree(s, created)
      /\ DOMAIN s.outbox = DOMAIN ui.outbox
      /\ \A k \in DOMAIN ui.outbox :
           s.outbox[k].sendStatus = IF k \in {m} THEN "failed" ELSE ui.outbox[k].sendStatus
  BY <1>2, OutboxMarkedAgree DEF OutboxGood, OutboxListsInv
<1> HIDE DEF s
<1>4. OutboxHasTexts(s, created, outboxStored)
  BY <1>3 DEF OutboxGood, OutboxListsInv, OutboxHasTexts
<1>5. /\ \A k \in DOMAIN s.outbox \ {m} : s.outbox[k].sendStatus = "sending" => call[k] # "idle"
      /\ m \in DOMAIN s.outbox => s.outbox[m].sendStatus # "sending"
  BY <1>2, <1>3 DEF OutboxGood, OutboxListsInv, OutboxRuns
<1>6. OutboxListsInv' /\ OutboxCallsInv' /\ OutboxFlushInv' /\ OutboxSubmitInv'
  BY <1>1, <1>3, <1>4, <1>5, OutboxEndsInv
<1>7. OutboxRestInv'
  BY <1>1 DEF OutboxGood, OutboxRestInv
<1> QED
  BY <1>6, <1>7 DEF OutboxGood

LEMMA OutboxFinishInv ==
  ASSUME Outbox!OutboxAssumption, OutboxGood, NEW m \in Outbox!Msg, Outbox!Finish(m)
  PROVE  OutboxGood'
<1> DEFINE s == Outbox!Ingested(ui, m)
<1>1. /\ Outbox!CallEnds(m, s) /\ call[m] = "ingesting"
      /\ UNCHANGED <<outboxConnected, preparing, outboxDecrypting, load, outboxStored, echo,
                     created, promised>>
  BY DEF Outbox!Finish
<1>2. m \in outboxStored /\ m <= created /\ created \in Nat
  <2>1. m \in outboxStored /\ created \in Nat
    BY <1>1 DEF OutboxGood, OutboxCallsInv, OutboxListsInv, Outbox!OutboxAssumption
  <2> QED
    BY <2>1 DEF OutboxGood, OutboxRestInv
<1>3. /\ Outbox!ListsAgree(s, created)
      /\ DOMAIN s.outbox = DOMAIN ui.outbox \ {m}
      /\ \A k \in DOMAIN ui.outbox \ {m} : s.outbox[k] = ui.outbox[k]
  BY <1>2, OutboxIngestedAgree DEF OutboxGood, OutboxListsInv
<1> HIDE DEF s
<1>4. OutboxHasTexts(s, created, outboxStored)
  BY <1>2, <1>3 DEF OutboxGood, OutboxListsInv, OutboxHasTexts
<1>5. /\ \A k \in DOMAIN s.outbox \ {m} : s.outbox[k].sendStatus = "sending" => call[k] # "idle"
      /\ m \in DOMAIN s.outbox => s.outbox[m].sendStatus # "sending"
  BY <1>3 DEF OutboxGood, OutboxListsInv, OutboxRuns
<1>6. OutboxListsInv' /\ OutboxCallsInv' /\ OutboxFlushInv' /\ OutboxSubmitInv'
  BY <1>1, <1>3, <1>4, <1>5, OutboxEndsInv
<1>7. OutboxRestInv'
  BY <1>1 DEF OutboxGood, OutboxRestInv
<1> QED
  BY <1>6, <1>7 DEF OutboxGood

LEMMA OutboxOpenInv ==
  ASSUME Outbox!OutboxAssumption, OutboxGood, Outbox!Open
  PROVE  OutboxGood'
<1> DEFINE a == Outbox!Advance(ui, call, TRUE, Outbox!FlushList(ui))
<1>1. UNCHANGED <<submitting, preparing, outboxDecrypting, load, outboxStored, echo, created,
                  promised, faults>>
      /\ outboxConnected' = TRUE
  BY DEF Outbox!Open
<1>2. OutboxRestInv'
  BY <1>1 DEF OutboxGood, OutboxRestInv
<1>3. /\ created \in 0..OutboxMessages /\ created \in Nat /\ OutboxMessages \in Nat
      /\ Outbox!Msg = 1..OutboxMessages
      /\ Outbox!ListsAgree(ui, created) /\ OutboxHasTexts(ui, created, outboxStored)
      /\ OutboxRuns(ui, call)
      /\ call \in [Outbox!Msg -> OutboxCallState]
  BY DEF Outbox!OutboxAssumption, Outbox!Msg, OutboxGood, OutboxListsInv, OutboxCallsInv
<1>4. Outbox!FlushList(ui) \in SUBSET (1..created)
  BY <1>3, OutboxAgreeIs, OutboxTableIs DEF OutboxPartsAgree, Outbox!FlushList
<1>5. CASE flush = Outbox!NoFlush
  <2> PICK n : n = created
    OBVIOUS
  <2> PICK stor : stor = outboxStored
    OBVIOUS
  <2>1. OutboxAdvances(a.ui, a.call, a.flush, n, stor, call)
    BY <1>3, <1>4, OutboxAdvanceAgree
  <2>2. ui' = a.ui /\ call' = a.call /\ flush' = a.flush
    BY <1>5 DEF Outbox!Open
  <2> HIDE DEF a
  <2> PICK c : c = call
    OBVIOUS
  <2>3. OutboxAdvances(ui', call', flush', n, stor, c)
    BY <2>1, <2>2
  <2>4. /\ \A k \in Outbox!Msg : c[k] # "idle" => k \in 1..n
        /\ \A k \in Outbox!Msg : c[k] \in {"answered", "ingesting"} => k \in stor
    BY DEF OutboxGood, OutboxCallsInv
  <2>5. /\ submitting' \in 0..OutboxMessages
        /\ submitting' # 0 => submitting' \in Outbox!Msg /\ c[submitting'] # "idle"
    BY <1>1, <1>3 DEF OutboxGood, OutboxSubmitInv
  <2>6. UNCHANGED <<created, outboxStored>>
    BY <1>1
  <2>7. OutboxListsInv' /\ OutboxCallsInv' /\ OutboxFlushInv' /\ OutboxSubmitInv'
    BY <1>3, <2>3, <2>4, <2>5, <2>6, OutboxAdvancesInv
  <2> QED
    BY <1>2, <2>7 DEF OutboxGood
<1>6. CASE flush # Outbox!NoFlush
  <2>1. UNCHANGED <<ui, call, flush>>
    BY <1>6 DEF Outbox!Open
  <2> QED
    BY <1>1, <1>2, <2>1, OutboxQuietInv
<1> QED
  BY <1>5, <1>6

\* The answer and the echo of a message that is stored.
LEMMA OutboxAnswerInv ==
  ASSUME Outbox!OutboxAssumption, OutboxGood, NEW m \in Outbox!Msg,
         Outbox!Answer(m) \/ Outbox!EchoDecrypted(m)
  PROVE  OutboxGood'
<1>1. m \in outboxStored /\ m <= created /\ created \in Nat
  <2>1. created \in Nat
    BY DEF OutboxGood, OutboxListsInv, Outbox!OutboxAssumption
  <2>2. m \in outboxStored
    BY DEF OutboxGood, OutboxCallsInv, OutboxRestInv, Outbox!Answer, Outbox!EchoDecrypted
  <2> QED
    BY <2>1, <2>2 DEF OutboxGood, OutboxRestInv
<1>2. UNCHANGED <<created, outboxStored, flush, submitting, outboxConnected, preparing, load,
                  echo, promised>>
  BY DEF Outbox!Answer, Outbox!EchoDecrypted
<1> PICK n : n = created
  OBVIOUS
<1>3. /\ Outbox!ListsAgree(ui', n) /\ DOMAIN ui'.outbox = DOMAIN ui.outbox \ {m}
      /\ \A k \in DOMAIN ui.outbox \ {m} : ui'.outbox[k] = ui.outbox[k]
  <2>1. Outbox!ListsAgree(ui, n)
    BY DEF OutboxGood, OutboxListsInv
  <2>2. CASE ui' = Outbox!Forget(ui, m)
    BY <1>1, <2>1, <2>2, OutboxForgetAgree
  <2>3. CASE ui' = Outbox!Ingested(ui, m)
    BY <1>1, <2>1, <2>3, OutboxIngestedAgree
  <2> QED
    BY <2>2, <2>3 DEF Outbox!Answer, Outbox!EchoDecrypted
<1>4. \/ UNCHANGED call
      \/ m \in Outbox!Msg /\ call[m] # "idle" /\ call' = [call EXCEPT ![m] = "ingesting"]
  BY DEF Outbox!Answer, Outbox!EchoDecrypted
<1>5. OutboxListsInv' /\ OutboxCallsInv' /\ OutboxFlushInv' /\ OutboxSubmitInv'
  BY <1>1, <1>2, <1>3, <1>4, OutboxLeavesInv
<1>6. outboxDecrypting' \subseteq outboxDecrypting
  BY DEF Outbox!Answer, Outbox!EchoDecrypted
<1>7. OutboxRestInv'
  BY <1>2, <1>6 DEF OutboxGood, OutboxRestInv
<1> QED
  BY <1>5, <1>7 DEF OutboxGood

LEMMA OutboxCallInv ==
  ASSUME Outbox!OutboxAssumption, OutboxGood, NEW m \in Outbox!Msg,
         Outbox!Encrypted(m) \/ Outbox!ServerStores(m)
  PROVE  OutboxGood'
<1>1. /\ UNCHANGED <<ui, outboxConnected, flush, submitting, preparing, outboxDecrypting, load,
                     created, promised>>
      /\ call[m] # "idle" /\ outboxStored \subseteq outboxStored'
      /\ outboxStored' \subseteq outboxStored \cup {m}
      /\ echo' \subseteq echo \cup outboxStored'
  BY DEF Outbox!Encrypted, Outbox!ServerStores
<1>2. /\ call' \in [Outbox!Msg -> OutboxCallState] /\ call'[m] # "idle"
      /\ call'[m] \in {"answered", "ingesting"} => m \in outboxStored'
      /\ \A k \in Outbox!Msg : k # m => call'[k] = call[k]
  BY DEF Outbox!Encrypted, Outbox!ServerStores, OutboxGood, OutboxCallsInv, OutboxCallState
<1>3. \A k \in Outbox!Msg : call[k] # "idle" => call'[k] # "idle"
  BY <1>2
<1>4. OutboxListsInv'
  BY <1>1, <1>3, OutboxOfMessages DEF OutboxGood, OutboxListsInv, OutboxHasTexts, OutboxRuns
<1>5. OutboxCallsInv'
  <2>1. \A k \in Outbox!Msg : call'[k] # "idle" => k \in 1..created
    BY <1>1, <1>2 DEF OutboxGood, OutboxCallsInv
  <2>2. \A k \in Outbox!Msg : call'[k] \in {"answered", "ingesting"} => k \in outboxStored'
    BY <1>1, <1>2 DEF OutboxGood, OutboxCallsInv
  <2> QED
    BY <1>1, <1>2, <2>1, <2>2 DEF OutboxCallsInv
<1>6. OutboxFlushInv' /\ OutboxSubmitInv'
  BY <1>1, <1>3, OutboxOfMessages DEF OutboxGood, OutboxFlushInv, OutboxSubmitInv
<1>7. OutboxRestInv'
  <2>1. m \in 1..created
    BY <1>1 DEF OutboxGood, OutboxCallsInv
  <2> QED
    BY <1>1, <2>1 DEF OutboxGood, OutboxRestInv
<1> QED
  BY <1>4, <1>5, <1>6, <1>7 DEF OutboxGood

LEMMA OutboxShowInv ==
  ASSUME Outbox!OutboxAssumption, OutboxGood, Outbox!ShowConversation
  PROVE  OutboxGood'
<1>1. /\ UNCHANGED <<outboxConnected, call, flush, submitting, preparing, outboxDecrypting,
                     outboxStored, echo,
                     created, promised>>
      /\ load' = [step |-> "none", rows |-> {}]
      /\ ui' = Outbox!Merged([ui EXCEPT !.cache = {Outbox!ServerBubble(m) : m \in load.rows}])
  BY DEF Outbox!ShowConversation
<1> PICK n : n = created
  OBVIOUS
<1>2. /\ n \in Nat /\ 1..n \subseteq Outbox!Msg /\ Outbox!ListsAgree(ui, n)
      /\ load.rows \in SUBSET (1..n)
  BY DEF OutboxGood, OutboxListsInv, OutboxRestInv, Outbox!OutboxAssumption, Outbox!Msg
<1>3. Outbox!ListsAgree(ui', n) /\ ui'.outbox = ui.outbox
  BY <1>1, <1>2, OutboxMergedAgree
<1>4. OutboxListsInv'
  BY <1>1, <1>3 DEF OutboxGood, OutboxListsInv, OutboxHasTexts, OutboxRuns
<1>5. OutboxCallsInv' /\ OutboxFlushInv' /\ OutboxSubmitInv'
  BY <1>1 DEF OutboxGood, OutboxCallsInv, OutboxFlushInv, OutboxSubmitInv
<1>6. OutboxRestInv'
  BY <1>1 DEF OutboxGood, OutboxRestInv
<1> QED
  BY <1>4, <1>5, <1>6 DEF OutboxGood

LEMMA OutboxStepInv ==
  ASSUME Outbox!OutboxAssumption, OutboxGood, [Outbox!Next]_(Outbox!vars)
  PROVE  OutboxGood'
<1>1. CASE \/ Outbox!PickAttachment \/ Outbox!Drop \/ Outbox!AskConversation
        \/ Outbox!ConversationAnswered \/ UNCHANGED Outbox!vars
           \/ \E m \in Outbox!Msg : Outbox!EchoArrives(m)
  <2>1. UNCHANGED <<ui, call, flush, submitting, created, outboxStored>>
    BY <1>1 DEF Outbox!PickAttachment, Outbox!Drop, Outbox!AskConversation,
                Outbox!ConversationAnswered, Outbox!EchoArrives, Outbox!vars
  <2>2. outboxStored \subseteq Outbox!Msg
    BY DEF OutboxGood, OutboxRestInv, OutboxListsInv, Outbox!OutboxAssumption, Outbox!Msg
  <2>3. OutboxRestInv'
    <3> USE <2>1, <2>2 DEF OutboxGood, OutboxRestInv
    <3>1. CASE Outbox!PickAttachment
      BY <3>1 DEF Outbox!PickAttachment
    <3>2. CASE Outbox!Drop
      BY <3>2 DEF Outbox!Drop
    <3>3. CASE Outbox!AskConversation
      BY <3>3 DEF Outbox!AskConversation
    <3>4. CASE Outbox!ConversationAnswered
      BY <3>4 DEF Outbox!ConversationAnswered
    <3>5. CASE UNCHANGED Outbox!vars
      BY <3>5 DEF Outbox!vars
    <3>6. CASE \E m \in Outbox!Msg : Outbox!EchoArrives(m)
      BY <3>6 DEF Outbox!EchoArrives
    <3> QED
      BY <1>1, <3>1, <3>2, <3>3, <3>4, <3>5, <3>6
  <2> QED
    BY <2>1, <2>3, OutboxQuietInv
<1>2. CASE Outbox!Submit \/ Outbox!SendAttachment
  BY <1>2, OutboxWriteInv
<1>3. CASE \E m \in Outbox!Msg :
        Outbox!Retry(m) \/ Outbox!Sending(m) \/ Outbox!Fail(m) \/ Outbox!EchoDecrypted(m)
  BY <1>3, OutboxRetryInv, OutboxCallInv, OutboxAnswerInv, OutboxFinishInv,
     OutboxFailInv DEF Outbox!Sending
<1>4. CASE Outbox!Open \/ Outbox!ShowConversation
  BY <1>4, OutboxOpenInv, OutboxShowInv
<1> QED
  BY <1>1, <1>2, <1>3, <1>4 DEF Outbox!Next

LEMMA OutboxNextInv == Outbox!OutboxAssumption =>
                         (Outbox!IInv /\ [Outbox!Next]_(Outbox!vars) => Outbox!IInv')
<1> SUFFICES ASSUME Outbox!OutboxAssumption
             PROVE  Outbox!IInv /\ [Outbox!Next]_(Outbox!vars) => Outbox!IInv'
  OBVIOUS
<1>1. Outbox!IInv <=> OutboxGood
  BY OutboxSplit
<1>2. OutboxGood /\ [Outbox!Next]_(Outbox!vars) => OutboxGood'
  BY OutboxStepInv
<1> QED
  BY <1>1, <1>2, PTL

\* The invariant of the outbox holds for any messages, files, losses, drops, retries
\* and reloads.
THEOREM OutboxInvariance == ASSUME Outbox!OutboxAssumption PROVE Outbox!Spec => []Outbox!IInv
<1>1. Outbox!Init => Outbox!IInv
  BY OutboxInitInv
<1>2. Outbox!IInv /\ [Outbox!Next]_(Outbox!vars) => Outbox!IInv'
  BY OutboxNextInv
<1> QED
  BY <1>1, <1>2, PTL DEF Outbox!Spec

-----------------------------------------------------------------------------
(* The inbox.                                                              *)

(* Pages.                                                                  *)

\* A set of numbers has a least one.
LEMMA InboxLeast ==
  ASSUME NEW S \in SUBSET Nat, S # {}
  PROVE  Inbox!Min(S) \in S /\ \A y \in S : Inbox!Min(S) <= y
<1>1. IsWellFoundedOn({s \in Nat \X Nat : s[1] < s[2]}, Nat)
  BY NatLessThanWellFounded DEF OpToRel
<1>2. PICK x \in S : \A y \in S : ~(<<y, x>> \in {s \in Nat \X Nat : s[1] < s[2]})
  BY <1>1, WFMin
<1>3. \A y \in S : <<y, x>> \in Nat \X Nat /\ ~(y < x)
  BY <1>2
<1>4. ASSUME NEW y \in S PROVE x <= y
  <2>1. x \in Nat /\ y \in Nat
    OBVIOUS
  <2>2. ~(y < x)
    BY <1>3
  <2> QED
    BY <2>1, <2>2
<1> QED
  BY <1>4 DEF Inbox!Min

\* The last numbers of a set, as many as a page takes.
InboxSource(V, b) == {m \in V : b = 0 \/ m < b}
InboxAfter(S, m) == {k \in S : k > m}
InboxItems(S) == {m \in S : Cardinality(InboxAfter(S, m)) < PageSize}

LEMMA InboxItemsEnd ==
  ASSUME Inbox!InboxAssumption, NEW n \in Nat, NEW S \in SUBSET (1..n), S # {}
  PROVE  /\ InboxItems(S) # {}
         /\ \A m \in S : m \in InboxItems(S) \/ \A k \in InboxItems(S) : m < k
<1>1. IsFiniteSet(S)
  <2>1. IsFiniteSet(1..n)
    BY FS_Interval
  <2> QED
    BY <2>1, FS_Subset
<1>2. ASSUME NEW m \in S, NEW k \in InboxItems(S), ~(m < k)
      PROVE  m \in InboxItems(S)
  <2>1. m \in Nat /\ k \in Nat /\ k <= m /\ k \in S
    BY <1>2 DEF InboxItems
  <2>2. InboxAfter(S, m) \subseteq InboxAfter(S, k)
    <3>1. \A j \in S : j > m => j > k
      BY <2>1
    <3> QED
      BY <3>1 DEF InboxAfter
  <2>3. IsFiniteSet(InboxAfter(S, k))
    BY <1>1, FS_Subset DEF InboxAfter
  <2>4. Cardinality(InboxAfter(S, m)) <= Cardinality(InboxAfter(S, k))
    BY <2>2, <2>3, FS_Subset
  <2>5. Cardinality(InboxAfter(S, m)) \in Nat /\ Cardinality(InboxAfter(S, k)) \in Nat
    BY <2>2, <2>3, FS_Subset, FS_CardinalityType
  <2>6. Cardinality(InboxAfter(S, k)) < PageSize /\ PageSize \in Nat
    BY DEF InboxItems, Inbox!InboxAssumption
  <2> QED
    BY <2>4, <2>5, <2>6 DEF InboxItems
<1>3. PICK x \in S : \A y \in S : y <= x
  <2> DEFINE T == {n - m : m \in S}
  <2>1. T \in SUBSET Nat /\ T # {}
    OBVIOUS
  <2>2. Inbox!Min(T) \in T /\ \A y \in T : Inbox!Min(T) <= y
    BY <2>1, InboxLeast
  <2>3. PICK x \in S : Inbox!Min(T) = n - x
    BY <2>2
  <2>4. ASSUME NEW y \in S PROVE y <= x
    <3>1. n - y \in T
      OBVIOUS
    <3>2. n - x <= n - y
      BY <2>2, <2>3, <3>1
    <3> QED
      BY <3>2
  <2> QED
    BY <2>4
<1>4. InboxAfter(S, x) = {}
  <2>1. \A y \in S : ~(y > x)
    BY <1>3
  <2> QED
    BY <2>1 DEF InboxAfter
<1>5. Cardinality(InboxAfter(S, x)) = 0 /\ 0 < PageSize
  BY <1>4, FS_EmptySet DEF Inbox!InboxAssumption
<1>6. x \in InboxItems(S)
  BY <1>5 DEF InboxItems
<1> QED
  BY <1>2, <1>6

\* A list of messages up to n.
InboxListOf(items, n) ==
  /\ items \subseteq Inbox!Row
  /\ \A r \in items : r.id <= n
  /\ \A r, s \in items : r.id = s.id => r = s

InboxCovers(V, items, hasMore, before, n) ==
  \A m \in V : m <= n => (\E r \in items : r.id = m) \/ (hasMore /\ m < before)

\* What a page holds.
LEMMA InboxPageIs ==
  ASSUME Inbox!InboxAssumption, inboxSent \in 0..InboxMessages, NEW b \in Nat, NEW p,
         p = Inbox!Page(b)
  PROVE  /\ InboxListOf(p.rows, inboxSent) /\ p.hasMore \in BOOLEAN /\ p.nextBefore \in Nat
         /\ p.nextBefore \in (IF p.hasMore THEN Inbox!Msg ELSE {0})
         /\ \A m \in Inbox!Visible : b = 0 \/ m < b =>
              (\E r \in p.rows : r.id = m) \/ (p.hasMore /\ m < p.nextBefore)
<1> DEFINE S == InboxSource(Inbox!Visible, b)
           I == InboxItems(S)
<1>1. p = [rows |-> {Inbox!ServerRow(m) : m \in I}, hasMore |-> I # S,
           nextBefore |-> IF I # S THEN Inbox!Min(I) ELSE 0]
  BY SameCount DEF Inbox!Page, InboxSource, InboxItems, InboxAfter
<1>2. /\ S \in SUBSET (1..inboxSent) /\ I \subseteq S /\ inboxSent \in Nat
      /\ 1..inboxSent \subseteq Inbox!Msg
      /\ Inbox!Msg \subseteq Nat
  BY DEF InboxSource, Inbox!Visible, InboxItems, Inbox!Msg, Inbox!InboxAssumption
<1>3. S # {} => I # {} /\ \A m \in S : m \in I \/ \A k \in I : m < k
  BY <1>2, InboxItemsEnd
<1>4. \A m \in S : m \in Inbox!Visible /\ (b = 0 \/ m < b)
  BY DEF InboxSource
<1>5. \A m \in Inbox!Visible : b = 0 \/ m < b => m \in S
  BY DEF InboxSource
<1> HIDE DEF S, I
<1>6. /\ p.rows = {Inbox!ServerRow(m) : m \in I} /\ p.hasMore = (I # S)
      /\ p.nextBefore = IF I # S THEN Inbox!Min(I) ELSE 0
  BY <1>1
<1>7. I # S => Inbox!Min(I) \in I
  BY <1>2, <1>3, InboxLeast
<1>8. InboxListOf(p.rows, inboxSent)
  <2>1. \A m \in I : m \in Inbox!Msg /\ m <= inboxSent
    BY <1>2
  <2>2. \A m \in I : Inbox!ServerRow(m) \in Inbox!Row /\ Inbox!ServerRow(m).id = m
    BY <2>1 DEF Inbox!ServerRow, Inbox!Row
  <2>3. \A r \in p.rows : r \in Inbox!Row /\ r.id <= inboxSent /\ r = Inbox!ServerRow(r.id)
    BY <1>6, <2>1, <2>2
  <2> QED
    BY <2>3 DEF InboxListOf
<1>9. p.hasMore \in BOOLEAN
  BY <1>6
<1>10. p.nextBefore \in Nat /\ p.nextBefore \in (IF p.hasMore THEN Inbox!Msg ELSE {0})
  <2>1. CASE I # S
    BY <1>2, <1>6, <1>7, <2>1
  <2>2. CASE I = S
    <3>1. ~p.hasMore
      BY <1>6, <2>2
    <3>2. p.nextBefore = 0
      BY <1>6, <2>2
    <3> QED
      BY <3>1, <3>2
  <2> QED
    BY <2>1, <2>2
<1>11. ASSUME NEW m \in Inbox!Visible, b = 0 \/ m < b
       PROVE  (\E r \in p.rows : r.id = m) \/ (p.hasMore /\ m < p.nextBefore)
  <2>1. m \in S
    BY <1>5, <1>11
  <2>2. CASE m \in I
    <3>1. Inbox!ServerRow(m) \in p.rows /\ Inbox!ServerRow(m).id = m
      BY <1>6, <2>2 DEF Inbox!ServerRow
    <3> QED
      BY <3>1
  <2>3. CASE m \notin I
    <3>1. I # S /\ Inbox!Min(I) \in I /\ \A k \in I : m < k
      BY <1>3, <1>7, <2>1, <2>3
    <3> QED
      BY <1>6, <3>1
  <2> QED
    BY <2>2, <2>3
<1> QED
  BY <1>8, <1>9, <1>10, <1>11

-----------------------------------------------------------------------------
(* The inductive invariant by parts.                                       *)

InboxEventsOf(n, removed) ==
  {e \in [type : {"message", "message-recalled", "message-deleted"}, id : 1..n] :
     e.type = "message-deleted" => e.id \in removed}
InboxBefore(more) == IF more THEN Inbox!Msg ELSE {0}

InboxServerInv ==
  /\ inboxSent \in 0..InboxMessages /\ recalled \subseteq 1..inboxSent
  /\ deleted \subseteq 1..inboxSent
  /\ gone \subseteq 1..inboxSent /\ deleting \in Nat /\ (deleting # 0 => deleting \in deleted)
  /\ inboxRequest \in Nat /\ inboxRequest = inboxLoads /\ inboxLoads <= InboxLoads

InboxFlagsInv == active \in BOOLEAN /\ inboxConnected \in BOOLEAN /\ fresh \in BOOLEAN

InboxEventsInv ==
  inboxEvents \in Seq(InboxEventsOf(inboxSent, deleted)) /\ inboxDecrypting \subseteq 1..inboxSent

InboxListsInv ==
  /\ InboxListOf(cache, inboxSent) /\ InboxListOf(inboxOpening.rows, inboxSent)
  /\ InboxListOf(older.rows, inboxSent) /\ InboxListOf(older.previous, inboxSent)

InboxPageInv(p, items) ==
  /\ p.nextBefore \in InboxBefore(p.hasMore) /\ p.upTo <= inboxSent
  /\ InboxCovers(Inbox!Visible, items, p.hasMore, p.nextBefore, p.upTo)

InboxPagingInv ==
  /\ paging \in [known : BOOLEAN, hasMore : BOOLEAN, nextBefore : Nat, loadingOlder : BOOLEAN,
                 upTo : Nat]
  /\ paging.nextBefore \in InboxBefore(paging.hasMore) /\ paging.upTo <= inboxSent
  /\ paging.known =>
       InboxCovers(Inbox!Visible, cache, paging.hasMore, paging.nextBefore, paging.upTo)
  /\ paging.hasMore => paging.known

InboxOpeningInv ==
  /\ inboxOpening \in Inbox!CallTypes /\ inboxOpening.request <= inboxRequest
  /\ inboxOpening.step \in {"answered", "decrypting"} =>
       InboxPageInv(inboxOpening, inboxOpening.rows)

InboxOlderInv ==
  /\ older \in Inbox!CallTypes /\ older.request <= inboxRequest
  /\ older.step # "none" => older.upTo <= inboxSent
  /\ older.step = "asked" =>
       InboxCovers(Inbox!Visible, older.previous, TRUE, older.nextBefore, older.upTo)
  /\ older.step \in {"answered", "decrypting"} =>
       InboxPageInv(older, older.rows \cup older.previous)

InboxPagerInv == paging.loadingOlder => older.step # "none"

InboxFreshInv ==
  fresh =>
    /\ inboxConnected /\ inboxEvents = <<>> /\ inboxDecrypting = {} /\ older.step = "none"
    /\ deleting = 0
    /\ inboxOpening.step # "none" => inboxOpening.request = inboxRequest
    /\ inboxOpening.step \in {"answered", "decrypting"} => inboxOpening.rows = Inbox!Page(0).rows
    /\ inboxOpening.step = "none" => cache = Inbox!Page(0).rows

InboxGood ==
  /\ InboxServerInv /\ InboxFlagsInv /\ InboxEventsInv /\ InboxListsInv /\ InboxPagingInv
  /\ InboxOpeningInv /\ InboxOlderInv
  /\ InboxPagerInv /\ InboxFreshInv

LEMMA InboxReachesCovers ==
  \A items, more, b, n :
    Inbox!Reaches(items, more, b, n) <=> InboxCovers(Inbox!Visible, items, more, b, n)
  BY DEF Inbox!Reaches, InboxCovers

\* The invariant of the module and its parts say the same.
LEMMA InboxSplit == Inbox!InboxAssumption => (Inbox!IInv <=> InboxGood)
<1> SUFFICES ASSUME Inbox!InboxAssumption PROVE Inbox!IInv <=> InboxGood
  OBVIOUS
<1>1. InboxMessages \in Nat /\ InboxLoads \in Nat
  BY DEF Inbox!InboxAssumption
<1>2. ASSUME Inbox!IInv PROVE InboxGood
  <2>1. /\ inboxSent \in 0..InboxMessages /\ recalled \subseteq 1..inboxSent
        /\ deleted \subseteq 1..inboxSent
        /\ inboxDecrypting \subseteq 1..inboxSent /\ gone \subseteq 1..inboxSent
        /\ deleting \in 0..InboxMessages
        /\ cache \subseteq Inbox!Row /\ inboxOpening.rows \subseteq Inbox!Row
        /\ older.rows \subseteq Inbox!Row
        /\ older.previous \subseteq Inbox!Row /\ inboxRequest \in 0..InboxLoads
        /\ inboxOpening.request \in 0..inboxRequest /\ older.request \in 0..inboxRequest
    BY <1>2 DEF Inbox!IInv, Inbox!TypeOK
  <2>2. InboxFlagsInv
    BY <1>2 DEF Inbox!IInv, Inbox!TypeOK, InboxFlagsInv
  <2>3. InboxServerInv /\ InboxEventsInv
    BY <1>1, <1>2, <2>1 DEF Inbox!IInv, Inbox!StateTypes, InboxServerInv, InboxEventsInv,
                            InboxEventsOf
  <2>4. InboxListsInv
    <3>1. \A items \in {cache, inboxOpening.rows, older.rows, older.previous} :
            InboxListOf(items, inboxSent)
      BY <1>2, <2>1 DEF Inbox!IInv, Inbox!ListsAreSent, InboxListOf
    <3> QED
      BY <3>1 DEF InboxListsInv
  <2>5. InboxPagingInv /\ InboxPagerInv
    <3>1. Inbox!PageFits(paging) /\ (paging.hasMore => paging.known)
      BY <1>2 DEF Inbox!IInv, Inbox!PagesReach
    <3>2. paging.known =>
            InboxCovers(Inbox!Visible, cache, paging.hasMore, paging.nextBefore, paging.upTo)
      BY <1>2, InboxReachesCovers DEF Inbox!IInv, Inbox!PagingComplete
    <3> QED
      BY <1>2, <3>1, <3>2 DEF Inbox!IInv, Inbox!StateTypes, InboxPagingInv, Inbox!PageFits,
                              InboxBefore, Inbox!PagerReleased, InboxPagerInv
  <2>6. InboxOpeningInv
    <3>1. inboxOpening.step \in {"answered", "decrypting"} =>
            InboxPageInv(inboxOpening, inboxOpening.rows)
      BY <1>2, InboxReachesCovers DEF Inbox!IInv, Inbox!PagesReach, InboxPageInv,
                                      Inbox!PageFits, InboxBefore
    <3> QED
      BY <1>2, <2>1, <3>1 DEF Inbox!IInv, Inbox!StateTypes, InboxOpeningInv
  <2>7. InboxOlderInv
    <3>1. older.step \in {"answered", "decrypting"} =>
            InboxPageInv(older, older.rows \cup older.previous)
      BY <1>2, InboxReachesCovers DEF Inbox!IInv, Inbox!PagesReach, InboxPageInv,
                                      Inbox!PageFits, InboxBefore
    <3>2. older.step = "asked" =>
            InboxCovers(Inbox!Visible, older.previous, TRUE, older.nextBefore, older.upTo)
      BY <1>2, InboxReachesCovers DEF Inbox!IInv, Inbox!PagesReach
    <3>3. older.step # "none" => older.upTo <= inboxSent
      BY <1>2 DEF Inbox!IInv, Inbox!PagesReach
    <3>4. older \in Inbox!CallTypes /\ older.request <= inboxRequest
      BY <1>2, <2>1 DEF Inbox!IInv, Inbox!StateTypes
    <3> QED
      BY <3>1, <3>2, <3>3, <3>4 DEF InboxOlderInv
  <2>8. InboxFreshInv
    BY <1>2 DEF Inbox!IInv, InboxFreshInv, Inbox!FreshIsQuiet, Inbox!ReopenExact
  <2> QED
    BY <2>2, <2>3, <2>4, <2>5, <2>6, <2>7, <2>8 DEF InboxGood
<1>3. ASSUME InboxGood PROVE Inbox!IInv
  <2>1. Inbox!ListsAreSent
    BY <1>3 DEF InboxGood, InboxListsInv, InboxListOf, Inbox!ListsAreSent
  <2>2. Inbox!EachOnce /\ Inbox!PagerReleased
    BY <1>3 DEF InboxGood, InboxListsInv, InboxListOf, Inbox!EachOnce, Inbox!PagerReleased,
                InboxPagerInv
  <2>3. Inbox!PagingComplete
    BY <1>3, InboxReachesCovers DEF InboxGood, InboxPagingInv, Inbox!PagingComplete
  <2>4. Inbox!ReopenExact /\ Inbox!FreshIsQuiet
    BY <1>3 DEF InboxGood, InboxFreshInv, Inbox!ReopenExact, Inbox!FreshIsQuiet
  <2>5. Inbox!PagesReach
    <3>1. inboxOpening.step \in {"answered", "decrypting"} =>
            /\ Inbox!PageFits(inboxOpening)
            /\ Inbox!Reaches(inboxOpening.rows, inboxOpening.hasMore, inboxOpening.nextBefore,
                       inboxOpening.upTo)
      BY <1>3, InboxReachesCovers DEF InboxGood, InboxOpeningInv, InboxPageInv, Inbox!PageFits,
                                      InboxBefore
    <3>2. older.step \in {"answered", "decrypting"} =>
            /\ Inbox!PageFits(older)
            /\ Inbox!Reaches(older.rows \cup older.previous, older.hasMore, older.nextBefore,
                       older.upTo)
      BY <1>3, InboxReachesCovers DEF InboxGood, InboxOlderInv, InboxPageInv, Inbox!PageFits,
                                      InboxBefore
    <3>3. older.step = "asked" =>
            Inbox!Reaches(older.previous, TRUE, older.nextBefore, older.upTo)
      BY <1>3, InboxReachesCovers DEF InboxGood, InboxOlderInv
    <3>4. Inbox!PageFits(paging) /\ (paging.hasMore => paging.known)
      BY <1>3 DEF InboxGood, InboxPagingInv, Inbox!PageFits, InboxBefore
    <3>5. older.step # "none" => older.upTo <= inboxSent
      BY <1>3 DEF InboxGood, InboxOlderInv
    <3> QED
      BY <3>1, <3>2, <3>3, <3>4, <3>5 DEF Inbox!PagesReach
  <2>6. Inbox!StateTypes
    <3>1. deleting <= inboxSent
      BY <1>1, <1>3 DEF InboxGood, InboxServerInv
    <3> QED
      BY <1>3, <3>1 DEF InboxGood, InboxServerInv, InboxEventsInv, InboxEventsOf,
                        InboxPagingInv, InboxOpeningInv, InboxOlderInv,
                        Inbox!StateTypes
  <2>7. Inbox!TypeOK
    <3>1. /\ inboxSent \in 0..InboxMessages /\ deleting \in 0..InboxMessages
          /\ inboxRequest \in 0..InboxLoads
          /\ recalled \cup deleted \cup inboxDecrypting \cup gone \subseteq 1..inboxSent
      BY <1>1, <1>3 DEF InboxGood, InboxServerInv, InboxEventsInv
    <3>2. cache \cup inboxOpening.rows \cup older.rows \cup older.previous \subseteq Inbox!Row
      BY <1>3 DEF InboxGood, InboxListsInv, InboxListOf
    <3>3. {active, inboxConnected, fresh, paging.hasMore, paging.loadingOlder} \subseteq BOOLEAN
      BY <1>3 DEF InboxGood, InboxFlagsInv, InboxPagingInv
    <3>4. paging.nextBefore \in (IF paging.hasMore THEN Inbox!Msg ELSE {0})
      BY <1>3 DEF InboxGood, InboxPagingInv, InboxBefore
    <3>5. {inboxOpening.request, older.request} \subseteq 0..inboxRequest
      BY <1>3 DEF InboxGood, InboxOpeningInv, InboxOlderInv, Inbox!CallTypes, InboxServerInv
    <3> QED
      BY <3>1, <3>2, <3>3, <3>4, <3>5 DEF Inbox!TypeOK
  <2> QED
    BY <2>1, <2>2, <2>3, <2>4, <2>5, <2>6, <2>7 DEF Inbox!IInv
<1> QED
  BY <1>2, <1>3

LEMMA InboxInvImplies ==
  Inbox!IInv =>
    /\ Inbox!TypeOK /\ Inbox!EachOnce /\ Inbox!PagerReleased /\ Inbox!PagingComplete
    /\ Inbox!ReopenExact
  BY DEF Inbox!IInv

LEMMA InboxInitInv == Inbox!InboxAssumption /\ Inbox!Init => Inbox!IInv
<1> SUFFICES ASSUME Inbox!InboxAssumption, Inbox!Init PROVE InboxGood
  BY InboxSplit
<1>1. InboxMessages \in Nat /\ InboxLoads \in Nat /\ InboxHistory \in 0..InboxMessages
  BY DEF Inbox!InboxAssumption
<1>2. Inbox!NoLoad \in Inbox!CallTypes /\ Inbox!NoLoad.step = "none" /\ Inbox!NoLoad.request = 0
      /\ Inbox!NoLoad.rows = {} /\ Inbox!NoLoad.previous = {}
  BY DEF Inbox!NoLoad, Inbox!CallTypes
<1>3. \A n : InboxListOf({}, n)
  BY DEF InboxListOf
<1>4. InboxFlagsInv /\ InboxPagerInv /\ InboxFreshInv
  BY DEF Inbox!Init, InboxFlagsInv, InboxPagerInv, InboxFreshInv
<1>9. InboxServerInv
  BY <1>1 DEF Inbox!Init, InboxServerInv
<1>5. InboxEventsInv
  BY DEF Inbox!Init, InboxEventsInv
<1>6. InboxListsInv
  BY <1>2, <1>3 DEF Inbox!Init, InboxListsInv
<1>7. InboxPagingInv
  BY <1>1 DEF Inbox!Init, InboxPagingInv, InboxBefore
<1>8. InboxOpeningInv /\ InboxOlderInv
  BY <1>2 DEF Inbox!Init, InboxOpeningInv, InboxOlderInv
<1> QED
  BY <1>4, <1>5, <1>6, <1>7, <1>8, <1>9 DEF InboxGood

-----------------------------------------------------------------------------
(* Steps.                                                                  *)

LEMMA InboxCoversKept ==
  ASSUME NEW V, NEW W, NEW items, NEW list, NEW more, NEW b, NEW n,
         InboxCovers(V, items, more, b, n),
         \A m \in W : m <= n => m \in V,
         \A m \in W : (\E r \in items : r.id = m) => \E r \in list : r.id = m
  PROVE  InboxCovers(W, list, more, b, n)
  BY DEF InboxCovers

LEMMA InboxListGrows ==
  ASSUME NEW items, NEW n \in Nat, NEW k \in Nat, n <= k, InboxListOf(items, n)
  PROVE  InboxListOf(items, k)
<1>1. ASSUME NEW r \in items PROVE r.id <= k
  <2>1. r \in Inbox!Row /\ r.id <= n
    BY DEF InboxListOf
  <2>2. r.id \in Nat
    BY <2>1 DEF Inbox!Row, Inbox!Msg
  <2> QED
    BY <2>1, <2>2
<1> QED
  BY <1>1 DEF InboxListOf

LEMMA InboxEventsGrow ==
  ASSUME NEW n \in Nat, NEW k \in Nat, n <= k, NEW d, NEW e, d \subseteq e,
         NEW q \in Seq(InboxEventsOf(n, d))
  PROVE  q \in Seq(InboxEventsOf(k, e))
<1>1. InboxEventsOf(n, d) \subseteq InboxEventsOf(k, e)
  BY DEF InboxEventsOf
<1> QED
  BY <1>1

\* Somebody sends, recalls or deletes: what was covered stays covered.
LEMMA InboxServerStep ==
  ASSUME Inbox!InboxAssumption, InboxGood,
         UNCHANGED <<inboxConnected, cache, inboxDecrypting, Inbox!loadVars, gone, inboxLoads>>,
         fresh'
           = FALSE, inboxSent' \in inboxSent..InboxMessages, recalled' \subseteq 1..inboxSent',
         deleted \subseteq deleted', deleted' \subseteq 1..inboxSent', deleting' \in Nat,
         deleting' # 0 =>
           deleting' \in deleted', inboxEvents' \in Seq(InboxEventsOf(inboxSent', deleted'))
  PROVE  InboxGood'
<1>1. /\ inboxSent \in Nat /\ inboxSent' \in Nat /\ inboxSent <= inboxSent'
      /\ inboxSent' \in 0..InboxMessages
      /\ \A m \in 1..inboxSent : m \in 1..inboxSent'
  BY DEF InboxGood, InboxServerInv, Inbox!InboxAssumption
<1>2. \A m \in Inbox!Visible' : m <= inboxSent => m \in Inbox!Visible
  <2>1. Inbox!Visible' = (1..inboxSent') \ deleted'
    BY DEF Inbox!Visible
  <2> QED
    BY <1>1, <2>1 DEF Inbox!Visible
<1>3. ASSUME NEW items, NEW more, NEW b, NEW n \in Nat, n <= inboxSent,
             InboxCovers(Inbox!Visible, items, more, b, n)
      PROVE  InboxCovers(Inbox!Visible', items, more, b, n)
  <2>1. \A m \in Inbox!Visible' : m \in Nat
    BY <1>1 DEF Inbox!Visible
  <2>2. \A m \in Inbox!Visible' : m <= n => m \in Inbox!Visible
    BY <1>1, <1>2, <1>3, <2>1
  <2> QED
    BY <1>3, <2>2, InboxCoversKept
<1>4. UNCHANGED <<paging, inboxRequest, inboxOpening, older, active>>
  BY DEF Inbox!loadVars
<1>5. InboxServerInv'
  BY <1>1, <1>4 DEF InboxGood, InboxServerInv
<1>6. InboxFlagsInv' /\ InboxFreshInv'
  BY <1>4 DEF InboxGood, InboxFlagsInv, InboxFreshInv
<1>7. InboxEventsInv'
  BY <1>1 DEF InboxGood, InboxEventsInv
<1>8. InboxListsInv'
  BY <1>1, <1>4, InboxListGrows DEF InboxGood, InboxListsInv
<1>9. InboxPagingInv'
  <2>1. paging.upTo \in Nat /\ paging.upTo <= inboxSent /\ paging.upTo <= inboxSent'
    BY <1>1 DEF InboxGood, InboxPagingInv
  <2>2. paging.known =>
          InboxCovers(Inbox!Visible', cache, paging.hasMore, paging.nextBefore, paging.upTo)
    BY <1>3, <2>1 DEF InboxGood, InboxPagingInv
  <2> QED
    BY <1>4, <2>1, <2>2 DEF InboxGood, InboxPagingInv
<1>10. InboxOpeningInv'
  <2>1. inboxOpening.upTo \in Nat
    BY DEF InboxGood, InboxOpeningInv, Inbox!CallTypes
  <2>2. ASSUME inboxOpening.step \in {"answered", "decrypting"}
        PROVE  /\ inboxOpening.nextBefore \in InboxBefore(inboxOpening.hasMore)
               /\ inboxOpening.upTo <= inboxSent'
               /\ InboxCovers(Inbox!Visible', inboxOpening.rows, inboxOpening.hasMore,
                         inboxOpening.nextBefore, inboxOpening.upTo)
    <3>1. /\ inboxOpening.nextBefore \in InboxBefore(inboxOpening.hasMore)
          /\ inboxOpening.upTo <= inboxSent
          /\ InboxCovers(Inbox!Visible, inboxOpening.rows, inboxOpening.hasMore,
                    inboxOpening.nextBefore, inboxOpening.upTo)
      BY <2>2 DEF InboxGood, InboxOpeningInv, InboxPageInv
    <3> QED
      BY <1>1, <1>3, <2>1, <3>1
  <2> QED
    BY <1>4, <2>2 DEF InboxGood, InboxOpeningInv, InboxPageInv
<1>11. InboxOlderInv'
  <2>1. older.upTo \in Nat
    BY DEF InboxGood, InboxOlderInv, Inbox!CallTypes
  <2>2. ASSUME older.step \in {"answered", "decrypting"}
        PROVE  /\ older.nextBefore \in InboxBefore(older.hasMore) /\ older.upTo <= inboxSent'
               /\ InboxCovers(Inbox!Visible', older.rows \cup older.previous, older.hasMore,
                         older.nextBefore, older.upTo)
    <3>1. /\ older.nextBefore \in InboxBefore(older.hasMore) /\ older.upTo <= inboxSent
          /\ InboxCovers(Inbox!Visible, older.rows \cup older.previous, older.hasMore,
                    older.nextBefore, older.upTo)
      BY <2>2 DEF InboxGood, InboxOlderInv, InboxPageInv
    <3> QED
      BY <1>1, <1>3, <2>1, <3>1
  <2>3. older.step # "none" => older.upTo <= inboxSent /\ older.upTo <= inboxSent'
    BY <1>1, <2>1 DEF InboxGood, InboxOlderInv
  <2>4. older.step = "asked" =>
          InboxCovers(Inbox!Visible', older.previous, TRUE, older.nextBefore, older.upTo)
    BY <1>3, <2>1, <2>3 DEF InboxGood, InboxOlderInv
  <2> QED
    BY <1>4, <2>2, <2>3, <2>4 DEF InboxGood, InboxOlderInv, InboxPageInv
<1>12. InboxPagerInv'
  BY <1>4 DEF InboxGood, InboxPagerInv
<1> QED
  BY <1>5, <1>6, <1>7, <1>8, <1>9, <1>10, <1>11, <1>12 DEF InboxGood

\* Push appends an event of a message that was sent.
LEMMA InboxPushed ==
  ASSUME Inbox!InboxAssumption, InboxGood, NEW n \in Nat, inboxSent <= n, NEW m \in 1..n,
         NEW t \in {"message", "message-recalled", "message-deleted"}, Inbox!Push(t, m),
         NEW d, deleted \subseteq d, t = "message-deleted" => m \in d
  PROVE  inboxEvents' \in Seq(InboxEventsOf(n, d))
<1>1. inboxEvents \in Seq(InboxEventsOf(n, d))
  <2>1. inboxEvents \in Seq(InboxEventsOf(inboxSent, deleted)) /\ inboxSent \in Nat
    BY DEF InboxGood, InboxEventsInv, InboxServerInv, Inbox!InboxAssumption
  <2> QED
    BY <2>1, InboxEventsGrow
<1>2. [type |-> t, id |-> m] \in InboxEventsOf(n, d)
  BY DEF InboxEventsOf
<1>3. Append(inboxEvents, [type |-> t, id |-> m]) \in Seq(InboxEventsOf(n, d))
  BY <1>1, <1>2
<1> QED
  BY <1>1, <1>3 DEF Inbox!Push

LEMMA InboxRemovalsInv ==
  ASSUME Inbox!InboxAssumption, InboxGood,
         Inbox!Send \/ \E m \in Inbox!Msg :
           Inbox!Recall(m) \/ Inbox!DeleteElsewhere(m) \/ Inbox!ConfirmDelete(m)
  PROVE  InboxGood'
<1>1. /\ inboxSent \in Nat /\ InboxMessages \in Nat /\ inboxSent <= InboxMessages
      /\ recalled \subseteq 1..inboxSent
      /\ deleted \subseteq 1..inboxSent /\ deleting \in Nat
      /\ (deleting # 0 => deleting \in deleted)
  BY DEF InboxGood, InboxServerInv, Inbox!InboxAssumption
<1>2. CASE Inbox!Send
  <2>1. /\ inboxSent' = inboxSent + 1 /\ Inbox!Push("message", inboxSent + 1)
        /\ inboxSent + 1 \in 1..InboxMessages
    BY <1>1, <1>2 DEF Inbox!Send
  <2>2. deleted' = deleted /\ inboxEvents' \in Seq(InboxEventsOf(inboxSent', deleted'))
    <3>1. UNCHANGED deleted
      BY <1>2 DEF Inbox!Send
    <3> QED
      BY <1>1, <2>1, <3>1, InboxPushed
  <2>3. \A k \in 1..inboxSent : k \in 1..inboxSent'
    BY <1>1, <2>1
  <2>4. UNCHANGED <<recalled, deleted, deleting>>
    BY <1>2 DEF Inbox!Send
  <2>5. UNCHANGED <<inboxConnected, cache, inboxDecrypting, Inbox!loadVars, gone,
                    inboxLoads>> /\ fresh' = FALSE
    BY <1>2 DEF Inbox!Send, Inbox!boundVars
  <2>6. /\ inboxSent' \in inboxSent..InboxMessages /\ recalled' \subseteq 1..inboxSent'
        /\ deleted \subseteq deleted' /\ deleted' \subseteq 1..inboxSent'
        /\ deleting' \in Nat /\ (deleting' # 0 => deleting' \in deleted')
    BY <1>1, <2>1, <2>3, <2>4
  <2> QED
    BY <2>2, <2>5, <2>6, InboxServerStep
<1>3. ASSUME NEW m \in Inbox!Msg, Inbox!Recall(m) PROVE InboxGood'
  <2>1. m \in 1..inboxSent /\ recalled' = recalled \cup {m} /\ Inbox!Push("message-recalled", m)
    BY <1>3 DEF Inbox!Recall
  <2>2. UNCHANGED <<inboxSent, deleted, deleting>>
    BY <1>3 DEF Inbox!Recall
  <2>3. inboxEvents' \in Seq(InboxEventsOf(inboxSent', deleted'))
    BY <1>1, <2>1, <2>2, InboxPushed
  <2>4. UNCHANGED <<inboxConnected, cache, inboxDecrypting, Inbox!loadVars, gone,
                    inboxLoads>> /\ fresh' = FALSE
    BY <1>3 DEF Inbox!Recall
  <2>6. /\ inboxSent' \in inboxSent..InboxMessages /\ recalled' \subseteq 1..inboxSent'
        /\ deleted \subseteq deleted' /\ deleted' \subseteq 1..inboxSent'
        /\ deleting' \in Nat /\ (deleting' # 0 => deleting' \in deleted')
    BY <1>1, <2>1, <2>2
  <2> QED
    BY <2>3, <2>4, <2>6, InboxServerStep
<1>4. ASSUME NEW m \in Inbox!Msg, Inbox!DeleteElsewhere(m) PROVE InboxGood'
  <2>1. m \in 1..inboxSent /\ deleted' = deleted \cup {m} /\ Inbox!Push("message-deleted", m)
    BY <1>4 DEF Inbox!DeleteElsewhere, Inbox!Visible
  <2>2. UNCHANGED <<inboxSent, recalled, deleting>>
    BY <1>4 DEF Inbox!DeleteElsewhere
  <2>3. inboxEvents' \in Seq(InboxEventsOf(inboxSent', deleted'))
    BY <1>1, <2>1, <2>2, InboxPushed
  <2>4. UNCHANGED <<inboxConnected, cache, inboxDecrypting, Inbox!loadVars, gone,
                    inboxLoads>> /\ fresh' = FALSE
    BY <1>4 DEF Inbox!DeleteElsewhere
  <2>6. /\ inboxSent' \in inboxSent..InboxMessages /\ recalled' \subseteq 1..inboxSent'
        /\ deleted \subseteq deleted' /\ deleted' \subseteq 1..inboxSent'
        /\ deleting' \in Nat /\ (deleting' # 0 => deleting' \in deleted')
    BY <1>1, <2>1, <2>2
  <2> QED
    BY <2>3, <2>4, <2>6, InboxServerStep
<1>5. ASSUME NEW m \in Inbox!Msg, Inbox!ConfirmDelete(m) PROVE InboxGood'
  <2>1. m \in 1..inboxSent
    <3>1. PICK r \in cache : r.id = m
      BY <1>5 DEF Inbox!ConfirmDelete, Inbox!Cached
    <3>2. m <= inboxSent
      BY <3>1 DEF InboxGood, InboxListsInv, InboxListOf
    <3> QED
      BY <1>1, <3>2 DEF Inbox!Msg
  <2>2. deleted' = deleted \cup {m} /\ deleting' = m /\ Inbox!Push("message-deleted", m)
    BY <1>5 DEF Inbox!ConfirmDelete
  <2>3. UNCHANGED <<inboxSent, recalled>>
    BY <1>5 DEF Inbox!ConfirmDelete
  <2>4. inboxEvents' \in Seq(InboxEventsOf(inboxSent', deleted'))
    BY <1>1, <2>1, <2>2, <2>3, InboxPushed
  <2>5. UNCHANGED <<inboxConnected, cache, inboxDecrypting, Inbox!loadVars, gone,
                    inboxLoads>> /\ fresh' = FALSE
    BY <1>5 DEF Inbox!ConfirmDelete
  <2>6. /\ inboxSent' \in inboxSent..InboxMessages /\ recalled' \subseteq 1..inboxSent'
        /\ deleted \subseteq deleted' /\ deleted' \subseteq 1..inboxSent'
        /\ deleting' \in Nat /\ (deleting' # 0 => deleting' \in deleted')
    BY <1>1, <2>1, <2>2, <2>3
  <2> QED
    BY <2>4, <2>5, <2>6, InboxServerStep
<1> QED
  BY <1>2, <1>3, <1>4, <1>5

\* The lists change by what arrives: every visible message that was shown is.
LEMMA InboxCacheStep ==
  ASSUME Inbox!InboxAssumption, InboxGood,
         UNCHANGED <<Inbox!serverVars, inboxConnected, active, paging, inboxRequest, inboxOpening,
                     fresh, inboxLoads>>,
         ~fresh, gone' \subseteq 1..inboxSent, deleting' \in Nat,
         deleting' # 0 =>
           deleting' \in deleted, inboxEvents' \in Seq(InboxEventsOf(inboxSent, deleted)),
         inboxDecrypting' \subseteq 1..inboxSent, InboxListOf(cache', inboxSent),
         \A m \in Inbox!Visible : (\E r \in cache : r.id = m) => \E r \in cache' : r.id = m,
         older' \in Inbox!CallTypes, older'.step = older.step, older'.request = older.request,
         older'.rows = older.rows, older'.hasMore = older.hasMore,
         older'.nextBefore = older.nextBefore, older'.upTo = older.upTo,
         InboxListOf(older'.previous, inboxSent),
         \A r \in older.previous : \E s \in older'.previous : s.id = r.id
  PROVE  InboxGood'
<1>1. UNCHANGED <<inboxSent, recalled, deleted>> /\ Inbox!Visible' = Inbox!Visible
  BY DEF Inbox!serverVars, Inbox!Visible
<1>2. InboxServerInv'
  BY <1>1 DEF InboxGood, InboxServerInv
<1>3. InboxFlagsInv' /\ InboxFreshInv'
  BY DEF InboxGood, InboxFlagsInv, InboxFreshInv
<1>4. InboxEventsInv'
  BY <1>1 DEF InboxGood, InboxEventsInv
<1>5. InboxListsInv'
  BY <1>1 DEF InboxGood, InboxListsInv
<1>6. InboxPagingInv'
  <2>1. paging.known =>
          InboxCovers(Inbox!Visible, cache', paging.hasMore, paging.nextBefore, paging.upTo)
    BY InboxCoversKept DEF InboxGood, InboxPagingInv
  <2> QED
    BY <1>1, <2>1 DEF InboxGood, InboxPagingInv
<1>7. InboxOpeningInv'
  BY <1>1 DEF InboxGood, InboxOpeningInv, InboxPageInv
<1>8. InboxOlderInv'
  <2> DEFINE prior == older.rows \cup older.previous
             later == older'.rows \cup older'.previous
  <2>1. \A r \in prior : \E s \in later : s.id = r.id
    OBVIOUS
  <2> HIDE DEF prior, later
  <2>2. ASSUME older.step \in {"answered", "decrypting"}
        PROVE  /\ older.nextBefore \in InboxBefore(older.hasMore) /\ older.upTo <= inboxSent
               /\ InboxCovers(Inbox!Visible, later, older.hasMore, older.nextBefore, older.upTo)
    <3>1. /\ older.nextBefore \in InboxBefore(older.hasMore) /\ older.upTo <= inboxSent
          /\ InboxCovers(Inbox!Visible, prior, older.hasMore, older.nextBefore, older.upTo)
      BY <2>2 DEF InboxGood, InboxOlderInv, InboxPageInv, prior
    <3> QED
      BY <2>1, <3>1, InboxCoversKept
  <2>3. older'.step \in {"answered", "decrypting"} =>
          InboxPageInv(older, older.rows \cup older.previous)'
    BY <1>1, <2>2 DEF InboxPageInv, later
  <2>4. ASSUME older.step = "asked"
        PROVE  InboxCovers(Inbox!Visible, older'.previous, TRUE, older.nextBefore, older.upTo)
    <3>1. InboxCovers(Inbox!Visible, older.previous, TRUE, older.nextBefore, older.upTo)
      BY <2>4 DEF InboxGood, InboxOlderInv
    <3>2. \A m \in Inbox!Visible : (\E r \in older.previous : r.id = m) =>
            \E r \in older'.previous : r.id = m
      OBVIOUS
    <3> QED
      BY <3>1, <3>2 DEF InboxCovers
  <2>5. older'.request <= inboxRequest' /\ (older'.step # "none" => older'.upTo <= inboxSent')
    BY <1>1 DEF InboxGood, InboxOlderInv
  <2> QED
    BY <1>1, <2>3, <2>4, <2>5 DEF InboxOlderInv
<1>9. InboxPagerInv'
  BY DEF InboxGood, InboxPagerInv
<1> QED
  BY <1>2, <1>3, <1>4, <1>5, <1>6, <1>7, <1>8, <1>9 DEF InboxGood

\* A change of the marks of a list.
LEMMA InboxMarkedList ==
  ASSUME NEW items, NEW n, InboxListOf(items, n), NEW f \in [Inbox!Row -> Inbox!Row],
         \A r \in Inbox!Row : f[r].id = r.id
  PROVE  /\ InboxListOf({f[r] : r \in items}, n)
         /\ \A r \in items : \E s \in {f[q] : q \in items} : s.id = r.id
<1>1. \A r \in items : r \in Inbox!Row /\ f[r] \in Inbox!Row /\ f[r].id = r.id
  BY DEF InboxListOf
<1> QED
  BY <1>1 DEF InboxListOf

LEMMA InboxUpsertedList ==
  ASSUME NEW items, NEW n \in Nat, InboxListOf(items, n), NEW row \in Inbox!Row, row.id <= n
  PROVE  /\ InboxListOf(Inbox!Upserted(items, row), n)
         /\ \A r \in items : \E s \in Inbox!Upserted(items, row) : s.id = r.id
<1> DEFINE b == row.recalled \/ \E r \in items : r.id = row.id /\ r.recalled
           e == [row EXCEPT !.recalled = b]
<1>1. row = [id |-> row.id, recalled |-> row.recalled] /\ row.id \in Inbox!Msg
  BY DEF Inbox!Row
<1>2. b \in BOOLEAN
  OBVIOUS
<1>3. Inbox!Upserted(items, row) = {r \in items : r.id # row.id} \cup {e}
  BY DEF Inbox!Upserted, Inbox!Without
<1> HIDE DEF b
<1>4. e = [id |-> row.id, recalled |-> b]
  BY <1>1
<1>5. e \in Inbox!Row /\ e.id = row.id
  BY <1>1, <1>2, <1>4 DEF Inbox!Row
<1> HIDE DEF e
<1> QED
  BY <1>3, <1>5 DEF InboxListOf

LEMMA InboxArrivalsInv ==
  ASSUME Inbox!InboxAssumption, InboxGood,
         Inbox!Receive \/ Inbox!DeleteAnswered \/ \E m \in Inbox!Msg : Inbox!Decrypted(m)
  PROVE  InboxGood'
<1>1. /\ inboxSent \in Nat /\ deleting \in Nat /\ (deleting # 0 => deleting \in deleted)
      /\ gone \subseteq 1..inboxSent /\ deleted \subseteq 1..inboxSent
      /\ inboxDecrypting \subseteq 1..inboxSent
      /\ inboxEvents \in Seq(InboxEventsOf(inboxSent, deleted))
      /\ 1..inboxSent \subseteq Inbox!Msg
  BY DEF InboxGood, InboxServerInv, InboxEventsInv, Inbox!InboxAssumption, Inbox!Msg
<1>2. /\ InboxListOf(cache, inboxSent) /\ InboxListOf(older.previous, inboxSent)
      /\ older \in Inbox!CallTypes
  BY DEF InboxGood, InboxListsInv, InboxOlderInv
<1>3. \A m : InboxListOf(Inbox!Without(cache, m), inboxSent)
  BY <1>2 DEF Inbox!Without, InboxListOf
<1>4. \A m \in deleted : \A k \in Inbox!Visible :
        (\E r \in cache : r.id = k) => \E r \in Inbox!Without(cache, m) : r.id = k
  BY DEF Inbox!Without, Inbox!Visible
<1>5. CASE Inbox!Receive
  <2> DEFINE e == Head(inboxEvents)
  <2>1. inboxEvents # <<>> /\ inboxEvents' = Tail(inboxEvents)
    BY <1>5 DEF Inbox!Receive
  <2>2. /\ e \in InboxEventsOf(inboxSent, deleted)
        /\ inboxEvents' \in Seq(InboxEventsOf(inboxSent, deleted))
    BY <1>1, <2>1, HeadTailProperties
  <2>3. /\ e.type = "message-deleted" => e.id \in deleted
        /\ e.id \in 1..inboxSent
        /\ e.type \in {"message", "message-recalled", "message-deleted"}
    BY <2>2 DEF InboxEventsOf
  <2>4. ~fresh
    BY <2>1 DEF InboxGood, InboxFreshInv
  <2>5. UNCHANGED <<Inbox!serverVars, inboxConnected, active, paging, inboxRequest, inboxOpening,
                    deleting, gone,
                    fresh, inboxLoads>>
    BY <1>5 DEF Inbox!Receive, Inbox!boundVars
  <2>6. /\ e.type = "message" => Inbox!MessageArrives(e.id)
        /\ e.type = "message-recalled" => Inbox!RecallArrives(e.id)
        /\ e.type = "message-deleted" => Inbox!DeletionArrives(e.id)
    BY <1>5, <2>3 DEF Inbox!Receive
  <2> HIDE DEF e
  <2>7. CASE e.type = "message"
    <3>1. inboxDecrypting' \subseteq 1..inboxSent /\ UNCHANGED <<cache, older>>
      BY <1>1, <2>3, <2>6, <2>7 DEF Inbox!MessageArrives
    <3> QED
      BY <1>1, <1>2, <2>2, <2>4, <2>5, <3>1, InboxCacheStep
  <2>8. CASE e.type = "message-recalled"
    <3> DEFINE f == [r \in Inbox!Row |-> [r EXCEPT !.recalled = @ \/ r.id = e.id]]
               g == [r \in Inbox!Row |->
                       [r EXCEPT !.recalled =
                          @ \/ (r.id = e.id /\ e.id \in older.shared /\ Inbox!Cached(e.id))]]
    <3>1. /\ cache' = {f[r] : r \in cache}
          /\ older' = [older EXCEPT !.previous = {g[r] : r \in older.previous}]
          /\ UNCHANGED inboxDecrypting
      <4>1. cache \subseteq Inbox!Row /\ older.previous \subseteq Inbox!Row
        BY <1>2 DEF InboxListOf
      <4>2. {f[r] : r \in cache} = {[r EXCEPT !.recalled = @ \/ r.id = e.id] : r \in cache}
        BY <4>1
      <4>3. {g[r] : r \in older.previous}
              = {[r EXCEPT !.recalled =
                    @ \/ (r.id = e.id /\ e.id \in older.shared /\ Inbox!Cached(e.id))] :
                   r \in older.previous}
        BY <4>1
      <4> QED
        BY <2>6, <2>8, <4>2, <4>3 DEF Inbox!RecallArrives
    <3>2. f \in [Inbox!Row -> Inbox!Row] /\ \A r \in Inbox!Row : f[r].id = r.id
      BY DEF Inbox!Row
    <3>3. g \in [Inbox!Row -> Inbox!Row] /\ \A r \in Inbox!Row : g[r].id = r.id
      BY DEF Inbox!Row
    <3> HIDE DEF f, g
    <3>5. InboxListOf(cache', inboxSent) /\ \A r \in cache : \E s \in cache' : s.id = r.id
      <4>1. /\ InboxListOf({f[r] : r \in cache}, inboxSent)
            /\ \A r \in cache : \E s \in {f[q] : q \in cache} : s.id = r.id
        BY <1>2, <3>2, InboxMarkedList
      <4> QED
        BY <3>1, <4>1
    <3>6. older'.previous = {g[r] : r \in older.previous}
      BY <1>2, <3>1 DEF Inbox!CallTypes
    <3>7. /\ InboxListOf(older'.previous, inboxSent)
          /\ \A r \in older.previous : \E s \in older'.previous : s.id = r.id
      <4>1. /\ InboxListOf({g[r] : r \in older.previous}, inboxSent)
            /\ \A r \in older.previous : \E s \in {g[q] : q \in older.previous} : s.id = r.id
        BY <1>2, <3>3, InboxMarkedList
      <4> QED
        BY <3>6, <4>1
    <3>8. /\ older' \in Inbox!CallTypes /\ older'.step = older.step
          /\ older'.request = older.request
          /\ older'.rows = older.rows /\ older'.hasMore = older.hasMore
          /\ older'.nextBefore = older.nextBefore /\ older'.upTo = older.upTo
      <4>1. older'.previous \in SUBSET Inbox!Row
        BY <3>7 DEF InboxListOf
      <4>2. older' = [older EXCEPT !.previous = older'.previous]
        BY <3>1, <3>6
      <4> QED
        BY <1>2, <4>1, <4>2 DEF Inbox!CallTypes
    <3> QED
      BY <1>1, <2>2, <2>4, <2>5, <3>1, <3>5, <3>7, <3>8, InboxCacheStep
  <2>9. CASE e.type = "message-deleted"
    <3>1. cache' = Inbox!Without(cache, e.id) /\ UNCHANGED <<inboxDecrypting, older>>
      BY <2>6, <2>9 DEF Inbox!DeletionArrives
    <3>2. \A k \in Inbox!Visible : (\E r \in cache : r.id = k) => \E r \in cache' : r.id = k
      BY <1>4, <2>3, <2>9, <3>1
    <3>3. InboxListOf(cache', inboxSent)
      BY <1>3, <3>1
    <3> QED
      BY <1>1, <1>2, <2>2, <2>4, <2>5, <3>1, <3>2, <3>3, InboxCacheStep
  <2> QED
    BY <2>3, <2>7, <2>8, <2>9
<1>6. CASE Inbox!DeleteAnswered
  <2>1. /\ deleting # 0 /\ deleting' = 0 /\ cache' = Inbox!Without(cache, deleting)
        /\ gone' = gone \cup {deleting}
        /\ UNCHANGED <<Inbox!serverVars, inboxEvents, inboxConnected, active, paging,
                       inboxRequest,
                       inboxOpening, older, inboxDecrypting, fresh, inboxLoads>>
    BY <1>6 DEF Inbox!DeleteAnswered, Inbox!loadVars, Inbox!boundVars
  <2>2. ~fresh
    BY <2>1 DEF InboxGood, InboxFreshInv
  <2>3. \A k \in Inbox!Visible : (\E r \in cache : r.id = k) => \E r \in cache' : r.id = k
    BY <1>1, <1>4, <2>1
  <2>4. InboxListOf(cache', inboxSent) /\ gone' \subseteq 1..inboxSent
    BY <1>1, <1>3, <2>1
  <2> QED
    BY <1>1, <1>2, <2>1, <2>2, <2>3, <2>4, InboxCacheStep
<1>7. ASSUME NEW m \in Inbox!Msg, Inbox!Decrypted(m) PROVE InboxGood'
  <2> DEFINE row == [id |-> m, recalled |-> FALSE]
             shared == IF Inbox!Cached(m) THEN older.shared \ {m} ELSE older.shared
  <2>1. /\ m \in inboxDecrypting /\ inboxDecrypting' = inboxDecrypting \ {m}
        /\ cache' = Inbox!Upserted(cache, row)
        /\ older' = [older EXCEPT !.shared = shared]
        /\ UNCHANGED <<Inbox!serverVars, inboxEvents, inboxConnected, active, paging,
                       inboxRequest,
                       inboxOpening, deleting, gone, fresh, inboxLoads>>
    BY <1>7 DEF Inbox!Decrypted, Inbox!boundVars
  <2>2. ~fresh
    BY <2>1 DEF InboxGood, InboxFreshInv
  <2>3. row \in Inbox!Row /\ row.id <= inboxSent /\ row.id = m
    BY <1>1, <2>1 DEF Inbox!Row
  <2>4. shared \in SUBSET Inbox!Msg
    BY <1>2 DEF Inbox!CallTypes
  <2> HIDE DEF row, shared
  <2>5. InboxListOf(cache', inboxSent) /\ \A r \in cache : \E s \in cache' : s.id = r.id
    BY <1>1, <1>2, <2>1, <2>3, InboxUpsertedList
  <2>6. /\ older' \in Inbox!CallTypes /\ older'.step = older.step
        /\ older'.request = older.request
        /\ older'.rows = older.rows /\ older'.hasMore = older.hasMore
        /\ older'.nextBefore = older.nextBefore /\ older'.upTo = older.upTo
        /\ older'.previous = older.previous
    BY <1>2, <2>1, <2>4 DEF Inbox!CallTypes
  <2>7. inboxDecrypting' \subseteq 1..inboxSent
    BY <1>1, <2>1
  <2> QED
    BY <1>1, <1>2, <2>1, <2>2, <2>5, <2>6, <2>7, InboxCacheStep
<1> QED
  BY <1>5, <1>6, <1>7

-----------------------------------------------------------------------------
(* Steps of the loads.                                                     *)

LEMMA InboxPageKept ==
  ASSUME UNCHANGED Inbox!serverVars
  PROVE  /\ UNCHANGED <<inboxSent, recalled, deleted>>
         /\ Inbox!Visible' = Inbox!Visible /\ Inbox!Page(0)' = Inbox!Page(0)
  BY DEF Inbox!serverVars, Inbox!Visible, Inbox!Page, Inbox!ServerRow

LEMMA InboxPagingKept ==
  ASSUME InboxGood, UNCHANGED <<Inbox!serverVars, cache, paging>>
  PROVE  InboxPagingInv'
  BY InboxPageKept DEF InboxGood, InboxPagingInv

LEMMA InboxOpeningKept ==
  ASSUME InboxGood, UNCHANGED <<Inbox!serverVars, inboxOpening>>, inboxRequest' \in Nat,
                                inboxRequest <= inboxRequest'
  PROVE  InboxOpeningInv'
<1>1. inboxOpening.request \in Nat /\ inboxOpening.request <= inboxRequest /\ inboxRequest \in Nat
  BY DEF InboxGood, InboxOpeningInv, Inbox!CallTypes, InboxServerInv
<1>2. inboxOpening'.request <= inboxRequest'
  BY <1>1
<1>3. inboxOpening'.step \in {"answered", "decrypting"} =>
        InboxPageInv(inboxOpening, inboxOpening.rows)'
  BY InboxPageKept DEF InboxGood, InboxOpeningInv, InboxPageInv
<1> QED
  BY <1>2, <1>3 DEF InboxGood, InboxOpeningInv

LEMMA InboxOlderKept ==
  ASSUME InboxGood, UNCHANGED <<Inbox!serverVars, older>>, inboxRequest' \in Nat,
                                inboxRequest <= inboxRequest'
  PROVE  InboxOlderInv'
<1>1. older.request \in Nat /\ older.request <= inboxRequest /\ inboxRequest \in Nat
  BY DEF InboxGood, InboxOlderInv, Inbox!CallTypes, InboxServerInv
<1>2. older'.request <= inboxRequest'
  BY <1>1
<1>3. older'.step \in {"answered", "decrypting"} =>
        InboxPageInv(older, older.rows \cup older.previous)'
  BY InboxPageKept DEF InboxGood, InboxOlderInv, InboxPageInv
<1>4. older'.step = "asked" =>
        InboxCovers(Inbox!Visible, older.previous, TRUE, older.nextBefore, older.upTo)'
  BY InboxPageKept DEF InboxGood, InboxOlderInv
<1>5. older'.step # "none" => older'.upTo <= inboxSent'
  BY InboxPageKept DEF InboxGood, InboxOlderInv
<1> QED
  BY <1>2, <1>3, <1>4, <1>5 DEF InboxGood, InboxOlderInv

LEMMA InboxNoLoadIs ==
  /\ Inbox!NoLoad \in Inbox!CallTypes /\ Inbox!NoLoad.step = "none" /\ Inbox!NoLoad.request = 0
  /\ Inbox!NoLoad.rows = {} /\ Inbox!NoLoad.previous = {}
  BY DEF Inbox!NoLoad, Inbox!CallTypes

LEMMA InboxEmptyList == \A n : InboxListOf({}, n)
  BY DEF InboxListOf

LEMMA InboxNoOpening ==
  ASSUME inboxOpening' = Inbox!NoLoad, inboxRequest' \in Nat
  PROVE  InboxOpeningInv'
  BY InboxNoLoadIs DEF InboxOpeningInv

LEMMA InboxNoOlder ==
  ASSUME older' = Inbox!NoLoad, inboxRequest' \in Nat
  PROVE  InboxOlderInv'
  BY InboxNoLoadIs DEF InboxOlderInv

LEMMA InboxLoadStep ==
  ASSUME Inbox!InboxAssumption, InboxGood,
         UNCHANGED <<Inbox!serverVars, inboxEvents, inboxConnected, inboxDecrypting, deleting,
                     gone>>,
         inboxLoads' \in 0..InboxLoads, inboxRequest' = inboxLoads',
         active' \in BOOLEAN, fresh' \in BOOLEAN,
         InboxListsInv', InboxPagingInv', InboxOpeningInv',
         InboxOlderInv', InboxPagerInv', InboxFreshInv'
  PROVE  InboxGood'
<1>1. UNCHANGED <<inboxSent, recalled, deleted>> /\ InboxLoads \in Nat
  BY DEF Inbox!serverVars, Inbox!InboxAssumption
<1>2. InboxServerInv'
  BY <1>1 DEF InboxGood, InboxServerInv
<1>3. InboxFlagsInv'
  BY DEF InboxGood, InboxFlagsInv
<1>4. InboxEventsInv'
  BY <1>1 DEF InboxGood, InboxEventsInv
<1> QED
  BY <1>2, <1>3, <1>4 DEF InboxGood

\* What an answer makes of a request.
LEMMA InboxAnsweredIs ==
  ASSUME Inbox!InboxAssumption, InboxGood, NEW req \in Inbox!CallTypes, NEW b \in Nat, NEW r,
         r = Inbox!Answered(req, Inbox!Page(b))
  PROVE  /\ r \in Inbox!CallTypes /\ r.step = "answered" /\ r.request = req.request
         /\ r.previous = req.previous /\ r.upTo = req.upTo /\ r.rows = Inbox!Page(b).rows
         /\ InboxListOf(r.rows, inboxSent) /\ r.nextBefore \in InboxBefore(r.hasMore)
         /\ \A m \in Inbox!Visible : b = 0 \/ m < b =>
              (\E k \in r.rows : k.id = m) \/ (r.hasMore /\ m < r.nextBefore)
<1> DEFINE p == Inbox!Page(b)
<1>1. r = [req EXCEPT !.step = "answered", !.rows = p.rows, !.hasMore = p.hasMore,
                       !.nextBefore = p.nextBefore]
  BY DEF Inbox!Answered
<1>2. inboxSent \in 0..InboxMessages
  BY DEF InboxGood, InboxServerInv
<1>3. /\ InboxListOf(p.rows, inboxSent) /\ p.hasMore \in BOOLEAN /\ p.nextBefore \in Nat
      /\ p.nextBefore \in (IF p.hasMore THEN Inbox!Msg ELSE {0})
      /\ \A m \in Inbox!Visible : b = 0 \/ m < b =>
           (\E k \in p.rows : k.id = m) \/ (p.hasMore /\ m < p.nextBefore)
  BY <1>2, InboxPageIs
<1>4. p.rows \in SUBSET Inbox!Row
  BY <1>3 DEF InboxListOf
<1> HIDE DEF p
<1>5. r \in Inbox!CallTypes
  BY <1>1, <1>3, <1>4 DEF Inbox!CallTypes
<1>6. r.step = "answered" /\ r.request = req.request /\ r.previous = req.previous
      /\ r.upTo = req.upTo
  BY <1>1 DEF Inbox!CallTypes
<1>7. r.rows = p.rows
  BY <1>1 DEF Inbox!CallTypes
<1>8. r.hasMore = p.hasMore
  BY <1>1 DEF Inbox!CallTypes
<1>9. r.nextBefore = p.nextBefore
  BY <1>1 DEF Inbox!CallTypes
<1> QED
  BY <1>3, <1>5, <1>6, <1>7, <1>8, <1>9 DEF InboxBefore, p

\* What the page state becomes.
LEMMA InboxPageStateInv ==
  ASSUME InboxGood, UNCHANGED Inbox!serverVars, NEW req \in Inbox!CallTypes,
         paging' = Inbox!PageState(req),
         InboxPageInv(req, cache')
  PROVE  InboxPagingInv' /\ InboxPagerInv'
<1>1. /\ paging' \in [known : BOOLEAN, hasMore : BOOLEAN, nextBefore : Nat,
                      loadingOlder : BOOLEAN, upTo : Nat]
      /\ paging'.known = TRUE /\ paging'.hasMore = req.hasMore /\ ~paging'.loadingOlder
      /\ paging'.nextBefore = req.nextBefore /\ paging'.upTo = req.upTo
  BY DEF Inbox!PageState, Inbox!CallTypes
<1>2. req.nextBefore \in InboxBefore(req.hasMore) /\ req.upTo <= inboxSent
      /\ InboxCovers(Inbox!Visible, cache', req.hasMore, req.nextBefore, req.upTo)
  BY DEF InboxPageInv
<1> QED
  BY <1>1, <1>2, InboxPageKept DEF InboxPagingInv, InboxPagerInv

LEMMA InboxLoadFacts ==
  ASSUME Inbox!InboxAssumption, InboxGood
  PROVE  /\ inboxRequest \in Nat /\ inboxRequest = inboxLoads /\ inboxLoads \in 0..InboxLoads
         /\ inboxLoads < InboxLoads =>
              inboxLoads + 1 \in 0..InboxLoads /\ inboxRequest <= inboxRequest + 1
         /\ active \in BOOLEAN /\ fresh \in BOOLEAN /\ inboxSent \in Nat
         /\ inboxOpening \in Inbox!CallTypes /\ older \in Inbox!CallTypes
  BY DEF InboxGood, InboxServerInv, InboxFlagsInv, InboxOpeningInv, InboxOlderInv,
         Inbox!InboxAssumption

LEMMA InboxStreamInv ==
  ASSUME Inbox!InboxAssumption, InboxGood, Inbox!Drop \/ Inbox!Reconnect
  PROVE  InboxGood'
<1>1. UNCHANGED <<inboxSent, recalled, deleted, cache, inboxDecrypting, paging, inboxRequest,
                  inboxOpening, older,
                  active, deleting, gone, inboxLoads>>
      /\ UNCHANGED Inbox!serverVars /\ Inbox!Visible' = Inbox!Visible
  BY InboxPageKept DEF Inbox!Drop, Inbox!Reconnect, Inbox!serverVars, Inbox!loadVars,
                       Inbox!boundVars
<1>2. /\ inboxEvents' \in Seq(InboxEventsOf(inboxSent, deleted))
      /\ inboxConnected' \in BOOLEAN /\ fresh' = FALSE
  <2>1. CASE Inbox!Drop
    <3>1. inboxEvents' = <<>> /\ inboxConnected' = FALSE /\ fresh' = FALSE
      BY <2>1 DEF Inbox!Drop
    <3>2. <<>> \in Seq(InboxEventsOf(inboxSent, deleted))
      OBVIOUS
    <3> QED
      BY <3>1, <3>2
  <2>2. CASE Inbox!Reconnect
    <3>1. UNCHANGED <<inboxEvents, fresh>> /\ ~inboxConnected /\ inboxConnected' = TRUE
      BY <2>2 DEF Inbox!Reconnect
    <3> QED
      BY <3>1 DEF InboxGood, InboxFreshInv, InboxEventsInv, InboxFlagsInv
  <2> QED
    BY <2>1, <2>2
<1>3. InboxServerInv' /\ InboxEventsInv'
  BY <1>1, <1>2 DEF InboxGood, InboxServerInv, InboxEventsInv
<1>4. InboxFlagsInv' /\ InboxFreshInv' /\ InboxPagerInv'
  BY <1>1, <1>2 DEF InboxGood, InboxFlagsInv, InboxFreshInv, InboxPagerInv
<1>5. InboxListsInv'
  BY <1>1 DEF InboxGood, InboxListsInv
<1>6. InboxPagingInv' /\ InboxOpeningInv' /\ InboxOlderInv'
  BY <1>1, InboxLoadFacts, InboxPagingKept, InboxOpeningKept, InboxOlderKept
<1> QED
  BY <1>3, <1>4, <1>5, <1>6 DEF InboxGood

LEMMA InboxOpenInv ==
  ASSUME Inbox!InboxAssumption, InboxGood, Inbox!Open \/ Inbox!OpenOther
  PROVE  InboxGood'
<1>1. /\ inboxLoads < InboxLoads /\ inboxLoads' = inboxLoads + 1
      /\ inboxRequest' = inboxRequest + 1 /\ active' \in BOOLEAN
      /\ UNCHANGED <<Inbox!serverVars, inboxEvents, inboxConnected, cache, inboxDecrypting,
                     paging, older, deleting, gone>>
  BY DEF Inbox!Open, Inbox!OpenOther
<1>2. UNCHANGED <<inboxSent, recalled, deleted>>
  BY <1>1, InboxPageKept
<1>3. /\ inboxLoads' \in 0..InboxLoads /\ inboxRequest' = inboxLoads' /\ inboxRequest' \in Nat
      /\ inboxRequest <= inboxRequest'
  BY <1>1, InboxLoadFacts
<1>4. InboxPagingInv' /\ InboxOlderInv'
  BY <1>1, <1>3, InboxPagingKept, InboxOlderKept
<1>5. InboxPagerInv'
  BY <1>1 DEF InboxGood, InboxPagerInv
<1>6. CASE Inbox!Open
  <2> DEFINE c == [Inbox!NoLoad EXCEPT !.step = "asked", !.request = inboxRequest + 1]
  <2>1. inboxOpening' = c /\ fresh' = Inbox!Quiet /\ inboxOpening.step = "none"
    BY <1>6 DEF Inbox!Open
  <2>2. c \in Inbox!CallTypes /\ c.step = "asked" /\ c.request = inboxRequest + 1 /\ c.rows = {}
    BY <1>3, InboxLoadFacts, <1>1 DEF Inbox!NoLoad, Inbox!CallTypes
  <2> HIDE DEF c
  <2>3. InboxListsInv'
    BY <1>1, <1>2, <2>1, <2>2, InboxEmptyList DEF InboxGood, InboxListsInv
  <2>4. InboxOpeningInv'
    BY <1>1, <1>3, <2>1, <2>2 DEF InboxOpeningInv
  <2>5. fresh' \in BOOLEAN
    BY <2>1 DEF Inbox!Quiet
  <2>6. InboxFreshInv'
    BY <1>1, <2>1, <2>2 DEF InboxFreshInv, Inbox!Quiet
  <2> QED
    BY <1>1, <1>3, <1>4, <1>5, <2>3, <2>4, <2>5, <2>6, InboxLoadStep
<1>7. CASE Inbox!OpenOther
  <2>1. UNCHANGED inboxOpening /\ fresh' = FALSE
    BY <1>7 DEF Inbox!OpenOther
  <2>2. InboxListsInv'
    BY <1>1, <1>2, <2>1 DEF InboxGood, InboxListsInv
  <2>3. InboxOpeningInv'
    BY <1>1, <1>3, <2>1, InboxOpeningKept
  <2>4. InboxFreshInv' /\ fresh' \in BOOLEAN
    BY <2>1 DEF InboxFreshInv
  <2> QED
    BY <1>1, <1>3, <1>4, <1>5, <2>2, <2>3, <2>4, InboxLoadStep
<1> QED
  BY <1>6, <1>7

\* An opening is answered, arrives, is shown or fails.
LEMMA InboxOpeningSteps ==
  ASSUME Inbox!InboxAssumption, InboxGood,
         Inbox!OpenAnswered \/ Inbox!OpenArrives \/ Inbox!OpenShown \/ Inbox!OpenFails
  PROVE  InboxGood'
<1>1. UNCHANGED <<Inbox!serverVars, inboxEvents, inboxConnected, inboxDecrypting, deleting, gone,
                  active, inboxRequest, inboxLoads>>
  BY DEF Inbox!OpenAnswered, Inbox!OpenArrives, Inbox!OpenShown, Inbox!OpenFails, Inbox!boundVars
<1>2. /\ UNCHANGED <<inboxSent, recalled,
                     deleted>> /\ Inbox!Visible' = Inbox!Visible /\ Inbox!Page(0)' = Inbox!Page(0)
  BY <1>1, InboxPageKept
<1>3. /\ inboxLoads' \in 0..InboxLoads /\ inboxRequest' = inboxLoads' /\ inboxRequest' \in Nat
      /\ inboxRequest <= inboxRequest'
      /\ active' \in BOOLEAN /\ fresh \in BOOLEAN /\ inboxOpening \in Inbox!CallTypes
      /\ older \in Inbox!CallTypes
  BY <1>1, InboxLoadFacts
<1>4. CASE Inbox!OpenAnswered
  <2> DEFINE c == [inboxOpening EXCEPT !.upTo = inboxSent]
             r == Inbox!Answered(c, Inbox!Page(0))
  <2>1. /\ inboxOpening.step = "asked" /\ inboxOpening' = r
        /\ UNCHANGED <<cache, paging, older, fresh>>
    BY <1>4 DEF Inbox!OpenAnswered
  <2>2. c \in Inbox!CallTypes /\ c.upTo = inboxSent /\ c.request = inboxOpening.request
    BY <1>3, InboxLoadFacts DEF Inbox!CallTypes
  <2> HIDE DEF c
  <2>3. /\ r \in Inbox!CallTypes /\ r.step = "answered" /\ r.request = inboxOpening.request
        /\ r.upTo = inboxSent /\ r.rows = Inbox!Page(0).rows /\ InboxListOf(r.rows, inboxSent)
        /\ r.nextBefore \in InboxBefore(r.hasMore)
        /\ \A m \in Inbox!Visible :
             (\E k \in r.rows : k.id = m) \/ (r.hasMore /\ m < r.nextBefore)
    BY <2>2, InboxAnsweredIs
  <2> HIDE DEF r
  <2>4. InboxListsInv'
    BY <1>2, <2>1, <2>3 DEF InboxGood, InboxListsInv
  <2>5. InboxOpeningInv'
    <3>1. InboxCovers(Inbox!Visible, r.rows, r.hasMore, r.nextBefore, r.upTo)
      BY <2>3 DEF InboxCovers
    <3>2. r.upTo <= inboxSent /\ r.request <= inboxRequest
      BY <2>3, InboxLoadFacts DEF InboxGood, InboxOpeningInv
    <3> QED
      BY <1>1, <1>2, <2>1, <2>3, <3>1, <3>2 DEF InboxOpeningInv, InboxPageInv
  <2>6. InboxPagingInv' /\ InboxOlderInv'
    BY <1>1, <1>3, <2>1, InboxPagingKept, InboxOlderKept
  <2>7. InboxPagerInv'
    BY <2>1 DEF InboxGood, InboxPagerInv
  <2>8. InboxFreshInv'
    BY <1>1, <1>2, <2>1, <2>3 DEF InboxGood, InboxFreshInv
  <2> QED
    BY <1>1, <1>3, <2>1, <2>4, <2>5, <2>6, <2>7, <2>8, InboxLoadStep
<1>5. CASE Inbox!OpenArrives
  <2>1. /\ inboxOpening.step = "answered" /\ UNCHANGED <<cache, paging, older, fresh>>
        /\ inboxOpening' = IF inboxOpening.request # inboxRequest THEN Inbox!NoLoad
                      ELSE [inboxOpening EXCEPT !.step = "decrypting"]
    BY <1>5 DEF Inbox!OpenArrives
  <2>2. InboxPagingInv' /\ InboxOlderInv'
    BY <1>1, <1>3, <2>1, InboxPagingKept, InboxOlderKept
  <2>3. InboxPagerInv'
    BY <2>1 DEF InboxGood, InboxPagerInv
  <2>4. CASE inboxOpening.request # inboxRequest
    <3>1. inboxOpening' = Inbox!NoLoad
      BY <2>1, <2>4
    <3>2. InboxListsInv'
      BY <1>2, <2>1, <3>1, InboxNoLoadIs, InboxEmptyList DEF InboxGood, InboxListsInv
    <3>3. InboxOpeningInv'
      BY <1>3, <3>1, InboxNoOpening
    <3>4. InboxFreshInv'
      BY <2>1, <2>4 DEF InboxGood, InboxFreshInv
    <3> QED
      BY <1>1, <1>3, <2>1, <2>2, <2>3, <3>2, <3>3, <3>4, InboxLoadStep
  <2>5. CASE inboxOpening.request = inboxRequest
    <3>1. inboxOpening' = [inboxOpening EXCEPT !.step = "decrypting"]
      BY <2>1, <2>5
    <3>2. /\ inboxOpening' \in Inbox!CallTypes /\ inboxOpening'.step = "decrypting"
          /\ inboxOpening'.request = inboxOpening.request
          /\ inboxOpening'.rows = inboxOpening.rows
          /\ inboxOpening'.hasMore = inboxOpening.hasMore
          /\ inboxOpening'.nextBefore = inboxOpening.nextBefore
          /\ inboxOpening'.upTo = inboxOpening.upTo
      BY <1>3, <3>1 DEF Inbox!CallTypes
    <3>3. InboxListsInv'
      BY <1>2, <2>1, <3>2 DEF InboxGood, InboxListsInv
    <3>4. InboxOpeningInv'
      BY <1>1, <1>2, <2>1, <3>2 DEF InboxGood, InboxOpeningInv, InboxPageInv
    <3>5. InboxFreshInv'
      BY <1>1, <1>2, <2>1, <3>2 DEF InboxGood, InboxFreshInv
    <3> QED
      BY <1>1, <1>3, <2>1, <2>2, <2>3, <3>3, <3>4, <3>5, InboxLoadStep
  <2> QED
    BY <2>4, <2>5
<1>6. CASE Inbox!OpenShown
  <2>1. /\ inboxOpening.step = "decrypting" /\ inboxOpening' = Inbox!NoLoad
        /\ cache' = inboxOpening.rows
        /\ paging' = Inbox!PageState(inboxOpening) /\ older' = [older EXCEPT !.shared = {}]
        /\ UNCHANGED fresh
    BY <1>6 DEF Inbox!OpenShown
  <2>2. /\ older' \in Inbox!CallTypes /\ older'.step = older.step
        /\ older'.request = older.request
        /\ older'.rows = older.rows /\ older'.previous = older.previous
        /\ older'.hasMore = older.hasMore /\ older'.nextBefore = older.nextBefore
        /\ older'.upTo = older.upTo
    BY <1>3, <2>1 DEF Inbox!CallTypes
  <2>3. InboxListsInv'
    BY <1>2, <2>1, <2>2, InboxNoLoadIs, InboxEmptyList DEF InboxGood, InboxListsInv
  <2>4. InboxPagingInv' /\ InboxPagerInv'
    <3>1. InboxPageInv(inboxOpening, cache')
      BY <2>1 DEF InboxGood, InboxOpeningInv
    <3> QED
      BY <1>1, <1>3, <2>1, <3>1, InboxPageStateInv
  <2>5. InboxOpeningInv'
    BY <1>3, <2>1, InboxNoOpening
  <2>6. InboxOlderInv'
    BY <1>1, <1>2, <2>2 DEF InboxGood, InboxOlderInv, InboxPageInv
  <2>7. InboxFreshInv'
    BY <1>1, <1>2, <2>1, <2>2, InboxNoLoadIs DEF InboxGood, InboxFreshInv
  <2> QED
    BY <1>1, <1>3, <2>1, <2>3, <2>4, <2>5, <2>6, <2>7, InboxLoadStep
<1>7. CASE Inbox!OpenFails
  <2>1. inboxOpening' = Inbox!NoLoad /\ fresh' = FALSE /\ UNCHANGED <<cache, paging, older>>
    BY <1>7 DEF Inbox!OpenFails
  <2>2. InboxListsInv'
    BY <1>2, <2>1, InboxNoLoadIs, InboxEmptyList DEF InboxGood, InboxListsInv
  <2>3. InboxPagingInv' /\ InboxOlderInv'
    BY <1>1, <1>3, <2>1, InboxPagingKept, InboxOlderKept
  <2>4. InboxOpeningInv'
    BY <1>3, <2>1, InboxNoOpening
  <2>5. InboxPagerInv'
    BY <2>1 DEF InboxGood, InboxPagerInv
  <2>6. InboxFreshInv' /\ fresh' \in BOOLEAN
    BY <2>1 DEF InboxFreshInv
  <2> QED
    BY <1>1, <1>3, <2>1, <2>2, <2>3, <2>4, <2>5, <2>6, InboxLoadStep
<1> QED
  BY <1>4, <1>5, <1>6, <1>7

\* Older messages are asked for, answered, arrive, are shown or fail.
LEMMA InboxLoadOlderInv ==
  ASSUME Inbox!InboxAssumption, InboxGood, Inbox!LoadOlder
  PROVE  InboxGood'
<1> DEFINE c == [Inbox!NoLoad EXCEPT !.step = "asked", !.request = inboxRequest + 1,
                               !.previous = cache, !.nextBefore = paging.nextBefore,
                               !.shared = {r.id : r \in cache}, !.upTo = paging.upTo]
<1>1. /\ UNCHANGED <<Inbox!serverVars, inboxEvents, inboxConnected, inboxDecrypting, deleting,
                     gone, active, cache,
                      inboxOpening>>
      /\ inboxLoads < InboxLoads /\ inboxLoads' = inboxLoads + 1
      /\ inboxRequest' = inboxRequest + 1
      /\ paging' = [paging EXCEPT !.loadingOlder = TRUE] /\ paging.hasMore /\ fresh' = FALSE
      /\ older' = c
  BY DEF Inbox!LoadOlder
<1>2. UNCHANGED <<inboxSent, recalled, deleted>> /\ Inbox!Visible' = Inbox!Visible
  BY <1>1, InboxPageKept
<1>3. /\ inboxLoads' \in 0..InboxLoads /\ inboxRequest' = inboxLoads' /\ inboxRequest' \in Nat
      /\ inboxRequest <= inboxRequest'
      /\ active' \in BOOLEAN /\ fresh' \in BOOLEAN
  <2>1. active' \in BOOLEAN
    BY <1>1, InboxLoadFacts
  <2>2. fresh' \in BOOLEAN
    BY <1>1
  <2> QED
    BY <1>1, <2>1, <2>2, InboxLoadFacts
<1>4. /\ paging.nextBefore \in Nat /\ paging.upTo \in Nat /\ paging.upTo <= inboxSent
      /\ InboxCovers(Inbox!Visible, cache, TRUE, paging.nextBefore, paging.upTo)
  <2>1. paging.known /\ paging.hasMore = TRUE
    BY <1>1 DEF InboxGood, InboxPagingInv
  <2> QED
    BY <2>1 DEF InboxGood, InboxPagingInv
<1>5. cache \in SUBSET Inbox!Row /\ {r.id : r \in cache} \in SUBSET Inbox!Msg
  <2>1. cache \subseteq Inbox!Row
    BY DEF InboxGood, InboxListsInv, InboxListOf
  <2> QED
    BY <2>1 DEF Inbox!Row
<1>6. inboxRequest + 1 \in Nat
  BY InboxLoadFacts
<1>7. /\ c \in Inbox!CallTypes /\ c.step = "asked" /\ c.request = inboxRequest + 1 /\ c.rows = {}
      /\ c.previous = cache
  BY <1>4, <1>5, <1>6 DEF Inbox!NoLoad, Inbox!CallTypes
<1>8. c.nextBefore = paging.nextBefore /\ c.upTo = paging.upTo
  BY DEF Inbox!NoLoad
<1> HIDE DEF c
<1>9. InboxListsInv'
  BY <1>1, <1>2, <1>7, InboxEmptyList DEF InboxGood, InboxListsInv
<1>10. InboxPagingInv'
  BY <1>1, <1>2 DEF InboxGood, InboxPagingInv
<1>11. InboxOpeningInv'
  BY <1>1, <1>3, InboxOpeningKept
<1>12. InboxOlderInv'
  <2>1. InboxCovers(Inbox!Visible, older.previous, TRUE, older.nextBefore, older.upTo)'
    BY <1>1, <1>2, <1>4, <1>7, <1>8
  <2>2. older' \in Inbox!CallTypes /\ older'.request <= inboxRequest' /\ older'.upTo <= inboxSent'
    BY <1>1, <1>2, <1>4, <1>6, <1>7, <1>8
  <2> QED
    BY <1>1, <1>7, <2>1, <2>2 DEF InboxOlderInv
<1>13. InboxPagerInv' /\ InboxFreshInv'
  BY <1>1, <1>7 DEF InboxPagerInv, InboxFreshInv
<1> QED
  BY <1>1, <1>3, <1>9, <1>10, <1>11, <1>12, <1>13, InboxLoadStep

\* The page state that is released is otherwise what it was.
LEMMA InboxReleasedInv ==
  ASSUME InboxGood, UNCHANGED <<Inbox!serverVars, cache>>, paging' = Inbox!Released
  PROVE  InboxPagingInv' /\ InboxPagerInv'
<1>1. /\ paging' \in [known : BOOLEAN, hasMore : BOOLEAN, nextBefore : Nat,
                      loadingOlder : BOOLEAN, upTo : Nat]
      /\ paging'.known = paging.known /\ paging'.hasMore = paging.hasMore
      /\ paging'.nextBefore = paging.nextBefore /\ paging'.upTo = paging.upTo
      /\ ~paging'.loadingOlder
  BY DEF InboxGood, InboxPagingInv, Inbox!Released
<1> QED
  BY <1>1, InboxPageKept DEF InboxGood, InboxPagingInv, InboxPagerInv

LEMMA InboxOlderSteps ==
  ASSUME Inbox!InboxAssumption, InboxGood,
         Inbox!OlderAnswered \/ Inbox!OlderArrives \/ Inbox!OlderShown \/ Inbox!OlderFails
  PROVE  InboxGood'
<1>1. UNCHANGED <<Inbox!serverVars, inboxEvents, inboxConnected, inboxDecrypting, deleting, gone,
                  active, inboxRequest, inboxLoads,
                  inboxOpening, fresh>>
  BY DEF Inbox!OlderAnswered, Inbox!OlderArrives, Inbox!OlderShown, Inbox!OlderFails,
         Inbox!boundVars
<1>2. UNCHANGED <<inboxSent, recalled, deleted>> /\ Inbox!Visible' = Inbox!Visible
  BY <1>1, InboxPageKept
<1>3. /\ inboxLoads' \in 0..InboxLoads /\ inboxRequest' = inboxLoads' /\ inboxRequest' \in Nat
      /\ inboxRequest <= inboxRequest'
      /\ active' \in BOOLEAN /\ fresh' \in BOOLEAN /\ older \in Inbox!CallTypes
  BY <1>1, InboxLoadFacts
<1>4. InboxOpeningInv'
  BY <1>1, <1>3, InboxOpeningKept
<1>5. older.step # "none" /\ ~fresh /\ InboxFreshInv'
  <2>1. older.step # "none"
    BY DEF Inbox!OlderAnswered, Inbox!OlderArrives, Inbox!OlderShown, Inbox!OlderFails
  <2>2. ~fresh
    BY <2>1 DEF InboxGood, InboxFreshInv
  <2> QED
    BY <1>1, <2>1, <2>2 DEF InboxFreshInv
<1>6. CASE Inbox!OlderAnswered
  <2> DEFINE b == older.nextBefore
             r == Inbox!Answered(older, Inbox!Page(b))
  <2>1. older.step = "asked" /\ older' = r /\ UNCHANGED <<cache, paging>>
    BY <1>6 DEF Inbox!OlderAnswered
  <2>2. b \in Nat
    BY <1>3 DEF Inbox!CallTypes
  <2>3. /\ r \in Inbox!CallTypes /\ r.step = "answered" /\ r.request = older.request
        /\ r.previous = older.previous /\ r.upTo = older.upTo /\ InboxListOf(r.rows, inboxSent)
        /\ r.nextBefore \in InboxBefore(r.hasMore)
        /\ \A m \in Inbox!Visible : b = 0 \/ m < b =>
             (\E k \in r.rows : k.id = m) \/ (r.hasMore /\ m < r.nextBefore)
    BY <1>3, <2>2, InboxAnsweredIs
  <2>4. /\ InboxCovers(Inbox!Visible, older.previous, TRUE, b, older.upTo)
        /\ older.upTo <= inboxSent
        /\ older.request <= inboxRequest
    BY <2>1 DEF InboxGood, InboxOlderInv
  <2> HIDE DEF r, b
  <2>5. InboxCovers(Inbox!Visible, r.rows \cup r.previous, r.hasMore, r.nextBefore, r.upTo)
    <3>1. ASSUME NEW m \in Inbox!Visible, m <= r.upTo
          PROVE  (\E k \in r.rows \cup r.previous : k.id = m) \/ (r.hasMore /\ m < r.nextBefore)
      <4>1. (\E k \in r.previous : k.id = m) \/ m < b
        BY <2>3, <2>4, <3>1 DEF InboxCovers
      <4>2. CASE m < b
        BY <2>3, <4>2
      <4> QED
        BY <4>1, <4>2
    <3> QED
      BY <3>1 DEF InboxCovers
  <2>6. InboxOlderInv'
    BY <1>1, <1>2, <2>1, <2>3, <2>4, <2>5 DEF InboxOlderInv, InboxPageInv
  <2>7. InboxListsInv'
    BY <1>1, <1>2, <2>1, <2>3 DEF InboxGood, InboxListsInv
  <2>8. InboxPagingInv'
    BY <1>1, <2>1, InboxPagingKept
  <2>9. InboxPagerInv'
    BY <2>1, <2>3 DEF InboxPagerInv
  <2> QED
    BY <1>1, <1>3, <1>4, <1>5, <2>6, <2>7, <2>8, <2>9, InboxLoadStep
<1>7. ASSUME older' = Inbox!NoLoad, paging' = Inbox!Released, UNCHANGED cache
      PROVE  InboxGood'
  <2>1. InboxPagingInv' /\ InboxPagerInv'
    BY <1>1, <1>7, InboxReleasedInv
  <2>2. InboxListsInv'
    BY <1>1, <1>2, <1>7, InboxNoLoadIs, InboxEmptyList DEF InboxGood, InboxListsInv
  <2>3. InboxOlderInv'
    BY <1>3, <1>7, InboxNoOlder
  <2> QED
    BY <1>1, <1>3, <1>4, <1>5, <2>1, <2>2, <2>3, InboxLoadStep
<1>8. CASE Inbox!OlderArrives
  <2>1. CASE older.request # inboxRequest
    BY <1>7, <1>8, <2>1 DEF Inbox!OlderArrives
  <2>2. CASE older.request = inboxRequest
    <3>1. /\ older.step = "answered" /\ older' = [older EXCEPT !.step = "decrypting"]
          /\ UNCHANGED <<paging, cache>>
      BY <1>8, <2>2 DEF Inbox!OlderArrives
    <3>2. /\ older' \in Inbox!CallTypes /\ older'.step = "decrypting"
          /\ older'.request = older.request
          /\ older'.rows = older.rows /\ older'.previous = older.previous
          /\ older'.hasMore = older.hasMore /\ older'.nextBefore = older.nextBefore
          /\ older'.upTo = older.upTo
      BY <1>3, <3>1 DEF Inbox!CallTypes
    <3>3. InboxOlderInv'
      BY <1>1, <1>2, <3>1, <3>2 DEF InboxGood, InboxOlderInv, InboxPageInv
    <3>4. InboxListsInv'
      BY <1>1, <1>2, <3>1, <3>2 DEF InboxGood, InboxListsInv
    <3>5. InboxPagingInv'
      BY <1>1, <3>1, InboxPagingKept
    <3>6. InboxPagerInv'
      BY <3>2 DEF InboxPagerInv
    <3> QED
      BY <1>1, <1>3, <1>4, <1>5, <3>3, <3>4, <3>5, <3>6, InboxLoadStep
  <2> QED
    BY <2>1, <2>2
<1>9. CASE Inbox!OlderShown
  <2>1. /\ older.step = "decrypting" /\ older' = Inbox!NoLoad /\ cache' = Inbox!OlderRows
        /\ paging' = Inbox!PageState(older)
    BY <1>9 DEF Inbox!OlderShown
  <2>2. InboxListOf(older.rows, inboxSent) /\ InboxListOf(older.previous, inboxSent)
    BY DEF InboxGood, InboxListsInv
  <2>3. InboxListOf(cache', inboxSent)
    BY <2>1, <2>2 DEF Inbox!OlderRows, InboxListOf
  <2>4. InboxPageInv(older, cache')
    <3>1. /\ older.nextBefore \in InboxBefore(older.hasMore) /\ older.upTo <= inboxSent
          /\ InboxCovers(Inbox!Visible, older.rows \cup older.previous, older.hasMore,
                    older.nextBefore, older.upTo)
      BY <2>1 DEF InboxGood, InboxOlderInv, InboxPageInv
    <3>2. \A r \in older.rows \cup older.previous : \E s \in cache' : s.id = r.id
      BY <2>1 DEF Inbox!OlderRows
    <3>3. InboxCovers(Inbox!Visible, cache', older.hasMore, older.nextBefore, older.upTo)
      BY <3>1, <3>2 DEF InboxCovers
    <3> QED
      BY <3>1, <3>3 DEF InboxPageInv
  <2>5. InboxPagingInv' /\ InboxPagerInv'
    BY <1>1, <1>3, <2>1, <2>4, InboxPageStateInv
  <2>6. InboxListsInv'
    BY <1>1, <1>2, <2>1, <2>3, InboxNoLoadIs, InboxEmptyList DEF InboxGood, InboxListsInv
  <2>7. InboxOlderInv'
    BY <1>3, <2>1, InboxNoOlder
  <2> QED
    BY <1>1, <1>3, <1>4, <1>5, <2>5, <2>6, <2>7, InboxLoadStep
<1>10. CASE Inbox!OlderFails
  BY <1>7, <1>10 DEF Inbox!OlderFails
<1> QED
  BY <1>6, <1>8, <1>9, <1>10

LEMMA InboxStayInv ==
  ASSUME InboxGood, UNCHANGED Inbox!vars
  PROVE  InboxGood'
<1>1. /\ UNCHANGED <<inboxSent, recalled, deleted, inboxEvents, inboxConnected, cache,
                     inboxDecrypting, paging, inboxRequest>>
      /\ UNCHANGED <<inboxOpening, older, active, deleting, gone, fresh, inboxLoads,
                     Inbox!serverVars>>
  BY DEF Inbox!vars, Inbox!serverVars, Inbox!loadVars, Inbox!boundVars
<1>2. Inbox!Visible' = Inbox!Visible /\ Inbox!Page(0)' = Inbox!Page(0)
  BY <1>1, InboxPageKept
<1>3. InboxServerInv' /\ InboxFlagsInv' /\ InboxEventsInv' /\ InboxListsInv' /\ InboxPagerInv'
  BY <1>1 DEF InboxGood, InboxServerInv, InboxFlagsInv, InboxEventsInv, InboxListsInv,
              InboxPagerInv
<1>4. InboxPagingInv' /\ InboxOpeningInv' /\ InboxOlderInv'
  BY <1>1, <1>2 DEF InboxGood, InboxPagingInv, InboxOpeningInv, InboxOlderInv, InboxPageInv
<1>5. InboxFreshInv'
  BY <1>1, <1>2 DEF InboxGood, InboxFreshInv
<1> QED
  BY <1>3, <1>4, <1>5 DEF InboxGood

LEMMA InboxNextInv == Inbox!InboxAssumption =>
                        (Inbox!IInv /\ [Inbox!Next]_(Inbox!vars) => Inbox!IInv')
<1> SUFFICES ASSUME Inbox!InboxAssumption
             PROVE  Inbox!IInv /\ [Inbox!Next]_(Inbox!vars) => Inbox!IInv'
  OBVIOUS
<1>1. Inbox!IInv <=> InboxGood
  BY InboxSplit
<1>2. ASSUME InboxGood, [Inbox!Next]_(Inbox!vars) PROVE InboxGood'
  <2>1. CASE Inbox!Send \/ \E m \in Inbox!Msg :
          Inbox!Recall(m) \/ Inbox!DeleteElsewhere(m) \/ Inbox!ConfirmDelete(m)
    BY <1>2, <2>1, InboxRemovalsInv
  <2>2. CASE Inbox!Receive \/ Inbox!DeleteAnswered \/ \E m \in Inbox!Msg : Inbox!Decrypted(m)
    BY <1>2, <2>2, InboxArrivalsInv
  <2>3. CASE Inbox!Drop \/ Inbox!Reconnect
    BY <1>2, <2>3, InboxStreamInv
  <2>4. CASE Inbox!Open \/ Inbox!OpenOther
    BY <1>2, <2>4, InboxOpenInv
  <2>5. CASE Inbox!OpenAnswered \/ Inbox!OpenArrives \/ Inbox!OpenShown \/ Inbox!OpenFails
    BY <1>2, <2>5, InboxOpeningSteps
  <2>6. CASE Inbox!LoadOlder
    BY <1>2, <2>6, InboxLoadOlderInv
  <2>7. CASE Inbox!OlderAnswered \/ Inbox!OlderArrives \/ Inbox!OlderShown \/ Inbox!OlderFails
    BY <1>2, <2>7, InboxOlderSteps
  <2>8. CASE UNCHANGED Inbox!vars
    BY <1>2, <2>8, InboxStayInv
  <2> QED
    BY <1>2, <2>1, <2>2, <2>3, <2>4, <2>5, <2>6, <2>7, <2>8 DEF Inbox!Next
<1>3. Inbox!IInv' <=> InboxGood'
  BY <1>1, PTL
<1> QED
  BY <1>1, <1>2, <1>3

\* The invariant of the inbox.
THEOREM InboxInvariance == ASSUME Inbox!InboxAssumption PROVE Inbox!Spec => []Inbox!IInv
<1>1. Inbox!Init => Inbox!IInv
  BY InboxInitInv
<1>2. Inbox!IInv /\ [Inbox!Next]_(Inbox!vars) => Inbox!IInv'
  BY InboxNextInv
<1> QED
  BY <1>1, <1>2, PTL DEF Inbox!Spec

-----------------------------------------------------------------------------
(* The event stream.                                                       *)

\* Steps that leave the sources and the state on the page alone.
LEMMA StreamQuietInv ==
  ASSUME Stream!IInv, UNCHANGED <<es, source, manual, status, timer>>,
         {entering', refreshFailed', phantom'} \subseteq BOOLEAN,
         {tickets', probes', refreshing'} \subseteq Nat,
         authenticated' \in BOOLEAN, authenticated => authenticated',
         status = "reconnecting" /\ ~timer => probes' > 0
  PROVE  Stream!IInv'
<1>1. Stream!TypeOK'
  BY DEF Stream!IInv, Stream!TypeOK
<1>2. Stream!Shape'
  BY DEF Stream!IInv, Stream!Shape
<1>3. Stream!StatusIsTrue' /\ Stream!LogoutStays'
  BY DEF Stream!IInv, Stream!StatusIsTrue, Stream!LogoutStays, Stream!NoneReplaced
<1> QED
  BY <1>1, <1>2, <1>3 DEF Stream!IInv

\* Closing the stream leaves no source and no timer behind.
LEMMA StreamCloseInv ==
  ASSUME Stream!IInv, Stream!CloseEventStream, status' \in {"connecting", "offline"},
         {entering', refreshFailed', phantom'} \subseteq BOOLEAN,
         {tickets', probes', refreshing'} \subseteq Nat, authenticated' \in BOOLEAN
  PROVE  Stream!IInv'
<1>1. PICK n \in Nat : es \in [1..n -> Stream!Alive \cup {"failed", "closed"}]
  BY DEF Stream!IInv, Stream!Shape
<1>2. es' \in [1..n -> Stream!Alive \cup {"failed", "closed"}]
  BY <1>1 DEF Stream!CloseEventStream, Stream!ClosedSources
<1>3. source' = 0 /\ timer' = FALSE
  BY DEF Stream!CloseEventStream
<1>4. manual' \in BOOLEAN
  BY DEF Stream!CloseEventStream, Stream!IInv, Stream!TypeOK
<1>5. Stream!TypeOK'
  BY <1>2, <1>3, <1>4 DEF Stream!TypeOK
<1>6. Stream!Shape'
  BY <1>2, <1>3 DEF Stream!Shape
<1>7. Stream!StatusIsTrue' /\ Stream!LogoutStays'
  BY <1>3 DEF Stream!StatusIsTrue, Stream!LogoutStays
<1> QED
  BY <1>5, <1>6, <1>7 DEF Stream!IInv

LEMMA StreamStartInv ==
  ASSUME Stream!IInv, Stream!StartEventStream, UNCHANGED <<authenticated>>,
         {entering', refreshFailed', phantom'} \subseteq BOOLEAN,
         {probes', refreshing'} \subseteq Nat
  PROVE  Stream!IInv'
<1>1. tickets' \in Nat /\ authenticated' \in BOOLEAN
  BY DEF Stream!StartEventStream, Stream!IInv, Stream!TypeOK
<1> QED
  BY <1>1, StreamCloseInv DEF Stream!StartEventStream

LEMMA StreamClearInv ==
  ASSUME Stream!IInv, Stream!ClearSession,
         {entering', refreshFailed', phantom'} \subseteq BOOLEAN,
         {tickets', probes', refreshing'} \subseteq Nat
  PROVE  Stream!IInv'
  BY StreamCloseInv DEF Stream!ClearSession

\* A new source is the current one; the one before it lives on.
LEMMA StreamTicketInv == ASSUME Stream!IInv, Stream!TicketArrives PROVE Stream!IInv'
<1>1. PICK n \in Nat : es \in [1..n -> Stream!Alive \cup {"failed", "closed"}]
  BY DEF Stream!IInv, Stream!Shape
<1>2. Cardinality(DOMAIN es) = n
  BY <1>1, FS_Interval
<1>3. tickets' \in Nat
  BY DEF Stream!TicketArrives, Stream!IInv, Stream!TypeOK
<1>4. CASE ~authenticated
  <2>1. IF authenticated THEN Stream!NewSource ELSE UNCHANGED <<es, source, manual>>
    BY DEF Stream!TicketArrives
  <2>2. UNCHANGED <<es, source, manual, status, timer, authenticated, probes, entering,
                    refreshing, refreshFailed, phantom>>
    BY <1>4, <2>1 DEF Stream!TicketArrives
  <2> QED
    BY <1>3, <2>2, StreamQuietInv DEF Stream!IInv, Stream!TypeOK, Stream!StatusIsTrue
<1>5. CASE authenticated
  <2>1. UNCHANGED <<authenticated, status, timer, probes, entering, refreshing, refreshFailed,
                    phantom>>
    BY DEF Stream!TicketArrives
  <2>2. /\ es' = [s \in 1..n + 1 |-> IF s \in 1..n THEN es[s] ELSE "connecting"]
        /\ source' = n + 1 /\ manual' = FALSE
    BY <1>1, <1>2, <1>5, SameCount DEF Stream!TicketArrives, Stream!NewSource
  <2>3. es' \in [1..n + 1 -> Stream!Alive \cup {"failed", "closed"}] /\ n + 1 \in Nat
    BY <1>1, <2>2 DEF Stream!Alive
  <2>4. DOMAIN es = 1..n /\ DOMAIN es' = 1..n + 1 /\ es'[n + 1] = "connecting"
        /\ \A s \in 1..n : es'[s] = es[s] /\ s # n + 1 /\ s \in 1..n + 1
    BY <1>1, <2>2, <2>3
  <2>5. source' \in DOMAIN es' /\ source' # 0
    BY <2>2, <2>4
  <2>6. Stream!TypeOK'
    BY <2>1, <2>2, <2>3, <2>4, <2>5, <1>3 DEF Stream!IInv, Stream!TypeOK
  <2>7. Stream!Shape'
    BY <1>5, <2>1, <2>2, <2>3 DEF Stream!Shape
  <2>8. ASSUME Stream!NoneReplaced' PROVE Stream!NoneReplaced /\ source = 0
    <3>1. \A s \in 1..n : es[s] = "closed"
      BY <2>2, <2>4, <2>8 DEF Stream!NoneReplaced
    <3> QED
      BY <3>1, <2>4 DEF Stream!NoneReplaced, Stream!IInv, Stream!TypeOK
  <2>9. Stream!StatusIsTrue' /\ Stream!LogoutStays'
    BY <1>5, <2>1, <2>8 DEF Stream!IInv, Stream!StatusIsTrue, Stream!LogoutStays
  <2> QED
    BY <1>5, <2>1, <2>6, <2>7, <2>9 DEF Stream!IInv
<1> QED
  BY <1>4, <1>5

LEMMA StreamOpensInv == ASSUME Stream!IInv, NEW s \in Stream!Source, Stream!SourceOpens(s)
                        PROVE  Stream!IInv'
<1>1. PICK n \in Nat : es \in [1..n -> Stream!Alive \cup {"failed", "closed"}]
  BY DEF Stream!IInv, Stream!Shape
<1>2. /\ es' = [es EXCEPT ![s] = "open"] /\ s \in 1..n /\ es[s] = "connecting"
      /\ status' = "online"
      /\ UNCHANGED <<authenticated, source, manual, timer, tickets, probes, entering, refreshing,
                     refreshFailed, phantom>>
  BY <1>1 DEF Stream!SourceOpens
<1>3. es' \in [1..n -> Stream!Alive \cup {"failed", "closed"}]
  BY <1>1, <1>2 DEF Stream!Alive
<1>4. Stream!TypeOK'
  BY <1>1, <1>2, <1>3 DEF Stream!IInv, Stream!TypeOK
<1>5. Stream!Shape'
  BY <1>2, <1>3 DEF Stream!IInv, Stream!Shape
<1>6. Stream!NoneReplaced' => source = s
  BY <1>1, <1>2, <1>3 DEF Stream!NoneReplaced
<1>7. Stream!StatusIsTrue'
  BY <1>1, <1>2, <1>3, <1>6 DEF Stream!StatusIsTrue, Stream!IInv, Stream!LogoutStays,
                                Stream!Source
<1>8. Stream!LogoutStays'
  BY <1>2 DEF Stream!LogoutStays, Stream!IInv
<1>9. ~authenticated' => status' # "reconnecting"
  BY <1>2
<1> QED
  BY <1>4, <1>5, <1>7, <1>8, <1>9 DEF Stream!IInv

\* An error closes the current source, of whichever source it is, and sets the
\* timer, unless the page has closed the stream itself.
LEMMA StreamErrorsInv == ASSUME Stream!IInv, NEW s \in Stream!Source, Stream!SourceErrors(s)
                         PROVE  Stream!IInv'
<1> DEFINE broken == [es EXCEPT ![s] = IF @ = "open" THEN "retrying" ELSE "failed"]
<1>1. PICK n \in Nat : es \in [1..n -> Stream!Alive \cup {"failed", "closed"}]
  BY DEF Stream!IInv, Stream!Shape
<1>2. /\ s \in 1..n /\ es[s] \in Stream!Alive /\ Stream!Handled(s, broken)
      /\ UNCHANGED <<authenticated, tickets, probes, entering, refreshing, refreshFailed>>
  BY <1>1 DEF Stream!SourceErrors
<1>3. /\ broken \in [1..n -> Stream!Alive \cup {"failed", "closed"}]
      /\ broken[s] # "closed" /\ \A t \in 1..n : t # s => broken[t] = es[t]
  BY <1>1, <1>2 DEF Stream!Alive
<1> HIDE DEF broken
<1>4. CASE manual \/ ~authenticated
  <2>1. es' = broken /\ UNCHANGED <<source, manual, status, timer, phantom>>
    BY <1>2, <1>4 DEF Stream!Handled
  <2>2. source = 0
    BY <1>4 DEF Stream!IInv, Stream!Shape
  <2>3. Stream!TypeOK'
    BY <1>1, <1>2, <1>3, <2>1, <2>2 DEF Stream!IInv, Stream!TypeOK
  <2>4. Stream!Shape'
    BY <1>3, <2>1, <2>2 DEF Stream!Shape
  <2>5. ~Stream!NoneReplaced'
    BY <1>2, <1>3, <2>1, <2>2 DEF Stream!NoneReplaced
  <2>6. Stream!StatusIsTrue' /\ Stream!LogoutStays'
    BY <1>2, <2>1, <2>5 DEF Stream!StatusIsTrue, Stream!LogoutStays, Stream!IInv
  <2> QED
    BY <1>2, <2>1, <2>3, <2>4, <2>6 DEF Stream!IInv
<1>5. CASE ~(manual \/ ~authenticated)
  <2>1. /\ es' = [t \in DOMAIN es |-> IF t = source THEN "closed" ELSE broken[t]]
        /\ phantom' = (phantom \/ source \notin {0, s})
        /\ source' = 0 /\ status' = "reconnecting" /\ timer' = TRUE /\ manual' = manual
    BY <1>2, <1>5 DEF Stream!Handled
  <2>2. es' \in [1..n -> Stream!Alive \cup {"failed", "closed"}]
    BY <1>1, <1>3, <2>1
  <2>3. phantom' \in BOOLEAN /\ timer' \in BOOLEAN
    BY <2>1 DEF Stream!IInv, Stream!TypeOK
  <2>4. Stream!TypeOK'
    BY <1>2, <2>1, <2>2, <2>3 DEF Stream!IInv, Stream!TypeOK
  <2>5. Stream!Shape'
    BY <2>1, <2>2 DEF Stream!Shape
  <2>6. Stream!StatusIsTrue' /\ Stream!LogoutStays'
    BY <1>2, <1>5, <2>1 DEF Stream!StatusIsTrue, Stream!LogoutStays
  <2> QED
    BY <1>2, <1>5, <2>1, <2>4, <2>5, <2>6 DEF Stream!IInv
<1> QED
  BY <1>4, <1>5

LEMMA StreamInitInv == Stream!Init => Stream!IInv
<1> SUFFICES ASSUME Stream!Init PROVE Stream!IInv
  OBVIOUS
<1>1. DOMAIN es = {} /\ source = 0 /\ status = "offline" /\ ~timer
  BY DEF Stream!Init
<1>2. {authenticated, entering, manual, timer, refreshFailed, phantom} \subseteq BOOLEAN
  BY DEF Stream!Init
<1>7. {tickets, probes, refreshing} \subseteq Nat
  BY DEF Stream!Init
<1>3. es \in [1..0 -> Stream!Alive \cup {"failed", "closed"}] /\ 0 \in Nat
  BY DEF Stream!Init
<1>4. Stream!Shape
  BY <1>1, <1>3 DEF Stream!Shape
<1>5. Stream!StatusIsTrue /\ Stream!LogoutStays
  BY <1>1 DEF Stream!StatusIsTrue, Stream!LogoutStays
<1>6. Stream!TypeOK
  BY <1>1, <1>2, <1>7 DEF Stream!TypeOK
<1> QED
  BY <1>1, <1>4, <1>5, <1>6 DEF Stream!IInv

LEMMA StreamNextInv == Stream!IInv /\ [Stream!Next]_(Stream!vars) => Stream!IInv'
<1> SUFFICES ASSUME Stream!IInv, [Stream!Next]_(Stream!vars) PROVE Stream!IInv'
  OBVIOUS
<1> USE DEF Stream!IInv, Stream!TypeOK
<1>1. CASE Stream!Login
  BY <1>1, StreamQuietInv DEF Stream!Login, Stream!StatusIsTrue
<1>2. CASE Stream!Entered
  BY <1>2, StreamStartInv DEF Stream!Entered
<1>3. CASE Stream!EnterFails
  BY <1>3, StreamQuietInv DEF Stream!EnterFails, Stream!StatusIsTrue
<1>4. CASE Stream!Logout
  BY <1>4, StreamClearInv DEF Stream!Logout
<1>5. CASE Stream!BrowserOnline \/ Stream!PageVisible
  BY <1>5, StreamStartInv DEF Stream!BrowserOnline, Stream!PageVisible
<1>6. CASE Stream!BrowserOffline \/ Stream!TicketFails
  <2>1. /\ status' = "offline"
        /\ UNCHANGED <<authenticated, source, manual, timer, es, probes, entering, refreshing,
                       refreshFailed, phantom>>
        /\ tickets' \in Nat
    BY <1>6 DEF Stream!BrowserOffline, Stream!TicketFails
  <2> QED
    BY <2>1 DEF Stream!Shape, Stream!StatusIsTrue, Stream!LogoutStays
<1>7. CASE Stream!TicketArrives
  BY <1>7, StreamTicketInv
<1>8. CASE \E s \in Stream!Source : Stream!SourceOpens(s) \/ Stream!SourceErrors(s)
  BY <1>8, StreamOpensInv, StreamErrorsInv
<1>9. CASE Stream!TimerFires
  <2>1. /\ timer /\ timer' = FALSE /\ authenticated /\ probes' = probes + 1
        /\ UNCHANGED <<authenticated, status, source, manual, es, tickets, entering, refreshing,
                       refreshFailed, phantom>>
    BY <1>9 DEF Stream!TimerFires, Stream!LogoutStays
  <2>2. probes' \in Nat /\ probes' > 0
    BY <2>1
  <2>3. Stream!Shape' /\ Stream!LogoutStays'
    BY <2>1 DEF Stream!Shape, Stream!LogoutStays
  <2>4. Stream!StatusIsTrue'
    BY <2>1, <2>2 DEF Stream!StatusIsTrue, Stream!NoneReplaced
  <2> QED
    BY <2>1, <2>2, <2>3, <2>4
<1>10. CASE Stream!Probed
  <2>1. probes' \in Nat
    BY <1>10 DEF Stream!Probed
  <2>2. CASE authenticated
    BY <1>10, <2>1, <2>2, StreamStartInv DEF Stream!Probed
  <2>3. CASE ~authenticated
    BY <1>10, <2>1, <2>3, StreamQuietInv DEF Stream!Probed
  <2> QED
    BY <2>2, <2>3
<1>11. CASE Stream!SessionEnded
  <2>1. probes' \in Nat
    BY <1>11 DEF Stream!SessionEnded
  <2>2. CASE authenticated
    BY <1>11, <2>1, <2>2, StreamClearInv DEF Stream!SessionEnded
  <2>3. CASE ~authenticated
    BY <1>11, <2>1, <2>3, StreamQuietInv DEF Stream!SessionEnded
  <2> QED
    BY <2>2, <2>3
<1>12. CASE Stream!Refreshed \/ Stream!RefreshFails
  <2>1. refreshing' \in Nat
    BY <1>12 DEF Stream!Refreshed, Stream!RefreshFails
  <2>2. refreshFailed' \in BOOLEAN
    BY <1>12 DEF Stream!Refreshed, Stream!RefreshFails
  <2> QED
    BY <1>12, <2>1, <2>2, StreamQuietInv DEF Stream!Refreshed, Stream!RefreshFails,
                                             Stream!StatusIsTrue
<1>13. CASE UNCHANGED Stream!vars
  BY <1>13, StreamQuietInv DEF Stream!vars, Stream!StatusIsTrue
<1> QED
  BY <1>1, <1>2, <1>3, <1>4, <1>5, <1>6, <1>7, <1>8, <1>9, <1>10, <1>11, <1>12, <1>13
     DEF Stream!Next, Stream!Progress

THEOREM StreamInvariance == Stream!Spec => []Stream!IInv
  BY StreamInitInv, StreamNextInv, PTL DEF Stream!Spec

-----------------------------------------------------------------------------
(* Trust in the key of a contact.                                          *)

\* What the invariant says of the trust alone.
TrustSound(t) ==
  /\ t \in [pin : Nat, observed : Nat, key : Nat, mismatch : BOOLEAN, unverified : BOOLEAN]
  /\ {t.pin, t.observed, t.key} \subseteq 0..serverKey
  /\ IF t.pin = 0 THEN ~t.mismatch ELSE ~t.unverified /\ t.key = t.pin
  /\ t.pin # 0 => t.pin \in confirmed
  /\ t.pin = 0 /\ t.key # 0 => t.unverified

LEMMA SoundTrust ==
  ASSUME Trust!IInv
  PROVE  TrustSound(trust)
  BY DEF Trust!IInv, Trust!Shape, Trust!KeysExist, Trust!TypeOK, Trust!OnlyConfirmedKeys,
         Trust!PinIsConfirmed, Trust!UnpinnedIsUnverified,
         TrustSound

\* Whatever key arrives, the pin stays, and the key in use is the pin if there
\* is one (cachePeerInfo).
LEMMA CachedSound ==
  ASSUME NEW t, TrustSound(t), serverKey \in Nat, NEW k \in 0..serverKey
  PROVE  /\ TrustSound(Trust!Cached(t, k))
         /\ Trust!Cached(t, k).pin = t.pin
         /\ t.pin # 0 => Trust!Cached(t, k).key = t.pin
         /\ t.pin = 0 => Trust!Cached(t, k).key = k
<1>1. k \in Nat /\ t.pin \in Nat
  BY DEF TrustSound
<1>2. CASE t.pin = 0
  BY <1>1, <1>2 DEF Trust!Cached, TrustSound
<1>3. CASE t.pin # 0
  BY <1>1, <1>3 DEF Trust!Cached, TrustSound
<1> QED
  BY <1>2, <1>3

\* The rest of the invariant, and how a step keeps it.
TrustRest ==
  /\ serverKey \in Trust!Key
  /\ {trustOpening, dialog} \subseteq 0..serverKey
  /\ wire \cup rows \cup confirmed \subseteq 1..serverKey
  /\ message \in {"none", "queued", "failed", "sent"}
  /\ batches \subseteq BOOLEAN
  /\ encrypted \in [key : Nat, paused : BOOLEAN, pin : Nat, known : BOOLEAN,
                    how : {"none", "typed", "file", "again"}]
  /\ Trust!TypedIsTrusted /\ Trust!FilesAreTrusted /\ Trust!PinIsUsed

LEMMA TrustParts ==
  ASSUME Trust!TrustAssumption
  PROVE  Trust!IInv <=> TrustSound(trust) /\ TrustRest /\ Trust!KnownIsPinned
<1>1. ASSUME TrustSound(trust), TrustRest, Trust!KnownIsPinned PROVE Trust!IInv
  <2>1. 0..serverKey \subseteq {0} \cup Trust!Key
    BY <1>1 DEF TrustRest, Trust!Key, Trust!TrustAssumption
  <2> QED
    BY <1>1, <2>1 DEF Trust!IInv, Trust!Shape, Trust!KeysExist, Trust!TypeOK,
                      Trust!OnlyConfirmedKeys, Trust!PinIsConfirmed,
                      Trust!UnpinnedIsUnverified, TrustSound, TrustRest
<1>2. Trust!IInv => TrustRest /\ Trust!KnownIsPinned
  BY DEF Trust!IInv, Trust!Shape, Trust!KeysExist, Trust!TypeOK, Trust!OnlyConfirmedKeys,
         TrustRest
<1> QED
  BY <1>1, <1>2, SoundTrust

\* Steps that leave the pin alone and the trust sound.
LEMMA TrustSoundInv ==
  ASSUME Trust!TrustAssumption, Trust!IInv, TrustSound(trust'), trust'.pin = trust.pin,
         UNCHANGED <<serverKey, confirmed, encrypted>>,
         {trustOpening', dialog'} \subseteq 0..serverKey,
         wire' \cup rows' \subseteq 1..serverKey,
         message' \in {"none", "queued", "failed", "sent"}, batches' \subseteq BOOLEAN,
         TRUE \in batches' => TRUE \in batches \/ trust.pin # 0
  PROVE  Trust!IInv'
<1>1. TrustSound(trust) /\ TrustRest /\ Trust!KnownIsPinned /\ serverKey \in Nat
  BY TrustParts DEF TrustRest, Trust!Key
<1>2. TrustSound(trust)'
  BY <1>1 DEF TrustSound
<1>3. TrustRest'
  BY <1>1 DEF TrustRest, Trust!TypedIsTrusted, Trust!FilesAreTrusted, Trust!PinIsUsed
<1>4. Trust!KnownIsPinned'
  BY <1>1 DEF Trust!KnownIsPinned
<1>5. TrustSound(trust)' /\ TrustRest' /\ Trust!KnownIsPinned' => Trust!IInv'
  BY TrustParts, PTL
<1> QED
  BY <1>2, <1>3, <1>4, <1>5

\* Steps that leave the trust alone, and those that only let a key arrive.
LEMMA TrustArrivalInv ==
  ASSUME Trust!TrustAssumption, Trust!IInv,
         trust' = trust \/ \E k \in 0..serverKey : trust' = Trust!Cached(trust, k),
         UNCHANGED <<serverKey, confirmed, encrypted>>,
         {trustOpening', dialog'} \subseteq 0..serverKey,
         wire' \cup rows' \subseteq 1..serverKey,
         message' \in {"none", "queued", "failed", "sent"}, batches' \subseteq BOOLEAN,
         TRUE \in batches' => TRUE \in batches \/ trust.pin # 0
  PROVE  Trust!IInv'
<1>1. TrustSound(trust) /\ serverKey \in Nat
  BY TrustParts DEF TrustRest, Trust!Key
<1>2. TrustSound(trust') /\ trust'.pin = trust.pin
  BY <1>1, CachedSound
<1> QED
  BY <1>2, TrustSoundInv

LEMMA TrustInitInv == Trust!TrustAssumption /\ Trust!Init => Trust!IInv
<1> SUFFICES ASSUME Trust!TrustAssumption, Trust!Init PROVE Trust!IInv
  OBVIOUS
<1>1. 1 \in Trust!Key
  BY DEF Trust!TrustAssumption, Trust!Key
<1>2. TrustSound(trust) /\ TrustRest /\ Trust!KnownIsPinned
  BY <1>1 DEF Trust!Init, TrustSound, TrustRest, Trust!TypedIsTrusted, Trust!FilesAreTrusted,
              Trust!PinIsUsed, Trust!KnownIsPinned, Trust!NotSent
<1> QED
  BY <1>2, TrustParts

\* The contact changes its key: what the page knows stays old.
LEMMA TrustRotateInv ==
  ASSUME Trust!TrustAssumption, Trust!IInv, Trust!Rotate
  PROVE  Trust!IInv'
<1>1. TrustSound(trust) /\ TrustRest /\ Trust!KnownIsPinned
  BY TrustParts
<1>2. /\ serverKey \in Nat /\ serverKey' = serverKey + 1 /\ serverKey' \in Trust!Key
      /\ UNCHANGED <<trust, wire, rows, trustOpening, dialog, confirmed, message, batches, encrypted>>
  BY <1>1 DEF Trust!Rotate, TrustRest, Trust!Key, Trust!TrustAssumption
<1>3. 0..serverKey \subseteq 0..serverKey' /\ 1..serverKey \subseteq 1..serverKey'
  BY <1>2
<1>4. TrustSound(trust)'
  BY <1>1, <1>2, <1>3 DEF TrustSound
<1>5. TrustRest'
  BY <1>1, <1>2, <1>3 DEF TrustRest, Trust!TypedIsTrusted, Trust!FilesAreTrusted, Trust!PinIsUsed
<1>6. Trust!KnownIsPinned'
  BY <1>1, <1>2 DEF Trust!KnownIsPinned
<1>7. TrustSound(trust)' /\ TrustRest' /\ Trust!KnownIsPinned' => Trust!IInv'
  BY TrustParts, PTL
<1> QED
  BY <1>4, <1>5, <1>6, <1>7

\* The user confirms the key of the dialog (trustObservedPeerKey).
LEMMA TrustConfirmInv ==
  ASSUME Trust!TrustAssumption, Trust!IInv, Trust!Confirm
  PROVE  Trust!IInv'
<1>1. TrustSound(trust) /\ TrustRest /\ Trust!KnownIsPinned
  BY TrustParts
<1> DEFINE t == [trust EXCEPT !.pin = dialog, !.key = dialog, !.mismatch = FALSE,
                              !.unverified = FALSE]
<1>2. /\ dialog # 0 /\ dialog' = 0 /\ confirmed' = confirmed \cup {dialog}
      /\ trust' = t
      /\ UNCHANGED <<serverKey, wire, rows, trustOpening, message, batches, encrypted>>
  BY DEF Trust!Confirm, Trust!Trust
<1>3. serverKey \in Nat /\ dialog \in 1..serverKey
  BY <1>1, <1>2 DEF TrustRest, Trust!Key
<1>4. /\ t.pin = dialog /\ t.key = dialog /\ t.observed = trust.observed
      /\ t.mismatch = FALSE /\ t.unverified = FALSE
      /\ t \in [pin : Nat, observed : Nat, key : Nat, mismatch : BOOLEAN, unverified : BOOLEAN]
  <2>1. /\ trust \in [pin : Nat, observed : Nat, key : Nat, mismatch : BOOLEAN, unverified : BOOLEAN]
        /\ dialog \in Nat
    BY <1>1, <1>3 DEF TrustSound
  <2> QED
    BY <2>1
<1> HIDE DEF t
<1>5. TrustSound(trust)'
  BY <1>1, <1>2, <1>3, <1>4 DEF TrustSound
<1>6. TrustRest'
  BY <1>1, <1>2, <1>3 DEF TrustRest, Trust!TypedIsTrusted, Trust!FilesAreTrusted, Trust!PinIsUsed
<1>7. Trust!KnownIsPinned'
  BY <1>2, <1>4 DEF Trust!KnownIsPinned
<1>8. TrustSound(trust)' /\ TrustRest' /\ Trust!KnownIsPinned' => Trust!IInv'
  BY TrustParts, PTL
<1> QED
  BY <1>5, <1>6, <1>7, <1>8

\* A message is encrypted for the key in use; what is typed only if the trust is not
\* in doubt, an attachment whose batch knew the key only if there is a pin
\* (encryptOutboundMessage).
LEMMA TrustEncryptInv ==
  ASSUME Trust!TrustAssumption, Trust!IInv, NEW way \in {"typed", "file", "again"},
         NEW knew \in BOOLEAN, way = "typed" => ~Trust!Paused(trust),
         way = "file" /\ knew => trust.pin # 0,
         Trust!Encrypt(way, knew), UNCHANGED <<serverKey, wire, rows, trustOpening, dialog,
         confirmed>>, batches' \subseteq batches
  PROVE  Trust!IInv'
<1> DEFINE t == Trust!Cached(trust, trust.key)
<1>1. /\ TrustSound(trust) /\ TrustRest /\ Trust!KnownIsPinned
      /\ serverKey \in Nat /\ trust.key \in 0..serverKey
      /\ batches' \subseteq BOOLEAN /\ (TRUE \in batches' => TRUE \in batches)
  <2>1. TrustSound(trust) /\ TrustRest /\ Trust!KnownIsPinned
    BY TrustParts
  <2>2. serverKey \in Nat /\ trust.key \in 0..serverKey /\ batches \subseteq BOOLEAN
    BY <2>1 DEF TrustRest, Trust!Key, TrustSound
  <2>3. batches' \subseteq BOOLEAN /\ (TRUE \in batches' => TRUE \in batches)
    BY <2>2
  <2> QED
    BY <2>1, <2>2, <2>3
<1>2. CASE UNCHANGED encrypted
  <2>1. trust' = trust \/ trust' = t
    BY DEF Trust!Encrypt, Trust!Trust
  <2>2. message' \in {"none", "queued", "failed", "sent"}
    BY <1>1 DEF Trust!Encrypt, TrustRest
  <2> QED
    BY <1>1, <1>2, <2>1, <2>2, TrustArrivalInv DEF TrustRest
<1>3. CASE ~UNCHANGED encrypted
  <2>1. /\ trust.key # 0 /\ trust' = t
        /\ message' \in {"none", "queued", "failed", "sent"}
        /\ encrypted' = [key |-> t.key, paused |-> Trust!Paused(trust), pin |-> t.pin,
                         how |-> way, known |-> knew]
    BY <1>1, <1>3 DEF Trust!Encrypt, Trust!Trust, TrustRest
  <2>2. /\ TrustSound(t) /\ t.pin = trust.pin
        /\ trust.pin # 0 => t.key = trust.pin
    BY <1>1, CachedSound
  <2> HIDE DEF t
  <2>3. TrustSound(trust)'
    BY <2>1, <2>2 DEF TrustSound
  <2>4. Trust!Paused(trust) \in BOOLEAN
    BY <1>1 DEF Trust!Paused, TrustSound
  <2>5. way = "typed" => trust.pin # 0 /\ ~Trust!Paused(trust)
    BY <1>1, <2>1 DEF Trust!Paused, TrustSound
  <2>6. /\ encrypted'.key = t.key /\ encrypted'.pin = trust.pin
        /\ encrypted'.paused = Trust!Paused(trust)
        /\ encrypted'.how = way /\ encrypted'.known = knew
        /\ trust.pin # 0 => t.key \in confirmed
    BY <1>1, <2>1, <2>2 DEF TrustSound
  <2>7. Trust!TypedIsTrusted' /\ Trust!FilesAreTrusted' /\ Trust!PinIsUsed'
    BY <2>2, <2>5, <2>6 DEF Trust!TypedIsTrusted, Trust!FilesAreTrusted, Trust!PinIsUsed
  <2>8. encrypted' \in [key : Nat, paused : BOOLEAN, pin : Nat, known : BOOLEAN,
                        how : {"none", "typed", "file", "again"}]
    BY <2>1, <2>2, <2>4 DEF TrustSound
  <2>9. TrustRest' /\ Trust!KnownIsPinned'
    BY <1>1, <2>1, <2>2, <2>7, <2>8 DEF TrustRest, Trust!KnownIsPinned
  <2>10. TrustSound(trust)' /\ TrustRest' /\ Trust!KnownIsPinned' => Trust!IInv'
    BY TrustParts, PTL
  <2> QED
    BY <2>3, <2>9, <2>10
<1> QED
  BY <1>2, <1>3

\* A message or an attachment is sent, or put off while there is no connection.
LEMMA TrustSendInv ==
  ASSUME Trust!TrustAssumption, Trust!IInv, NEW way \in {"typed", "file", "again"},
         NEW knew \in BOOLEAN, way = "typed" => ~Trust!Paused(trust),
         way = "file" /\ knew => trust.pin # 0, Trust!Send(way, knew),
         batches' \subseteq batches
  PROVE  Trust!IInv'
<1>1. UNCHANGED <<serverKey, wire, rows, trustOpening, dialog, confirmed>>
  BY DEF Trust!Send
<1>2. CASE trustConnected
  BY <1>1, <1>2, TrustEncryptInv DEF Trust!Send
<1>3. CASE ~trustConnected
  <2>1. TrustRest
    BY TrustParts
  <2>2. message' = "queued" /\ UNCHANGED <<trust, encrypted>>
    BY <1>3 DEF Trust!Send
  <2> QED
    BY <1>1, <2>1, <2>2, TrustArrivalInv DEF TrustRest
<1> QED
  BY <1>2, <1>3

LEMMA TrustNextInv ==
  ASSUME Trust!TrustAssumption, Trust!IInv, [Trust!Next]_(Trust!vars)
  PROVE  Trust!IInv'
<1>1. /\ TrustRest /\ TrustSound(trust) /\ Trust!KnownIsPinned
      /\ batches \subseteq BOOLEAN
      /\ serverKey \in Nat /\ serverKey \in 1..serverKey /\ serverKey \in 0..serverKey
      /\ trustOpening \in 0..serverKey /\ trust.observed \in 0..serverKey
      /\ \A k \in wire \cup rows : k \in 0..serverKey
  BY TrustParts DEF TrustRest, Trust!Key, TrustSound
<1>2. CASE Trust!PeerSends \/ Trust!Answer
  BY <1>1, <1>2, TrustArrivalInv DEF Trust!PeerSends, Trust!Answer, TrustRest
<1>3. ASSUME NEW k \in Trust!Key, Trust!Arrive(k)
      PROVE  Trust!IInv'
  BY <1>1, <1>3, TrustArrivalInv DEF Trust!Arrive, Trust!Trust, TrustRest
<1>4. ASSUME NEW k \in Trust!Key, Trust!Open(k)
      PROVE  Trust!IInv'
  BY <1>1, <1>4, TrustArrivalInv DEF Trust!Open, Trust!Trust, TrustRest
<1>5. ASSUME NEW k \in Trust!Key, Trust!LoadOlder(k)
      PROVE  Trust!IInv'
  <2>1. trust' = Trust!Cached(Trust!Cached(trust, serverKey), k) /\ k \in 0..serverKey
    BY <1>1, <1>5 DEF Trust!LoadOlder
  <2>2. UNCHANGED <<serverKey, confirmed, encrypted, trustOpening, dialog, wire, rows, message,
                    batches>>
    BY <1>5 DEF Trust!LoadOlder
  <2>3. /\ {trustOpening', dialog'} \subseteq 0..serverKey
        /\ wire' \cup rows' \subseteq 1..serverKey /\ batches' \subseteq BOOLEAN
        /\ message' \in {"none", "queued", "failed", "sent"}
        /\ TRUE \in batches' => TRUE \in batches \/ trust.pin # 0
    BY <1>1, <2>2 DEF TrustRest
  <2>4. PICK t : t = Trust!Cached(trust, serverKey)
    OBVIOUS
  <2>5. TrustSound(t) /\ t.pin = trust.pin
    BY <1>1, <2>4, CachedSound
  <2>6. TrustSound(trust') /\ trust'.pin = trust.pin
    BY <1>1, <2>1, <2>4, <2>5, CachedSound
  <2>7. UNCHANGED <<serverKey, confirmed, encrypted>>
    BY <2>2
  <2> QED
    BY <2>3, <2>6, <2>7, TrustSoundInv
<1>6. CASE Trust!OpenShown
  <2>1. \E k \in 0..serverKey : trust' = Trust!Cached(trust, k)
    BY <1>1, <1>6 DEF Trust!OpenShown, Trust!Trust
  <2>2. /\ trustOpening' = 0 /\ 0 \in 0..serverKey
        /\ UNCHANGED <<serverKey, confirmed, encrypted, dialog, wire, rows, message, batches>>
    BY <1>1, <1>6 DEF Trust!OpenShown
  <2> QED
    BY <1>1, <2>1, <2>2, TrustArrivalInv DEF TrustRest
<1>7. CASE Trust!AskTrust \/ Trust!CancelTrust
  <2>1. 0 \in 0..serverKey
    BY <1>1
  <2> QED
    BY <1>1, <1>7, <2>1, TrustArrivalInv DEF Trust!AskTrust, Trust!CancelTrust, TrustRest
<1>8. CASE Trust!Submit
  <2>1. PICK knew \in BOOLEAN : Trust!Send("typed", knew)
    BY <1>8 DEF Trust!Submit
  <2> QED
    BY <1>8, <2>1, TrustSendInv DEF Trust!Submit
<1>9. ASSUME NEW here \in BOOLEAN, Trust!ChooseFiles(here)
      PROVE  Trust!IInv'
  <2>1. /\ batches' = batches \cup {here /\ trust.key # 0}
        /\ here => ~Trust!Paused(trust)
        /\ UNCHANGED <<trust, serverKey, wire, rows, trustOpening, dialog, confirmed, message,
                       encrypted>>
    BY <1>9 DEF Trust!ChooseFiles
  <2>2. here /\ trust.key # 0 => trust.pin # 0
    BY <1>1, <2>1 DEF TrustSound, Trust!Paused
  <2>3. /\ batches' \subseteq BOOLEAN
        /\ TRUE \in batches' => TRUE \in batches \/ trust.pin # 0
    BY <1>1, <2>1, <2>2
  <2> QED
    BY <1>1, <2>1, <2>3, TrustArrivalInv DEF TrustRest
<1>10. ASSUME NEW knew \in BOOLEAN, Trust!SendFile(knew)
       PROVE  Trust!IInv'
  <2>1. knew \in batches /\ batches' \subseteq batches /\ Trust!Send("file", knew)
    BY <1>10 DEF Trust!SendFile
  <2>2. knew => trust.pin # 0
    BY <1>1, <2>1 DEF Trust!KnownIsPinned
  <2> QED
    BY <2>1, <2>2, TrustSendInv
<1>11. CASE Trust!Resend
  BY <1>11, TrustSendInv DEF Trust!Resend
<1>12. CASE Trust!Connection \/ UNCHANGED Trust!vars
  BY <1>1, <1>12, TrustArrivalInv DEF Trust!Connection, Trust!vars, TrustRest
<1> QED
  BY <1>2, <1>3, <1>4, <1>5, <1>6, <1>7, <1>8, <1>9, <1>10, <1>11, <1>12, TrustRotateInv,
     TrustConfirmInv DEF Trust!Next

\* The invariant of the trust holds on every page, however long it is used.
THEOREM TrustInvariance == ASSUME Trust!TrustAssumption PROVE Trust!Spec => []Trust!IInv
<1>1. Trust!Init => Trust!IInv
  BY TrustInitInv
<1>2. Trust!IInv /\ [Trust!Next]_(Trust!vars) => Trust!IInv'
  BY TrustNextInv
<1> QED
  BY <1>1, <1>2, PTL DEF Trust!Spec

-----------------------------------------------------------------------------
(* The keys of the account: types.                                         *)

KeysAccountFits(a, p, k) ==
  /\ a \in [pw : Nat, key : Nat, bundle : Keys!Bundle]
  /\ a.pw \in 1..p /\ a.key \in 1..k /\ a.bundle.key \in 0..k /\ a.bundle.pw \in 0..p

\* The types, device by device.
KeysTypes ==
  /\ legacy \in BOOLEAN /\ passwords \in Nat /\ keys \in Nat
  /\ KeysAccountFits(account, passwords, keys)
  /\ session \in [Device -> Nat] /\ keysVault \in [Device -> Nat] /\ identity \in [Device -> Nat]
  /\ DOMAIN login = Device /\ DOMAIN post = Device
  /\ \A d \in Device : /\ session[d] <= passwords /\ keysVault[d] <= keys /\ identity[d] <= keys
                       /\ Keys!LoginFits(login[d], passwords, keys)
                       /\ Keys!PostFits(post[d], passwords, keys)

LEMMA KeysTypesAre == KeysTypes <=> Keys!TypeOK /\ Keys!Shape
<1>1. KeysTypes => Keys!TypeOK /\ Keys!Shape
  BY DEF KeysTypes, Keys!TypeOK, Keys!Shape, KeysAccountFits, Keys!PostFits
<1>2. ASSUME Keys!TypeOK, Keys!Shape PROVE KeysTypes
  <2>1. KeysAccountFits(account, passwords, keys)
    BY <1>2 DEF Keys!TypeOK, Keys!Shape, KeysAccountFits
  <2>2. session \in [Device -> Nat] /\ keysVault \in [Device -> Nat] /\ identity \in [Device -> Nat]
    BY <1>2 DEF Keys!Shape
  <2>3. \A d \in Device : session[d] <= passwords /\ keysVault[d] <= keys /\ identity[d] <= keys
    BY <1>2 DEF Keys!TypeOK, Keys!Shape
  <2> QED
    BY <1>2, <2>1, <2>2, <2>3 DEF KeysTypes, Keys!Shape
<1> QED
  BY <1>1, <1>2

LEMMA KeysGrow ==
  ASSUME NEW p \in Nat, NEW k \in Nat, NEW p1 \in Nat, NEW k1 \in Nat, p <= p1, k <= k1
  PROVE  /\ \A l : Keys!LoginFits(l, p, k) => Keys!LoginFits(l, p1, k1)
         /\ \A q : Keys!PostFits(q, p, k) => Keys!PostFits(q, p1, k1)
         /\ \A a : KeysAccountFits(a, p, k) => KeysAccountFits(a, p1, k1)
<1>1. ASSUME NEW l, Keys!LoginFits(l, p, k) PROVE Keys!LoginFits(l, p1, k1)
  <2>1. l.pw \in Nat /\ l.key \in Nat /\ l.bundle.pw \in Nat /\ l.bundle.key \in Nat
    BY <1>1 DEF Keys!LoginFits, Keys!Bundle
  <2> QED
    BY <1>1, <2>1 DEF Keys!LoginFits
<1>2. ASSUME NEW q, Keys!PostFits(q, p, k) PROVE Keys!PostFits(q, p1, k1)
  <2>1. q.pw \in Nat /\ q.key \in Nat /\ q.new \in Nat
    BY <1>2 DEF Keys!PostFits
  <2> QED
    BY <1>2, <2>1 DEF Keys!PostFits
<1>3. ASSUME NEW a, KeysAccountFits(a, p, k) PROVE KeysAccountFits(a, p1, k1)
  BY <1>3 DEF KeysAccountFits
<1> QED
  BY <1>1, <1>2, <1>3

\* A step changes the entries of one device only, but for a change of the
\* password, which ends the sessions of all.
LEMMA KeysOneDevice ==
  ASSUME KeysTypes, NEW d \in Device, UNCHANGED legacy,
         passwords' \in Nat, keys' \in Nat, passwords <= passwords', keys <= keys',
         account' = account \/ KeysAccountFits(account', passwords', keys'),
         session' = session \/ (session' \in [Device -> Nat] /\ \A e \in Device : session'[e] <= passwords'),
         keysVault' = keysVault \/ \E v \in 0..keys' : keysVault' = [keysVault EXCEPT ![d] = v],
         identity' = identity \/ \E v \in 0..keys' : identity' = [identity EXCEPT ![d] = v],
         login' = login \/ \E l : Keys!LoginFits(l, passwords',
         keys') /\ login' = [login EXCEPT ![d] = l],
         post' = post \/ \E q : Keys!PostFits(q, passwords',
         keys') /\ post' = [post EXCEPT ![d] = q]
  PROVE  KeysTypes'
<1>1. KeysAccountFits(account', passwords', keys')
  BY KeysGrow DEF KeysTypes
<1>2. session' \in [Device -> Nat] /\ \A e \in Device : session'[e] <= passwords'
  BY DEF KeysTypes
<1>3. keysVault' \in [Device -> Nat] /\ \A e \in Device : keysVault'[e] <= keys'
  BY DEF KeysTypes
<1>4. identity' \in [Device -> Nat] /\ \A e \in Device : identity'[e] <= keys'
  BY DEF KeysTypes
<1>5. DOMAIN login' = Device /\ \A e \in Device : Keys!LoginFits(login'[e], passwords', keys')
  <2>1. \A e \in Device : Keys!LoginFits(login[e], passwords', keys')
    BY KeysGrow DEF KeysTypes
  <2> QED
    BY <2>1 DEF KeysTypes
<1>6. DOMAIN post' = Device /\ \A e \in Device : Keys!PostFits(post'[e], passwords', keys')
  <2>1. \A e \in Device : Keys!PostFits(post[e], passwords', keys')
    BY KeysGrow DEF KeysTypes
  <2> QED
    BY <2>1 DEF KeysTypes
<1> QED
  BY <1>1, <1>2, <1>3, <1>4, <1>5, <1>6 DEF KeysTypes
\* The records that a step writes.
LEMMA KeysFits ==
  ASSUME NEW p \in Nat, NEW k \in Nat
  PROVE  /\ \A w \in 1..p, x \in 1..k, y \in 0..k, z \in 0..p :
              KeysAccountFits([pw |-> w, key |-> x, bundle |-> [key |-> y, pw |-> z]], p, k)
         /\ \A s \in {"none", "verified", "answered", "rebuilding", "rebuilt"}, w \in 0..p,
               x \in 0..k, b \in Keys!Bundle :
              b.key <= k /\ b.pw <= p =>
                Keys!LoginFits([step |-> s, pw |-> w, key |-> x, bundle |-> b], p, k)
         /\ \A x \in 0..k, w \in 0..p :
              Keys!PostFits([kind |-> "bundle", step |-> "body", key |-> x, pw |-> w,
              new |-> 0], p, k)
         /\ \A x \in 1..k, w \in 0..p :
              Keys!PostFits([kind |-> "rotate", step |-> "body", key |-> x, pw |-> w,
              new |-> 0], p, k)
         /\ \A x \in 0..k, w \in 0..p, n \in 1..p :
              Keys!PostFits([kind |-> "password", step |-> "body", key |-> x, pw |-> w,
              new |-> n], p, k)
<1>1. ASSUME NEW w \in 1..p, NEW x \in 1..k, NEW y \in 0..k, NEW z \in 0..p
      PROVE  KeysAccountFits([pw |-> w, key |-> x, bundle |-> [key |-> y, pw |-> z]], p, k)
  BY DEF KeysAccountFits, Keys!Bundle
<1>2. ASSUME NEW s \in {"none", "verified", "answered", "rebuilding", "rebuilt"}, NEW w \in 0..p,
             NEW x \in 0..k, NEW b \in Keys!Bundle, b.key <= k, b.pw <= p
      PROVE  Keys!LoginFits([step |-> s, pw |-> w, key |-> x, bundle |-> b], p, k)
  BY <1>2 DEF Keys!LoginFits
<1>3. ASSUME NEW x \in 0..k, NEW w \in 0..p
      PROVE  Keys!PostFits([kind |-> "bundle", step |-> "body", key |-> x, pw |-> w, new |-> 0], p, k)
  BY DEF Keys!PostFits
<1>4. ASSUME NEW x \in 1..k, NEW w \in 0..p
      PROVE  Keys!PostFits([kind |-> "rotate", step |-> "body", key |-> x, pw |-> w, new |-> 0], p, k)
  BY DEF Keys!PostFits
<1>5. ASSUME NEW x \in 0..k, NEW w \in 0..p, NEW n \in 1..p
      PROVE  Keys!PostFits([kind |-> "password", step |-> "body", key |-> x, pw |-> w, new |-> n], p, k)
  BY DEF Keys!PostFits
<1> QED
  BY <1>1, <1>2, <1>3, <1>4, <1>5

LEMMA KeysNothing ==
  ASSUME KeysTypes
  PROVE  Keys!LoginFits(Keys!NoLogin, passwords, keys) /\ Keys!PostFits(Keys!NoPost, passwords, keys)
  BY DEF KeysTypes, Keys!NoLogin, Keys!NoPost, Keys!NoBundle, Keys!Bundle, Keys!LoginFits,
         Keys!PostFits

\* The device has got in (setSession).
LEMMA KeysEnterTypes ==
  ASSUME KeysTypes, NEW d \in Device, Keys!Enter(d, login[d].key),
         UNCHANGED <<legacy, account, session, passwords, keys>>
  PROVE  KeysTypes'
<1> DEFINE q == [kind |-> "bundle", step |-> "body", key |-> login[d].key, pw |-> login[d].pw, new |-> 0]
           x == login[d].key
<1>1. Keys!LoginFits(login[d], passwords, keys) /\ passwords \in Nat /\ keys \in Nat
  BY DEF KeysTypes
<1>2. x \in 0..keys /\ login[d].pw \in 0..passwords
  BY <1>1 DEF Keys!LoginFits
<1>3. Keys!PostFits(q, passwords, keys)
  BY <1>1, <1>2, KeysFits
<1>4. /\ identity' = [identity EXCEPT ![d] = x]
      /\ keysVault' = [keysVault EXCEPT ![d] = x]
      /\ login' = [login EXCEPT ![d] = Keys!NoLogin]
      /\ post' = [post EXCEPT ![d] = q] \/ post' = [post EXCEPT ![d] = Keys!NoPost]
  BY DEF Keys!Enter
<1> HIDE DEF q, x
<1>5. /\ passwords' \in Nat /\ keys' \in Nat /\ passwords <= passwords' /\ keys <= keys'
      /\ x \in 0..keys' /\ Keys!PostFits(q, passwords', keys') /\ Keys!PostFits(Keys!NoPost, passwords', keys')
      /\ Keys!LoginFits(Keys!NoLogin, passwords', keys')
  BY <1>1, <1>2, <1>3, KeysNothing
<1>6. \E r : Keys!PostFits(r, passwords', keys') /\ post' = [post EXCEPT ![d] = r]
  BY <1>4, <1>5
<1> QED
  BY <1>4, <1>5, <1>6, KeysOneDevice

\* What a device was told or has asked for stays within what was given out.
LEMMA KeysNextTypes ==
  ASSUME KeysTypes, [Keys!Next]_(Keys!vars)
  PROVE  KeysTypes'
<1>1. /\ legacy \in BOOLEAN /\ passwords \in Nat /\ keys \in Nat
      /\ passwords <= passwords /\ keys <= keys
      /\ account.pw \in 1..passwords /\ account.key \in 1..keys
      /\ account.bundle \in Keys!Bundle /\ account.bundle.key <= keys /\ account.bundle.pw <= passwords
      /\ 0 \in 0..keys /\ 0 \in 0..passwords
      /\ account.pw \in 0..passwords /\ account.key \in 0..keys
  BY DEF KeysTypes, KeysAccountFits
<1>2. ASSUME NEW d \in Device
      PROVE  /\ login[d].pw \in 0..passwords /\ login[d].key \in 0..keys
             /\ login[d].bundle \in Keys!Bundle
             /\ login[d].bundle.key <= keys /\ login[d].bundle.pw <= passwords
             /\ keysVault[d] \in 0..keys /\ identity[d] \in 0..keys /\ session[d] \in 0..passwords
             /\ post[d].key \in 0..keys /\ post[d].pw \in 0..passwords /\ post[d].new \in 0..passwords
             /\ post[d].kind = "rotate" => post[d].key \in 1..keys
             /\ post[d].kind = "password" => post[d].new \in 1..passwords
             /\ post[d].kind # "none" =>
                  Keys!PostFits([post[d] EXCEPT !.step = "verified"], passwords, keys)
             /\ Keys!LoginFits([login[d] EXCEPT !.step = "rebuilding"], passwords, keys)
  <2>1. Keys!LoginFits(login[d], passwords, keys) /\ Keys!PostFits(post[d], passwords, keys)
    BY DEF KeysTypes
  <2>2. keysVault[d] \in 0..keys /\ identity[d] \in 0..keys /\ session[d] \in 0..passwords
    BY DEF KeysTypes
  <2>3. /\ login[d].pw \in 0..passwords /\ login[d].key \in 0..keys
        /\ login[d].bundle \in Keys!Bundle
        /\ login[d].bundle.key <= keys /\ login[d].bundle.pw <= passwords
        /\ Keys!LoginFits([login[d] EXCEPT !.step = "rebuilding"], passwords, keys)
    BY <1>1, <2>1 DEF Keys!LoginFits
  <2>4. /\ post[d].key \in 0..keys /\ post[d].pw \in 0..passwords /\ post[d].new \in 0..passwords
        /\ post[d].kind = "rotate" => post[d].key \in 1..keys
        /\ post[d].kind = "password" => post[d].new \in 1..passwords
        /\ post[d].kind # "none" =>
             Keys!PostFits([post[d] EXCEPT !.step = "verified"], passwords, keys)
    BY <1>1, <2>1 DEF Keys!PostFits
  <2> QED
    BY <2>2, <2>3, <2>4
<1>3. ASSUME NEW d \in Device, Keys!LoginVerified(d)
      PROVE  KeysTypes'
  <2> DEFINE l == [step |-> "verified", pw |-> account.pw, key |-> 0, bundle |-> Keys!NoBundle]
  <2>1. Keys!LoginFits(l, passwords, keys)
    <3>1. Keys!NoBundle \in Keys!Bundle /\ Keys!NoBundle.key <= keys /\ Keys!NoBundle.pw <= passwords
      BY <1>1 DEF Keys!NoBundle, Keys!Bundle
    <3> QED
      BY <1>1, <3>1, KeysFits
  <2>2. /\ login' = [login EXCEPT ![d] = l]
        /\ UNCHANGED <<legacy, account, session, keysVault, identity, post, passwords, keys>>
    BY <1>3 DEF Keys!LoginVerified
  <2> HIDE DEF l
  <2> QED
    BY <1>1, <2>1, <2>2, KeysOneDevice
<1>4. ASSUME NEW d \in Device, Keys!LoginAnswered(d)
      PROVE  KeysTypes'
  <2> DEFINE l == [step |-> "answered", pw |-> login[d].pw, key |-> account.key, bundle |-> account.bundle]
  <2>1. Keys!LoginFits(l, passwords, keys)
    BY <1>1, <1>2, KeysFits
  <2>2. /\ login' = [login EXCEPT ![d] = l] /\ session' = [session EXCEPT ![d] = login[d].pw]
        /\ UNCHANGED <<legacy, account, keysVault, identity, post, passwords, keys>>
    BY <1>4 DEF Keys!LoginAnswered
  <2>3. session' \in [Device -> Nat] /\ \A e \in Device : session'[e] <= passwords'
    <3> HIDE DEF l
    <3>1. login[d].pw \in 0..passwords
      BY <1>2
    <3> QED
      BY <1>1, <2>2, <3>1 DEF KeysTypes
  <2> HIDE DEF l
  <2> QED
    BY <1>1, <2>1, <2>2, <2>3, KeysOneDevice
<1>5. ASSUME NEW d \in Device, Keys!Restored(d) \/ Keys!Rebuilt(d)
      PROVE  KeysTypes'
  BY <1>5, KeysEnterTypes DEF Keys!Restored, Keys!Rebuilt
<1>6. ASSUME NEW d \in Device, Keys!Refused(d)
      PROVE  KeysTypes'
  BY <1>1, <1>6, KeysNothing, KeysOneDevice DEF Keys!Refused
<1>7. ASSUME NEW d \in Device, Keys!Rebuild(d)
      PROVE  KeysTypes'
  <2> DEFINE l == [login[d] EXCEPT !.step = "rebuilding"]
             q == [kind |-> "rotate", step |-> "body", key |-> keys + 1, pw |-> login[d].pw,
             new |-> 0]
  <2>1. keys' = keys + 1 /\ UNCHANGED <<legacy, account, session, keysVault, identity, passwords>>
    BY <1>7 DEF Keys!Rebuild
  <2>2. passwords' \in Nat /\ keys' \in Nat /\ passwords <= passwords' /\ keys <= keys'
    BY <1>1, <2>1
  <2>3. Keys!LoginFits(l, passwords', keys') /\ Keys!LoginFits(Keys!NoLogin, passwords', keys')
    <3>1. Keys!LoginFits(l, passwords, keys) /\ Keys!LoginFits(Keys!NoLogin, passwords, keys)
      BY <1>2, KeysNothing
    <3> HIDE DEF l, q
    <3> QED
      BY <1>1, <2>2, <3>1, KeysGrow
  <2>4. Keys!PostFits(q, passwords', keys')
    <3>1. keys + 1 \in 1..keys'
      BY <1>1, <2>1
    <3>2. login[d].pw \in 0..passwords'
      BY <1>2, <2>1
    <3> QED
      BY <2>2, <3>1, <3>2, KeysFits
  <2>5. /\ login' = [login EXCEPT ![d] = l] \/ login' = [login EXCEPT ![d] = Keys!NoLogin]
        /\ post' = post \/ post' = [post EXCEPT ![d] = q]
    BY <1>7 DEF Keys!Rebuild
  <2> HIDE DEF l, q
  <2> QED
    BY <2>1, <2>2, <2>3, <2>4, <2>5, KeysOneDevice
<1>8. ASSUME NEW d \in Device, Keys!Reload(d)
      PROVE  KeysTypes'
  <2> DEFINE v == IF session[d] # 0 /\ keysVault[d] = account.key THEN keysVault[d] ELSE 0
  <2>1. /\ login' = [login EXCEPT ![d] = Keys!NoLogin]
        /\ identity' = [identity EXCEPT ![d] = v]
        /\ UNCHANGED <<legacy, account, session, keysVault, post, passwords, keys>>
    BY <1>8 DEF Keys!Reload
  <2>2. v \in 0..keys
    BY <1>1, <1>2
  <2> HIDE DEF v
  <2> QED
    BY <1>1, <2>1, <2>2, KeysNothing, KeysOneDevice
<1>9. ASSUME NEW d \in Device, Keys!Leave(d)
      PROVE  KeysTypes'
  <2>1. /\ identity' = [identity EXCEPT ![d] = 0] /\ session' = [session EXCEPT ![d] = 0]
        /\ UNCHANGED <<legacy, account, keysVault, login, post, passwords, keys>>
    BY <1>9 DEF Keys!Leave
  <2>2. session' \in [Device -> Nat] /\ \A e \in Device : session'[e] <= passwords'
    BY <1>1, <2>1 DEF KeysTypes
  <2>3. \E v \in 0..keys' : identity' = [identity EXCEPT ![d] = v]
    BY <1>1, <2>1
  <2> QED
    BY <1>1, <2>1, <2>2, <2>3, KeysOneDevice
<1>10. ASSUME NEW d \in Device, Keys!BundleStored(d)
       PROVE  KeysTypes'
  <2>1. /\ account' = [pw |-> account.pw, key |-> account.key,
                       bundle |-> [key |-> post[d].key, pw |-> post[d].pw]]
        /\ post' = [post EXCEPT ![d] = Keys!NoPost]
        /\ UNCHANGED <<legacy, session, keysVault, identity, login, passwords, keys>>
    BY <1>10 DEF Keys!BundleStored
  <2>2. KeysAccountFits(account', passwords, keys)
    BY <1>1, <1>2, <2>1, KeysFits
  <2> QED
    BY <1>1, <2>1, <2>2, KeysNothing, KeysOneDevice
<1>11. ASSUME NEW d \in Device, Keys!RotateVerified(d) \/ Keys!PasswordVerified(d)
       PROVE  KeysTypes'
  <2> DEFINE q == [post[d] EXCEPT !.step = "verified"]
  <2>1. /\ post' = [post EXCEPT ![d] = q] \/ post' = [post EXCEPT ![d] = Keys!NoPost]
        /\ login' = login \/ login' = [login EXCEPT ![d] = Keys!NoLogin]
        /\ UNCHANGED <<legacy, account, session, keysVault, identity, passwords, keys>>
    BY <1>11 DEF Keys!RotateVerified, Keys!PasswordVerified
  <2>2. Keys!PostFits(q, passwords, keys)
    BY <1>2, <1>11 DEF Keys!RotateVerified, Keys!PasswordVerified
  <2> HIDE DEF q
  <2> QED
    BY <1>1, <2>1, <2>2, KeysNothing, KeysOneDevice
<1>12. ASSUME NEW d \in Device, Keys!RotateStored(d)
       PROVE  KeysTypes'
  <2> DEFINE l == [step |-> "rebuilt", pw |-> login[d].pw, key |-> post[d].key, bundle |-> login[d].bundle]
  <2>1. /\ account' = [pw |-> account.pw, key |-> post[d].key,
                       bundle |-> [key |-> post[d].key, pw |-> post[d].pw]]
        /\ post' = [post EXCEPT ![d] = Keys!NoPost] /\ post[d].kind = "rotate"
        /\ login' = [login EXCEPT ![d] = l] \/ login' = login
        /\ UNCHANGED <<legacy, session, keysVault, identity, passwords, keys>>
    BY <1>12 DEF Keys!RotateStored
  <2>2. KeysAccountFits(account', passwords, keys)
    BY <1>1, <1>2, <2>1, KeysFits
  <2>3. Keys!LoginFits(l, passwords, keys)
    BY <1>1, <1>2, KeysFits
  <2> HIDE DEF l
  <2> QED
    BY <1>1, <2>1, <2>2, <2>3, KeysNothing, KeysOneDevice
<1>13. ASSUME NEW d \in Device, Keys!ChangePassword(d)
       PROVE  KeysTypes'
  <2> DEFINE q == [kind |-> "password", step |-> "body", key |-> identity[d], pw |-> account.pw,
                   new |-> passwords + 1]
  <2>1. /\ passwords' = passwords + 1 /\ post' = [post EXCEPT ![d] = q]
        /\ UNCHANGED <<legacy, account, session, keysVault, identity, login, keys>>
    BY <1>13 DEF Keys!ChangePassword
  <2>2. passwords' \in Nat /\ keys' \in Nat /\ passwords <= passwords' /\ keys <= keys'
    BY <1>1, <2>1
  <2>3. Keys!PostFits(q, passwords', keys')
    <3>1. identity[d] \in 0..keys'
      BY <1>2, <2>1
    <3>2. account.pw \in 0..passwords' /\ passwords + 1 \in 1..passwords'
      BY <1>1, <2>1
    <3> QED
      BY <2>2, <3>1, <3>2, KeysFits
  <2> HIDE DEF q
  <2> QED
    BY <2>1, <2>2, <2>3, KeysOneDevice
<1>14. ASSUME NEW d \in Device, Keys!PasswordStored(d)
       PROVE  KeysTypes'
  <2>1. /\ account' = [pw |-> post[d].new, key |-> account.key,
                       bundle |-> [key |-> post[d].key, pw |-> post[d].new]]
        /\ post' = [post EXCEPT ![d] = Keys!NoPost] /\ post[d].kind = "password"
        /\ session' = [e \in Device |-> IF e = d THEN post[d].new ELSE 0]
        /\ UNCHANGED <<legacy, keysVault, identity, login, passwords, keys>>
    BY <1>14 DEF Keys!PasswordStored
  <2>2. post[d].new \in 1..passwords /\ post[d].key \in 0..keys /\ post[d].new \in 0..passwords
    BY <1>2, <2>1
  <2>3. KeysAccountFits(account', passwords, keys)
    BY <1>1, <2>1, <2>2, KeysFits
  <2>4. session' \in [Device -> Nat] /\ \A e \in Device : session'[e] <= passwords'
    BY <1>1, <2>1, <2>2
  <2> QED
    BY <1>1, <2>1, <2>3, <2>4, KeysNothing, KeysOneDevice
<1>15. CASE UNCHANGED Keys!vars
  BY <1>15 DEF Keys!vars, KeysTypes
<1> QED
  BY <1>3, <1>4, <1>5, <1>6, <1>7, <1>8, <1>9, <1>10, <1>11, <1>12, <1>13, <1>14,
     <1>15 DEF Keys!Next
-----------------------------------------------------------------------------
(* Passwords that are being set.                                           *)

\* Steps after which no other password is being set, and the logins know none
\* that they could not have known before.
LEMMA KeysNewStays ==
  ASSUME KeysTypes, Keys!NewIsNew, UNCHANGED account,
         \A e \in Device : /\ login'[e].pw \in {login[e].pw, account.pw, 0}
                           /\ post'[e].kind = "password" =>
                                post[e].kind = "password" /\ post'[e].new = post[e].new
  PROVE  Keys!NewIsNew'
<1>1. \A e \in Device : post[e].kind = "password" => post[e].new # 0
  BY DEF KeysTypes, Keys!PostFits
<1> SUFFICES ASSUME NEW d \in Device, post'[d].kind = "password"
             PROVE  /\ post'[d].new # account'.pw
                    /\ \A e \in Device :
                         /\ login'[e].pw # post'[d].new
                         /\ e # d /\ post'[e].kind = "password" => post'[e].new # post'[d].new
  BY DEF Keys!NewIsNew
<1>2. post[d].kind = "password" /\ post'[d].new = post[d].new
  OBVIOUS
<1> QED
  BY <1>1, <1>2 DEF Keys!NewIsNew

LEMMA KeysNextNew ==
  ASSUME KeysTypes, Keys!NewIsNew, [Keys!Next]_(Keys!vars)
  PROVE  Keys!NewIsNew'
<1>1. DOMAIN login = Device /\ DOMAIN post = Device /\ passwords \in Nat
  BY DEF KeysTypes
<1>2. ASSUME NEW d \in Device, Keys!LoginVerified(d)
      PROVE  Keys!NewIsNew'
  BY <1>1, <1>2, KeysNewStays DEF Keys!LoginVerified
<1>3. ASSUME NEW d \in Device, Keys!LoginAnswered(d)
      PROVE  Keys!NewIsNew'
  BY <1>1, <1>3, KeysNewStays DEF Keys!LoginAnswered
<1>4. ASSUME NEW d \in Device, Keys!Restored(d) \/ Keys!Rebuilt(d)
      PROVE  Keys!NewIsNew'
  BY <1>1, <1>4, KeysNewStays DEF Keys!Restored, Keys!Rebuilt, Keys!Enter, Keys!NoLogin,
                                  Keys!NoPost
<1>5. ASSUME NEW d \in Device, Keys!Refused(d) \/ Keys!Reload(d)
      PROVE  Keys!NewIsNew'
  BY <1>1, <1>5, KeysNewStays DEF Keys!Refused, Keys!Reload, Keys!NoLogin
<1>6. ASSUME NEW d \in Device, Keys!Rebuild(d)
      PROVE  Keys!NewIsNew'
  <2>1. UNCHANGED account
    BY <1>6 DEF Keys!Rebuild
  <2>2. \A e \in Device : post'[e].kind = "password" => post'[e] = post[e]
    BY <1>1, <1>6 DEF Keys!Rebuild
  <2> DEFINE l == [login[d] EXCEPT !.step = "rebuilding"]
  <2>3. l.pw = login[d].pw /\ Keys!NoLogin.pw = 0
    BY DEF KeysTypes, Keys!LoginFits, Keys!NoLogin
  <2>4. login' = [login EXCEPT ![d] = l] \/ login' = [login EXCEPT ![d] = Keys!NoLogin]
    BY <1>6 DEF Keys!Rebuild
  <2> HIDE DEF l
  <2>5. \A e \in Device : login'[e].pw \in {login[e].pw, 0}
    BY <1>1, <2>3, <2>4
  <2> QED
    BY <2>1, <2>2, <2>5, KeysNewStays
<1>7. ASSUME NEW d \in Device, Keys!Leave(d)
      PROVE  Keys!NewIsNew'
  BY <1>7, KeysNewStays DEF Keys!Leave
<1>8. ASSUME NEW d \in Device, Keys!BundleStored(d)
      PROVE  Keys!NewIsNew'
  <2>1. account'.pw = account.pw /\ post' = [post EXCEPT ![d] = Keys!NoPost] /\ UNCHANGED login
    BY <1>8 DEF Keys!BundleStored
  <2> QED
    BY <1>1, <2>1 DEF Keys!NewIsNew, Keys!NoPost
<1>9. ASSUME NEW d \in Device, Keys!RotateVerified(d) \/ Keys!PasswordVerified(d)
      PROVE  Keys!NewIsNew'
  <2>1. UNCHANGED account
    BY <1>9 DEF Keys!RotateVerified, Keys!PasswordVerified
  <2>2. \A e \in Device : login'[e].pw \in {login[e].pw, 0}
    BY <1>1, <1>9 DEF Keys!RotateVerified, Keys!PasswordVerified, Keys!NoLogin
  <2> DEFINE q == [post[d] EXCEPT !.step = "verified"]
  <2>3. q.kind = post[d].kind /\ q.new = post[d].new /\ Keys!NoPost.kind = "none"
    BY DEF KeysTypes, Keys!PostFits, Keys!NoPost
  <2>4. post' = [post EXCEPT ![d] = q] \/ post' = [post EXCEPT ![d] = Keys!NoPost]
    BY <1>9 DEF Keys!RotateVerified, Keys!PasswordVerified
  <2> HIDE DEF q
  <2>5. \A e \in Device : post'[e].kind = "password" =>
          post[e].kind = "password" /\ post'[e].new = post[e].new
    BY <1>1, <2>3, <2>4
  <2> QED
    BY <2>1, <2>2, <2>5, KeysNewStays
<1>10. ASSUME NEW d \in Device, Keys!RotateStored(d)
       PROVE  Keys!NewIsNew'
  <2>1. account'.pw = account.pw /\ post' = [post EXCEPT ![d] = Keys!NoPost]
    BY <1>10 DEF Keys!RotateStored
  <2>2. \A e \in Device : login'[e].pw = login[e].pw
    BY <1>1, <1>10 DEF Keys!RotateStored
  <2> QED
    BY <1>1, <2>1, <2>2 DEF Keys!NewIsNew, Keys!NoPost
<1>11. ASSUME NEW d \in Device, Keys!ChangePassword(d)
       PROVE  Keys!NewIsNew'
  <2>1. /\ \A e \in Device : e # d => post'[e] = post[e]
        /\ post'[d].new = passwords + 1 /\ UNCHANGED <<account, login>>
    BY <1>1, <1>11 DEF Keys!ChangePassword
  <2>2. account.pw \in 0..passwords
    BY DEF KeysTypes, KeysAccountFits
  <2>3. \A e \in Device : login[e].pw \in 0..passwords /\ post[e].new \in 0..passwords
    <3>1. \A e \in Device : Keys!LoginFits(login[e], passwords, keys) /\ Keys!PostFits(post[e], passwords, keys)
      BY DEF KeysTypes
    <3> QED
      BY <1>1, <3>1 DEF Keys!LoginFits, Keys!PostFits
  <2>4. passwords + 1 \notin 0..passwords
    BY <1>1
  <2> QED
    BY <2>1, <2>2, <2>3, <2>4 DEF Keys!NewIsNew
<1>12. ASSUME NEW d \in Device, Keys!PasswordStored(d)
       PROVE  Keys!NewIsNew'
  <2>1. account'.pw = post[d].new /\ post[d].kind = "password" /\ UNCHANGED login
        /\ post' = [post EXCEPT ![d] = Keys!NoPost]
    BY <1>12 DEF Keys!PasswordStored
  <2> QED
    BY <1>1, <2>1 DEF Keys!NewIsNew, Keys!NoPost
<1>13. CASE UNCHANGED Keys!vars
  BY <1>13, KeysNewStays DEF Keys!vars
<1> QED
  BY <1>2, <1>3, <1>4, <1>5, <1>6, <1>7, <1>8, <1>9, <1>10, <1>11, <1>12, <1>13 DEF Keys!Next

-----------------------------------------------------------------------------
(* Identities and vaults.                                                  *)

\* Whatever gives a device its identity puts it into the vault or takes it there.
LEMMA KeysNextKept ==
  ASSUME KeysTypes, Keys!IdentityIsKept, [Keys!Next]_(Keys!vars)
  PROVE  Keys!IdentityIsKept'
<1>1. ASSUME NEW d \in Device, NEW k, Keys!Enter(d, k)
      PROVE  Keys!IdentityIsKept'
  BY <1>1 DEF Keys!Enter, Keys!IdentityIsKept, KeysTypes
<1>2. ASSUME NEW d \in Device, Keys!Reload(d) \/ Keys!Leave(d)
      PROVE  Keys!IdentityIsKept'
  BY <1>2 DEF Keys!Reload, Keys!Leave, Keys!IdentityIsKept, KeysTypes
<1>3. ASSUME UNCHANGED <<identity, keysVault>>
      PROVE  Keys!IdentityIsKept'
  BY <1>3 DEF Keys!IdentityIsKept
<1>4. CASE UNCHANGED Keys!vars
  BY <1>3, <1>4 DEF Keys!vars
<1>5. ASSUME NEW d \in Device, Keys!Restored(d) \/ Keys!Rebuilt(d)
      PROVE  Keys!IdentityIsKept'
  BY <1>1, <1>5 DEF Keys!Restored, Keys!Rebuilt
<1> QED
  BY <1>2, <1>3, <1>4, <1>5 DEF Keys!Next, Keys!LoginVerified, Keys!LoginAnswered, Keys!Refused,
                                Keys!Rebuild, Keys!BundleStored,
     Keys!RotateVerified, Keys!RotateStored, Keys!ChangePassword, Keys!PasswordVerified, Keys!PasswordStored
-----------------------------------------------------------------------------
(* An account that always had a bundle.                                    *)

\* What is said of each device of such an account.
KeysSettled(l, q, pw) ==
  /\ l.step \notin {"rebuilding", "rebuilt"}
  /\ q.kind \notin {"bundle", "rotate"}
  /\ q.kind = "password" => q.key = 1
  /\ l.step = "answered" => /\ l.key = 1 /\ l.bundle.key = 1
                            /\ l.pw = pw => l.bundle.pw = pw

KeysAllSettled ==
  /\ refused = {} /\ keys = 1
  /\ account.bundle = [key |-> account.key, pw |-> account.pw]
  /\ \A d \in Device : KeysSettled(login[d], post[d], account.pw)

LEMMA KeysAllSettledIs ==
  ~legacy => (KeysAllSettled <=> Keys!BundleOpens /\ Keys!NobodyRefused /\ Keys!OneKey /\ Keys!AnswersOpen)
  BY DEF KeysAllSettled, KeysSettled, Keys!BundleOpens, Keys!NobodyRefused, Keys!OneKey,
         Keys!AnswersOpen

LEMMA KeysNextSettled ==
  ASSUME KeysTypes, Keys!NewIsNew, KeysAllSettled, [Keys!Next]_(Keys!vars)
  PROVE  KeysAllSettled'
<1>1. /\ DOMAIN login = Device /\ DOMAIN post = Device /\ keys = 1 /\ refused = {}
      /\ account.key = 1 /\ account.bundle = [key |-> 1, pw |-> account.pw]
      /\ \A e \in Device : keysVault[e] \in {0, 1} /\ identity[e] \in {0, 1}
  <2>1. keys = 1 /\ account.key \in 1..keys
    BY DEF KeysTypes, KeysAllSettled, KeysAccountFits
  <2>2. account.key = 1
    BY <2>1
  <2>3. \A e \in Device : keysVault[e] \in Nat /\ keysVault[e] <= 1 /\ identity[e] \in Nat /\ identity[e] <= 1
    BY <2>1 DEF KeysTypes
  <2>4. \A e \in Device : keysVault[e] \in {0, 1} /\ identity[e] \in {0, 1}
    BY <2>3
  <2> QED
    BY <2>1, <2>2, <2>4 DEF KeysTypes, KeysAllSettled
<1>2. \A e \in Device : KeysSettled(login[e], post[e], account.pw)
  BY DEF KeysAllSettled
<1>3. ASSUME UNCHANGED <<account, keys, refused>>,
             NEW d \in Device, \A e \in Device \ {d} : login'[e] = login[e] /\ post'[e] = post[e],
             KeysSettled(login'[d], post'[d], account.pw)
      PROVE  KeysAllSettled'
  BY <1>2, <1>3 DEF KeysAllSettled
<1>4. \A e \in Device : /\ KeysSettled(Keys!NoLogin, post[e], account.pw)
                        /\ KeysSettled(login[e], Keys!NoPost, account.pw)
                        /\ KeysSettled(Keys!NoLogin, Keys!NoPost, account.pw)
  BY <1>2 DEF KeysSettled, Keys!NoLogin, Keys!NoPost
<1>5. ASSUME NEW d \in Device, Keys!LoginVerified(d)
      PROVE  KeysAllSettled'
  <2>1. /\ login' = [login EXCEPT ![d] = [step |-> "verified", pw |-> account.pw, key |-> 0,
                                          bundle |-> Keys!NoBundle]]
        /\ UNCHANGED <<account, post, keys, refused>>
    BY <1>5 DEF Keys!LoginVerified
  <2>2. KeysSettled(login'[d], post'[d], account.pw)
    BY <1>1, <1>2, <2>1 DEF KeysSettled
  <2> QED
    BY <1>1, <1>3, <2>1, <2>2
<1>6. ASSUME NEW d \in Device, Keys!LoginAnswered(d)
      PROVE  KeysAllSettled'
  <2>1. /\ login' = [login EXCEPT ![d] = [step |-> "answered", pw |-> login[d].pw, key |-> account.key,
                                          bundle |-> account.bundle]]
        /\ UNCHANGED <<account, post, keys, refused>>
    BY <1>6 DEF Keys!LoginAnswered
  <2>2. KeysSettled(login'[d], post'[d], account.pw)
    BY <1>1, <1>2, <2>1 DEF KeysSettled
  <2> QED
    BY <1>1, <1>3, <2>1, <2>2
<1>7. ASSUME NEW d \in Device, Keys!Restored(d)
      PROVE  KeysAllSettled'
  <2>1. login[d].bundle.key = 1
    BY <1>2, <1>7 DEF Keys!Restored, KeysSettled
  <2>2. login[d].bundle # Keys!NoBundle
    BY <2>1 DEF Keys!NoBundle
  <2>3. /\ login' = [login EXCEPT ![d] = Keys!NoLogin] /\ post' = [post EXCEPT ![d] = Keys!NoPost]
        /\ UNCHANGED <<account, keys, refused>>
    BY <1>7, <2>2 DEF Keys!Restored, Keys!Enter
  <2> QED
    BY <1>1, <1>3, <1>4, <2>3
<1>8. ASSUME NEW d \in Device, Keys!Refused(d)
      PROVE  KeysAllSettled'
  <2>1. /\ login[d].step = "answered" /\ login' = [login EXCEPT ![d] = Keys!NoLogin]
        /\ UNCHANGED <<account, post, keys>>
    BY <1>8 DEF Keys!Refused
  <2>2. /\ login[d].key = 1 /\ login[d].bundle.key = 1
        /\ login[d].pw = account.pw => login[d].bundle.pw = account.pw
    BY <1>2, <2>1 DEF KeysSettled
  <2>3. login[d].bundle = [key |-> login[d].bundle.key, pw |-> login[d].bundle.pw]
    BY DEF KeysTypes, Keys!LoginFits, Keys!Bundle
  <2>4. CASE keysVault[d] # 0
    BY <1>1, <1>8, <2>2, <2>4 DEF Keys!Refused
  <2>5. CASE keysVault[d] = 0
    <3>1. ~(login[d].pw = account.pw /\ login[d].key = account.key)
      <4>1. login[d].bundle # [key |-> login[d].key, pw |-> login[d].pw]
        BY <1>8, <2>5 DEF Keys!Refused, Keys!Opens
      <4> QED
        BY <2>2, <2>3, <4>1
    <3>2. refused' = refused
      BY <1>8, <3>1 DEF Keys!Refused
    <3> QED
      BY <1>1, <1>3, <1>4, <2>1, <3>2
  <2> QED
    BY <2>4, <2>5
<1>9. ASSUME NEW d \in Device, Keys!Rebuild(d) \/ Keys!Rebuilt(d)
      PROVE  FALSE
  <2>1. KeysSettled(login[d], post[d], account.pw)
    BY <1>2
  <2>2. CASE Keys!Rebuild(d)
    <3>1. login[d].bundle.key = 0
      BY <2>2 DEF Keys!Rebuild, Keys!NoBundle
    <3>2. login[d].bundle.key = 1
      BY <2>1, <2>2 DEF Keys!Rebuild, KeysSettled
    <3> QED
      BY <3>1, <3>2
  <2>3. CASE Keys!Rebuilt(d)
    BY <2>1, <2>3 DEF Keys!Rebuilt, KeysSettled
  <2> QED
    BY <1>9, <2>2, <2>3
<1>10. ASSUME NEW d \in Device, Keys!Reload(d) \/ Keys!Leave(d)
       PROVE  KeysAllSettled'
  <2>1. /\ login' = [login EXCEPT ![d] = Keys!NoLogin] \/ login' = login
        /\ UNCHANGED <<account, post, keys, refused>>
    BY <1>10 DEF Keys!Reload, Keys!Leave
  <2> QED
    BY <1>1, <1>2, <1>3, <1>4, <2>1
<1>11. ASSUME NEW d \in Device, Keys!BundleStored(d) \/ Keys!RotateVerified(d) \/ Keys!RotateStored(d)
       PROVE  FALSE
  BY <1>2, <1>11 DEF Keys!BundleStored, Keys!RotateVerified, Keys!RotateStored, KeysSettled
<1>12. ASSUME NEW d \in Device, Keys!ChangePassword(d)
       PROVE  KeysAllSettled'
  <2>1. /\ post' = [post EXCEPT ![d] = [kind |-> "password", step |-> "body", key |-> identity[d],
                                        pw |-> account.pw, new |-> passwords + 1]]
        /\ identity[d] # 0 /\ UNCHANGED <<account, login, keys, refused>>
    BY <1>12 DEF Keys!ChangePassword
  <2>2. KeysSettled(login'[d], post'[d], account.pw)
    <3>1. identity[d] = 1
      BY <1>1, <2>1
    <3>2. post'[d].kind = "password" /\ post'[d].key = 1 /\ login'[d] = login[d]
      BY <1>1, <2>1, <3>1
    <3> QED
      BY <1>2, <3>2 DEF KeysSettled
  <2> QED
    BY <1>1, <1>3, <2>1, <2>2
<1>13. ASSUME NEW d \in Device, Keys!PasswordVerified(d)
       PROVE  KeysAllSettled'
  <2> DEFINE q == [post[d] EXCEPT !.step = "verified"]
  <2>1. /\ post' = [post EXCEPT ![d] = q] \/ post' = [post EXCEPT ![d] = Keys!NoPost]
        /\ UNCHANGED <<account, login, keys, refused>>
    BY <1>13 DEF Keys!PasswordVerified
  <2>2. q.kind = post[d].kind /\ q.key = post[d].key
    BY DEF KeysTypes, Keys!PostFits
  <2> HIDE DEF q
  <2>3. KeysSettled(login[d], q, account.pw)
    BY <1>2, <2>2 DEF KeysSettled
  <2> QED
    BY <1>1, <1>3, <1>4, <2>1, <2>3
<1>14. ASSUME NEW d \in Device, Keys!PasswordStored(d)
       PROVE  KeysAllSettled'
  <2>1. /\ post[d].kind = "password" /\ post' = [post EXCEPT ![d] = Keys!NoPost]
        /\ account' = [pw |-> post[d].new, key |-> account.key,
                       bundle |-> [key |-> post[d].key, pw |-> post[d].new]]
        /\ UNCHANGED <<login, keys, refused>>
    BY <1>14 DEF Keys!PasswordStored
  <2>2. post[d].key = 1
    BY <1>2, <2>1 DEF KeysSettled
  <2>3. \A e \in Device : login[e].pw # post[d].new
    BY <2>1 DEF Keys!NewIsNew
  <2>4. account'.pw = post[d].new /\ account'.bundle = [key |-> account'.key, pw |-> account'.pw]
    BY <1>1, <2>1, <2>2
  <2>5. \A e \in Device : post'[e] = post[e] \/ post'[e] = Keys!NoPost
    BY <1>1, <2>1
  <2>6. \A e \in Device : KeysSettled(login'[e], post'[e], account'.pw)
    BY <1>2, <2>1, <2>3, <2>4, <2>5 DEF KeysSettled, Keys!NoPost
  <2> QED
    BY <1>1, <2>1, <2>4, <2>6 DEF KeysAllSettled
<1>15. CASE UNCHANGED Keys!vars
  BY <1>15 DEF Keys!vars, KeysAllSettled
<1> QED
  BY <1>5, <1>6, <1>7, <1>8, <1>9, <1>10, <1>11, <1>12, <1>13, <1>14, <1>15 DEF Keys!Next

-----------------------------------------------------------------------------
(* The invariant.                                                          *)

LEMMA KeysInitInv == Keys!Init => Keys!IInv
<1> SUFFICES ASSUME Keys!Init PROVE Keys!IInv
  OBVIOUS
<1>1. /\ legacy \in BOOLEAN /\ passwords = 1 /\ keys = 1 /\ refused = {}
      /\ account = [pw |-> 1, key |-> 1, bundle |-> IF legacy THEN Keys!NoBundle ELSE [key |-> 1, pw |-> 1]]
      /\ session = [d \in Device |-> 0] /\ identity = [d \in Device |-> 0]
      /\ login = [d \in Device |-> Keys!NoLogin] /\ post = [d \in Device |-> Keys!NoPost]
  BY DEF Keys!Init
<1>2. keysVault \in [Device -> Nat] /\ \A d \in Device : keysVault[d] <= keys
  BY <1>1 DEF Keys!Init
<1>3. KeysAccountFits(account, passwords, keys)
  <2>1. CASE legacy
    BY <1>1, <2>1 DEF KeysAccountFits, Keys!NoBundle, Keys!Bundle
  <2>2. CASE ~legacy
    BY <1>1, <2>2 DEF KeysAccountFits, Keys!Bundle
  <2> QED
    BY <2>1, <2>2
<1>4. Keys!LoginFits(Keys!NoLogin, 1, 1) /\ Keys!PostFits(Keys!NoPost, 1, 1)
  BY DEF Keys!NoLogin, Keys!NoPost, Keys!NoBundle, Keys!Bundle, Keys!LoginFits, Keys!PostFits
<1>5. KeysTypes
  BY <1>1, <1>2, <1>3, <1>4 DEF KeysTypes
<1>6. Keys!NewIsNew
  BY <1>1 DEF Keys!NewIsNew, Keys!NoPost
<1>7. ~legacy => KeysAllSettled
  BY <1>1 DEF KeysAllSettled, KeysSettled, Keys!NoLogin, Keys!NoPost
<1>8. Keys!IdentityIsKept
  BY <1>1 DEF Keys!IdentityIsKept
<1>9. legacy => Keys!BundleOpens /\ Keys!NobodyRefused /\ Keys!OneKey /\ Keys!AnswersOpen
  BY DEF Keys!BundleOpens, Keys!NobodyRefused, Keys!OneKey, Keys!AnswersOpen
<1> QED
  BY <1>5, <1>6, <1>7, <1>8, <1>9, KeysTypesAre, KeysAllSettledIs DEF Keys!IInv, Keys!DevicesGetIn

LEMMA KeysNextInv ==
  ASSUME Keys!IInv, [Keys!Next]_(Keys!vars)
  PROVE  Keys!IInv'
<1>1. KeysTypes /\ Keys!NewIsNew /\ Keys!IdentityIsKept
  BY KeysTypesAre DEF Keys!IInv, Keys!DevicesGetIn
<1>2. KeysTypes' /\ Keys!NewIsNew' /\ Keys!IdentityIsKept'
  BY <1>1, KeysNextTypes, KeysNextNew, KeysNextKept
<1>3. UNCHANGED legacy
  BY DEF Keys!Next, Keys!LoginVerified, Keys!LoginAnswered, Keys!Restored, Keys!Refused,
         Keys!Rebuild, Keys!Rebuilt, Keys!Reload, Keys!Leave,
         Keys!BundleStored, Keys!RotateVerified, Keys!RotateStored, Keys!ChangePassword,
         Keys!PasswordVerified, Keys!PasswordStored, Keys!vars
<1>4. ~legacy => KeysAllSettled
  BY KeysAllSettledIs DEF Keys!IInv, Keys!DevicesGetIn
<1>5. ~legacy => KeysAllSettled'
  BY <1>1, <1>4, KeysNextSettled
<1>6. ~legacy' => (KeysAllSettled' <=> Keys!BundleOpens' /\ Keys!NobodyRefused' /\ Keys!OneKey' /\ Keys!AnswersOpen')
  BY KeysAllSettledIs, PTL
<1>7. KeysTypes' => Keys!TypeOK' /\ Keys!Shape'
  BY KeysTypesAre, PTL
<1>8. Keys!BundleOpens' /\ Keys!NobodyRefused' /\ Keys!OneKey' /\ Keys!AnswersOpen'
  <2>1. CASE legacy
    BY <1>3, <2>1 DEF Keys!BundleOpens, Keys!NobodyRefused, Keys!OneKey, Keys!AnswersOpen
  <2>2. CASE ~legacy
    BY <1>3, <1>5, <1>6, <2>2
  <2> QED
    BY <2>1, <2>2
<1> QED
  BY <1>2, <1>7, <1>8 DEF Keys!IInv, Keys!DevicesGetIn

\* The invariant of the keys holds on every account, however many devices log in
\* and change its password.
THEOREM KeysInvariance == Keys!Spec => []Keys!IInv
<1>1. Keys!Init => Keys!IInv
  BY KeysInitInv
<1>2. Keys!IInv /\ [Keys!Next]_(Keys!vars) => Keys!IInv'
  BY KeysNextInv
<1> QED
  BY <1>1, <1>2, PTL DEF Keys!Spec

-----------------------------------------------------------------------------
(* Renames.                                                                *)

(* Moves that are appended and taken off.                                  *)

LEMMA NamingAssociates ==
  ASSUME NEW a \in Seq(Naming!Move), NEW b \in Seq(Naming!Move), NEW c \in Seq(Naming!Move)
  PROVE  /\ a \o b \o c = a \o (b \o c) /\ a \o b \in Seq(Naming!Move)
         /\ a \o b \o c \in Seq(Naming!Move)
  OBVIOUS

LEMMA NamingAnnounced ==
  ASSUME NEW a \in Seq(Naming!Move), NEW b \in Seq(Naming!Move), NEW c \in Seq(Naming!Move),
         c # <<>>
  PROVE  a \o Append(b, Head(c)) \o Tail(c) = a \o b \o c
<1> DEFINE l == a \o Append(b, Head(c)) \o Tail(c)
           r == a \o b \o c
<1>1. Head(c) \in Naming!Move /\ Tail(c) \in Seq(Naming!Move) /\ Len(Tail(c)) = Len(c) - 1
      /\ \A k \in 1..Len(c) - 1 : Tail(c)[k] = c[k + 1]
      /\ Head(c) = c[1] /\ Len(c) \in Nat \ {0}
  OBVIOUS
<1>2. /\ Append(b, Head(c)) \in Seq(Naming!Move) /\ Len(Append(b, Head(c))) = Len(b) + 1
      /\ \A k \in 1..Len(b) : Append(b, Head(c))[k] = b[k]
      /\ Append(b, Head(c))[Len(b) + 1] = c[1]
  BY <1>1
<1>3. /\ l \in Seq(Naming!Move) /\ Len(l) = Len(a) + Len(b) + Len(c)
      /\ \A k \in 1..Len(a) : l[k] = a[k]
      /\ \A k \in 1..Len(b) : l[Len(a) + k] = b[k]
      /\ \A k \in 1..Len(c) : l[Len(a) + Len(b) + k] = c[k]
  <2>1. PICK d \in Seq(Naming!Move) : d = Append(b, Head(c))
    BY <1>2
  <2>2. /\ a \o d \in Seq(Naming!Move) /\ Len(a \o d) = Len(a) + Len(b) + 1
        /\ \A k \in 1..Len(a) : (a \o d)[k] = a[k]
        /\ \A k \in 1..Len(b) : (a \o d)[Len(a) + k] = b[k]
        /\ (a \o d)[Len(a) + Len(b) + 1] = c[1]
    BY <1>2, <2>1
  <2>3. PICK g \in Seq(Naming!Move) : g = a \o d
    BY <2>2
  <2>4. PICK t \in Seq(Naming!Move) : t = Tail(c)
    BY <1>1
  <2>5. l = g \o t
    BY <2>1, <2>3, <2>4
  <2>6. ASSUME NEW k \in 1..Len(c) PROVE l[Len(a) + Len(b) + k] = c[k]
    <3>1. CASE k = 1
      BY <2>2, <2>3, <2>5, <3>1
    <3>2. CASE k # 1
      <4>1. k - 1 \in 1..Len(t) /\ t[k - 1] = c[k] /\ Len(g) = Len(a) + Len(b) + 1
        BY <1>1, <2>2, <2>3, <2>4, <3>2
      <4>2. (g \o t)[Len(g) + (k - 1)] = t[k - 1]
        BY <4>1
      <4>3. Len(g) + (k - 1) = Len(a) + Len(b) + k
        BY <1>1, <4>1
      <4> QED
        BY <2>5, <4>1, <4>2, <4>3
    <3> QED
      BY <3>1, <3>2
  <2> HIDE DEF l
  <2>7. l \in Seq(Naming!Move) /\ Len(l) = Len(g) + Len(t)
    BY <2>5
  <2>8. \A k \in 1..Len(g) : l[k] = g[k]
    BY <2>5
  <2>9. Len(l) = Len(a) + Len(b) + Len(c)
    BY <1>1, <2>2, <2>3, <2>4, <2>7
  <2>10. ASSUME NEW k \in 1..Len(a) PROVE l[k] = a[k]
    BY <2>2, <2>3, <2>8
  <2>11. ASSUME NEW k \in 1..Len(b) PROVE l[Len(a) + k] = b[k]
    <3>1. Len(a) + k \in 1..Len(g)
      BY <2>2, <2>3
    <3> QED
      BY <2>2, <2>3, <2>8, <3>1
  <2> QED
    BY <2>6, <2>7, <2>9, <2>10, <2>11
<1>4. /\ r \in Seq(Naming!Move) /\ Len(r) = Len(a) + Len(b) + Len(c)
      /\ \A k \in 1..Len(a) : r[k] = a[k]
      /\ \A k \in 1..Len(b) : r[Len(a) + k] = b[k]
      /\ \A k \in 1..Len(c) : r[Len(a) + Len(b) + k] = c[k]
  <2> DEFINE g == a \o b
  <2>1. /\ g \in Seq(Naming!Move) /\ Len(g) = Len(a) + Len(b)
        /\ \A k \in 1..Len(a) : g[k] = a[k]
        /\ \A k \in 1..Len(b) : g[Len(a) + k] = b[k]
    OBVIOUS
  <2>2. r = g \o c
    OBVIOUS
  <2> HIDE DEF r, g
  <2>3. r \in Seq(Naming!Move) /\ Len(r) = Len(g) + Len(c)
    <3>1. g \in Seq(Naming!Move)
      BY <2>1
    <3> QED
      BY <2>2, <3>1, ConcatProperties
  <2>4. \A k \in 1..Len(g) : r[k] = g[k]
    BY <2>1, <2>2
  <2>5. ASSUME NEW k \in 1..Len(c) PROVE r[Len(g) + k] = c[k]
    BY <2>1, <2>2
  <2> QED
    BY <2>1, <2>3, <2>4, <2>5
<1> HIDE DEF l, r
<1>5. ASSUME NEW k \in 1..Len(l) PROVE l[k] = r[k]
  <2>1. k \in 1..Len(a) \/ k - Len(a) \in 1..Len(b) \/ k - Len(a) - Len(b) \in 1..Len(c)
    BY <1>3
  <2>2. CASE k - Len(a) \in 1..Len(b)
    BY <1>3, <1>4, <2>2, Len(a) + (k - Len(a)) = k
  <2>3. CASE k - Len(a) - Len(b) \in 1..Len(c)
    BY <1>3, <1>4, <2>3, Len(a) + Len(b) + (k - Len(a) - Len(b)) = k
  <2> QED
    BY <1>3, <1>4, <2>1, <2>2, <2>3
<1>6. l = r
  BY <1>3, <1>4, <1>5
<1> QED
  BY <1>6 DEF l, r

LEMMA NamingHeadOff ==
  ASSUME NEW a \in Seq(Naming!Move), NEW b \in Seq(Naming!Move), a # <<>>
  PROVE  /\ Tail(a) \o b = Tail(a \o b) /\ Head(a \o b) = Head(a) /\ a \o b # <<>>
         /\ Tail(a) \in Seq(Naming!Move) /\ Head(a) \in Naming!Move
         /\ Append(<<>>, Head(a)) \o Tail(a) = a
  OBVIOUS

LEMMA NamingAdded ==
  ASSUME NEW a \in Seq(Naming!Move), NEW c \in Seq(Naming!Move), NEW m \in Naming!Move
  PROVE  a \o Append(c, m) = Append(a \o c, m)
  OBVIOUS

\* One more rename.
LEMMA NamingPastAppend ==
  ASSUME NEW w \in Seq([Naming!Account -> Name]), NEW q \in Seq(Naming!Move),
         NEW nm \in [Naming!Account -> Name],
         Naming!Past(w, q, nm), NEW a \in Naming!Account, NEW n \in Name, \A x
           \in Naming!Account : nm[x] # n
  PROVE  /\ Append(w, [nm EXCEPT ![a] = n]) \in Seq([Naming!Account -> Name])
         /\ Naming!Past(Append(w, [nm EXCEPT ![a] = n]), Append(q, [prev |-> nm[a], next |-> n]),
                 [nm EXCEPT ![a] = n])
<1> DEFINE nx == [nm EXCEPT ![a] = n]
           v == Append(w, nx)
           m == [prev |-> nm[a], next |-> n]
           p == Append(q, m)
<1>1. /\ nx \in [Naming!Account -> Name] /\ nx[a] = n
      /\ \A x, y \in Naming!Account : nx[x] = nx[y] => x = y
  <2>1. \A x, y \in Naming!Account : nm[x] = nm[y] => x = y
    BY DEF Naming!Past
  <2> QED
    BY <2>1
<1>2. m \in Naming!Move
  BY DEF Naming!Move
<1>3. /\ Len(w) = Len(q) + 1 /\ Len(q) \in Nat /\ w[Len(w)] = nm
  BY DEF Naming!Past
<1> HIDE DEF nx, m
<1>4. /\ v \in Seq([Naming!Account -> Name]) /\ Len(v) = Len(w) + 1 /\ v[Len(v)] = nx
      /\ \A k \in 1..Len(w) : v[k] = w[k]
  BY <1>1
<1>5. /\ p \in Seq(Naming!Move) /\ Len(p) = Len(q) + 1 /\ p[Len(q) + 1] = m
      /\ \A k \in 1..Len(q) : p[k] = q[k]
  BY <1>2
<1> HIDE DEF v, p
<1>6. \A k \in 1..Len(v) : \A x, y \in Naming!Account : v[k][x] = v[k][y] => x = y
  <2>1. ASSUME NEW k \in 1..Len(v) PROVE \A x, y \in Naming!Account : v[k][x] = v[k][y] => x = y
    <3>1. CASE k \in 1..Len(w)
      BY <1>4, <3>1 DEF Naming!Past
    <3>2. CASE k = Len(w) + 1
      BY <1>1, <1>4, <3>2
    <3> QED
      BY <1>3, <1>4, <3>1, <3>2
  <2> QED
    BY <2>1
<1>7. ASSUME NEW k \in 1..Len(p)
      PROVE  \E b \in Naming!Account : /\ p[k] = [prev |-> v[k][b], next |-> v[k + 1][b]]
                                /\ v[k + 1] = [v[k] EXCEPT ![b] = v[k + 1][b]]
                                /\ v[k][b] # v[k + 1][b]
  <2>1. CASE k \in 1..Len(q)
    <3>1. p[k] = q[k] /\ v[k] = w[k] /\ v[k + 1] = w[k + 1]
      BY <1>3, <1>4, <1>5, <2>1
    <3>2. PICK b \in Naming!Account : /\ q[k] = [prev |-> w[k][b], next |-> w[k + 1][b]]
                               /\ w[k + 1] = [w[k] EXCEPT ![b] = w[k + 1][b]]
                               /\ w[k][b] # w[k + 1][b]
      BY <2>1 DEF Naming!Past
    <3> QED
      BY <3>1, <3>2
  <2>2. CASE k = Len(q) + 1
    <3>1. k = Len(w) /\ k + 1 = Len(v) /\ k \in 1..Len(w)
      BY <1>3, <1>4, <2>2
    <3>2. v[k] = nm /\ v[k + 1] = nx /\ p[k] = m
      BY <1>3, <1>4, <1>5, <2>2, <3>1
    <3>3. m = [prev |-> nm[a], next |-> nx[a]] /\ nx = [nm EXCEPT ![a] = nx[a]] /\ nm[a] # nx[a]
      BY <1>1 DEF m, nx
    <3> QED
      BY <3>2, <3>3
  <2>3. k \in 1..Len(q) \/ k = Len(q) + 1
    BY <1>3, <1>5
  <2> QED
    BY <2>1, <2>2, <2>3
<1>8. Len(v) = Len(p) + 1
  BY <1>3, <1>4, <1>5
<1>9. Naming!Past(v, p, nx)
  BY <1>4, <1>6, <1>7, <1>8 DEF Naming!Past
<1> QED
  BY <1>4, <1>9 DEF v, p, nx, m

\* The names of before and after one move.
NamingFirstMove(e, u, v) ==
  /\ u \in [Naming!Account -> Name] /\ v \in [Naming!Account -> Name]
  /\ \A x, y \in Naming!Account : u[x] = u[y] => x = y
  /\ \E a \in Naming!Account :
       e = [prev |-> u[a], next |-> v[a]] /\ v = [u EXCEPT ![a] = v[a]] /\ u[a] # v[a]

\* The first rename has been handled.
LEMMA NamingPastTail ==
  ASSUME NEW w \in Seq([Naming!Account -> Name]), NEW q \in Seq(Naming!Move), NEW nm,
         Naming!Past(w, q, nm), q # <<>>
  PROVE  /\ Tail(w) \in Seq([Naming!Account -> Name]) /\ Tail(w)[1] = w[2]
         /\ Naming!Past(Tail(w), Tail(q), nm)
         /\ NamingFirstMove(Head(q), w[1], w[2])
<1>1. Len(q) \in Nat \ {0} /\ Len(w) = Len(q) + 1 /\ w[Len(w)] = nm
  BY DEF Naming!Past
<1>2. /\ Tail(w) \in Seq([Naming!Account -> Name]) /\ Len(Tail(w)) = Len(w) - 1
      /\ \A k \in 1..Len(w) - 1 : Tail(w)[k] = w[k + 1]
  BY <1>1
<1>3. /\ Tail(q) \in Seq(Naming!Move) /\ Len(Tail(q)) = Len(q) - 1 /\ Head(q) = q[1]
      /\ \A k \in 1..Len(q) - 1 : Tail(q)[k] = q[k + 1]
  BY <1>1
<1>4. /\ Tail(w)[1] = w[2] /\ w[1] \in [Naming!Account -> Name]
      /\ w[2] \in [Naming!Account -> Name]
  BY <1>1, <1>2
<1>5. /\ \A x, y \in Naming!Account : w[1][x] = w[1][y] => x = y
      /\ \E a \in Naming!Account : /\ Head(q) = [prev |-> w[1][a], next |-> w[2][a]]
                            /\ w[2] = [w[1] EXCEPT ![a] = w[2][a]] /\ w[1][a] # w[2][a]
  <2>1. 1 \in 1..Len(w) /\ 1 \in 1..Len(q) /\ 1 + 1 = 2
    BY <1>1
  <2>2. \E a \in Naming!Account : /\ q[1] = [prev |-> w[1][a], next |-> w[1 + 1][a]]
                           /\ w[1 + 1] = [w[1] EXCEPT ![a] = w[1 + 1][a]] /\ w[1][a] # w[1 + 1][a]
    BY <2>1 DEF Naming!Past
  <2>3. \A x, y \in Naming!Account : w[1][x] = w[1][y] => x = y
    BY <2>1 DEF Naming!Past
  <2> QED
    BY <1>3, <2>1, <2>2, <2>3
<1>6. Len(Tail(w)) = Len(Tail(q)) + 1 /\ Tail(w)[Len(Tail(w))] = nm
  BY <1>1, <1>2, <1>3
<1>7. ASSUME NEW k \in 1..Len(Tail(w))
      PROVE  \A x, y \in Naming!Account : Tail(w)[k][x] = Tail(w)[k][y] => x = y
  <2>1. k + 1 \in 1..Len(w) /\ Tail(w)[k] = w[k + 1]
    BY <1>1, <1>2
  <2> QED
    BY <2>1 DEF Naming!Past
<1>8. ASSUME NEW k \in 1..Len(Tail(q))
      PROVE  \E a \in Naming!Account :
               /\ Tail(q)[k] = [prev |-> Tail(w)[k][a], next |-> Tail(w)[k + 1][a]]
                                /\ Tail(w)[k + 1] = [Tail(w)[k] EXCEPT ![a] = Tail(w)[k + 1][a]]
                                /\ Tail(w)[k][a] # Tail(w)[k + 1][a]
  <2>1. /\ k + 1 \in 1..Len(q) /\ Tail(q)[k] = q[k + 1] /\ Tail(w)[k] = w[k + 1]
        /\ Tail(w)[k + 1] = w[k + 1 + 1]
    BY <1>1, <1>2, <1>3
  <2>2. PICK a \in Naming!Account : /\ q[k + 1] = [prev |-> w[k + 1][a], next |-> w[k + 1 + 1][a]]
                             /\ w[k + 1 + 1] = [w[k + 1] EXCEPT ![a] = w[k + 1 + 1][a]]
                             /\ w[k + 1][a] # w[k + 1 + 1][a]
    BY <2>1 DEF Naming!Past
  <2> QED
    BY <2>1, <2>2
<1>9. Naming!Past(Tail(w), Tail(q), nm)
  BY <1>6, <1>7, <1>8 DEF Naming!Past
<1> QED
  BY <1>2, <1>4, <1>5, <1>9 DEF NamingFirstMove

-----------------------------------------------------------------------------
(* Types.                                                                  *)

NamingPage ==
  [me : Name, pins : SUBSET Name, listed : Name \cup {Naming!None},
   open : Name \cup {Naming!None}, queued : Name \cup {Naming!None},
   dialog : Name \cup {Naming!None}]
NamingLoads ==
  [latest : Name \cup {Naming!None, Naming!Shown, Naming!Failed},
   before : SUBSET (Name \cup {Naming!None})]

LEMMA NamingNameTypes ==
  ASSUME Naming!TypeOK
  PROVE  /\ \A x \in Naming!Account : name[x] \in Name
         /\ name["me"] \in Name /\ name["peer"] \in Name /\ name["other"] \in Name
         /\ page.me \in Name /\ page.listed \in Name \cup {Naming!None}
         /\ page.open \in Name \cup {Naming!None} /\ page.pins \in SUBSET Name
         /\ page.queued \in Name \cup {Naming!None} /\ page.dialog \in Name \cup {Naming!None}
  BY DEF Naming!TypeOK, Naming!Account

\* What a load that is asked for, answered, shown or lost leaves of the others.
LEMMA NamingAskedType ==
  ASSUME Naming!TypeOK PROVE Naming!Asked \in NamingLoads
  BY DEF Naming!TypeOK, Naming!Asked, NamingLoads

LEMMA NamingRenamedType ==
  ASSUME Naming!TypeOK, NEW e \in Naming!Move,
         NEW p \in NamingPage
  PROVE  /\ Naming!Renamed(p, e.prev, e.next) \in NamingPage
         /\ Naming!Saved(p, renameStored, e.prev) \in [Name -> SUBSET Name]
         /\ Naming!Moved(renameVault, e.prev, e.next) \in SUBSET Name
<1>1. e.prev \in Name /\ e.next \in Name /\ name["peer"] \in Name
  BY NamingNameTypes DEF Naming!Move
<1>2. /\ Naming!Moved(p.pins, e.prev, e.next) \in SUBSET Name
      /\ Naming!Moved(renameVault, e.prev, e.next) \in SUBSET Name
  BY <1>1 DEF Naming!Moved, Naming!TypeOK, NamingPage
<1>3. /\ Naming!Follow(p.queued, e.prev, e.next) \in Name \cup {Naming!None}
      /\ Naming!Follow(p.open, e.prev, e.next) \in Name \cup {Naming!None}
  BY <1>1 DEF Naming!Follow, NamingPage
<1>4. Naming!Saved(p, renameStored, e.prev) \in [Name -> SUBSET Name]
  BY DEF Naming!Saved, Naming!TypeOK, NamingPage
<1> QED
  BY <1>1, <1>2, <1>3, <1>4 DEF Naming!Renamed, NamingPage

LEMMA NamingHeadType == ASSUME NEW q \in Seq(Naming!Move), q # <<>>
                        PROVE  Head(q) \in Naming!Move /\ Tail(q) \in Seq(Naming!Move)
  OBVIOUS

LEMMA NamingTypeInit == Naming!RenameAssumption /\ Naming!Init => Naming!TypeOK
<1> SUFFICES ASSUME Naming!RenameAssumption, Naming!Init PROVE Naming!TypeOK
  OBVIOUS
<1>1. name["me"] \in Name /\ name["peer"] \in Name
  BY DEF Naming!Init, Naming!Account
<1>2. /\ announcing \in Seq(Naming!Move) /\ renameEvents \in Seq(Naming!Move)
      /\ waiting \in Seq(Naming!Move)
      /\ renames \in 0..Renames /\ reloads \in 0..NameReloads /\ asked \in 0..NameLoads
  BY DEF Naming!Init, Naming!RenameAssumption
<1>3. page \in NamingPage
  BY <1>1 DEF Naming!Init, NamingPage
<1>4. renameLoads \in NamingLoads
  BY DEF Naming!Init, NamingLoads
<1> QED
  BY <1>1, <1>2, <1>3, <1>4 DEF Naming!Init, Naming!TypeOK, Naming!TwoNames, NamingPage,
                                NamingLoads

LEMMA NamingTypeNext == Naming!RenameAssumption /\ Naming!TypeOK /\ [Naming!Next]_(Naming!vars) =>
                          Naming!TypeOK'
<1> SUFFICES ASSUME Naming!RenameAssumption, Naming!TypeOK, [Naming!Next]_(Naming!vars)
             PROVE  Naming!TypeOK'
  OBVIOUS
<1>1. /\ announcing \in Seq(Naming!Move) /\ renameEvents \in Seq(Naming!Move)
      /\ waiting \in Seq(Naming!Move)
      /\ page \in NamingPage /\ renameStored \in [Name -> SUBSET Name] /\ renameVault \in SUBSET Name
      /\ renames \in 0..Renames /\ reloads \in 0..NameReloads
      /\ renameRequest \in Naming!TwoNames /\ history \in SUBSET (Name \X Name)
      /\ name \in [Naming!Account -> Name] /\ renameConnected \in BOOLEAN
      /\ renameLoads \in NamingLoads /\ asked \in 0..NameLoads
  BY DEF Naming!TypeOK, NamingPage, NamingLoads
<1>2. Renames \in Nat /\ NameReloads \in Nat /\ NameLoads \in Nat
  BY DEF Naming!RenameAssumption
<1>3. ASSUME /\ announcing' \in Seq(Naming!Move) /\ renameEvents' \in Seq(Naming!Move)
             /\ waiting' \in Seq(Naming!Move)
             /\ page' \in NamingPage /\ renameStored' \in [Name -> SUBSET Name]
             /\ renameVault' \in SUBSET Name
             /\ renames' \in 0..Renames /\ reloads' \in 0..NameReloads
             /\ renameRequest' \in Naming!TwoNames /\ history' \in SUBSET (Name \X Name)
             /\ name' \in [Naming!Account -> Name] /\ renameConnected' \in BOOLEAN
             /\ renameLoads' \in NamingLoads /\ asked' \in 0..NameLoads
      PROVE  Naming!TypeOK'
  BY <1>3 DEF Naming!TypeOK, NamingPage, NamingLoads
<1> USE DEF Naming!server, Naming!storage, Naming!messages, Naming!lists
<1>4. ASSUME NEW a \in Naming!Account, NEW n \in Name, Naming!Rename(a, n) PROVE Naming!TypeOK'
  <2>1. name' \in [Naming!Account -> Name] /\ name[a] \in Name
    BY <1>1, <1>4 DEF Naming!Rename
  <2>2. announcing' \in Seq(Naming!Move)
    BY <1>1, <1>4, <2>1 DEF Naming!Rename, Naming!Move
  <2>3. renames' \in 0..Renames
    BY <1>1, <1>2, <1>4 DEF Naming!Rename
  <2> QED
    BY <1>1, <1>3, <1>4, <2>1, <2>2, <2>3 DEF Naming!Rename
<1>5. CASE Naming!Announce
  <2>1. announcing' \in Seq(Naming!Move) /\ Head(announcing) \in Naming!Move
    BY <1>1, <1>5, NamingHeadType DEF Naming!Announce
  <2>2. renameEvents' = renameEvents \/ renameEvents' = Append(renameEvents, Head(announcing))
    BY <1>5 DEF Naming!Announce
  <2>3. renameEvents' \in Seq(Naming!Move)
    <3>1. ASSUME NEW m \in Naming!Move PROVE Append(renameEvents, m) \in Seq(Naming!Move)
      BY <1>1
    <3> QED
      BY <1>1, <2>1, <2>2, <3>1
  <2> QED
    BY <1>1, <1>3, <1>5, <2>1, <2>3 DEF Naming!Announce
<1>6. CASE Naming!Disconnect
  <2>1. renameConnected' \in BOOLEAN
    BY <1>6 DEF Naming!Disconnect
  <2>2. renameEvents' \in Seq(Naming!Move)
    BY <1>6 DEF Naming!Disconnect
  <2> QED
    BY <1>1, <1>3, <1>6, <2>1, <2>2 DEF Naming!Disconnect
<1>7. CASE Naming!Connect
  <2>1. renameConnected' \in BOOLEAN
    BY <1>7 DEF Naming!Connect
  <2> QED
    BY <1>1, <1>3, <1>7, <2>1 DEF Naming!Connect
<1>8. CASE Naming!HandleOwn
  <2>1. Head(renameEvents) \in Naming!Move /\ Tail(renameEvents) \in Seq(Naming!Move)
    BY <1>1, <1>8, NamingHeadType DEF Naming!HandleOwn
  <2>2. renameStored' \in [Name -> SUBSET Name]
    BY <1>1, <1>8, <2>1 DEF Naming!HandleOwn, Naming!OwnerRenamed, Naming!Move
  <2> QED
    BY <1>1, <1>3, <1>8, <2>1, <2>2 DEF Naming!HandleOwn
<1>9. CASE Naming!HandleOther
  <2>1. Head(renameEvents) \in Naming!Move /\ Tail(renameEvents) \in Seq(Naming!Move)
    BY <1>1, <1>9, NamingHeadType DEF Naming!HandleOther
  <2>2. page' = Naming!Renamed(page, Head(renameEvents).prev, Head(renameEvents).next)
        /\ renameStored' = Naming!Saved(page', renameStored, Head(renameEvents).prev)
    BY <1>9 DEF Naming!HandleOther
  <2>3. page' \in NamingPage
    BY <1>1, <2>1, <2>2, NamingRenamedType
  <2>4. renameStored' \in [Name -> SUBSET Name]
    BY <2>1, <2>2, <2>3, NamingRenamedType
  <2>5. renameLoads' \in NamingLoads /\ asked' = asked
    BY <1>9, NamingAskedType DEF Naming!HandleOther, Naming!ListsAnew
  <2> QED
    BY <1>1, <1>3, <1>9, <2>1, <2>3, <2>4, <2>5 DEF Naming!HandleOther
<1>10. CASE Naming!Resume
  <2> DEFINE e == Head(waiting)
             p == [page EXCEPT !.me = e.next]
  <2>1. e \in Naming!Move /\ Tail(waiting) \in Seq(Naming!Move) /\ e.next \in Name
    BY <1>1, <1>10, NamingHeadType DEF Naming!Resume, Naming!Move
  <2>2. /\ renameVault' = Naming!Moved(renameVault, e.prev, e.next)
        /\ page' = Naming!Renamed(p, e.prev, e.next)
        /\ renameStored' = Naming!Saved(page', renameStored, e.prev) /\ waiting' = Tail(waiting)
        /\ UNCHANGED <<Naming!server, renameEvents, renameConnected, Naming!messages, reloads>>
    BY <1>10 DEF Naming!Resume
  <2>3. p \in NamingPage
    BY <1>1, <2>1 DEF NamingPage
  <2>6. renameLoads' \in NamingLoads /\ asked' = asked
    BY <1>10, NamingAskedType DEF Naming!Resume, Naming!ListsAnew
  <2> HIDE DEF p, e
  <2>4. page' \in NamingPage /\ renameVault' \in SUBSET Name
    BY <2>1, <2>2, <2>3, NamingRenamedType
  <2>5. renameStored' \in [Name -> SUBSET Name]
    BY <2>1, <2>2, <2>4, NamingRenamedType
  <2> QED
    BY <1>1, <1>3, <2>1, <2>2, <2>4, <2>5, <2>6
<1>11. CASE Naming!Ask \/ Naming!Write \/ Naming!Open
  <2>1. page' \in NamingPage
    BY <1>1, <1>11 DEF Naming!Ask, Naming!Write, Naming!Open, NamingPage
  <2> QED
    BY <1>1, <1>3, <1>11, <2>1 DEF Naming!Ask, Naming!Write, Naming!Open
<1>12. CASE Naming!Confirm
  <2>1. page.dialog \in Name
    BY <1>1, <1>12 DEF Naming!Confirm, NamingPage
  <2>2. page' \in NamingPage
    BY <1>1, <1>12, <2>1 DEF Naming!Confirm, NamingPage
  <2>3. renameStored' \in [Name -> SUBSET Name]
    BY <1>1, <1>12, <2>2 DEF Naming!Confirm, NamingPage
  <2> QED
    BY <1>1, <1>3, <1>12, <2>2, <2>3 DEF Naming!Confirm
<1>13. CASE Naming!Post
  <2>1. renameRequest' \in Naming!TwoNames
    BY <1>1, <1>13 DEF Naming!Post, Naming!TwoNames, NamingPage
  <2> QED
    BY <1>1, <1>3, <1>13, <2>1 DEF Naming!Post
<1>14. CASE Naming!Arrive
  <2>1. page' \in NamingPage
    BY <1>1, <1>14 DEF Naming!Arrive, NamingPage
  <2>2. renameRequest' \in Naming!TwoNames /\ history' \in SUBSET (Name \X Name)
    BY <1>1, <1>14 DEF Naming!Arrive, Naming!TwoNames
  <2> QED
    BY <1>1, <1>3, <1>14, <2>1, <2>2 DEF Naming!Arrive
<1>15. CASE Naming!Reload
  <2>1. page' \in NamingPage
    <3>1. name["me"] \in Name /\ renameStored[name["me"]] \in SUBSET Name
      BY <1>1, NamingNameTypes
    <3> QED
      BY <1>15, <3>1 DEF Naming!Reload, NamingPage
  <2>2. renameVault' \in SUBSET Name
    BY <1>1, <1>15, NamingNameTypes DEF Naming!Reload
  <2>3. /\ reloads' \in 0..NameReloads /\ renameConnected' \in BOOLEAN
        /\ renameRequest' \in Naming!TwoNames
    <3>1. reloads < NameReloads /\ reloads' = reloads + 1
      BY <1>15 DEF Naming!Reload
    <3>2. renameConnected' = FALSE /\ renameRequest' = <<>>
      BY <1>15 DEF Naming!Reload
    <3>3. reloads' \in 0..NameReloads
      BY <1>1, <1>2, <3>1
    <3> QED
      BY <3>2, <3>3 DEF Naming!TwoNames
  <2>4. renameLoads' \in NamingLoads
    BY <1>15 DEF Naming!Reload, NamingLoads
  <2>5. renameEvents' = <<>> /\ waiting' = <<>>
        /\ UNCHANGED <<name, announcing, renames, renameStored, history, asked>>
    BY <1>15 DEF Naming!Reload
  <2> QED
    BY <1>1, <1>3, <2>1, <2>2, <2>3, <2>4, <2>5
<1>16. CASE Naming!AskLists
  <2>1. renameLoads' \in NamingLoads /\ asked' \in 0..NameLoads
    BY <1>1, <1>2, <1>16, NamingAskedType DEF Naming!AskLists
  <2> QED
    BY <1>1, <1>3, <1>16, <2>1 DEF Naming!AskLists
<1>17. CASE Naming!AnswerLists
  <2>1. renameLoads' \in NamingLoads
    <3>1. CASE renameLoads' = [renameLoads EXCEPT !.latest = name["peer"]]
      BY <1>1, <3>1, NamingNameTypes DEF NamingLoads
    <3>2. ASSUME NEW rest \in {renameLoads.before, renameLoads.before \ {Naming!None}},
                 renameLoads' = [renameLoads EXCEPT !.before = rest \cup {name["peer"]}]
          PROVE  renameLoads' \in NamingLoads
      BY <1>1, <3>2, NamingNameTypes DEF NamingLoads
    <3> QED
      BY <1>17, <3>1, <3>2 DEF Naming!AnswerLists
  <2>2. UNCHANGED <<name, announcing, renames, renameEvents, renameConnected, page, renameStored,
                    renameVault, waiting, renameRequest, history, reloads, asked>>
    BY <1>17 DEF Naming!AnswerLists
  <2> QED
    BY <1>1, <1>3, <2>1, <2>2
<1>18. CASE Naming!ShowLists
  <2>1. renameLoads' \in NamingLoads
    BY <1>1, <1>18 DEF Naming!ShowLists, NamingLoads
  <2>2. page' \in NamingPage
    <3>1. PICK n \in Name : page' = [page EXCEPT !.listed = n]
      BY <1>18 DEF Naming!ShowLists
    <3> QED
      BY <1>1, <3>1 DEF NamingPage
  <2> QED
    BY <1>1, <1>3, <1>18, <2>1, <2>2 DEF Naming!ShowLists
<1>19. CASE Naming!LoseLists
  <2>1. renameLoads' \in NamingLoads
    BY <1>1, <1>19 DEF Naming!LoseLists, NamingLoads
  <2> QED
    BY <1>1, <1>3, <1>19, <2>1 DEF Naming!LoseLists
<1>20. CASE UNCHANGED Naming!vars
  BY <1>1, <1>3, <1>20 DEF Naming!vars
<1> QED
  BY <1>4, <1>5, <1>6, <1>7, <1>8, <1>9, <1>10, <1>11, <1>12, <1>13, <1>14, <1>15, <1>16,
     <1>17, <1>18, <1>19, <1>20 DEF Naming!Next

-----------------------------------------------------------------------------
(* The page follows.                                                       *)

\* What it takes to know the names of before.
NamingKnows ==
  \E w \in Seq([Naming!Account -> Name]) :
    Naming!Past(w, Naming!Pending, name) /\ Naming!GoesBy(w)

LEMMA NamingKnowsGoal ==
  ASSUME NEW w \in Seq([Naming!Account -> Name]), Naming!Past(w, Naming!Pending, name)',
         Naming!GoesBy(w)'
  PROVE  NamingKnows'
  BY DEF NamingKnows

\* Without a rename that is pending, the names are those of now.
LEMMA NamingSettledNames ==
  ASSUME Naming!TypeOK, NEW w \in Seq([Naming!Account -> Name]),
         Naming!Past(w, Naming!Pending, name), Naming!Settled
  PROVE  w[1] = name
<1>1. Naming!Pending = <<>>
  BY DEF Naming!Settled, Naming!Pending
<1> QED
  BY <1>1 DEF Naming!Past

LEMMA NamingKnowsRename ==
  ASSUME Naming!TypeOK, NamingKnows, NEW a \in Naming!Account, NEW n \in Name, Naming!Rename(a, n)
  PROVE  NamingKnows'
<1> USE DEF Naming!server, Naming!storage, Naming!messages, Naming!lists
<1>1. PICK w \in Seq([Naming!Account -> Name]) :
        Naming!Past(w, Naming!Pending, name) /\ Naming!GoesBy(w)
  BY DEF NamingKnows
<1> DEFINE m == [prev |-> name[a], next |-> n]
<1>0. PICK v : v = Append(w, [name EXCEPT ![a] = n])
  OBVIOUS
<1>2. /\ announcing \in Seq(Naming!Move) /\ renameEvents \in Seq(Naming!Move)
      /\ waiting \in Seq(Naming!Move)
      /\ name \in [Naming!Account -> Name] /\ m \in Naming!Move
  BY NamingNameTypes DEF Naming!TypeOK, Naming!Move
<1>3. /\ name' = [name EXCEPT ![a] = n] /\ announcing' = Append(announcing, m)
      /\ \A x \in Naming!Account : name[x] # n
      /\ UNCHANGED <<renameEvents, waiting, page, renameStored, renameVault>>
  BY DEF Naming!Rename
<1>4. Naming!Pending \in Seq(Naming!Move)
  BY <1>2 DEF Naming!Pending
<1>5. v \in Seq([Naming!Account -> Name]) /\ Naming!Past(v, Append(Naming!Pending, m), name')
  BY <1>0, <1>1, <1>2, <1>3, <1>4, NamingPastAppend
<1>6. Naming!Pending' = Append(Naming!Pending, m)
  <2>1. waiting \o renameEvents \in Seq(Naming!Move)
    BY <1>2
  <2> HIDE DEF m
  <2>2. (waiting \o renameEvents) \o Append(announcing, m)
          = Append((waiting \o renameEvents) \o announcing, m)
    BY <1>2, <2>1, NamingAdded
  <2> QED
    BY <1>3, <2>2 DEF Naming!Pending
<1>7. Naming!Past(v, Naming!Pending, name)'
  BY <1>5, <1>6 DEF Naming!Past
<1>8. v[1] = w[1] /\ (waiting # <<>> => v[2] = w[2])
  <2>1. Len(w) = Len(Naming!Pending) + 1 /\ Len(Naming!Pending) \in Nat
    BY <1>1, <1>4 DEF Naming!Past
  <2>2. waiting # <<>> => Len(Naming!Pending) >= 1
    BY <1>2 DEF Naming!Pending
  <2>3. [name EXCEPT ![a] = n] \in [Naming!Account -> Name]
    BY <1>2
  <2>4. \A k \in 1..Len(w) : v[k] = w[k]
    BY <1>0, <2>3
  <2> QED
    BY <2>1, <2>2, <2>4
<1>9. Naming!GoesBy(v)'
  BY <1>1, <1>3, <1>8 DEF Naming!GoesBy
<1> QED
  BY <1>5, <1>7, <1>9, NamingKnowsGoal

\* Steps that leave the renames that are pending, the page's names and the
\* device alone.
LEMMA NamingKnowsQuiet ==
  ASSUME Naming!TypeOK, NamingKnows, Naming!Pending' = Naming!Pending,
         UNCHANGED <<name, waiting, renameStored, renameVault>>,
         page'.me = page.me, page'.pins = page.pins,
         page'.queued \in {Naming!None, page.queued, page.open},
         page'.open = page.open \/ (Naming!Settled /\ page'.open = name["peer"])
  PROVE  NamingKnows'
<1>1. PICK w \in Seq([Naming!Account -> Name]) :
        Naming!Past(w, Naming!Pending, name) /\ Naming!GoesBy(w)
  BY DEF NamingKnows
<1>2. Naming!Past(w, Naming!Pending, name)'
  BY <1>1 DEF Naming!Past
<1>3. {page'.open, page'.queued} \subseteq {Naming!None, w[1]["peer"]}
  BY <1>1, NamingSettledNames DEF Naming!GoesBy
<1>4. Naming!GoesBy(w)'
  BY <1>1, <1>3 DEF Naming!GoesBy
<1> QED
  BY <1>2, <1>4, NamingKnowsGoal

\* The storage moves with the owner.
LEMMA NamingKnowsOwn ==
  ASSUME Naming!RenameAssumption, Naming!TypeOK, NamingKnows, Naming!HandleOwn, waiting = <<>>
  PROVE  NamingKnows'
<1> USE DEF Naming!server, Naming!storage, Naming!messages, Naming!lists
<1>1. PICK w \in Seq([Naming!Account -> Name]) :
        Naming!Past(w, Naming!Pending, name) /\ Naming!GoesBy(w)
  BY DEF NamingKnows
<1> DEFINE e == Head(renameEvents)
<1>2. /\ announcing \in Seq(Naming!Move) /\ renameEvents \in Seq(Naming!Move)
      /\ waiting \in Seq(Naming!Move)
      /\ renameStored \in [Name -> SUBSET Name]
  BY DEF Naming!TypeOK
<1>3. /\ renameEvents # <<>> /\ e.prev = page.me
      /\ renameStored' = Naming!OwnerRenamed(renameStored, e.prev, e.next)
      /\ waiting' = Append(waiting, e) /\ renameEvents' = Tail(renameEvents)
      /\ UNCHANGED <<name, announcing, page, renameVault>>
  BY DEF Naming!HandleOwn
<1>4. /\ Append(<<>>, e) \o Tail(renameEvents) = renameEvents
      /\ <<>> \o renameEvents = renameEvents
      /\ e \in Naming!Move
  BY <1>2, <1>3, NamingHeadOff
<1>5. Naming!Pending' = Naming!Pending
  BY <1>3, <1>4 DEF Naming!Pending
<1>6. Naming!Pending # <<>> /\ Head(Naming!Pending) = e /\ Naming!Pending \in Seq(Naming!Move)
  <2>1. /\ <<>> \o renameEvents = renameEvents /\ renameEvents \o announcing # <<>>
        /\ Head(renameEvents \o announcing) = e
    BY <1>2, <1>3, <1>4, NamingHeadOff
  <2> QED
    BY <1>2, <2>1 DEF Naming!Pending
<1>7. Naming!Past(w, Naming!Pending, name)'
  BY <1>1, <1>3, <1>5 DEF Naming!Past
<1>8. /\ w[1] \in [Naming!Account -> Name] /\ w[2] \in [Naming!Account -> Name]
      /\ \A x, y \in Naming!Account : w[1][x] = w[1][y] => x = y
      /\ \E a \in Naming!Account : /\ e = [prev |-> w[1][a], next |-> w[2][a]]
                            /\ w[2] = [w[1] EXCEPT ![a] = w[2][a]] /\ w[1][a] # w[2][a]
  <2>1. NamingFirstMove(e, w[1], w[2])
    BY <1>1, <1>6, NamingPastTail
  <2> QED
    BY <2>1 DEF NamingFirstMove
<1>9. e.prev = w[1]["me"] /\ e.next = w[2]["me"] /\ e.prev # e.next
  <2>1. PICK a \in Naming!Account :
          /\ e = [prev |-> w[1][a], next |-> w[2][a]] /\ w[1][a] # w[2][a]
    BY <1>8
  <2>2. w[1][a] = w[1]["me"]
    BY <1>1, <1>3, <2>1 DEF Naming!GoesBy
  <2>3. a = "me"
    BY <1>8, <2>2 DEF Naming!Account
  <2> QED
    BY <2>1, <2>3
<1> HIDE DEF e
<1>10. waiting' = <<e>> /\ Len(waiting') = 1 /\ waiting'[1] = e /\ waiting' # <<>>
  BY <1>3, <1>4
<1>11. renameStored' = [n \in Name |-> IF n = w[2]["me"] THEN page.pins ELSE {}]
  <2>1. renameStored = [n \in Name |-> IF n = e.prev THEN page.pins ELSE {}]
    BY <1>1, <1>9 DEF Naming!GoesBy
  <2>2. e.prev \in Name /\ e.next \in Name
    BY <1>4 DEF Naming!Move
  <2>3. renameStored[e.prev] = page.pins
    BY <2>1, <2>2
  <2>4. CASE page.pins = {}
    BY <1>3, <1>9, <2>1, <2>3, <2>4 DEF Naming!OwnerRenamed
  <2>5. CASE page.pins # {}
    <3>1. renameStored' = [renameStored EXCEPT ![e.next] = page.pins, ![e.prev] = {}]
      BY <1>3, <2>3, <2>5 DEF Naming!OwnerRenamed
    <3> QED
      BY <1>9, <2>1, <2>2, <3>1
  <2> QED
    BY <2>4, <2>5
<1>12. Naming!GoesBy(w)'
  BY <1>1, <1>3, <1>10, <1>11 DEF Naming!GoesBy
<1> QED
  BY <1>7, <1>12, NamingKnowsGoal

\* Vault, page, pins and the waiting message follow an own rename.
LEMMA NamingKnowsResume ==
  ASSUME Naming!RenameAssumption, Naming!TypeOK, NamingKnows, Naming!Resume PROVE NamingKnows'
<1> USE DEF Naming!server, Naming!storage, Naming!messages, Naming!lists
<1>1. PICK w \in Seq([Naming!Account -> Name]) :
        Naming!Past(w, Naming!Pending, name) /\ Naming!GoesBy(w)
  BY DEF NamingKnows
<1> DEFINE e == Head(waiting)
           p == [page EXCEPT !.me = e.next]
<1>2. /\ announcing \in Seq(Naming!Move) /\ renameEvents \in Seq(Naming!Move)
      /\ waiting \in Seq(Naming!Move)
      /\ renameStored \in [Name -> SUBSET Name]
      /\ page \in NamingPage
  BY DEF Naming!TypeOK, NamingPage
<1>3. /\ waiting # <<>> /\ waiting' = Tail(waiting)
      /\ renameVault' = Naming!Moved(renameVault, e.prev, e.next)
      /\ page' = Naming!Renamed(p, e.prev, e.next)
      /\ renameStored' = Naming!Saved(page', renameStored, e.prev)
      /\ UNCHANGED <<name, announcing, renameEvents>>
  BY DEF Naming!Resume
<1>4. /\ waiting \o (renameEvents \o announcing) = Naming!Pending
      /\ renameEvents \o announcing \in Seq(Naming!Move)
      /\ Naming!Pending \in Seq(Naming!Move)
  BY <1>2, NamingAssociates DEF Naming!Pending
<1>5. /\ Naming!Pending # <<>> /\ Head(Naming!Pending) = e /\ e \in Naming!Move
      /\ Tail(waiting) \in Seq(Naming!Move)
      /\ Tail(waiting) \o (renameEvents \o announcing) = Tail(Naming!Pending)
  BY <1>2, <1>3, <1>4, NamingHeadOff
<1>6. Naming!Pending' = Tail(Naming!Pending)
  <2>1. Naming!Pending' = Tail(waiting) \o renameEvents \o announcing
    BY <1>3 DEF Naming!Pending
  <2>2. Tail(waiting) \o renameEvents \o announcing
          = Tail(waiting) \o (renameEvents \o announcing)
    BY <1>2, <1>5
  <2> QED
    BY <1>5, <2>1, <2>2
<1>7. Len(waiting) = 1 /\ waiting[1] = e /\ e.prev = page.me /\ Tail(waiting) = <<>>
  BY <1>1, <1>2, <1>3 DEF Naming!GoesBy
<1>0. PICK v : v = Tail(w)
  OBVIOUS
<1>8. /\ w[1] \in [Naming!Account -> Name] /\ w[2] \in [Naming!Account -> Name]
      /\ \A x, y \in Naming!Account : w[1][x] = w[1][y] => x = y
      /\ \E a \in Naming!Account : /\ e = [prev |-> w[1][a], next |-> w[2][a]]
                            /\ w[2] = [w[1] EXCEPT ![a] = w[2][a]] /\ w[1][a] # w[2][a]
      /\ v \in Seq([Naming!Account -> Name]) /\ v[1] = w[2]
      /\ Naming!Past(v, Tail(Naming!Pending), name)
  <2>1. /\ NamingFirstMove(Head(Naming!Pending), w[1], w[2])
        /\ Naming!Past(v, Tail(Naming!Pending), name)
        /\ v \in Seq([Naming!Account -> Name]) /\ v[1] = w[2]
    BY <1>0, <1>1, <1>4, <1>5, NamingPastTail
  <2>2. NamingFirstMove(e, w[1], w[2])
    BY <1>5, <1>6, <2>1
  <2> QED
    BY <2>1, <2>2 DEF NamingFirstMove
<1>9. /\ e.prev = w[1]["me"] /\ e.next = w[2]["me"] /\ w[1]["peer"] = w[2]["peer"]
      /\ e.prev # w[1]["peer"]
  <2>1. PICK a \in Naming!Account : /\ e = [prev |-> w[1][a], next |-> w[2][a]]
                             /\ w[2] = [w[1] EXCEPT ![a] = w[2][a]]
    BY <1>8
  <2>2. w[1][a] = w[1]["me"]
    BY <1>1, <1>7, <2>1 DEF Naming!GoesBy
  <2>3. a = "me" /\ "me" \in Naming!Account /\ "peer" \in Naming!Account
    BY <1>8, <2>2 DEF Naming!Account
  <2> QED
    BY <1>8, <2>1, <2>3
<1>10. e.prev \in Name /\ e.next \in Name /\ e.prev # Naming!None
  BY <1>5 DEF Naming!Move, Naming!RenameAssumption
<1> HIDE DEF e
<1>11. /\ p.pins = page.pins /\ p.queued = page.queued /\ p.open = page.open
       /\ p.me = w[2]["me"] /\ p \in NamingPage
  BY <1>2, <1>9, <1>10 DEF NamingPage
<1>12. e.prev \notin page.pins /\ page.queued # e.prev /\ page.open # e.prev
  BY <1>1, <1>9, <1>10 DEF Naming!GoesBy
<1>13. /\ page'.me = w[2]["me"] /\ page'.pins = page.pins /\ page'.queued = page.queued
       /\ page'.open = page.open
  BY <1>3, <1>11, <1>12 DEF Naming!Renamed, Naming!Moved, Naming!Follow, NamingPage
<1>14. renameStored' = renameStored
  BY <1>3, <1>12 DEF Naming!Saved
<1>15. renameVault' = {w[2]["me"]}
  BY <1>1, <1>3, <1>9 DEF Naming!GoesBy, Naming!Moved
<1>16. Naming!GoesBy(v)'
  <2>1. waiting' = <<>> /\ v[1]["me"] = w[2]["me"] /\ v[1]["peer"] = w[1]["peer"]
    BY <1>3, <1>7, <1>8, <1>9
  <2>2. renameStored' = [n \in Name |-> IF n = v[1]["me"] THEN page'.pins ELSE {}]
    BY <1>1, <1>3, <1>13, <1>14, <2>1 DEF Naming!GoesBy
  <2>3. /\ page'.pins \subseteq {v[1]["peer"]}
        /\ {page'.open, page'.queued} \subseteq {Naming!None, v[1]["peer"]}
    BY <1>1, <1>13, <2>1 DEF Naming!GoesBy
  <2> QED
    BY <1>13, <1>15, <2>1, <2>2, <2>3 DEF Naming!GoesBy
<1>17. Naming!Past(v, Naming!Pending, name)'
  BY <1>3, <1>6, <1>8
<1> QED
  BY <1>8, <1>16, <1>17, NamingKnowsGoal

\* Pins and the waiting message follow the rename of another account.
LEMMA NamingKnowsOther ==
  ASSUME Naming!RenameAssumption, Naming!TypeOK, NamingKnows, Naming!HandleOther, waiting = <<>>
  PROVE  NamingKnows'
<1> USE DEF Naming!server, Naming!storage, Naming!messages, Naming!lists
<1>1. PICK w \in Seq([Naming!Account -> Name]) :
        Naming!Past(w, Naming!Pending, name) /\ Naming!GoesBy(w)
  BY DEF NamingKnows
<1> DEFINE e == Head(renameEvents)
<1>2. /\ announcing \in Seq(Naming!Move) /\ renameEvents \in Seq(Naming!Move)
      /\ renameStored \in [Name -> SUBSET Name]
      /\ page \in NamingPage
  BY DEF Naming!TypeOK, NamingPage
<1>3. /\ renameEvents # <<>> /\ renameEvents' = Tail(renameEvents) /\ e.prev # page.me
      /\ page' = Naming!Renamed(page, e.prev, e.next)
      /\ renameStored' = Naming!Saved(page', renameStored, e.prev)
      /\ UNCHANGED <<name, announcing, waiting, renameVault>>
  BY DEF Naming!HandleOther
<1>4. /\ e \in Naming!Move /\ renameEvents \o announcing # <<>>
      /\ Head(renameEvents \o announcing) = e
      /\ Tail(renameEvents) \o announcing = Tail(renameEvents \o announcing)
      /\ Tail(renameEvents) \in Seq(Naming!Move)
  BY <1>2, <1>3, NamingHeadOff
<1>5. /\ Naming!Pending = renameEvents \o announcing
      /\ Naming!Pending' = Tail(renameEvents) \o announcing /\ Naming!Pending \in Seq(Naming!Move)
  BY <1>2, <1>3, <1>4 DEF Naming!Pending
<1>6. Naming!Pending' = Tail(Naming!Pending) /\ Head(Naming!Pending) = e /\ Naming!Pending # <<>>
  BY <1>4, <1>5
<1>0. PICK v : v = Tail(w)
  OBVIOUS
<1>7. /\ w[1] \in [Naming!Account -> Name] /\ w[2] \in [Naming!Account -> Name]
      /\ \A x, y \in Naming!Account : w[1][x] = w[1][y] => x = y
      /\ \E a \in Naming!Account : /\ e = [prev |-> w[1][a], next |-> w[2][a]]
                            /\ w[2] = [w[1] EXCEPT ![a] = w[2][a]] /\ w[1][a] # w[2][a]
      /\ v \in Seq([Naming!Account -> Name]) /\ v[1] = w[2]
      /\ Naming!Past(v, Tail(Naming!Pending), name)
  <2>1. /\ NamingFirstMove(Head(Naming!Pending), w[1], w[2])
        /\ Naming!Past(v, Tail(Naming!Pending), name)
        /\ v \in Seq([Naming!Account -> Name]) /\ v[1] = w[2]
    BY <1>0, <1>1, <1>5, <1>6, NamingPastTail
  <2>2. NamingFirstMove(e, w[1], w[2])
    BY <1>5, <1>6, <2>1
  <2> QED
    BY <2>1, <2>2 DEF NamingFirstMove
<1>8. PICK a \in Naming!Account : /\ e = [prev |-> w[1][a], next |-> w[2][a]]
                           /\ w[2] = [w[1] EXCEPT ![a] = w[2][a]] /\ w[1][a] # w[2][a]
  BY <1>7
<1>9. a # "me" /\ "me" \in Naming!Account /\ "peer" \in Naming!Account
  BY <1>1, <1>3, <1>8 DEF Naming!GoesBy, Naming!Account
<1>10. /\ e.prev = w[1][a] /\ e.next = w[2][a] /\ w[2]["me"] = w[1]["me"]
       /\ e.prev \in Name /\ e.prev # Naming!None
  BY <1>4, <1>7, <1>8, <1>9 DEF Naming!Move, Naming!RenameAssumption
<1> HIDE DEF e
<1>11. /\ page'.me = page.me /\ page'.pins = Naming!Moved(page.pins, e.prev, e.next)
       /\ page'.queued = Naming!Follow(page.queued, e.prev, e.next)
       /\ page'.open = Naming!Follow(page.open, e.prev, e.next)
  BY <1>2, <1>3 DEF Naming!Renamed, NamingPage
<1>12. /\ page'.pins \subseteq {w[2]["peer"]}
       /\ {page'.open, page'.queued} \subseteq {Naming!None, w[2]["peer"]}
  <2>1. CASE a = "peer"
    BY <1>1, <1>10, <1>11, <2>1 DEF Naming!GoesBy, Naming!Moved, Naming!Follow
  <2>2. CASE a # "peer"
    <3>1. w[2]["peer"] = w[1]["peer"] /\ w[1]["peer"] # e.prev
      BY <1>7, <1>8, <1>9, <1>10, <2>2
    <3> QED
      BY <1>1, <1>10, <1>11, <3>1 DEF Naming!GoesBy, Naming!Moved, Naming!Follow
  <2> QED
    BY <2>1, <2>2
<1>13. renameStored' = [n \in Name |-> IF n = w[2]["me"] THEN page'.pins ELSE {}]
  <2>1. /\ renameStored = [n \in Name |-> IF n = w[2]["me"] THEN page.pins ELSE {}]
        /\ w[2]["me"] \in Name
        /\ page'.me = w[2]["me"]
    BY <1>1, <1>7, <1>9, <1>10, <1>11 DEF Naming!GoesBy
  <2>2. CASE e.prev \in page.pins
    <3>1. renameStored' = [renameStored EXCEPT ![page'.me] = page'.pins]
      BY <1>3, <2>2 DEF Naming!Saved
    <3> QED
      BY <2>1, <3>1
  <2>3. CASE e.prev \notin page.pins
    <3>1. renameStored' = renameStored /\ page'.pins = page.pins
      BY <1>3, <1>11, <2>3 DEF Naming!Saved, Naming!Moved
    <3> QED
      BY <2>1, <3>1
  <2> QED
    BY <2>2, <2>3
<1>14. Naming!GoesBy(v)'
  <2>1. waiting' = <<>> /\ v[1] = w[2] /\ page.me = w[1]["me"] /\ renameVault = {w[1]["me"]}
    BY <1>1, <1>3, <1>7 DEF Naming!GoesBy
  <2> QED
    <3>1. renameStored' = [n \in Name |-> IF n = v[1]["me"] THEN page'.pins ELSE {}]
      BY <1>13, <2>1
    <3>2. /\ page'.pins \subseteq {v[1]["peer"]}
          /\ {page'.open, page'.queued} \subseteq {Naming!None, v[1]["peer"]}
      BY <1>12, <2>1
    <3>3. page'.me = v[1]["me"] /\ renameVault' = {v[1]["me"]}
      BY <1>3, <1>10, <1>11, <2>1
    <3> QED
      BY <2>1, <3>1, <3>2, <3>3 DEF Naming!GoesBy
<1>15. Naming!Past(v, Naming!Pending, name)'
  BY <1>3, <1>6, <1>7
<1> QED
  BY <1>7, <1>14, <1>15, NamingKnowsGoal

\* What the user confirms about the open conversation while no handler waits.
LEMMA NamingKnowsConfirmed ==
  ASSUME Naming!TypeOK, NamingKnows, Naming!Pending' = Naming!Pending, waiting = <<>>,
         UNCHANGED <<name, waiting, renameVault>>, page.open # Naming!None,
         page'.me = page.me, page'.pins = page.pins \cup {page.open},
         page'.queued = page.queued, page'.open = page.open,
         renameStored' = [renameStored EXCEPT ![page.me] = page'.pins]
  PROVE  NamingKnows'
<1>1. PICK w \in Seq([Naming!Account -> Name]) :
        Naming!Past(w, Naming!Pending, name) /\ Naming!GoesBy(w)
  BY DEF NamingKnows
<1>2. Naming!Past(w, Naming!Pending, name)'
  BY <1>1 DEF Naming!Past
<1>3. /\ page.open = w[1]["peer"] /\ page.me = w[1]["me"] /\ page.me \in Name
      /\ renameStored = [n \in Name |-> IF n = page.me THEN page.pins ELSE {}]
  BY <1>1, NamingNameTypes DEF Naming!GoesBy
<1>4. renameStored' = [n \in Name |-> IF n = w[1]["me"] THEN page'.pins ELSE {}]
  BY <1>3
<1>5. page'.pins \subseteq {w[1]["peer"]}
  BY <1>1, <1>3 DEF Naming!GoesBy
<1>6. Naming!GoesBy(w)'
  BY <1>1, <1>4, <1>5 DEF Naming!GoesBy
<1> QED
  BY <1>2, <1>6, NamingKnowsGoal

\* What a new page reads while nothing is pending.
LEMMA NamingKnowsSettled ==
  ASSUME Naming!TypeOK, NamingKnows, Naming!Settled, Naming!Settled', UNCHANGED name,
         page'.me = name["me"], page'.pins \subseteq {name["peer"]},
         {page'.open, page'.queued} \subseteq {Naming!None, name["peer"]},
         renameStored' = [renameStored EXCEPT ![name["me"]] = page'.pins],
         renameVault' = renameVault \cup {name["me"]}
  PROVE  NamingKnows'
<1>1. PICK w \in Seq([Naming!Account -> Name]) :
        Naming!Past(w, Naming!Pending, name) /\ Naming!GoesBy(w)
  BY DEF NamingKnows
<1>2. /\ w[1] = name /\ Naming!Pending' = <<>> /\ Naming!Pending = <<>> /\ waiting = <<>>
      /\ waiting' = <<>>
  BY <1>1, NamingSettledNames DEF Naming!Settled, Naming!Pending
<1>3. Naming!Past(w, Naming!Pending, name)'
  BY <1>1, <1>2 DEF Naming!Past
<1>4. renameStored' = [n \in Name |-> IF n = name["me"] THEN page'.pins ELSE {}]
  BY <1>1, <1>2, NamingNameTypes DEF Naming!GoesBy
<1>5. Naming!GoesBy(w)'
  BY <1>1, <1>2, <1>4 DEF Naming!GoesBy
<1> QED
  BY <1>3, <1>5, NamingKnowsGoal

-----------------------------------------------------------------------------
(* The steps.                                                              *)

NamingNames == \A x, y \in Naming!Account : name[x] = name[y] => x = y
NamingListKept ==
  /\ Naming!Settled /\ ~missed =>
       renameLoads.latest \in {Naming!Shown, Naming!Failed, Naming!None, name["peer"]}
  /\ Naming!ListFollows

LEMMA NamingParts == Naming!Shape <=> NamingNames /\ (~missed /\ ~crossed => NamingKnows)
                       /\ NamingListKept
  BY DEF Naming!Shape, NamingNames, NamingListKept, NamingKnows

LEMMA NamingNamesInv ==
  ASSUME Naming!TypeOK, NamingNames, [Naming!Next]_(Naming!vars) PROVE NamingNames'
<1> USE DEF Naming!server
<1>1. ASSUME NEW a \in Naming!Account, NEW n \in Name, Naming!Rename(a, n) PROVE NamingNames'
  <2>1. name \in [Naming!Account -> Name] /\ name' = [name EXCEPT ![a] = n]
          /\ \A x \in Naming!Account : name[x] # n
    BY <1>1 DEF Naming!TypeOK, Naming!Rename
  <2> QED
    BY <2>1 DEF NamingNames
<1>2. CASE \/ Naming!Announce \/ Naming!Disconnect \/ Naming!Connect \/ Naming!HandleOwn
        \/ Naming!AskLists \/ Naming!AnswerLists \/ Naming!ShowLists \/ Naming!LoseLists
        \/ Naming!HandleOther \/ Naming!Resume \/ Naming!Open \/ Naming!Ask
        \/ Naming!Confirm \/ Naming!Write \/ Naming!Post \/ Naming!Arrive \/ Naming!Reload
        \/ UNCHANGED Naming!vars
  <2>1. name' = name
    BY <1>2 DEF Naming!Announce, Naming!Disconnect, Naming!Connect, Naming!HandleOwn,
                Naming!AskLists, Naming!AnswerLists, Naming!ShowLists, Naming!LoseLists,
                Naming!HandleOther, Naming!Resume, Naming!Open, Naming!Ask, Naming!Confirm,
                Naming!Write, Naming!Post, Naming!Arrive, Naming!Reload, Naming!vars
  <2> QED
    BY <2>1 DEF NamingNames
<1> QED
  BY <1>1, <1>2 DEF Naming!Next

LEMMA NamingListInv ==
  ASSUME Naming!RenameAssumption, Naming!TypeOK, NamingListKept, [Naming!Next]_(Naming!vars)
  PROVE  NamingListKept'
<1> USE DEF Naming!server, Naming!storage, Naming!messages, Naming!lists
<1>0. /\ announcing \in Seq(Naming!Move) /\ renameEvents \in Seq(Naming!Move)
      /\ waiting \in Seq(Naming!Move) /\ page \in NamingPage /\ renameLoads \in NamingLoads
      /\ {Naming!None, Naming!Shown, Naming!Failed} \cap Name = {} /\ name["peer"] \in Name
  BY NamingNameTypes DEF Naming!TypeOK, NamingPage, NamingLoads, Naming!RenameAssumption
<1>1. ASSUME NEW a \in Naming!Account, NEW n \in Name, Naming!Rename(a, n) PROVE NamingListKept'
  <2>1. [prev |-> name[a], next |-> n] \in Naming!Move
    BY <1>1 DEF Naming!TypeOK, Naming!Move
  <2>2. announcing' # <<>>
    <3>1. ASSUME NEW m \in Naming!Move PROVE Append(announcing, m) # <<>>
      BY <1>0, AppendProperties
    <3> QED
      BY <1>1, <2>1, <3>1 DEF Naming!Rename
  <2> QED
    BY <2>2 DEF NamingListKept, Naming!Settled, Naming!ListFollows
<1>2. CASE Naming!Announce
  <2>1. Head(announcing) \in Naming!Move
    BY <1>0, <1>2, NamingHeadType DEF Naming!Announce
  <2>2. renameEvents' # <<>> \/ missed' = TRUE
    BY <1>0, <1>2, <2>1 DEF Naming!Announce
  <2> QED
    BY <2>2 DEF NamingListKept, Naming!Settled, Naming!ListFollows
<1>3. CASE Naming!Disconnect
  <2>1. /\ renameEvents' = <<>> /\ (~missed' => ~missed /\ renameEvents = <<>>)
        /\ UNCHANGED <<name, announcing, waiting, page, renameLoads, stale>>
    BY <1>3 DEF Naming!Disconnect
  <2> QED
    BY <2>1 DEF NamingListKept, Naming!Settled, Naming!ListFollows
<1>4. CASE Naming!HandleOther \/ Naming!Resume \/ Naming!Reload
  <2>1. page'.listed = Naming!None
    <3>1. CASE Naming!HandleOther
      BY <1>0, <3>1 DEF Naming!HandleOther, Naming!Renamed, NamingPage
    <3>2. CASE Naming!Resume
      <4>1. PICK p : page' = Naming!Renamed(p, Head(waiting).prev, Head(waiting).next)
                     /\ p = [page EXCEPT !.me = Head(waiting).next]
        BY <3>2 DEF Naming!Resume
      <4> QED
        BY <1>0, <4>1 DEF Naming!Renamed, NamingPage
    <3>3. CASE Naming!Reload
      BY <3>3 DEF Naming!Reload
    <3> QED
      BY <1>4, <3>1, <3>2, <3>3
  <2>2. renameLoads'.latest = Naming!None
    BY <1>4 DEF Naming!HandleOther, Naming!Resume, Naming!Reload, Naming!ListsAnew, Naming!Asked
  <2>3. Naming!None # Naming!Shown
    BY DEF Naming!None, Naming!Shown
  <2> QED
    BY <2>1, <2>2, <2>3 DEF NamingListKept, Naming!ListFollows
<1>5. CASE Naming!HandleOwn
  <2>1. Head(renameEvents) \in Naming!Move
    BY <1>0, <1>5, NamingHeadType DEF Naming!HandleOwn
  <2>2. waiting' # <<>>
    BY <1>0, <1>5, <2>1 DEF Naming!HandleOwn
  <2> QED
    BY <2>2 DEF NamingListKept, Naming!Settled, Naming!ListFollows
<1>6. CASE Naming!AskLists
  <2>1. /\ renameLoads'.latest = Naming!None
        /\ UNCHANGED <<name, announcing, renameEvents, waiting, missed, page, stale>>
    BY <1>6 DEF Naming!AskLists, Naming!Asked
  <2>2. Naming!None # Naming!Shown
    BY DEF Naming!None, Naming!Shown
  <2> QED
    BY <2>1, <2>2 DEF NamingListKept, Naming!Settled, Naming!ListFollows
<1>7. CASE Naming!AnswerLists
  <2>1. UNCHANGED <<name, announcing, renameEvents, waiting, missed, page, stale>>
    BY <1>7 DEF Naming!AnswerLists
  <2>2. \/ renameLoads'.latest = renameLoads.latest
        \/ renameLoads.latest = Naming!None /\ renameLoads'.latest = name["peer"]
    BY <1>0, <1>7 DEF Naming!AnswerLists, NamingLoads
  <2>3. Naming!Shown # name["peer"]
    BY <1>0
  <2> QED
    BY <2>1, <2>2, <2>3 DEF NamingListKept, Naming!Settled, Naming!ListFollows
<1>8. CASE Naming!ShowLists
  <2>1. UNCHANGED <<name, announcing, renameEvents, waiting, missed>>
    BY <1>8 DEF Naming!ShowLists
  <2>2. CASE /\ renameLoads.latest \in Name /\ renameLoads'.latest = Naming!Shown
             /\ page'.listed = renameLoads.latest
    BY <1>0, <2>1, <2>2 DEF NamingListKept, Naming!Settled, Naming!ListFollows
  <2>3. CASE stale' = TRUE /\ renameLoads'.latest = renameLoads.latest
    BY <2>1, <2>3 DEF NamingListKept, Naming!Settled, Naming!ListFollows
  <2> QED
    BY <1>0, <1>8, <2>2, <2>3 DEF Naming!ShowLists, NamingLoads, NamingPage
<1>9. CASE Naming!LoseLists
  <2>1. UNCHANGED <<name, announcing, renameEvents, waiting, missed, page, stale>>
    BY <1>9 DEF Naming!LoseLists
  <2>2. renameLoads'.latest \in {renameLoads.latest, Naming!Failed}
    BY <1>0, <1>9 DEF Naming!LoseLists, NamingLoads
  <2>3. Naming!Failed # Naming!Shown
    BY DEF Naming!Failed, Naming!Shown
  <2> QED
    BY <2>1, <2>2, <2>3 DEF NamingListKept, Naming!Settled, Naming!ListFollows
<1>10. CASE Naming!Connect \/ Naming!Open \/ Naming!Ask \/ Naming!Confirm \/ Naming!Write
         \/ Naming!Post \/ Naming!Arrive \/ UNCHANGED Naming!vars
  <2>1. UNCHANGED <<name, announcing, renameEvents, waiting, missed, renameLoads, stale>>
    BY <1>10 DEF Naming!Connect, Naming!Open, Naming!Ask, Naming!Confirm, Naming!Write,
                 Naming!Post, Naming!Arrive, Naming!vars
  <2>2. page'.listed = page.listed
    BY <1>0, <1>10 DEF Naming!Connect, Naming!Open, Naming!Ask, Naming!Confirm, Naming!Write,
                       Naming!Post, Naming!Arrive, Naming!vars, NamingPage
  <2> QED
    BY <2>1, <2>2 DEF NamingListKept, Naming!Settled, Naming!ListFollows
<1> QED
  BY <1>1, <1>2, <1>3, <1>4, <1>5, <1>6, <1>7, <1>8, <1>9, <1>10 DEF Naming!Next

LEMMA NamingKnowsInv ==
  ASSUME Naming!RenameAssumption, Naming!TypeOK, NamingNames, NamingListKept,
         ~missed /\ ~crossed => NamingKnows, [Naming!Next]_(Naming!vars)
  PROVE  ~missed' /\ ~crossed' => NamingKnows'
<1> SUFFICES ASSUME ~missed', ~crossed' PROVE NamingKnows'
  OBVIOUS
<1> USE DEF Naming!server, Naming!storage, Naming!messages, Naming!lists
<1>0. /\ announcing \in Seq(Naming!Move) /\ renameEvents \in Seq(Naming!Move)
      /\ waiting \in Seq(Naming!Move)
      /\ page \in NamingPage
  BY DEF Naming!TypeOK, NamingPage
<1>1. ASSUME NEW a \in Naming!Account, NEW n \in Name, Naming!Rename(a, n) PROVE NamingKnows'
  BY <1>1, NamingKnowsRename DEF Naming!Rename
<1>2. CASE Naming!Announce
  <2>1. /\ announcing # <<>> /\ announcing' = Tail(announcing)
        /\ renameEvents' = Append(renameEvents, Head(announcing))
        /\ UNCHANGED <<missed, crossed, name, page, renameStored, renameVault, waiting>>
    BY <1>2 DEF Naming!Announce
  <2>2. Naming!Pending' = Naming!Pending
    BY <1>0, <2>1, NamingAnnounced DEF Naming!Pending
  <2> QED
    BY <2>1, <2>2, NamingKnowsQuiet
<1>3. CASE Naming!Disconnect
  <2>1. /\ ~missed /\ ~crossed /\ renameEvents = <<>> /\ renameEvents' = <<>>
        /\ UNCHANGED <<name, announcing, page, renameStored, renameVault, waiting>>
    BY <1>3 DEF Naming!Disconnect
  <2>2. Naming!Pending' = Naming!Pending
    BY <2>1 DEF Naming!Pending
  <2> QED
    BY <2>1, <2>2, NamingKnowsQuiet
<1>4. CASE \/ Naming!Connect \/ Naming!Ask \/ Naming!Write \/ Naming!Post \/ Naming!Arrive
           \/ Naming!AskLists \/ Naming!AnswerLists \/ Naming!ShowLists \/ Naming!LoseLists
           \/ UNCHANGED Naming!vars
  <2>1. /\ ~missed /\ ~crossed
        /\ UNCHANGED <<name, announcing, renameEvents, waiting, renameStored, renameVault>>
    <3>1. CASE Naming!Connect \/ Naming!Ask \/ Naming!Write \/ Naming!Post \/ Naming!Arrive
      BY <3>1 DEF Naming!Connect, Naming!Ask, Naming!Write, Naming!Post, Naming!Arrive
    <3>2. CASE \/ Naming!AskLists \/ Naming!AnswerLists \/ Naming!ShowLists \/ Naming!LoseLists
      BY <3>2 DEF Naming!AskLists, Naming!AnswerLists, Naming!ShowLists, Naming!LoseLists
    <3>3. CASE UNCHANGED Naming!vars
      BY <3>3 DEF Naming!vars
    <3> QED
      BY <1>4, <3>1, <3>2, <3>3
  <2>2. Naming!Pending' = Naming!Pending
    BY <2>1 DEF Naming!Pending
  <2>3. /\ page'.me = page.me /\ page'.pins = page.pins /\ page'.open = page.open
        /\ page'.queued \in {Naming!None, page.queued, page.open}
    <3>1. CASE Naming!Connect \/ Naming!Ask \/ Naming!Write \/ Naming!Post \/ Naming!Arrive
      BY <1>0, <3>1 DEF Naming!Connect, Naming!Ask, Naming!Write, Naming!Post, Naming!Arrive,
                        NamingPage
    <3>2. CASE Naming!AskLists \/ Naming!AnswerLists \/ Naming!LoseLists
      BY <3>2 DEF Naming!AskLists, Naming!AnswerLists, Naming!LoseLists
    <3>3. CASE Naming!ShowLists
      BY <1>0, <3>3 DEF Naming!ShowLists, NamingPage
    <3>4. CASE UNCHANGED Naming!vars
      BY <3>4 DEF Naming!vars
    <3> QED
      BY <1>4, <3>1, <3>2, <3>3, <3>4
  <2> QED
    BY <2>1, <2>2, <2>3, NamingKnowsQuiet
<1>5. CASE Naming!HandleOwn
  BY <1>5, NamingKnowsOwn DEF Naming!HandleOwn
<1>6. CASE Naming!HandleOther
  BY <1>6, NamingKnowsOther DEF Naming!HandleOther
<1>7. CASE Naming!Resume
  BY <1>7, NamingKnowsResume DEF Naming!Resume
<1>8. CASE Naming!Open
  <2>1. /\ ~missed /\ ~crossed /\ Naming!Settled /\ ~stale /\ page.listed # Naming!None
        /\ page' = [page EXCEPT !.open = page.listed]
        /\ UNCHANGED <<name, announcing, renameEvents, waiting, renameStored, renameVault>>
    BY <1>8 DEF Naming!Open
  <2>2. page.listed = name["peer"]
    BY <2>1 DEF NamingListKept, Naming!ListFollows
  <2>3. /\ page'.me = page.me /\ page'.pins = page.pins /\ page'.queued = page.queued
        /\ page'.open = name["peer"]
    BY <1>0, <2>1, <2>2 DEF NamingPage
  <2>4. Naming!Pending' = Naming!Pending
    BY <2>1 DEF Naming!Pending
  <2> QED
    BY <2>1, <2>3, <2>4, NamingKnowsQuiet
<1>9. CASE Naming!Confirm
  <2>1. /\ ~missed /\ ~crossed /\ waiting = <<>> /\ page.dialog = page.open
        /\ page.dialog # Naming!None
        /\ page' = [page EXCEPT !.dialog = Naming!None, !.pins = @ \cup {page.dialog}]
        /\ renameStored' = [renameStored EXCEPT ![page.me] = page'.pins]
        /\ UNCHANGED <<name, announcing, renameEvents, waiting, renameVault>>
    BY <1>9 DEF Naming!Confirm
  <2>2. /\ page'.me = page.me /\ page'.pins = page.pins \cup {page.open}
        /\ page'.queued = page.queued /\ page'.open = page.open
    BY <1>0, <2>1 DEF NamingPage
  <2>3. Naming!Pending' = Naming!Pending
    BY <2>1 DEF Naming!Pending
  <2> QED
    BY <2>1, <2>2, <2>3, NamingKnowsConfirmed
<1>10. CASE Naming!Reload
  <2>1. /\ ~missed /\ ~crossed /\ Naming!Settled
        /\ page' = [me |-> name["me"], pins |-> renameStored[name["me"]], listed |-> Naming!None,
                    open |-> Naming!None, queued |-> Naming!None, dialog |-> Naming!None]
        /\ renameVault' = renameVault \cup {name["me"]} /\ renameEvents' = <<>> /\ waiting' = <<>>
        /\ UNCHANGED <<name, announcing, renameStored>>
    BY <1>10 DEF Naming!Reload, Naming!Settled
  <2>2. /\ page'.me = name["me"] /\ page'.pins = renameStored[name["me"]]
        /\ page'.queued = Naming!None /\ page'.open = Naming!None
    BY <2>1
  <2>3. renameStored[name["me"]] = page.pins /\ page.pins \subseteq {name["peer"]}
    BY <2>1, NamingSettledNames, NamingNameTypes DEF NamingKnows, Naming!GoesBy, Naming!Settled
  <2>4. renameStored' = [renameStored EXCEPT ![name["me"]] = page'.pins]
    BY <2>1, <2>2, NamingNameTypes DEF Naming!TypeOK
  <2>5. Naming!Settled'
    BY <2>1 DEF Naming!Settled
  <2> QED
    BY <2>1, <2>2, <2>3, <2>4, <2>5, NamingKnowsSettled
<1> QED
  BY <1>1, <1>2, <1>3, <1>4, <1>5, <1>6, <1>7, <1>8, <1>9, <1>10 DEF Naming!Next

LEMMA NamingInitInv == Naming!RenameAssumption /\ Naming!Init => Naming!IInv
<1> SUFFICES ASSUME Naming!RenameAssumption, Naming!Init PROVE Naming!IInv
  OBVIOUS
<1>1. Naming!TypeOK
  BY NamingTypeInit
<1>2. NamingNames /\ NamingListKept
  BY DEF Naming!Init, NamingNames, NamingListKept, Naming!ListFollows
<1>3. PICK w : w = <<name>>
  OBVIOUS
<1>4. w \in Seq([Naming!Account -> Name]) /\ Len(w) = 1 /\ w[1] = name
  BY <1>3 DEF Naming!Init
<1>5. Naming!Pending = <<>>
  BY DEF Naming!Init, Naming!Pending
<1>6. Naming!Past(w, Naming!Pending, name)
  BY <1>4, <1>5 DEF Naming!Past, Naming!Init
<1>7. Naming!GoesBy(w)
  BY <1>4 DEF Naming!Init, Naming!GoesBy
<1>8. NamingKnows
  BY <1>4, <1>6, <1>7 DEF NamingKnows
<1> QED
  BY <1>1, <1>2, <1>8, NamingParts DEF Naming!IInv

LEMMA NamingNextInv == Naming!RenameAssumption /\ Naming!IInv /\ [Naming!Next]_(Naming!vars) =>
                         Naming!IInv'
<1> SUFFICES ASSUME Naming!RenameAssumption, Naming!IInv, [Naming!Next]_(Naming!vars)
             PROVE  Naming!IInv'
  OBVIOUS
<1>1. Naming!TypeOK /\ NamingNames /\ NamingListKept /\ (~missed /\ ~crossed => NamingKnows)
  BY NamingParts DEF Naming!IInv
<1>2. Naming!TypeOK'
  BY <1>1, NamingTypeNext
<1>3. (NamingNames /\ (~missed /\ ~crossed => NamingKnows) /\ NamingListKept)'
  BY <1>1, NamingNamesInv, NamingListInv, NamingKnowsInv
<1>4. Naming!Shape'
  BY <1>3, NamingParts, PTL
<1> QED
  BY <1>2, <1>4 DEF Naming!IInv

LEMMA NamingInvImplies == Naming!IInv =>
                            /\ Naming!TypeOK /\ Naming!NamesFollow
                            /\ Naming!ListFollows /\ Naming!DeviceFollows
<1> SUFFICES ASSUME Naming!IInv
             PROVE  /\ Naming!TypeOK /\ Naming!NamesFollow
                    /\ Naming!ListFollows /\ Naming!DeviceFollows
  OBVIOUS
<1>1. Naming!TypeOK /\ NamingListKept /\ (~missed /\ ~crossed => NamingKnows)
  BY NamingParts DEF Naming!IInv
<1>2. ASSUME Naming!Settled, ~missed, ~crossed
      PROVE  /\ page.me = name["me"]
             /\ {page.open, page.queued} \subseteq {Naming!None, name["peer"]}
             /\ page.pins \subseteq {name["peer"]} /\ renameVault = {name["me"]}
             /\ renameStored = [n \in Name |-> IF n = name["me"] THEN page.pins ELSE {}]
  <2>1. PICK w \in Seq([Naming!Account -> Name]) :
          Naming!Past(w, Naming!Pending, name) /\ Naming!GoesBy(w)
    BY <1>1, <1>2 DEF NamingKnows
  <2>2. w[1] = name /\ waiting = <<>>
    BY <1>1, <1>2, <2>1, NamingSettledNames DEF Naming!Settled
  <2> QED
    BY <2>1, <2>2 DEF Naming!GoesBy
<1> QED
  BY <1>1, <1>2 DEF Naming!NamesFollow, Naming!DeviceFollows, NamingListKept

THEOREM NamingInvariance == ASSUME Naming!RenameAssumption PROVE Naming!Spec => []Naming!IInv
<1>1. Naming!Init => Naming!IInv
  BY NamingInitInv
<1>2. Naming!IInv /\ [Naming!Next]_(Naming!vars) => Naming!IInv'
  BY NamingNextInv
<1> QED
  BY <1>1, <1>2, PTL DEF Naming!Spec

-----------------------------------------------------------------------------
(* Receipts.                                                               *)

\* The invariant of the server, of the sender's page and of the reader's page.
ReceiptsServerSound == receiptsSent \in 0..ReceiptMessages /\ read \subseteq 1..receiptsSent

ReceiptsSenderSound ==
  /\ sender \in [known : SUBSET Receipts!Msg, marked : SUBSET Receipts!Msg]
  /\ {answers, early} \subseteq SUBSET Receipts!Msg
  /\ reload = Receipts!None \/ reload \in [rows : SUBSET Receipts!Msg, read : SUBSET Receipts!Msg]
  /\ news \in Seq(SUBSET Receipts!Msg)
  /\ \A i \in 1..Len(news) : news[i] \subseteq read
  /\ reload # Receipts!None => reload.read \subseteq read
  /\ Receipts!MarksTrue /\ Receipts!ReceiptsReach

ReceiptsReaderSound ==
  /\ reader \in [open : BOOLEAN, visible : BOOLEAN, cache : SUBSET Receipts!Msg, badge : Nat]
  /\ receiptsDecrypting \subseteq Receipts!Msg
  /\ {marking, receiptsConnected, blurred} \subseteq BOOLEAN
  /\ receiptsOpening = Receipts!None \/ receiptsOpening \in [rows : SUBSET Receipts!Msg]
  /\ listing = Receipts!None \/ listing \in [unread : Nat, combined : BOOLEAN]
  /\ inbox \in Seq(Receipts!StreamEvent) /\ (receiptsConnected \/ inbox = <<>>)
  /\ Receipts!ReadInOrder /\ Receipts!NothingMissed /\ Receipts!CountKept

LEMMA ReceiptsSplit == Receipts!IInv <=> ReceiptsServerSound /\ ReceiptsSenderSound
                         /\ ReceiptsReaderSound
  BY DEF Receipts!IInv, ReceiptsServerSound, ReceiptsSenderSound, ReceiptsReaderSound,
         Receipts!TypeOK, Receipts!Shape

\* What exists is a message, and the server can count what is unread.
LEMMA ReceiptsNumbers ==
  ASSUME Receipts!ReceiptsAssumption, ReceiptsServerSound
  PROVE  /\ receiptsSent \in Nat /\ ReceiptMessages \in Nat
         /\ 1..receiptsSent \subseteq Receipts!Msg /\ read \subseteq Receipts!Msg
         /\ Cardinality(Receipts!Unread) \in Nat
         /\ Receipts!Unread # {} => Cardinality(Receipts!Unread) > 0
<1>1. /\ receiptsSent \in Nat /\ ReceiptMessages \in Nat /\ 1..receiptsSent \subseteq Receipts!Msg
      /\ read \subseteq Receipts!Msg
  BY DEF Receipts!ReceiptsAssumption, ReceiptsServerSound, Receipts!Msg
<1>2. IsFiniteSet(Receipts!Unread)
  BY <1>1, FS_Interval, FS_Subset, Receipts!Unread \subseteq 1..receiptsSent DEF Receipts!Unread
<1> QED
  BY <1>1, <1>2, FS_CardinalityType, FS_EmptySet

LEMMA ReceiptsRecords ==
  /\ \A S : [rows |-> S] # Receipts!None
  /\ \A n, c : [unread |-> n, combined |-> c] # Receipts!None
  /\ \A S, T : [rows |-> S, read |-> T] # Receipts!None
<1>1. DOMAIN Receipts!None = {"none"}
  BY DEF Receipts!None
<1> QED
  BY <1>1

-----------------------------------------------------------------------------
(* The sender's page.                                                      *)

LEMMA ReceiptsAnnouncedAppend ==
  ASSUME NEW n \in Seq(SUBSET Receipts!Msg), NEW S \in SUBSET Receipts!Msg
  PROVE  Receipts!Announced(Append(n, S)) = Receipts!Announced(n) \cup S
  BY DEF Receipts!Announced

LEMMA ReceiptsAnnouncedTail ==
  ASSUME NEW n \in Seq(SUBSET Receipts!Msg), n # <<>>
  PROVE  Receipts!Announced(n) = Receipts!Announced(Tail(n)) \cup Head(n)
<1>1. /\ Len(n) \in Nat \ {0} /\ Len(Tail(n)) = Len(n) - 1 /\ Head(n) = n[1]
      /\ n[1] \subseteq Receipts!Msg
      /\ \A i \in 1..Len(n) - 1 : Tail(n)[i] = n[i + 1]
  OBVIOUS
<1>2. ASSUME NEW m \in Receipts!Msg, NEW i \in 1..Len(n), m \in n[i]
      PROVE  m \in Head(n) \/ \E j \in 1..Len(Tail(n)) : m \in Tail(n)[j]
  <2>1. CASE i = 1
    BY <1>1, <1>2, <2>1
  <2>2. CASE i # 1
    <3>1. i - 1 \in 1..Len(n) - 1 /\ i - 1 + 1 = i
      BY <1>1, <2>2
    <3>2. m \in Tail(n)[i - 1]
      BY <1>1, <1>2, <3>1
    <3> QED
      BY <1>1, <3>1, <3>2
  <2> QED
    BY <2>1, <2>2
<1>3. Receipts!Announced(n) \subseteq Receipts!Announced(Tail(n)) \cup Head(n)
  BY <1>2 DEF Receipts!Announced
<1>4. Receipts!Announced(Tail(n)) \cup Head(n) \subseteq Receipts!Announced(n)
  <2>1. ASSUME NEW m \in Receipts!Msg, NEW i \in 1..Len(Tail(n)), m \in Tail(n)[i]
        PROVE  \E j \in 1..Len(n) : m \in n[j]
    <3>1. i + 1 \in 1..Len(n) /\ Tail(n)[i] = n[i + 1]
      BY <1>1
    <3> QED
      BY <2>1, <3>1
  <2>2. ASSUME NEW m \in Head(n) PROVE m \in Receipts!Msg /\ \E j \in 1..Len(n) : m \in n[j]
    BY <1>1, 1 \in 1..Len(n)
  <2> QED
    BY <2>1, <2>2 DEF Receipts!Announced
<1> QED
  BY <1>3, <1>4

\* The page takes a new message, or rests.
LEMMA ReceiptsSenderQuiet ==
  ASSUME ReceiptsSenderSound, UNCHANGED <<read, news, reload, early>>,
         answers' \in SUBSET Receipts!Msg, sender'
           \in [known : SUBSET Receipts!Msg, marked : SUBSET Receipts!Msg],
         sender'.marked = sender.marked
  PROVE  ReceiptsSenderSound'
  BY DEF ReceiptsSenderSound, Receipts!MarksTrue, Receipts!ReceiptsReach

\* What is marked as read is announced.
LEMMA ReceiptsSenderMarked ==
  ASSUME Receipts!ReceiptsAssumption, ReceiptsServerSound, ReceiptsSenderSound, Receipts!Marked,
         UNCHANGED <<sender, answers, reload, early>>
  PROVE  ReceiptsServerSound' /\ ReceiptsSenderSound'
<1>1. ReceiptsServerSound'
  BY DEF ReceiptsServerSound, Receipts!Marked
<1>2. /\ read \subseteq read' /\ read' = read \cup Receipts!Unread
      /\ Receipts!Unread \subseteq Receipts!Msg
  BY ReceiptsNumbers DEF ReceiptsServerSound, Receipts!Marked, Receipts!Unread
<1>3. /\ news' \in Seq(SUBSET Receipts!Msg) /\ \A i \in 1..Len(news') : news'[i] \subseteq read'
      /\ Receipts!Announced(news') = Receipts!Announced(news) \cup Receipts!Unread
  <2>1. CASE Receipts!Unread = {}
    BY <1>2, <2>1 DEF Receipts!Marked, ReceiptsSenderSound
  <2>2. CASE Receipts!Unread # {}
    <3>1. news' = Append(news, Receipts!Unread)
      BY <2>2 DEF Receipts!Marked
    <3>2. Receipts!Announced(news') = Receipts!Announced(news) \cup Receipts!Unread
      BY <1>2, <3>1, ReceiptsAnnouncedAppend DEF ReceiptsSenderSound
    <3>3. \A i \in 1..Len(news') : news'[i] \subseteq read'
      BY <1>2, <3>1 DEF ReceiptsSenderSound
    <3> QED
      BY <1>2, <3>1, <3>2, <3>3 DEF ReceiptsSenderSound
  <2> QED
    BY <2>1, <2>2
<1>4. Receipts!MarksTrue' /\ (reload' # Receipts!None => reload'.read \subseteq read')
  BY <1>2 DEF ReceiptsSenderSound, Receipts!MarksTrue
<1>5. Receipts!ReceiptsReach'
  BY <1>2, <1>3 DEF ReceiptsSenderSound, Receipts!ReceiptsReach
<1> QED
  BY <1>1, <1>3, <1>4, <1>5 DEF ReceiptsSenderSound

LEMMA ReceiptsSenderReceipt ==
  ASSUME Receipts!ReceiptsAssumption, ReceiptsServerSound, ReceiptsSenderSound,
         Receipts!ReceiptComes
  PROVE  ReceiptsSenderSound'
<1> DEFINE H == Head(news)
<1>1. /\ news # <<>> /\ news' = Tail(news)
      /\ sender' = [sender EXCEPT !.marked = @ \cup (H \cap sender.known)]
      /\ early'
           = early \cup (H \ sender.known)
               \cup (IF reload # Receipts!None THEN H \ reload.read ELSE {})
      /\ UNCHANGED <<read, answers, reload>>
  BY DEF Receipts!ReceiptComes, Receipts!Receipt, Receipts!serverVars
<1>2. /\ H \in SUBSET Receipts!Msg /\ H \subseteq read /\ news' \in Seq(SUBSET Receipts!Msg)
      /\ \A i \in 1..Len(news') : news'[i] \subseteq read
  BY <1>1 DEF ReceiptsSenderSound
<1>3. Receipts!Announced(news) = Receipts!Announced(news') \cup H
  BY <1>1, ReceiptsAnnouncedTail DEF ReceiptsSenderSound
<1> HIDE DEF H
<1>4. /\ sender' \in [known : SUBSET Receipts!Msg, marked : SUBSET Receipts!Msg]
      /\ sender'.marked = sender.marked \cup (H \cap sender.known)
  BY <1>1, <1>2 DEF ReceiptsSenderSound
<1>5. early' \in SUBSET Receipts!Msg
  BY <1>1, <1>2 DEF ReceiptsSenderSound
<1>6. Receipts!MarksTrue' /\ (reload' # Receipts!None => reload'.read \subseteq read')
  BY <1>1, <1>2, <1>4 DEF ReceiptsSenderSound, Receipts!MarksTrue
<1>7. Receipts!ReceiptsReach'
  BY <1>1, <1>3, <1>4 DEF ReceiptsSenderSound, Receipts!ReceiptsReach
<1> QED
  BY <1>1, <1>2, <1>4, <1>5, <1>6, <1>7 DEF ReceiptsSenderSound

LEMMA ReceiptsSenderOpensInv ==
  ASSUME Receipts!ReceiptsAssumption, ReceiptsServerSound, ReceiptsSenderSound,
         Receipts!SenderOpens
  PROVE  ReceiptsSenderSound'
<1>1. /\ reload' = [rows |-> 1..receiptsSent, read |-> read]
      /\ UNCHANGED <<read, sender, news, answers, early>>
  BY DEF Receipts!SenderOpens, Receipts!serverVars
<1>2. reload' \in [rows : SUBSET Receipts!Msg, read : SUBSET Receipts!Msg] /\ reload'.read = read
  BY <1>1, ReceiptsNumbers
<1> QED
  BY <1>1, <1>2 DEF ReceiptsSenderSound, Receipts!MarksTrue, Receipts!ReceiptsReach

LEMMA ReceiptsSenderOpenedInv ==
  ASSUME ReceiptsSenderSound, Receipts!SenderOpened PROVE ReceiptsSenderSound'
<1>1. /\ reload # Receipts!None /\ reload' = Receipts!None
      /\ sender' = [known |-> reload.rows, marked |-> reload.read]
      /\ early' = early \ reload.read /\ UNCHANGED <<read, news, answers>>
  BY DEF Receipts!SenderOpened, Receipts!serverVars
<1>2. /\ sender' \in [known : SUBSET Receipts!Msg, marked : SUBSET Receipts!Msg]
      /\ sender'.marked = reload.read
      /\ reload.read \subseteq read
  BY <1>1 DEF ReceiptsSenderSound
<1> QED
  BY <1>1, <1>2 DEF ReceiptsSenderSound, Receipts!MarksTrue, Receipts!ReceiptsReach

-----------------------------------------------------------------------------
(* The reader's page.                                                      *)

LEMMA ReceiptsComingAppend ==
  ASSUME NEW q \in Seq(Receipts!StreamEvent), NEW e \in Receipts!StreamEvent, NEW m,
         NEW i \in 0..Len(q)
  PROVE  Receipts!Coming(Append(q, e), m, i) <=> Receipts!Coming(q, m, i)
           \/ (e.type = "message" /\ m \in e.ids)
<1>1. /\ Len(q) \in Nat /\ Len(Append(q, e)) = Len(q) + 1 /\ Append(q, e)[Len(q) + 1] = e
      /\ \A j \in 1..Len(q) : Append(q, e)[j] = q[j]
  OBVIOUS
<1>2. /\ Len(q) + 1 > i /\ Len(q) + 1 \in 1..Len(q) + 1
      /\ 1..Len(q) + 1 = 1..Len(q) \cup {Len(q) + 1}
  BY <1>1
<1> QED
  BY <1>1, <1>2 DEF Receipts!Coming

LEMMA ReceiptsComingTail ==
  ASSUME NEW q \in Seq(Receipts!StreamEvent), q # <<>>, NEW m, NEW i \in Nat
  PROVE  /\ Receipts!Coming(q, m, i + 1) => Receipts!Coming(Tail(q), m, i)
         /\ Receipts!Coming(q, m, 0) =>
              Receipts!Coming(Tail(q), m, 0) \/ (Head(q).type = "message" /\ m \in Head(q).ids)
<1>1. /\ Len(q) \in Nat \ {0} /\ Len(Tail(q)) = Len(q) - 1 /\ Head(q) = q[1]
      /\ \A j \in 1..Len(q) - 1 : Tail(q)[j] = q[j + 1]
  OBVIOUS
<1>2. ASSUME NEW j \in 1..Len(q), j > 1
      PROVE  j - 1 \in 1..Len(Tail(q)) /\ Tail(q)[j - 1] = q[j] /\ j - 1 \in Nat
  <2>1. j - 1 \in 1..Len(q) - 1 /\ j - 1 + 1 = j
    BY <1>1, <1>2
  <2> QED
    BY <1>1, <2>1
<1>3. ASSUME Receipts!Coming(q, m, i + 1) PROVE Receipts!Coming(Tail(q), m, i)
  <2>1. PICK j \in 1..Len(q) : j > i + 1 /\ q[j].type = "message" /\ m \in q[j].ids
    BY <1>3 DEF Receipts!Coming
  <2>2. j > 1 /\ j - 1 > i
    BY <2>1
  <2> QED
    BY <1>2, <2>1, <2>2 DEF Receipts!Coming
<1>4. ASSUME Receipts!Coming(q, m, 0), ~(Head(q).type = "message" /\ m \in Head(q).ids)
      PROVE  Receipts!Coming(Tail(q), m, 0)
  <2>1. PICK j \in 1..Len(q) : j > 0 /\ q[j].type = "message" /\ m \in q[j].ids
    BY <1>4 DEF Receipts!Coming
  <2>2. j > 1 /\ j - 1 > 0
    BY <1>1, <1>4, <2>1
  <2> QED
    BY <1>2, <2>1, <2>2 DEF Receipts!Coming
<1> QED
  BY <1>3, <1>4

\* What the page knows of message m, and whether it shows that it knows less.
ReceiptsKnown(m) ==
  \/ m \in reader.cache \cup receiptsDecrypting \/ Receipts!Coming(inbox, m, 0)
  \/ receiptsOpening # Receipts!None /\ m \in receiptsOpening.rows
ReceiptsNoticed ==
  ~reader.open /\ (reader.badge > 0 \/ (listing # Receipts!None /\ listing.unread > 0))

LEMMA ReceiptsMissed ==
  Receipts!NothingMissed
    <=> (receiptsConnected /\ ~blurred =>
           (\A m \in Receipts!Unread : ReceiptsKnown(m)) \/ ReceiptsNoticed)
  BY DEF Receipts!NothingMissed, ReceiptsKnown, ReceiptsNoticed

ReceiptsReaderTypes ==
  /\ reader \in [open : BOOLEAN, visible : BOOLEAN, cache : SUBSET Receipts!Msg, badge : Nat]
  /\ receiptsDecrypting \subseteq Receipts!Msg
  /\ {marking, receiptsConnected, blurred} \subseteq BOOLEAN
  /\ receiptsOpening = Receipts!None \/ receiptsOpening \in [rows : SUBSET Receipts!Msg]
  /\ listing = Receipts!None \/ listing \in [unread : Nat, combined : BOOLEAN]
  /\ inbox \in Seq(Receipts!StreamEvent) /\ (receiptsConnected \/ inbox = <<>>)

LEMMA ReceiptsReaderParts == ReceiptsReaderSound <=> ReceiptsReaderTypes
                               /\ Receipts!ReadInOrder /\ Receipts!NothingMissed
                               /\ Receipts!CountKept
  BY DEF ReceiptsReaderSound, ReceiptsReaderTypes

\* The order of the stream is kept by every step of the page.
LEMMA ReceiptsOrderKept ==
  ASSUME ReceiptsReaderTypes, Receipts!ReadInOrder, UNCHANGED Receipts!serverVars,
         inbox' = inbox \/ inbox' = <<>>
  PROVE  Receipts!ReadInOrder'
<1>1. CASE inbox' = inbox
  BY <1>1 DEF Receipts!ReadInOrder, Receipts!Unread, Receipts!serverVars
<1>2. CASE inbox' = <<>>
  BY <1>2 DEF Receipts!ReadInOrder
<1> QED
  BY <1>1, <1>2

LEMMA ReceiptsOrderTail ==
  ASSUME ReceiptsReaderTypes, Receipts!ReadInOrder, UNCHANGED Receipts!serverVars, inbox # <<>>,
         inbox' = Tail(inbox)
  PROVE  Receipts!ReadInOrder' /\ inbox' \in Seq(Receipts!StreamEvent)
<1>1. /\ Len(inbox) \in Nat \ {0} /\ Len(inbox') = Len(inbox) - 1
      /\ inbox' \in Seq(Receipts!StreamEvent)
      /\ \A j \in 1..Len(inbox) - 1 : inbox'[j] = inbox[j + 1]
  BY DEF ReceiptsReaderTypes
<1>2. Receipts!Unread' = Receipts!Unread
  BY DEF Receipts!Unread, Receipts!serverVars
<1>3. ASSUME NEW i \in 1..Len(inbox'), inbox'[i].type = "conversation-read",
             NEW m \in Receipts!Unread
      PROVE  Receipts!Coming(inbox', m, i)
  <2>1. i + 1 \in 1..Len(inbox) /\ inbox[i + 1].type = "conversation-read" /\ i \in Nat
    BY <1>1, <1>3
  <2>2. Receipts!Coming(inbox, m, i + 1)
    BY <2>1 DEF Receipts!ReadInOrder
  <2> QED
    BY <2>1, <2>2, ReceiptsComingTail DEF ReceiptsReaderTypes
<1> QED
  BY <1>1, <1>2, <1>3 DEF Receipts!ReadInOrder

LEMMA ReceiptsReaderSend ==
  ASSUME Receipts!ReceiptsAssumption, ReceiptsServerSound, ReceiptsReaderSound, Receipts!Send
  PROVE  ReceiptsServerSound' /\ ReceiptsReaderSound'
<1> DEFINE e == [type |-> "message", ids |-> {receiptsSent + 1}]
<1>1. /\ receiptsSent < ReceiptMessages /\ receiptsSent' = receiptsSent + 1 /\ read' = read
      /\ inbox' = IF receiptsConnected THEN Append(inbox, e) ELSE inbox
      /\ UNCHANGED <<reader, receiptsDecrypting, receiptsOpening, listing, marking,
                     receiptsConnected, blurred>>
  BY DEF Receipts!Send
<1>2. /\ receiptsSent \in Nat /\ ReceiptMessages \in Nat /\ receiptsSent + 1 \in Receipts!Msg
      /\ receiptsSent + 1 \in 0..ReceiptMessages
  BY <1>1, ReceiptsNumbers DEF Receipts!Msg
<1>3. e \in Receipts!StreamEvent /\ e.type = "message" /\ e.ids = {receiptsSent + 1}
  BY <1>2 DEF Receipts!StreamEvent
<1> HIDE DEF e
<1>4. Receipts!Unread' = Receipts!Unread \cup {receiptsSent + 1}
  BY <1>1, <1>2 DEF Receipts!Unread, ReceiptsServerSound
<1>5. ReceiptsServerSound'
  BY <1>1, <1>2 DEF ReceiptsServerSound
<1>6. ReceiptsReaderTypes'
  BY <1>1, <1>3, ReceiptsReaderParts DEF ReceiptsReaderTypes
<1>7. inbox \in Seq(Receipts!StreamEvent) /\ Len(inbox) \in Nat
  BY ReceiptsReaderParts DEF ReceiptsReaderTypes
<1>8. CASE receiptsConnected
  <2>1. inbox' = Append(inbox, e)
    BY <1>1, <1>8
  <2>2. \A m, i : i \in 0..Len(inbox) =>
          (Receipts!Coming(inbox', m, i) <=> Receipts!Coming(inbox, m, i) \/ m = receiptsSent + 1)
    BY <1>3, <1>7, <2>1, ReceiptsComingAppend
  <2>3. ASSUME NEW i \in 1..Len(inbox'), inbox'[i].type = "conversation-read",
               NEW m \in Receipts!Unread'
        PROVE  Receipts!Coming(inbox', m, i)
    <3>1. i \in 1..Len(inbox) /\ inbox'[i] = inbox[i] /\ i \in 0..Len(inbox)
      <4>1. i # Len(inbox) + 1
        BY <1>3, <1>7, <2>1, <2>3
      <4> QED
        BY <1>7, <2>1, <4>1
    <3>2. m # receiptsSent + 1 => Receipts!Coming(inbox, m, i)
      BY <1>4, <2>3, <3>1, ReceiptsReaderParts DEF Receipts!ReadInOrder
    <3> QED
      BY <2>2, <3>1, <3>2
  <2>4. Receipts!ReadInOrder'
    BY <2>3 DEF Receipts!ReadInOrder
  <2>5. \A m \in Receipts!Unread : ReceiptsKnown(m) => ReceiptsKnown(m)'
    BY <1>1, <1>7, <2>2 DEF ReceiptsKnown
  <2>6. ASSUME NEW m, m = receiptsSent + 1 PROVE ReceiptsKnown(m)'
    <3>1. Receipts!Coming(inbox', m, 0)
      BY <1>7, <2>2, <2>6
    <3> QED
      BY <3>1 DEF ReceiptsKnown
  <2>7. ReceiptsNoticed => ReceiptsNoticed'
    BY <1>1 DEF ReceiptsNoticed
  <2>8. (receiptsConnected /\ ~blurred =>
           (\A m \in Receipts!Unread : ReceiptsKnown(m)) \/ ReceiptsNoticed)'
    <3>1. receiptsConnected /\ ~blurred =>
            (\A m \in Receipts!Unread : ReceiptsKnown(m)) \/ ReceiptsNoticed
      BY ReceiptsMissed, ReceiptsReaderParts
    <3> QED
      BY <1>1, <1>2, <1>4, <2>5, <2>6, <2>7, <3>1
  <2>9. Receipts!NothingMissed'
    BY <2>8, ReceiptsMissed, PTL
  <2>10. Receipts!CountKept'
    BY <1>1, ReceiptsReaderParts DEF Receipts!CountKept
  <2>11. ReceiptsReaderSound'
    BY <1>6, <2>4, <2>9, <2>10, ReceiptsReaderParts, PTL
  <2> QED
    BY <1>5, <2>11
<1>9. CASE ~receiptsConnected
  <2>1. inbox' = inbox /\ inbox = <<>>
    BY <1>1, <1>9, ReceiptsReaderParts DEF ReceiptsReaderTypes
  <2>2. Receipts!ReadInOrder'
    BY <2>1 DEF Receipts!ReadInOrder
  <2>3. Receipts!NothingMissed' /\ Receipts!CountKept'
    BY <1>1, <1>9, ReceiptsReaderParts DEF Receipts!NothingMissed, Receipts!CountKept
  <2>4. ReceiptsReaderSound'
    BY <1>6, <2>2, <2>3, ReceiptsReaderParts, PTL
  <2> QED
    BY <1>5, <2>4
<1> QED
  BY <1>8, <1>9

\* Everything is marked as read.
LEMMA ReceiptsReaderMarked ==
  ASSUME Receipts!ReceiptsAssumption, ReceiptsServerSound, ReceiptsReaderSound, Receipts!Marked,
         marking' \in BOOLEAN,
         UNCHANGED <<reader, receiptsDecrypting, receiptsOpening, listing, receiptsConnected,
                     blurred>>
  PROVE  ReceiptsReaderSound'
<1>1. Receipts!Unread' = {}
  BY DEF Receipts!Marked, Receipts!Unread
<1>2. inbox' \in Seq(Receipts!StreamEvent) /\ (receiptsConnected \/ inbox' = <<>>)
  <2>1. Receipts!Unread \in SUBSET Receipts!Msg
    BY ReceiptsNumbers DEF Receipts!Unread
  <2>2. [type |-> "conversation-read", ids |-> Receipts!Unread] \in Receipts!StreamEvent
    BY <2>1 DEF Receipts!StreamEvent
  <2>3. inbox \in Seq(Receipts!StreamEvent) /\ (receiptsConnected \/ inbox = <<>>)
    BY ReceiptsReaderParts DEF ReceiptsReaderTypes
  <2>4. CASE Receipts!Unread = {}
    BY <2>3, <2>4 DEF Receipts!Marked
  <2>5. CASE Receipts!Unread # {} /\ receiptsConnected
    <3>1. inbox' = Append(inbox, [type |-> "conversation-read", ids |-> Receipts!Unread])
      BY <2>5 DEF Receipts!Marked
    <3> QED
      BY <2>2, <2>3, <2>5, <3>1
  <2>6. CASE Receipts!Unread # {} /\ ~receiptsConnected
    BY <2>3, <2>6 DEF Receipts!Marked
  <2> QED
    BY <2>4, <2>5, <2>6
<1>3. ReceiptsReaderTypes'
  BY <1>2, ReceiptsReaderParts DEF ReceiptsReaderTypes
<1>4. Receipts!ReadInOrder' /\ Receipts!NothingMissed'
  BY <1>1 DEF Receipts!ReadInOrder, Receipts!NothingMissed
<1>5. Receipts!CountKept'
  BY ReceiptsReaderParts DEF Receipts!CountKept
<1> QED
  BY <1>3, <1>4, <1>5, ReceiptsReaderParts, PTL

\* Steps of the page that leave the server and the stream alone.
LEMMA ReceiptsReaderQuiet ==
  ASSUME Receipts!ReceiptsAssumption, ReceiptsServerSound, ReceiptsReaderSound,
         UNCHANGED Receipts!serverVars, ReceiptsReaderTypes',
         Receipts!ReadInOrder', Receipts!CountKept',
         receiptsConnected' /\ ~blurred' =>
           (\A m \in Receipts!Unread : ReceiptsKnown(m)') \/ ReceiptsNoticed'
  PROVE  ReceiptsReaderSound'
<1>1. Receipts!Unread' = Receipts!Unread
  BY DEF Receipts!Unread, Receipts!serverVars
<1>2. (receiptsConnected /\ ~blurred =>
         (\A m \in Receipts!Unread : ReceiptsKnown(m)) \/ ReceiptsNoticed)'
  BY <1>1
<1>3. Receipts!NothingMissed'
  BY <1>2, ReceiptsMissed, PTL
<1> QED
  BY <1>3, ReceiptsReaderParts, PTL

LEMMA ReceiptsReaderMessage ==
  ASSUME Receipts!ReceiptsAssumption, ReceiptsServerSound, ReceiptsReaderSound,
         Receipts!MessageComes
  PROVE  ReceiptsReaderSound'
<1>1. /\ inbox # <<>> /\ Head(inbox).type = "message" /\ inbox' = Tail(inbox)
      /\ receiptsDecrypting' = receiptsDecrypting \cup (Head(inbox).ids \ reader.cache)
      /\ blurred' = (blurred \/ listing # Receipts!None)
      /\ UNCHANGED <<reader, receiptsOpening, listing, marking, receiptsConnected>>
      /\ UNCHANGED Receipts!serverVars
  BY DEF Receipts!MessageComes
<1>2. Receipts!ReadInOrder' /\ inbox' \in Seq(Receipts!StreamEvent)
  BY <1>1, ReceiptsOrderTail, ReceiptsReaderParts
<1>3. Head(inbox) \in Receipts!StreamEvent /\ inbox \in Seq(Receipts!StreamEvent)
  BY <1>1, ReceiptsReaderParts DEF ReceiptsReaderTypes
<1>4. blurred' \in BOOLEAN /\ (~blurred' => ~blurred)
  BY <1>1
<1>5. ReceiptsReaderTypes'
  BY <1>1, <1>2, <1>3, <1>4, ReceiptsReaderParts DEF ReceiptsReaderTypes, Receipts!StreamEvent
<1>6. Receipts!CountKept'
  BY <1>1, <1>4, ReceiptsReaderParts DEF Receipts!CountKept
<1>7. ASSUME NEW m, ReceiptsKnown(m) PROVE ReceiptsKnown(m)'
  <2>1. Receipts!Coming(inbox, m, 0) => Receipts!Coming(inbox', m, 0) \/ m \in Head(inbox).ids
    BY <1>1, <1>3, ReceiptsComingTail
  <2> QED
    BY <1>1, <1>7, <2>1 DEF ReceiptsKnown
<1>8. ReceiptsNoticed => ReceiptsNoticed'
  BY <1>1 DEF ReceiptsNoticed
<1>9. receiptsConnected' /\ ~blurred' =>
        (\A m \in Receipts!Unread : ReceiptsKnown(m)') \/ ReceiptsNoticed'
  BY <1>1, <1>4, <1>7, <1>8, ReceiptsMissed, ReceiptsReaderParts
<1> QED
  BY <1>1, <1>2, <1>5, <1>6, <1>9, ReceiptsReaderQuiet

LEMMA ReceiptsReaderRead ==
  ASSUME Receipts!ReceiptsAssumption, ReceiptsServerSound, ReceiptsReaderSound, Receipts!ReadComes
  PROVE  ReceiptsReaderSound'
<1>1. /\ inbox # <<>> /\ Head(inbox).type = "conversation-read" /\ inbox' = Tail(inbox)
      /\ reader' = [reader EXCEPT !.badge = 0]
      /\ blurred' = (blurred \/ listing # Receipts!None \/ receiptsDecrypting # {})
      /\ UNCHANGED <<receiptsDecrypting, receiptsOpening, listing, marking, receiptsConnected>>
      /\ UNCHANGED Receipts!serverVars
  BY DEF Receipts!ReadComes
<1>2. Receipts!ReadInOrder' /\ inbox' \in Seq(Receipts!StreamEvent)
  BY <1>1, ReceiptsOrderTail, ReceiptsReaderParts
<1>3. /\ reader' \in [open : BOOLEAN, visible : BOOLEAN, cache : SUBSET Receipts!Msg, badge : Nat]
      /\ reader'.badge = 0
  BY <1>1, ReceiptsReaderParts DEF ReceiptsReaderTypes
<1>4. blurred' \in BOOLEAN
  BY <1>1
<1>5. ReceiptsReaderTypes'
  BY <1>1, <1>2, <1>3, <1>4, ReceiptsReaderParts DEF ReceiptsReaderTypes
<1>6. Receipts!CountKept'
  BY <1>1, <1>3, ReceiptsReaderParts DEF Receipts!CountKept, ReceiptsReaderTypes
<1>7. ASSUME NEW m \in Receipts!Unread PROVE ReceiptsKnown(m)'
  <2>1. /\ inbox \in Seq(Receipts!StreamEvent) /\ 1 \in 1..Len(inbox)
        /\ inbox[1].type = "conversation-read"
        /\ 0 \in Nat /\ 0 + 1 = 1
    BY <1>1, ReceiptsReaderParts DEF ReceiptsReaderTypes
  <2>2. Receipts!Coming(inbox, m, 1)
    BY <2>1, ReceiptsReaderParts DEF Receipts!ReadInOrder
  <2>3. Receipts!Coming(Tail(inbox), m, 0)
    BY <1>1, <2>1, <2>2, ReceiptsComingTail
  <2> QED
    BY <1>1, <2>3 DEF ReceiptsKnown
<1> QED
  BY <1>1, <1>2, <1>5, <1>6, <1>7, ReceiptsReaderQuiet

LEMMA ReceiptsReaderIngest ==
  ASSUME Receipts!ReceiptsAssumption, ReceiptsServerSound, ReceiptsReaderSound,
         NEW n \in Receipts!Msg, Receipts!Ingest(n)
  PROVE  ReceiptsReaderSound'
<1>1. /\ n \in receiptsDecrypting /\ receiptsDecrypting' = receiptsDecrypting \ {n}
      /\ reader' = Receipts!Ingested(n)
      /\ marking' = (marking \/ Receipts!MarksNow)
      /\ blurred' = (blurred \/ listing # Receipts!None)
      /\ UNCHANGED <<inbox, receiptsOpening, listing, receiptsConnected>>
      /\ UNCHANGED Receipts!serverVars
  BY DEF Receipts!Ingest
<1>2. /\ reader' \in [open : BOOLEAN, visible : BOOLEAN, cache : SUBSET Receipts!Msg, badge : Nat]
      /\ reader'.cache = reader.cache \cup {n} /\ reader'.open = reader.open
      /\ ~reader.open => reader'.badge > 0
  <2>1. reader \in [open : BOOLEAN, visible : BOOLEAN, cache : SUBSET Receipts!Msg, badge : Nat]
    BY ReceiptsReaderParts DEF ReceiptsReaderTypes
  <2>2. CASE reader.open
    BY <1>1, <2>1, <2>2 DEF Receipts!Ingested
  <2>3. CASE ~reader.open
    <3>1. reader' = [reader EXCEPT !.cache = @ \cup {n}, !.badge = reader.badge + 1]
      BY <1>1, <2>3 DEF Receipts!Ingested
    <3>2. reader.badge + 1 \in Nat /\ reader.badge + 1 > 0
      BY <2>1
    <3> QED
      BY <2>1, <2>3, <3>1, <3>2
  <2> QED
    BY <2>2, <2>3
<1>3. blurred' \in BOOLEAN /\ (~blurred' => ~blurred /\ listing = Receipts!None)
  BY <1>1
<1>4. marking' \in BOOLEAN
  BY <1>1
<1>5. ReceiptsReaderTypes'
  BY <1>1, <1>2, <1>3, <1>4, ReceiptsReaderParts DEF ReceiptsReaderTypes
<1>6. Receipts!CountKept'
  BY <1>1, <1>3 DEF Receipts!CountKept
<1>7. ASSUME NEW m, ReceiptsKnown(m) PROVE ReceiptsKnown(m)'
  BY <1>1, <1>2, <1>7 DEF ReceiptsKnown
<1>8. ReceiptsNoticed => ReceiptsNoticed'
  BY <1>2 DEF ReceiptsNoticed
<1>9. receiptsConnected' /\ ~blurred' =>
        (\A m \in Receipts!Unread : ReceiptsKnown(m)') \/ ReceiptsNoticed'
  BY <1>1, <1>3, <1>7, <1>8, ReceiptsMissed, ReceiptsReaderParts
<1>10. Receipts!ReadInOrder'
  BY <1>1, ReceiptsOrderKept, ReceiptsReaderParts
<1> QED
  BY <1>1, <1>5, <1>6, <1>9, <1>10, ReceiptsReaderQuiet

LEMMA ReceiptsReaderOpen ==
  ASSUME Receipts!ReceiptsAssumption, ReceiptsServerSound, ReceiptsReaderSound, Receipts!Open
  PROVE  ReceiptsReaderSound'
<1>1. /\ receiptsOpening' = [rows |-> 1..receiptsSent]
      /\ reader' = [reader EXCEPT !.open = TRUE, !.badge = 0]
      /\ blurred' = (blurred \/ listing # Receipts!None)
      /\ UNCHANGED <<inbox, receiptsDecrypting, listing, marking, receiptsConnected>>
      /\ UNCHANGED Receipts!serverVars
  BY DEF Receipts!Open
<1>2. /\ reader' \in [open : BOOLEAN, visible : BOOLEAN, cache : SUBSET Receipts!Msg, badge : Nat]
      /\ reader'.badge = 0
  BY <1>1, ReceiptsReaderParts DEF ReceiptsReaderTypes
<1>3. blurred' \in BOOLEAN
  BY <1>1
<1>4. /\ receiptsOpening' \in [rows : SUBSET Receipts!Msg] /\ receiptsOpening' # Receipts!None
      /\ receiptsOpening'.rows = 1..receiptsSent
  BY <1>1, ReceiptsNumbers, ReceiptsRecords
<1>5. ReceiptsReaderTypes'
  BY <1>1, <1>2, <1>3, <1>4, ReceiptsReaderParts DEF ReceiptsReaderTypes
<1>6. Receipts!CountKept'
  BY <1>1, <1>2, ReceiptsReaderParts DEF Receipts!CountKept, ReceiptsReaderTypes
<1>7. \A m \in Receipts!Unread : ReceiptsKnown(m)'
  BY <1>4 DEF ReceiptsKnown, Receipts!Unread
<1>8. Receipts!ReadInOrder'
  BY <1>1, ReceiptsOrderKept, ReceiptsReaderParts
<1> QED
  BY <1>1, <1>5, <1>6, <1>7, <1>8, ReceiptsReaderQuiet

LEMMA ReceiptsReaderOpened ==
  ASSUME Receipts!ReceiptsAssumption, ReceiptsServerSound, ReceiptsReaderSound, Receipts!Opened
  PROVE  ReceiptsReaderSound'
<1>1. /\ receiptsOpening # Receipts!None /\ receiptsOpening' = Receipts!None /\ marking' = TRUE
      /\ reader' = [reader EXCEPT !.cache = receiptsOpening.rows, !.badge = 0]
      /\ blurred'
           = (blurred \/ listing # Receipts!None \/ ~reader.open
                \/ ~(reader.cache \subseteq receiptsOpening.rows))
      /\ UNCHANGED <<inbox, receiptsDecrypting, listing, receiptsConnected>>
      /\ UNCHANGED Receipts!serverVars
  BY DEF Receipts!Opened
<1>2. /\ reader' \in [open : BOOLEAN, visible : BOOLEAN, cache : SUBSET Receipts!Msg, badge : Nat]
      /\ reader'.badge = 0 /\ reader'.cache = receiptsOpening.rows
  BY <1>1, ReceiptsReaderParts DEF ReceiptsReaderTypes
<1>3. blurred' \in BOOLEAN
  BY <1>1
<1>4. ~blurred' => ~blurred /\ reader.open /\ reader.cache \subseteq receiptsOpening.rows
  BY <1>1
<1>5. ReceiptsReaderTypes'
  BY <1>1, <1>2, <1>3, ReceiptsReaderParts DEF ReceiptsReaderTypes
<1>6. Receipts!CountKept'
  BY <1>1, <1>2, ReceiptsReaderParts DEF Receipts!CountKept, ReceiptsReaderTypes
<1>7. ASSUME receiptsConnected', ~blurred', NEW m \in Receipts!Unread PROVE ReceiptsKnown(m)'
  <2>1. ReceiptsKnown(m)
    BY <1>1, <1>4, <1>7, ReceiptsMissed, ReceiptsReaderParts DEF ReceiptsNoticed
  <2> QED
    BY <1>1, <1>2, <1>4, <1>7, <2>1 DEF ReceiptsKnown
<1>8. Receipts!ReadInOrder'
  BY <1>1, ReceiptsOrderKept, ReceiptsReaderParts
<1> QED
  BY <1>1, <1>5, <1>6, <1>7, <1>8, ReceiptsReaderQuiet

LEMMA ReceiptsReaderClose ==
  ASSUME Receipts!ReceiptsAssumption, ReceiptsServerSound, ReceiptsReaderSound, Receipts!Close
  PROVE  ReceiptsReaderSound'
<1>1. /\ reader.open /\ reader' = [reader EXCEPT !.open = FALSE]
      /\ receiptsOpening' \in {Receipts!None, receiptsOpening}
      /\ blurred' = (blurred \/ receiptsOpening' # receiptsOpening)
      /\ UNCHANGED <<inbox, receiptsDecrypting, listing, marking, receiptsConnected>>
      /\ UNCHANGED Receipts!serverVars
  BY DEF Receipts!Close
<1>2. /\ reader' \in [open : BOOLEAN, visible : BOOLEAN, cache : SUBSET Receipts!Msg, badge : Nat]
      /\ reader'.badge = reader.badge /\ reader'.cache = reader.cache
  BY <1>1, ReceiptsReaderParts DEF ReceiptsReaderTypes
<1>3. blurred' \in BOOLEAN
  BY <1>1
<1>4. ~blurred' => ~blurred /\ receiptsOpening' = receiptsOpening
  BY <1>1
<1>5. ReceiptsReaderTypes'
  BY <1>1, <1>2, <1>3, ReceiptsReaderParts DEF ReceiptsReaderTypes
<1>6. Receipts!CountKept'
  BY <1>1, <1>2, <1>4, ReceiptsReaderParts DEF Receipts!CountKept
<1>7. ASSUME receiptsConnected', ~blurred', NEW m \in Receipts!Unread PROVE ReceiptsKnown(m)'
  <2>1. ReceiptsKnown(m)
    BY <1>1, <1>4, <1>7, ReceiptsMissed, ReceiptsReaderParts DEF ReceiptsNoticed
  <2> QED
    BY <1>1, <1>2, <1>4, <1>7, <2>1 DEF ReceiptsKnown
<1>8. Receipts!ReadInOrder'
  BY <1>1, ReceiptsOrderKept, ReceiptsReaderParts
<1> QED
  BY <1>1, <1>5, <1>6, <1>7, <1>8, ReceiptsReaderQuiet

LEMMA ReceiptsReaderVisibility ==
  ASSUME Receipts!ReceiptsAssumption, ReceiptsServerSound, ReceiptsReaderSound,
         Receipts!Visibility \/ Receipts!MarkFails \/ Receipts!ListComes
  PROVE  ReceiptsReaderSound'
<1>1. /\ UNCHANGED <<inbox, receiptsDecrypting, receiptsOpening, receiptsConnected, blurred>>
      /\ UNCHANGED Receipts!serverVars
  BY DEF Receipts!Visibility, Receipts!MarkFails, Receipts!ListComes
<1>2. /\ reader' \in [open : BOOLEAN, visible : BOOLEAN, cache : SUBSET Receipts!Msg, badge : Nat]
      /\ reader'.badge = reader.badge /\ reader'.cache = reader.cache
      /\ reader'.open = reader.open
  BY ReceiptsReaderParts DEF ReceiptsReaderTypes, Receipts!Visibility, Receipts!MarkFails,
                             Receipts!ListComes
<1>3. marking' \in BOOLEAN
  <2>1. CASE Receipts!Visibility
    BY <2>1 DEF Receipts!Visibility
  <2>2. CASE Receipts!MarkFails \/ Receipts!ListComes
    BY <2>2, ReceiptsReaderParts DEF Receipts!MarkFails, Receipts!ListComes, ReceiptsReaderTypes
  <2> QED
    BY <2>1, <2>2
<1>4. /\ listing' = Receipts!None \/ listing' \in [unread : Nat, combined : BOOLEAN]
      /\ listing # Receipts!None /\ listing.unread > 0 =>
           listing' # Receipts!None /\ listing'.unread > 0
      /\ Receipts!CountKept'
  <2>1. CASE Receipts!ListComes
    <3>1. /\ listing \in [unread : Nat, combined : BOOLEAN] /\ reader.badge \in Nat
          /\ listing' = [unread |-> Receipts!Combined(listing.unread), combined |-> TRUE]
      BY <2>1, ReceiptsReaderParts DEF Receipts!ListComes, ReceiptsReaderTypes
    <3>2. /\ Receipts!Combined(listing.unread) \in Nat
          /\ Receipts!Combined(listing.unread) >= listing.unread
          /\ Receipts!Combined(listing.unread) >= reader.badge
      BY <3>1 DEF Receipts!Combined
    <3>3. listing' # Receipts!None
      BY <3>1, ReceiptsRecords
    <3>4. /\ listing'.unread = Receipts!Combined(listing.unread)
          /\ listing' \in [unread : Nat, combined : BOOLEAN]
      BY <3>1, <3>2
    <3>5. Receipts!CountKept'
      BY <1>2, <3>2, <3>4 DEF Receipts!CountKept
    <3> QED
      BY <3>1, <3>2, <3>3, <3>4, <3>5
  <2>2. CASE Receipts!Visibility \/ Receipts!MarkFails
    BY <1>1, <1>2, <2>2, ReceiptsReaderParts DEF Receipts!Visibility, Receipts!MarkFails,
                                                 ReceiptsReaderTypes, Receipts!CountKept
  <2> QED
    BY <2>1, <2>2
<1>5. ReceiptsReaderTypes'
  BY <1>1, <1>2, <1>3, <1>4, ReceiptsReaderParts DEF ReceiptsReaderTypes
<1>6. ASSUME NEW m, ReceiptsKnown(m) PROVE ReceiptsKnown(m)'
  BY <1>1, <1>2, <1>6 DEF ReceiptsKnown
<1>7. ReceiptsNoticed => ReceiptsNoticed'
  BY <1>2, <1>4 DEF ReceiptsNoticed
<1>8. receiptsConnected' /\ ~blurred' =>
        (\A m \in Receipts!Unread : ReceiptsKnown(m)') \/ ReceiptsNoticed'
  BY <1>1, <1>6, <1>7, ReceiptsMissed, ReceiptsReaderParts
<1>9. Receipts!ReadInOrder'
  BY <1>1, ReceiptsOrderKept, ReceiptsReaderParts
<1> QED
  BY <1>1, <1>4, <1>5, <1>8, <1>9, ReceiptsReaderQuiet

\* The server counts what is unread, which the badge will show.
LEMMA ReceiptsReaderList ==
  ASSUME Receipts!ReceiptsAssumption, ReceiptsServerSound, ReceiptsReaderSound,
         Receipts!List \/ Receipts!Reconnect
  PROVE  ReceiptsReaderSound'
<1>1. /\ listing = Receipts!None
      /\ listing' = [unread |-> Cardinality(Receipts!Unread), combined |-> FALSE]
      /\ UNCHANGED <<inbox, receiptsDecrypting, marking, blurred>>
      /\ UNCHANGED Receipts!serverVars
  BY SameCount DEF Receipts!List, Receipts!Reconnect
<1>2. /\ listing' \in [unread : Nat, combined : BOOLEAN] /\ listing' # Receipts!None
      /\ Receipts!Unread # {} => listing'.unread > 0
  BY <1>1, ReceiptsNumbers, ReceiptsRecords
<1>3. Receipts!CountKept'
  BY <1>1 DEF Receipts!CountKept
<1>4. Receipts!ReadInOrder'
  BY <1>1, ReceiptsOrderKept, ReceiptsReaderParts
<1>5. CASE Receipts!List
  <2>1. UNCHANGED <<reader, receiptsOpening, receiptsConnected>>
    BY <1>5 DEF Receipts!List
  <2>2. ReceiptsReaderTypes'
    BY <1>1, <1>2, <2>1, ReceiptsReaderParts DEF ReceiptsReaderTypes
  <2>3. ASSUME NEW m, ReceiptsKnown(m) PROVE ReceiptsKnown(m)'
    BY <1>1, <2>1, <2>3 DEF ReceiptsKnown
  <2>4. ReceiptsNoticed => ReceiptsNoticed'
    BY <1>1, <2>1 DEF ReceiptsNoticed
  <2>5. receiptsConnected' /\ ~blurred' =>
          (\A m \in Receipts!Unread : ReceiptsKnown(m)') \/ ReceiptsNoticed'
    BY <1>1, <2>1, <2>3, <2>4, ReceiptsMissed, ReceiptsReaderParts
  <2> QED
    BY <1>1, <1>3, <1>4, <2>2, <2>5, ReceiptsReaderQuiet
<1>6. CASE Receipts!Reconnect /\ reader.open
  <2>1. /\ receiptsOpening' = [rows |-> 1..receiptsSent]
        /\ reader' = [reader EXCEPT !.badge = 0] /\ receiptsConnected' = TRUE
    BY <1>6 DEF Receipts!Reconnect
  <2>2. /\ receiptsOpening' \in [rows : SUBSET Receipts!Msg] /\ receiptsOpening' # Receipts!None
        /\ receiptsOpening'.rows = 1..receiptsSent
    BY <2>1, ReceiptsNumbers, ReceiptsRecords
  <2>3. reader' \in [open : BOOLEAN, visible : BOOLEAN, cache : SUBSET Receipts!Msg, badge : Nat]
    BY <2>1, ReceiptsReaderParts DEF ReceiptsReaderTypes
  <2>4. ReceiptsReaderTypes'
    BY <1>1, <1>2, <2>1, <2>2, <2>3, ReceiptsReaderParts DEF ReceiptsReaderTypes
  <2>5. \A m \in Receipts!Unread : ReceiptsKnown(m)'
    BY <2>2 DEF ReceiptsKnown, Receipts!Unread
  <2> QED
    BY <1>1, <1>3, <1>4, <2>4, <2>5, ReceiptsReaderQuiet
<1>7. CASE Receipts!Reconnect /\ ~reader.open
  <2>1. UNCHANGED <<receiptsOpening, reader>> /\ receiptsConnected' = TRUE
    BY <1>7 DEF Receipts!Reconnect
  <2>2. ReceiptsReaderTypes'
    BY <1>1, <1>2, <2>1, ReceiptsReaderParts DEF ReceiptsReaderTypes
  <2>3. Receipts!Unread # {} => ReceiptsNoticed'
    BY <1>2, <1>7, <2>1 DEF ReceiptsNoticed
  <2> QED
    BY <1>1, <1>3, <1>4, <2>2, <2>3, ReceiptsReaderQuiet
<1> QED
  BY <1>5, <1>6, <1>7

LEMMA ReceiptsReaderListed ==
  ASSUME Receipts!ReceiptsAssumption, ReceiptsServerSound, ReceiptsReaderSound, Receipts!Listed
  PROVE  ReceiptsReaderSound'
<1>1. /\ listing # Receipts!None /\ listing.combined /\ listing' = Receipts!None
      /\ reader' = [reader EXCEPT !.badge = listing.unread]
      /\ UNCHANGED <<inbox, receiptsDecrypting, receiptsOpening, marking, receiptsConnected,
                     blurred>>
      /\ UNCHANGED Receipts!serverVars
  BY DEF Receipts!Listed
<1>2. listing.unread \in Nat /\ reader.badge \in Nat
  BY <1>1, ReceiptsReaderParts DEF ReceiptsReaderTypes
<1>3. /\ reader' \in [open : BOOLEAN, visible : BOOLEAN, cache : SUBSET Receipts!Msg, badge : Nat]
      /\ reader'.badge = listing.unread /\ reader'.cache = reader.cache
      /\ reader'.open = reader.open
  BY <1>1, <1>2, ReceiptsReaderParts DEF ReceiptsReaderTypes
<1>4. ReceiptsReaderTypes'
  BY <1>1, <1>3, ReceiptsReaderParts DEF ReceiptsReaderTypes
<1>5. Receipts!CountKept'
  BY <1>1 DEF Receipts!CountKept
<1>6. ASSUME NEW m, ReceiptsKnown(m) PROVE ReceiptsKnown(m)'
  BY <1>1, <1>3, <1>6 DEF ReceiptsKnown
<1>7. ~blurred /\ ReceiptsNoticed => ReceiptsNoticed'
  BY <1>1, <1>2, <1>3, ReceiptsReaderParts DEF ReceiptsNoticed, Receipts!CountKept
<1>8. receiptsConnected' /\ ~blurred' =>
        (\A m \in Receipts!Unread : ReceiptsKnown(m)') \/ ReceiptsNoticed'
  BY <1>1, <1>6, <1>7, ReceiptsMissed, ReceiptsReaderParts
<1>9. Receipts!ReadInOrder'
  BY <1>1, ReceiptsOrderKept, ReceiptsReaderParts
<1> QED
  BY <1>1, <1>4, <1>5, <1>8, <1>9, ReceiptsReaderQuiet

LEMMA ReceiptsReaderDrop ==
  ASSUME Receipts!ReceiptsAssumption, ReceiptsServerSound, ReceiptsReaderSound, Receipts!Drop
  PROVE  ReceiptsReaderSound'
<1>1. /\ receiptsConnected' = FALSE /\ inbox' = <<>>
      /\ UNCHANGED <<reader, receiptsDecrypting, receiptsOpening, listing, marking, blurred>>
      /\ UNCHANGED Receipts!serverVars
  BY DEF Receipts!Drop
<1>5. {marking', receiptsConnected', blurred'} \subseteq BOOLEAN
  BY <1>1, ReceiptsReaderParts DEF ReceiptsReaderTypes
<1>2. ReceiptsReaderTypes'
  BY <1>1, <1>5, ReceiptsReaderParts DEF ReceiptsReaderTypes
<1>3. Receipts!CountKept'
  BY <1>1, ReceiptsReaderParts DEF Receipts!CountKept
<1>4. Receipts!ReadInOrder'
  BY <1>1, ReceiptsOrderKept, ReceiptsReaderParts
<1> QED
  BY <1>1, <1>2, <1>3, <1>4, ReceiptsReaderQuiet

LEMMA ReceiptsReaderRests ==
  ASSUME ReceiptsReaderSound, UNCHANGED <<Receipts!serverVars, Receipts!readerVars>>
  PROVE  ReceiptsReaderSound'
<1>1. ReceiptsReaderTypes'
  BY ReceiptsReaderParts DEF ReceiptsReaderTypes, Receipts!readerVars
<1>2. Receipts!ReadInOrder'
  BY ReceiptsReaderParts DEF Receipts!ReadInOrder, Receipts!Unread, Receipts!readerVars,
                             Receipts!serverVars
<1>3. Receipts!NothingMissed'
  BY ReceiptsReaderParts DEF Receipts!NothingMissed, Receipts!Unread, Receipts!readerVars,
                             Receipts!serverVars
<1>4. Receipts!CountKept'
  BY ReceiptsReaderParts DEF Receipts!CountKept, Receipts!readerVars
<1> QED
  BY <1>1, <1>2, <1>3, <1>4, ReceiptsReaderParts, PTL

-----------------------------------------------------------------------------
(* The steps.                                                              *)

LEMMA ReceiptsInitInv == Receipts!ReceiptsAssumption /\ Receipts!Init => Receipts!IInv
<1> SUFFICES ASSUME Receipts!ReceiptsAssumption, Receipts!Init PROVE Receipts!IInv
  OBVIOUS
<1>1. ReceiptsServerSound
  BY DEF Receipts!Init, ReceiptsServerSound, Receipts!ReceiptsAssumption
<1>2. ReceiptsSenderSound
  BY DEF Receipts!Init, ReceiptsSenderSound, Receipts!MarksTrue, Receipts!ReceiptsReach
<1>3. Receipts!Unread = {} /\ inbox = <<>>
  BY DEF Receipts!Init, Receipts!Unread
<1>4. {marking, receiptsConnected, blurred} \subseteq BOOLEAN
  BY DEF Receipts!Init
<1>5. ReceiptsReaderTypes
  BY <1>4 DEF Receipts!Init, ReceiptsReaderTypes
<1>6. Receipts!ReadInOrder /\ Receipts!NothingMissed /\ Receipts!CountKept
  BY <1>3 DEF Receipts!Init, Receipts!ReadInOrder, Receipts!NothingMissed, Receipts!CountKept
<1> QED
  BY <1>1, <1>2, <1>5, <1>6, ReceiptsReaderParts, ReceiptsSplit

LEMMA ReceiptsNextInv == Receipts!ReceiptsAssumption /\ Receipts!IInv
                           /\ [Receipts!Next]_(Receipts!vars) => Receipts!IInv'
<1> SUFFICES ASSUME Receipts!ReceiptsAssumption, Receipts!IInv, [Receipts!Next]_(Receipts!vars)
             PROVE  Receipts!IInv'
  OBVIOUS
<1>0. ReceiptsServerSound /\ ReceiptsSenderSound /\ ReceiptsReaderSound
  BY ReceiptsSplit
<1>1. UNCHANGED Receipts!serverVars => ReceiptsServerSound'
  BY <1>0 DEF ReceiptsServerSound, Receipts!serverVars
<1>2. UNCHANGED <<Receipts!serverVars, Receipts!senderVars>> => ReceiptsSenderSound'
  BY <1>0, ReceiptsSenderQuiet DEF ReceiptsSenderSound, Receipts!serverVars, Receipts!senderVars
<1>3. CASE Receipts!Send
  <2>1. answers' \in SUBSET Receipts!Msg
    BY <1>0, <1>3, ReceiptsNumbers DEF Receipts!Send, ReceiptsSenderSound, Receipts!Msg
  <2>2. ReceiptsSenderSound'
    BY <1>0, <1>3, <2>1, ReceiptsSenderQuiet DEF Receipts!Send, ReceiptsSenderSound
  <2> QED
    BY <1>0, <1>3, <2>2, ReceiptsReaderSend, ReceiptsSplit, PTL
<1>4. CASE Receipts!MarkRead \/ Receipts!ReadElsewhere
  <2>1. marking' \in BOOLEAN
    BY <1>0, <1>4, ReceiptsReaderParts DEF Receipts!MarkRead, Receipts!ReadElsewhere,
                                           ReceiptsReaderTypes
  <2>2. ReceiptsServerSound' /\ ReceiptsSenderSound'
    BY <1>0, <1>4, ReceiptsSenderMarked DEF Receipts!MarkRead, Receipts!ReadElsewhere
  <2>3. ReceiptsReaderSound'
    BY <1>0, <1>4, <2>1, ReceiptsReaderMarked DEF Receipts!MarkRead, Receipts!ReadElsewhere
  <2> QED
    BY <2>2, <2>3, ReceiptsSplit, PTL
<1>5. CASE \/ Receipts!MarkFails \/ Receipts!MessageComes \/ Receipts!ReadComes
           \/ Receipts!Open \/ Receipts!Opened \/ Receipts!Close \/ Receipts!Visibility
           \/ Receipts!List \/ Receipts!ListComes \/ Receipts!Listed \/ Receipts!Drop
           \/ Receipts!Reconnect
           \/ \E m \in Receipts!Msg : Receipts!Ingest(m)
  <2>1. UNCHANGED Receipts!serverVars /\ UNCHANGED Receipts!senderVars
    BY <1>5 DEF Receipts!MarkFails, Receipts!MessageComes, Receipts!ReadComes, Receipts!Open,
                Receipts!Opened, Receipts!Close, Receipts!Visibility, Receipts!List,
                Receipts!ListComes, Receipts!Listed, Receipts!Drop, Receipts!Reconnect,
                Receipts!Ingest
  <2>2. ReceiptsReaderSound'
    BY <1>0, <1>5, ReceiptsReaderMessage, ReceiptsReaderRead, ReceiptsReaderIngest,
       ReceiptsReaderOpen, ReceiptsReaderOpened, ReceiptsReaderClose,
       ReceiptsReaderVisibility, ReceiptsReaderList, ReceiptsReaderListed, ReceiptsReaderDrop
  <2>3. ReceiptsServerSound' /\ ReceiptsSenderSound'
    BY <1>1, <1>2, <2>1
  <2> QED
    BY <2>2, <2>3, ReceiptsSplit, PTL
<1>6. CASE \/ Receipts!ReceiptComes \/ Receipts!SenderOpens \/ Receipts!SenderOpened
           \/ \E m \in Receipts!Msg : Receipts!Answered(m)
           \/ UNCHANGED Receipts!vars
  <2>1. UNCHANGED Receipts!serverVars /\ UNCHANGED Receipts!readerVars
    BY <1>6 DEF Receipts!ReceiptComes, Receipts!SenderOpens, Receipts!SenderOpened,
                Receipts!Answered, Receipts!vars
  <2>2. ASSUME NEW m \in Receipts!Msg, Receipts!Answered(m) PROVE ReceiptsSenderSound'
    <3>1. /\ UNCHANGED <<read, news, reload, early>> /\ answers' = answers \ {m}
          /\ sender' = [sender EXCEPT !.known = @ \cup {m}]
      BY <2>2 DEF Receipts!Answered, Receipts!serverVars
    <3>2. /\ answers' \in SUBSET Receipts!Msg
          /\ sender' \in [known : SUBSET Receipts!Msg, marked : SUBSET Receipts!Msg]
          /\ sender'.marked = sender.marked
      BY <1>0, <3>1 DEF ReceiptsSenderSound
    <3> QED
      BY <1>0, <3>1, <3>2, ReceiptsSenderQuiet
  <2>3. UNCHANGED Receipts!vars => ReceiptsSenderSound'
    BY <1>2 DEF Receipts!vars
  <2>4. ReceiptsSenderSound'
    BY <1>0, <1>6, <2>2, <2>3, ReceiptsSenderReceipt, ReceiptsSenderOpensInv,
       ReceiptsSenderOpenedInv
  <2>5. ReceiptsServerSound' /\ ReceiptsReaderSound'
    BY <1>0, <1>1, <2>1, ReceiptsReaderRests
  <2> QED
    BY <2>4, <2>5, ReceiptsSplit, PTL
<1> QED
  BY <1>3, <1>4, <1>5, <1>6 DEF Receipts!Next

LEMMA ReceiptsInvImplies == Receipts!IInv =>
                              /\ Receipts!TypeOK /\ Receipts!MarksTrue /\ Receipts!SenderLearns
                              /\ Receipts!BadgeShown
<1> SUFFICES ASSUME Receipts!IInv
             PROVE  /\ Receipts!TypeOK /\ Receipts!MarksTrue /\ Receipts!SenderLearns
                    /\ Receipts!BadgeShown
  OBVIOUS
<1>1. Receipts!SenderLearns
  BY DEF Receipts!IInv, Receipts!SenderLearns, Receipts!ReceiptsReach, Receipts!Announced
<1>2. Receipts!BadgeShown
  BY DEF Receipts!IInv, Receipts!BadgeShown, Receipts!NothingMissed, Receipts!Coming,
         Receipts!TypeOK
<1> QED
  BY <1>1, <1>2 DEF Receipts!IInv

THEOREM ReceiptsInvariance == ASSUME Receipts!ReceiptsAssumption
                              PROVE  Receipts!Spec => []Receipts!IInv
<1>1. Receipts!Init => Receipts!IInv
  BY ReceiptsInitInv
<1>2. Receipts!IInv /\ [Receipts!Next]_(Receipts!vars) => Receipts!IInv'
  BY ReceiptsNextInv
<1> QED
  BY <1>1, <1>2, PTL DEF Receipts!Spec

-----------------------------------------------------------------------------
(* The whole client.                                                       *)

LEMMA WholeOutbox ==
  /\ Init => Outbox!Init
  /\ [Next]_vars => [Outbox!Next]_(Outbox!vars)
<1>1. OutboxStep => Outbox!Next
  BY DEF OutboxStep
<1>2. ASSUME UNCHANGED outboxVars PROVE UNCHANGED Outbox!vars
  BY <1>2 DEF outboxVars, Outbox!vars
<1>3. \/ InboxStep \/ StreamStep \/ TrustStep \/ KeysStep \/ NamingStep
      \/ ReceiptsStep \/ UNCHANGED vars
      => UNCHANGED outboxVars
  BY DEF InboxStep, StreamStep, TrustStep, KeysStep, NamingStep, ReceiptsStep, vars
<1> QED
  BY <1>1, <1>2, <1>3 DEF Init, Next

\* The whole client keeps the invariant of this part.
LEMMA OutboxKept == Spec => []Outbox!IInv
<1>1. Outbox!Spec => []Outbox!IInv
  BY OutboxInvariance, BrowserAssumption DEF BrowserAssumption
<1> QED
  BY <1>1, WholeOutbox, PTL DEF Spec, Outbox!Spec

LEMMA WholeInbox ==
  /\ Init => Inbox!Init
  /\ [Next]_vars => [Inbox!Next]_(Inbox!vars)
<1>1. InboxStep => Inbox!Next
  BY DEF InboxStep
<1>2. ASSUME UNCHANGED inboxVars PROVE UNCHANGED Inbox!vars
  BY <1>2 DEF inboxVars, Inbox!vars, Inbox!serverVars, Inbox!loadVars, Inbox!boundVars
<1>3. \/ OutboxStep \/ StreamStep \/ TrustStep \/ KeysStep \/ NamingStep
      \/ ReceiptsStep \/ UNCHANGED vars
      => UNCHANGED inboxVars
  BY DEF OutboxStep, StreamStep, TrustStep, KeysStep, NamingStep, ReceiptsStep, vars
<1> QED
  BY <1>1, <1>2, <1>3 DEF Init, Next

\* The whole client keeps the invariant of this part.
LEMMA InboxKept == Spec => []Inbox!IInv
<1>1. Inbox!Spec => []Inbox!IInv
  BY InboxInvariance, BrowserAssumption DEF BrowserAssumption
<1> QED
  BY <1>1, WholeInbox, PTL DEF Spec, Inbox!Spec

LEMMA WholeStream ==
  /\ Init => Stream!Init
  /\ [Next]_vars => [Stream!Next]_(Stream!vars)
<1>1. StreamStep => Stream!Next
  BY DEF StreamStep
<1>2. ASSUME UNCHANGED streamVars PROVE UNCHANGED Stream!vars
  BY <1>2 DEF streamVars, Stream!vars
<1>3. \/ OutboxStep \/ InboxStep \/ TrustStep \/ KeysStep \/ NamingStep
      \/ ReceiptsStep \/ UNCHANGED vars
      => UNCHANGED streamVars
  BY DEF OutboxStep, InboxStep, TrustStep, KeysStep, NamingStep, ReceiptsStep, vars
<1> QED
  BY <1>1, <1>2, <1>3 DEF Init, Next

\* The whole client keeps the invariant of this part.
LEMMA StreamKept == Spec => []Stream!IInv
  BY StreamInvariance, WholeStream, PTL DEF Spec, Stream!Spec

LEMMA WholeTrust ==
  /\ Init => Trust!Init
  /\ [Next]_vars => [Trust!Next]_(Trust!vars)
<1>1. TrustStep => Trust!Next
  BY DEF TrustStep
<1>2. ASSUME UNCHANGED trustVars PROVE UNCHANGED Trust!vars
  BY <1>2 DEF trustVars, Trust!vars
<1>3. \/ OutboxStep \/ InboxStep \/ StreamStep \/ KeysStep \/ NamingStep
      \/ ReceiptsStep \/ UNCHANGED vars
      => UNCHANGED trustVars
  BY DEF OutboxStep, InboxStep, StreamStep, KeysStep, NamingStep, ReceiptsStep, vars
<1> QED
  BY <1>1, <1>2, <1>3 DEF Init, Next

\* The whole client keeps the invariant of this part.
LEMMA TrustKept == Spec => []Trust!IInv
<1>1. Trust!Spec => []Trust!IInv
  BY TrustInvariance, BrowserAssumption DEF BrowserAssumption
<1> QED
  BY <1>1, WholeTrust, PTL DEF Spec, Trust!Spec

LEMMA WholeKeys ==
  /\ Init => Keys!Init
  /\ [Next]_vars => [Keys!Next]_(Keys!vars)
<1>1. KeysStep => Keys!Next
  BY DEF KeysStep
<1>2. ASSUME UNCHANGED keysVars PROVE UNCHANGED Keys!vars
  BY <1>2 DEF keysVars, Keys!vars
<1>3. \/ OutboxStep \/ InboxStep \/ StreamStep \/ TrustStep \/ NamingStep
      \/ ReceiptsStep \/ UNCHANGED vars
      => UNCHANGED keysVars
  BY DEF OutboxStep, InboxStep, StreamStep, TrustStep, NamingStep, ReceiptsStep, vars
<1> QED
  BY <1>1, <1>2, <1>3 DEF Init, Next

\* The whole client keeps the invariant of this part.
LEMMA KeysKept == Spec => []Keys!IInv
  BY KeysInvariance, WholeKeys, PTL DEF Spec, Keys!Spec

LEMMA WholeNaming ==
  /\ Init => Naming!Init
  /\ [Next]_vars => [Naming!Next]_(Naming!vars)
<1>1. NamingStep => Naming!Next
  BY DEF NamingStep
<1>2. ASSUME UNCHANGED namingVars PROVE UNCHANGED Naming!vars
  BY <1>2 DEF namingVars, Naming!vars
<1>3. \/ OutboxStep \/ InboxStep \/ StreamStep \/ TrustStep \/ KeysStep
      \/ ReceiptsStep \/ UNCHANGED vars
      => UNCHANGED namingVars
  BY DEF OutboxStep, InboxStep, StreamStep, TrustStep, KeysStep, ReceiptsStep, vars
<1> QED
  BY <1>1, <1>2, <1>3 DEF Init, Next

\* The whole client keeps the invariant of this part.
LEMMA NamingKept == Spec => []Naming!IInv
<1>1. Naming!Spec => []Naming!IInv
  BY NamingInvariance, BrowserAssumption DEF BrowserAssumption
<1> QED
  BY <1>1, WholeNaming, PTL DEF Spec, Naming!Spec

LEMMA WholeReceipts ==
  /\ Init => Receipts!Init
  /\ [Next]_vars => [Receipts!Next]_(Receipts!vars)
<1>1. ReceiptsStep => Receipts!Next
  BY DEF ReceiptsStep
<1>2. ASSUME UNCHANGED receiptsVars PROVE UNCHANGED Receipts!vars
  BY <1>2 DEF receiptsVars, Receipts!vars, Receipts!serverVars, Receipts!senderVars,
              Receipts!readerVars, Receipts!bounds
<1>3. \/ OutboxStep \/ InboxStep \/ StreamStep \/ TrustStep \/ KeysStep
      \/ NamingStep \/ UNCHANGED vars
      => UNCHANGED receiptsVars
  BY DEF OutboxStep, InboxStep, StreamStep, TrustStep, KeysStep, NamingStep, vars
<1> QED
  BY <1>1, <1>2, <1>3 DEF Init, Next

\* The whole client keeps the invariant of this part.
LEMMA ReceiptsKept == Spec => []Receipts!IInv
<1>1. Receipts!Spec => []Receipts!IInv
  BY ReceiptsInvariance, BrowserAssumption DEF BrowserAssumption
<1> QED
  BY <1>1, WholeReceipts, PTL DEF Spec, Receipts!Spec

\* The variables of every part keep their types.
THEOREM TypeCorrect == Spec => []TypeOK
<1>1. Outbox!IInv => Outbox!TypeOK
  BY OutboxInvImplies, BrowserAssumption DEF BrowserAssumption
<1>2. Inbox!IInv => Inbox!TypeOK
  BY InboxInvImplies
<1>3. Stream!IInv => Stream!TypeOK
  BY DEF Stream!IInv
<1>4. Trust!IInv => Trust!TypeOK
  BY DEF Trust!IInv
<1>5. Keys!IInv => Keys!TypeOK
  BY DEF Keys!IInv
<1>6. Naming!IInv => Naming!TypeOK
  BY NamingInvImplies
<1>7. Receipts!IInv => Receipts!TypeOK
  BY ReceiptsInvImplies
<1>8. /\ Outbox!TypeOK
      /\ Inbox!TypeOK
      /\ Stream!TypeOK
      /\ Trust!TypeOK
      /\ Keys!TypeOK
      /\ Naming!TypeOK
      /\ Receipts!TypeOK
      => TypeOK
  BY DEF TypeOK
<1> QED
  BY <1>1, <1>2, <1>3, <1>4, <1>5, <1>6, <1>7, <1>8,
     OutboxKept, InboxKept, StreamKept, TrustKept, KeysKept, NamingKept, ReceiptsKept, PTL

\* sendMessageWithRetry, flushPendingOutbox: what the user writes is shown once, is
\* not lost before the server has it, and is never stuck as "sending", for any
\* number of messages, whichever of them are files, and however often requests fail,
\* the connection drops, a message is retried or the page is reloaded.
THEOREM NothingIsLost == Spec => []NothingWrittenIsLost
<1>1. Outbox!IInv => NothingWrittenIsLost
  BY OutboxInvImplies, BrowserAssumption DEF BrowserAssumption, NothingWrittenIsLost
<1> QED
  BY <1>1, OutboxKept, PTL

\* ingestEncryptedMessage, openConversation, loadOlderMessages: a conversation holds
\* each message once, scrolling reaches all that were there when it was loaded, the
\* pager is never left blocked, and an opening shows what the server has, for any
\* number of messages and pages of any size.
THEOREM Completeness == Spec => []ConversationComplete
<1>1. Inbox!IInv => ConversationComplete
  BY InboxInvImplies DEF ConversationComplete
<1> QED
  BY <1>1, InboxKept, PTL

\* openEventStream, startEventStream: the state on the page is that of the stream,
\* through overlapping openings, and a logout leaves no stream or timer behind, for
\* any number of sources, faults and logins.
THEOREM Honesty == Spec => []StatusIsHonest
<1>1. Stream!IInv => StatusIsHonest
  BY DEF Stream!IInv, StatusIsHonest
<1> QED
  BY <1>1, StreamKept, PTL

\* cachePeerInfo, trustObservedPeerKey, encryptOutboundMessage: a pin is always a
\* key the user was asked about and confirmed, a typed message sent at once is
\* encrypted for a confirmed key that is not in doubt, an attachment for a confirmed
\* key if the key was known when its file was chosen in the conversation, and whatever
\* goes to a contact with a pin for the pin.
THEOREM Confirmation == Spec => []OnlyConfirmedKeys
<1>1. Trust!IInv => OnlyConfirmedKeys
  BY DEF Trust!IInv, OnlyConfirmedKeys
<1> QED
  BY <1>1, TrustKept, PTL

\* submitAuth, handleMePassword: the key bundle of an account opens with its
\* password, every device that types the password gets in, and one that is
\* logged in has its identity in its vault.
THEOREM GettingIn == Spec => []DevicesGetIn
<1>1. Keys!IInv => DevicesGetIn
  BY DEF Keys!IInv, DevicesGetIn
<1> QED
  BY <1>1, KeysKept, PTL

\* handleUserRenamed: once the page has been told of every rename, its trust, its
\* storage, its vault and its open conversation go by the names of the server, if no
\* event came while a handler was waiting and the user acted on nothing of before; and
\* so do its lists, unless a load of them that was not the newest has ended last; for
\* any names, any number of renames and any order of the events, answers and loads.
THEOREM Following == Spec => []RenameIsFollowed
<1>1. Naming!IInv => RenameIsFollowed
  BY NamingInvImplies DEF RenameIsFollowed
<1> QED
  BY <1>1, NamingKept, PTL

\* applyReceiptUpdate, loadConversations: a message is shown as read only if it is,
\* what is read is shown as read in the end, and without a badge nothing unread is
\* missing, for any number of messages, openings, drops and switches.
THEOREM Reading == Spec => []ReadMarksAreTrue
<1>1. Receipts!IInv => ReadMarksAreTrue
  BY ReceiptsInvImplies DEF ReadMarksAreTrue
<1> QED
  BY <1>1, ReceiptsKept, PTL
=============================================================================
