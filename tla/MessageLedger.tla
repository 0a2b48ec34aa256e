---------------------------- MODULE MessageLedger ----------------------------
(***************************************************************************)
(* What the message store promises, without indexes, timers or files: a    *)
(* list of accepted messages whose entries only ever gain marks, and a     *)
(* durable list that a crash falls back to.  The only losses are the       *)
(* newest messages and the newest marks, those accepted since the last     *)
(* time the list was persisted.                                            *)
(***************************************************************************)
EXTENDS Naturals, Sequences

CONSTANTS
  InitialEntries   \* the messages a start would load before the first start

VARIABLES ledger, durable

ledgerVars == <<ledger, durable>>

\* An entry keeps its identity, and marks are never taken back.  Its payload
\* goes away with a recall and with nothing else.
Grows(e, f) ==
  /\ f.id = e.id /\ f.key = e.key /\ f.nonce = e.nonce /\ f.to = e.to
  /\ e.delivered => f.delivered
  /\ e.read => f.read
  /\ e.recalled => f.recalled
  /\ e.deletedFor \subseteq f.deletedFor
  /\ f.payload = (e.payload /\ ~f.recalled)
  \* A recalled message is no longer delivered or read.
  /\ e.recalled => f.delivered = e.delivered /\ f.read = e.read

Fresh(e) == ~e.read /\ ~e.recalled /\ e.payload /\ e.deletedFor = {}

Init ==
  /\ ledger = InitialEntries
  /\ durable = InitialEntries

\* One message is accepted under keys no stored message of its sender has.
Accept ==
  /\ Len(ledger') = Len(ledger) + 1
  /\ SubSeq(ledger', 1, Len(ledger)) = ledger
  /\ LET e == ledger'[Len(ledger')] IN
       /\ Fresh(e)
       /\ \A k \in DOMAIN ledger :
            ledger[k].id # e.id /\ ledger[k].key # e.key /\ ledger[k].nonce # e.nonce
  /\ UNCHANGED durable

Amend ==
  /\ DOMAIN ledger' = DOMAIN ledger
  /\ \A k \in DOMAIN ledger : Grows(ledger[k], ledger'[k])
  /\ UNCHANGED durable

Persist ==
  /\ durable' = ledger
  /\ UNCHANGED ledger

\* A crash may interrupt the writing of new messages, after some of them.
Crash ==
  /\ \/ UNCHANGED durable
     \/ \E n \in Len(durable) .. Len(ledger) : durable' = SubSeq(ledger, 1, n)
  /\ ledger' = durable'

Next == Accept \/ Amend \/ Persist \/ Crash

Spec == Init /\ [][Next]_ledgerVars
=============================================================================
