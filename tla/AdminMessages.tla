--------------------------- MODULE AdminMessages ----------------------------
(***************************************************************************)
(* The message review of the administration page (public/admin.js): pages  *)
(* of the stored messages, newest first, for a filter that can be edited   *)
(* at any time, with one load at a time.                                   *)
(***************************************************************************)
EXTENDS Naturals, Sequences, FiniteSets

CONSTANTS
  Filter,      \* what the filter inputs can hold
  Matches,     \* the stored positions each filter lets through
  Limit,       \* rows of a page (120 in the page)
  MaxStored    \* bound: messages stored

\* Assumed of the constants.
MatchesAssumption ==
  /\ MaxStored \in Nat /\ Limit \in Nat \ {0}
  /\ Matches \in [Filter -> SUBSET (1..MaxStored)]

VARIABLES
  stored,   \* messages in the server's list, in order
  filter,   \* the inputs
  messages, \* state.messages: positions, oldest first
  more,     \* state.hasMoreMessages
  before,   \* state.nextBefore; 0 when it is empty
  loading,  \* state.loadingMessages
  button,   \* "load more" can be pressed, as renderMessages left it
  used,     \* ghost: the filters of the rows on the page
  net       \* the queries and answers under way

vars == <<stored, filter, messages, more, before, loading, button, used, net>>

list == <<messages, more, before>>

Query(reset) == [kind |-> "query", reset |-> reset, filter |-> filter, before |-> IF reset THEN 0 ELSE before]

-----------------------------------------------------------------------------
Found(f, cursor) == {i \in Matches[f] : i <= stored /\ (cursor = 0 \/ i < cursor)}

Newest(found) == {i \in found : Cardinality({j \in found : j >= i}) <= Limit}

Increasing(s) == \A i, j \in DOMAIN s : i < j => s[i] < s[j]

\* The members of a set of positions, in order.
InOrder(S) ==
  CHOOSE s \in [1..Cardinality(S) -> S] : Increasing(s) /\ \A x \in S : \E i \in DOMAIN s : s[i] = x

\* collectPagedMessages: the newest matching messages before the cursor.
Page(query) ==
  LET found == Found(query.filter, query.before)
      rows == InOrder(Newest(found))
      rest == Cardinality(found) > Limit
  IN  [kind |-> "answer", reset |-> query.reset, filter |-> query.filter,
       rows |-> rows, more |-> rest, before |-> IF rest THEN rows[1] ELSE 0]

\* loadMessages up to its request: a click during a load does nothing.
LoadMessages(reset) ==
  /\ ~loading
  /\ loading' = TRUE
  /\ IF reset THEN messages' = <<>> /\ more' = FALSE /\ before' = 0 ELSE UNCHANGED list
  /\ net' = Append(net, Query(reset))
  /\ UNCHANGED <<stored, filter, button, used>>

ApplyFilter == LoadMessages(TRUE)

LoadMore == button /\ LoadMessages(FALSE)

Edit(f) ==
  /\ filter' = f
  /\ UNCHANGED <<stored, list, loading, button, used, net>>

-----------------------------------------------------------------------------
Store ==
  /\ stored < MaxStored /\ stored' = stored + 1
  /\ UNCHANGED <<filter, list, loading, button, used, net>>

\* handleAdminMessages
Serve ==
  \E n \in 1..Len(net) :
    /\ net[n].kind = "query"
    /\ net' = [net EXCEPT ![n] = Page(net[n])]
    /\ UNCHANGED <<stored, filter, list, loading, button, used>>

\* The answer: a first page replaces the list, a further one goes on top.
Arrive ==
  /\ net # <<>> /\ Head(net).kind = "answer"
  /\ LET page == Head(net)
     IN  /\ messages' = IF page.reset THEN page.rows ELSE page.rows \o messages
         /\ more' = page.more /\ before' = page.before
         /\ used' = {page.filter} \cup IF page.reset THEN {} ELSE used
  /\ loading' = FALSE
  /\ button' = (messages' # <<>> /\ more')
  /\ net' = Tail(net)
  /\ UNCHANGED <<stored, filter>>

\* Mutant of Fails: the flag is lowered only after an answer.
FailsLoading ==
  /\ net # <<>>
  /\ net' = Tail(net)
  /\ UNCHANGED <<stored, filter, list, loading, button, used>>

\* The network or the server fails: the finally clause.
Fails ==
  /\ net # <<>>
  /\ loading' = FALSE
  /\ button' = (messages # <<>> /\ more)
  /\ net' = Tail(net)
  /\ UNCHANGED <<stored, filter, list, used>>

\* resetAdminState, with a load under way or without; nothing is drawn.
Logout ==
  /\ messages' = <<>> /\ more' = FALSE /\ before' = 0 /\ used' = {}
  /\ UNCHANGED <<stored, filter, loading, button, net>>

Init ==
  /\ stored \in 0..MaxStored /\ filter \in Filter
  /\ messages = <<>> /\ more = FALSE /\ before = 0 /\ loading = FALSE /\ button = FALSE
  /\ used = {} /\ net = <<>>

Next ==
  \/ ApplyFilter \/ LoadMore \/ Store \/ Serve \/ Arrive \/ Fails \/ Logout
  \/ \E f \in Filter : Edit(f)

\* Every request ends with an answer or an error.
Spec == Init /\ [][Next]_vars /\ WF_vars(Serve) /\ WF_vars(Arrive)

-----------------------------------------------------------------------------
Positions == 1..MaxStored

\* The state has its shape; at most one load is under way.
TypeOK ==
  /\ stored \in 0..MaxStored /\ filter \in Filter /\ used \subseteq Filter
  /\ messages \in Seq(Positions) /\ before \in 0..MaxStored
  /\ more \in BOOLEAN /\ loading \in BOOLEAN /\ button \in BOOLEAN
  /\ Len(net) <= 1

\* loadMessages, collectPagedMessages: the rows are in order, none twice, and
\* between the oldest and the newest no message is missing that all filters of
\* these rows let through, whatever is stored, edited or answered meanwhile.
NoGap ==
  /\ Increasing(messages)
  /\ messages # <<>> =>
       \A p \in messages[1]..messages[Len(messages)] :
         (\A f \in used : p \in Matches[f]) => \E i \in 1..Len(messages) : messages[i] = p

\* hasMoreMessages, nextBefore: once nothing is under way, "load more" continues
\* with the message above the rows, as long as there is an older one that the
\* filters of these rows let through.
NothingLost ==
  (net = <<>> /\ messages # <<>>) =>
    LET older == {p \in 1..messages[1] - 1 : \A f \in used : p \in Matches[f]}
    IN  older # {} => more /\ before = messages[1]

\* loadMessages: the page does not stay in the state in which it drops loads.
LoadsEnd == loading ~> ~loading

-----------------------------------------------------------------------------
(* What makes the above inductive.                                         *)

Questions == [kind : {"query"}, reset : BOOLEAN, filter : Filter, before : 0..MaxStored]

Answers == [kind : {"answer"}, reset : BOOLEAN, filter : Filter, rows : Seq(Positions),
            more : BOOLEAN, before : 0..MaxStored]

\* The one load that is under way is for the rows that are there, and puts its rows
\* in front of them: a first page was asked for when the list was emptied, and a
\* logout empties it too.
QuestionFits(q) == messages # <<>> => ~q.reset /\ q.before = messages[1]

Due(a) ==
  {p \in Matches[a.filter] :
     /\ a.more => p >= a.rows[1]
     /\ IF messages # <<>> THEN p < messages[1] ELSE a.rows # <<>> /\ p <= a.rows[Len(a.rows)]}

\* The rows of an answer are in order, in front of those that are there, and
\* leave out nothing that their filter lets through: back to the first of them,
\* or to the first message if there is no more.
AnswerFits(a) ==
  /\ Increasing(a.rows)
  /\ \A i \in DOMAIN a.rows : a.rows[i] <= stored /\ (messages # <<>> => a.rows[i] < messages[1])
  /\ a.more => a.rows # <<>> /\ a.before = a.rows[1]
  /\ messages # <<>> => ~a.reset
  /\ \A p \in Due(a) : \E i \in DOMAIN a.rows : a.rows[i] = p

OneLoad ==
  /\ net \in Seq(Questions \cup Answers) /\ Len(net) = IF loading THEN 1 ELSE 0
  /\ \A n \in DOMAIN net : IF net[n].kind = "query" THEN QuestionFits(net[n]) ELSE AnswerFits(net[n])

\* While there are rows, the button and the cursor are those of the last page.
ListContinues ==
  messages # <<>> =>
    /\ button => more
    /\ more => before = messages[1]
    /\ more \/ \A p \in 1..messages[1] - 1 : \E f \in used : p \notin Matches[f]
    /\ \A i \in DOMAIN messages : messages[i] <= stored

IInv == TypeOK /\ NoGap /\ NothingLost /\ OneLoad /\ ListContinues
=============================================================================
