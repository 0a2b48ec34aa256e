----------------------------- MODULE AdminPager -----------------------------
(***************************************************************************)
(* The pages of the access log on the administration page                  *)
(* (public/admin.js): the page that is asked for, the rows that are drawn  *)
(* and the line that says which page they are, while several loads are     *)
(* under way, answers overtake each other and requests fail.               *)
(***************************************************************************)
EXTENDS Naturals

CONSTANTS
  Slot,      \* requests that are under way at once
  MaxPage    \* bound: pages the log has

Page == 1..MaxPage

\* Assumed of the constants.
PagerAssumption == MaxPage \in Nat \ {0}

VARIABLES
  page,    \* state.accessLogsPage
  total,   \* state.accessLogsTotal, in pages
  rows,    \* the page the drawn rows are from; 0 before there are any
  pager,   \* the page the line under the rows names; 0 before there is one
  shown,   \* the panels are shown, not the login card
  missed,  \* ghost: a load has failed, or the page was reset, since rows were drawn
  net

vars == <<page, total, rows, pager, shown, missed, net>>

drawn == <<rows, pager>>

Free == [kind |-> "free"]
Idle == \A s \in Slot : net[s] = Free

-----------------------------------------------------------------------------
\* loadAccessLogs with the page as it is now.
Load(s, p) ==
  /\ shown /\ net[s] = Free
  /\ page' = p
  /\ net' = [net EXCEPT ![s] = [kind |-> "query", page |-> p]]
  /\ UNCHANGED <<total, drawn, shown, missed>>

\* Filter and reset go back to the first page; a refresh keeps the page.
ApplyFilter(s) == Load(s, 1)
Refresh(s) == Load(s, page)

Previous(s) == page > 1 /\ Load(s, page - 1)
Following(s) == page < total /\ Load(s, page + 1)

\* getAccessLogs: rows and total of the page that was asked for.
Serve(s) ==
  /\ net[s].kind = "query"
  /\ \E t \in Page : net' = [net EXCEPT ![s] = [kind |-> "answer", page |-> net[s].page, total |-> t]]
  /\ UNCHANGED <<page, total, drawn, shown, missed>>

\* The answer says which page it is; renderAccessLogs draws it.
Arrive(s) ==
  /\ net[s].kind = "answer"
  /\ page' = net[s].page /\ total' = net[s].total
  /\ rows' = net[s].page /\ pager' = page' /\ missed' = FALSE
  /\ net' = [net EXCEPT ![s] = Free]
  /\ UNCHANGED shown

\* A toast; the page that was asked for stays.
Fails(s) ==
  /\ net[s] # Free
  /\ net' = [net EXCEPT ![s] = Free] /\ missed' = TRUE
  /\ UNCHANGED <<page, total, drawn, shown>>

\* resetAdminState draws nothing.
Logout ==
  /\ shown /\ shown' = FALSE
  /\ page' = 1 /\ total' = 0 /\ missed' = TRUE
  /\ UNCHANGED <<drawn, net>>

Login(s) ==
  /\ ~shown /\ net[s] = Free /\ shown' = TRUE
  /\ net' = [net EXCEPT ![s] = [kind |-> "query", page |-> page]]
  /\ UNCHANGED <<page, total, drawn, missed>>

Init ==
  /\ page = 1 /\ total = 0 /\ rows = 0 /\ pager = 0 /\ shown = FALSE /\ missed = FALSE
  /\ net = [s \in Slot |-> Free]

Next ==
  \/ Logout
  \/ \E s \in Slot : \/ ApplyFilter(s) \/ Refresh(s) \/ Previous(s) \/ Following(s)
                     \/ Serve(s) \/ Arrive(s) \/ Fails(s) \/ Login(s)

Spec == Init /\ [][Next]_vars

-----------------------------------------------------------------------------
\* The state has its shape; the page asked for is one the log may have.
TypeOK ==
  /\ page \in Page /\ total \in 0..MaxPage /\ rows \in 0..MaxPage /\ pager \in 0..MaxPage
  /\ shown \in BOOLEAN /\ missed \in BOOLEAN
  /\ net \in [Slot -> {Free} \cup [kind : {"query"}, page : Page]
                          \cup [kind : {"answer"}, page : Page, total : Page]]

\* loadAccessLogs, renderAccessLogs: the line under the rows names the page the
\* rows are from, whichever of several answers came last.
PagerTellsTruth == pager = rows

\* loadAccessLogs: with nothing under way, the next click starts from the page
\* on the screen, unless a load failed or the page was reset since.
ClicksStartHere == Idle /\ rows # 0 /\ ~missed => page = rows

\* These are inductive together.
IInv == TypeOK /\ PagerTellsTruth /\ ClicksStartHere
=============================================================================
