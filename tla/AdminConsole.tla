---------------------------- MODULE AdminConsole ----------------------------
(***************************************************************************)
(* The administration page (public/admin.js) while it bans: the list of    *)
(* users it loads, the boxes that are ticked, the dialog that asks before  *)
(* anything is done, and the answers that come late, in any order, or as   *)
(* a refusal that brings the login card back.                              *)
(***************************************************************************)
EXTENDS Naturals, Sequences, FiniteSets

CONSTANTS
  User,
  Slot,     \* requests that are under way at once
  MaxAsks   \* bound: dialogs opened

VARIABLES
  session,  \* the server knows this browser's administrator session
  shown,    \* the page shows the panels, not the login card (and has a CSRF token)
  users,    \* state.users: who is listed, and as banned or not
  rows,     \* the rows of the table, which only renderUsers redraws
  selected, \* state.selectedUsers
  leftover, \* ghost: ticked on a row that outlived the list it was drawn from
  asks,     \* the dialogs opened so far, with the answer each flow got
  dialog,   \* the ask whose answer the dialog resolves; 0 when it is hidden
  net       \* requests and answers under way

vars == <<session, shown, users, rows, selected, leftover, asks, dialog, net>>

page == <<users, rows, selected, leftover>>
talk == <<asks, dialog>>

Free == [kind |-> "free"]
Nobody == [u \in {} |-> FALSE]
Lists == UNION {[S -> BOOLEAN] : S \in SUBSET User}
Names == (SUBSET User) \ {{}}
Call == [names : Names, ban : BOOLEAN]
NotSent == [names |-> {}, ban |-> FALSE]

-----------------------------------------------------------------------------
(* The dialog.                                                             *)

\* openDialog: a dialog that is still open is answered with "cancel" first.
OpenDialog(names, ban) ==
  /\ asks' = Append([i \in 1..Len(asks) |-> IF i = dialog THEN [asks[i] EXCEPT !.answer = "no"] ELSE asks[i]],
                    [names |-> names, ban |-> ban, answer |-> "waiting", sent |-> NotSent])
  /\ dialog' = Len(asks) + 1

\* handleUserAction "ban": the direction comes from the list as it is now.
AskOne(u) ==
  /\ shown /\ Len(asks) < MaxAsks
  /\ u \in rows \cap DOMAIN users
  /\ OpenDialog({u}, ~users[u])
  /\ UNCHANGED <<session, shown, page, net>>

\* batchUsers: the names are fixed before the question.
AskBatch(ban) ==
  /\ shown /\ Len(asks) < MaxAsks /\ selected # {}
  /\ OpenDialog(selected, ban)
  /\ UNCHANGED <<session, shown, page, net>>

Cancel ==
  /\ dialog # 0
  /\ asks' = [asks EXCEPT ![dialog].answer = "no"]
  /\ dialog' = 0
  /\ UNCHANGED <<session, shown, page, net>>

\* Mutant of Confirm: whoever is ticked by now is who is banned.
ConfirmTicked(s) ==
  /\ dialog # 0 /\ net[s] = Free
  /\ LET names == IF Cardinality(asks[dialog].names) > 1 /\ selected # {}
                  THEN selected ELSE asks[dialog].names
     IN  /\ asks' = [asks EXCEPT ![dialog].answer = "yes",
                                 ![dialog].sent = [names |-> names, ban |-> asks[dialog].ban]]
         /\ net' = [net EXCEPT ![s] = [kind |-> "patch", names |-> names, ban |-> asks[dialog].ban, token |-> shown]]
  /\ dialog' = 0
  /\ UNCHANGED <<session, shown, page>>

\* The confirm button resolves the promise, and the flow sends its request.
Confirm(s) ==
  /\ dialog # 0 /\ net[s] = Free
  /\ LET it == asks[dialog]
         call == [names |-> it.names, ban |-> it.ban]
     IN  /\ asks' = [asks EXCEPT ![dialog].answer = "yes", ![dialog].sent = call]
         /\ net' = [net EXCEPT ![s] = [kind |-> "patch", names |-> call.names, ban |-> call.ban, token |-> shown]]
  /\ dialog' = 0
  /\ UNCHANGED <<session, shown, page>>

-----------------------------------------------------------------------------
(* The list.                                                               *)

\* handleUserAction on a box: the click redraws the table from the list.
Tick(u) ==
  /\ shown /\ u \in rows
  /\ selected' = IF u \in selected THEN selected \ {u} ELSE selected \cup {u}
  /\ leftover' = (leftover \cap selected') \cup ((selected' \ selected) \ DOMAIN users)
  /\ rows' = DOMAIN users
  /\ UNCHANGED <<session, shown, users, talk, net>>

TickAll(on) ==
  /\ shown
  /\ selected' = IF on THEN selected \cup DOMAIN users ELSE selected \ DOMAIN users
  /\ rows' = DOMAIN users
  /\ UNCHANGED <<session, shown, users, leftover, talk, net>>

\* loadUsers sends its query: a filter, a page or a refresh.
Load(s) ==
  /\ shown /\ net[s] = Free
  /\ net' = [net EXCEPT ![s] = [kind |-> "list"]]
  /\ UNCHANGED <<session, shown, page, talk>>

\* loadUsers has its answer: the selection is cut to it, and it is drawn.
Loaded(list) ==
  /\ users' = list /\ rows' = DOMAIN list
  /\ selected' = selected \cap DOMAIN list
  /\ leftover' = {}

-----------------------------------------------------------------------------
(* The session and the network.                                            *)

\* resetAdminState(true) draws nothing but the login card.
Reset ==
  /\ shown' = FALSE /\ users' = Nobody /\ selected' = {} /\ leftover' = {}
  /\ UNCHANGED rows

\* login, or boot with a session: the panels appear before refreshAll's answers.
Login(s) ==
  /\ ~shown /\ net[s] = Free
  /\ session' = TRUE /\ shown' = TRUE
  /\ net' = [net EXCEPT ![s] = [kind |-> "list"]]
  /\ UNCHANGED <<page, talk>>

Logout == shown /\ session' = FALSE /\ Reset /\ UNCHANGED <<talk, net>>

\* The server forgets the session: it expired, or the account was reset.
Expire == session /\ session' = FALSE /\ UNCHANGED <<shown, page, talk, net>>

\* handleAdminUsers answers with the part of the users the query asks for, in
\* the state the administrators have brought them to by then: any list.
ServeList(s, list) ==
  /\ net[s].kind = "list"
  /\ net' = [net EXCEPT ![s] = IF session THEN [kind |-> "rows", list |-> list] ELSE [kind |-> "refused"]]
  /\ UNCHANGED <<session, shown, page, talk>>

\* handleAdminUserPatch and handleAdminUsersBatch: without a session 401,
\* without the token 403.
ServePatch(s) ==
  /\ net[s].kind = "patch"
  /\ net' = [net EXCEPT ![s] =
       [kind |-> IF ~session THEN "refused" ELSE IF net[s].token THEN "done" ELSE "error"]]
  /\ UNCHANGED <<session, shown, page, talk>>

\* rejectIfForbiddenOrLimited: over the limit a session is refused, 429.
Limited(s) ==
  /\ net[s].kind \in {"list", "patch"} /\ session
  /\ net' = [net EXCEPT ![s] = [kind |-> "error"]]
  /\ UNCHANGED <<session, shown, page, talk>>

\* api has its answer: 401 resets the page, a patch is followed by loadUsers.
Arrive(s) ==
  /\ \/ /\ net[s].kind = "rows" /\ Loaded(net[s].list)
        /\ net' = [net EXCEPT ![s] = Free] /\ UNCHANGED shown
     \/ /\ net[s].kind = "refused" /\ Reset
        /\ net' = [net EXCEPT ![s] = Free]
     \/ /\ net[s].kind = "done"
        /\ net' = [net EXCEPT ![s] = [kind |-> "list"]] /\ UNCHANGED <<shown, page>>
     \/ /\ net[s].kind = "error"
        /\ net' = [net EXCEPT ![s] = Free] /\ UNCHANGED <<shown, page>>
  /\ UNCHANGED <<session, talk>>

\* The network fails: a toast.
Lost(s) ==
  /\ net[s].kind \in {"list", "patch"}
  /\ net' = [net EXCEPT ![s] = Free]
  /\ UNCHANGED <<session, shown, page, talk>>

Init ==
  /\ session = FALSE /\ shown = FALSE
  /\ users = Nobody /\ rows = {} /\ selected = {} /\ leftover = {}
  /\ asks = <<>> /\ dialog = 0
  /\ net = [s \in Slot |-> Free]

Next ==
  \/ \E u \in User : AskOne(u) \/ Tick(u)
  \/ \E b \in BOOLEAN : AskBatch(b) \/ TickAll(b)
  \/ Cancel \/ Logout \/ Expire
  \/ \E s \in Slot : \/ Confirm(s) \/ Load(s) \/ Login(s) \/ ServePatch(s) \/ Limited(s)
                     \/ Arrive(s) \/ Lost(s)
                     \/ \E list \in Lists : ServeList(s, list)

Spec == Init /\ [][Next]_vars

-----------------------------------------------------------------------------
\* What is asked and answered over the network.
Message == {Free} \cup [kind : {"list", "done", "error", "refused"}]
             \cup [kind : {"rows"}, list : Lists]
             \cup [kind : {"patch"}, names : Names, ban : BOOLEAN, token : BOOLEAN]

\* The state has its shape; in particular every ask names somebody.
TypeOK ==
  /\ session \in BOOLEAN /\ shown \in BOOLEAN
  /\ users \in Lists /\ rows \subseteq User /\ selected \subseteq User /\ leftover \subseteq User
  /\ asks \in Seq([names : Names, ban : BOOLEAN, answer : {"waiting", "yes", "no"},
                   sent : Call \cup {NotSent}])
  /\ dialog \in 0..Len(asks)
  /\ net \in [Slot -> Message]

\* openDialog, closeDialog: the one flow that waits for an answer is the one
\* the dialog on the screen belongs to, so that no flow waits for ever and no
\* click answers a question other than the one that is read.
NobodyWaits == {i \in 1..Len(asks) : asks[i].answer = "waiting"} = {dialog} \ {0}

\* A ban or unban leaves the page only after its own dialog was confirmed, and
\* is for the users and in the direction the dialog was opened for, whatever
\* lists were loaded and boxes ticked while it was open.
SentAsConfirmed ==
  \A i \in 1..Len(asks) : LET a == asks[i]
                          IN  a.sent = IF a.answer = "yes" THEN [names |-> a.names, ban |-> a.ban] ELSE NotSent

\* loadUsers: the ticked users are among those listed, so that a batch never
\* reaches a user of another page or filter, except those ticked on rows that
\* were still drawn after a logout.
SelectionListed == selected \subseteq DOMAIN users \cup leftover

\* These are inductive together.
IInv == TypeOK /\ NobodyWaits /\ SentAsConfirmed /\ SelectionListed
=============================================================================
