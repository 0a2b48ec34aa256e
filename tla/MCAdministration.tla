-------------------------- MODULE MCAdministration --------------------------
(***************************************************************************)
(* Administration, for TLC in one run: the limits and lockouts of logins,  *)
(* the administrator's account, the audit log, and the administration page *)
(* with its users, its messages and its access log, each an instance of    *)
(* its module.                                                             *)
(*                                                                         *)
(* The parts share no variable.  A behaviour exercises the one that `part` *)
(* names and the others rest, so that the reachable states of a part are   *)
(* those of its own module and their product is never built.               *)
(***************************************************************************)
EXTENDS Naturals

CONSTANTS
  Worker, Window, WindowLimit, FailWindow, LockSpan, MaxFailures, Hashing,
  MaxRefused, MaxTime,                                                      \* LoginLockout
  Name, DefaultName, Request, AccountPasswords, AccountEdits, AccountStops, \* AdminAccount
  AuditPassword, AuditEntries, AuditStops, AuditHarm,                       \* AuditChain
  User, ConsoleSlot, MaxAsks,                                               \* AdminConsole
  PagerSlot, MaxPage,                                                       \* AdminPager
  ListFilter, ListLimit, ListStored                                         \* AdminMessages

VARIABLES
  part,
  \* LoginLockout
  now, bucket, failures, hashing, admitted, guesses, wrong, told,
  \* AdminAccount
  file, accountEnv, config, sessions, request, passwords, edits, accountStops, apart, torn,
  \* AuditChain
  up, lines, tail, entries, last, key, auditEnv, keyFile, password, writable, checked, next,
  auditStops, harm, written, excused,
  \* AdminConsole
  session, consoleShown, users, consoleRows, selected, leftover, asks, dialog, consoleNet,
  \* AdminPager
  page, total, pagerRows, pager, pagerShown, missed, pagerNet,
  \* AdminMessages
  stored, filter, messages, more, before, loading, button, used, listNet

lockoutVars == <<now, bucket, failures, hashing, admitted, guesses, wrong, told>>
accountVars == <<file, accountEnv, config, sessions, request, passwords, edits, accountStops,
                 apart, torn>>
auditVars == <<up, lines, tail, entries, last, key, auditEnv, keyFile, password, writable,
               checked, next, auditStops, harm, written, excused>>
consoleVars == <<session, consoleShown, users, consoleRows, selected, leftover, asks, dialog,
                 consoleNet>>
pagerVars == <<page, total, pagerRows, pager, pagerShown, missed, pagerNet>>
listVars == <<stored, filter, messages, more, before, loading, button, used, listNet>>
vars == <<part, lockoutVars, accountVars, auditVars, consoleVars, pagerVars, listVars>>

-----------------------------------------------------------------------------
Lockout == INSTANCE LoginLockout WITH Limit <- WindowLimit, Lockout <- LockSpan

Account == INSTANCE AdminAccount WITH
  MaxPasswords <- AccountPasswords, MaxEdits <- AccountEdits, MaxStops <- AccountStops,
  env <- accountEnv, stops <- accountStops

Audit == INSTANCE AuditChain WITH
  Password <- AuditPassword, MaxEntries <- AuditEntries, MaxStops <- AuditStops,
  MaxHarm <- AuditHarm, env <- auditEnv, stops <- auditStops

Console == INSTANCE AdminConsole WITH
  Slot <- ConsoleSlot, shown <- consoleShown, rows <- consoleRows, net <- consoleNet

Pager == INSTANCE AdminPager WITH
  Slot <- PagerSlot, rows <- pagerRows, shown <- pagerShown, net <- pagerNet

\* A filter is the positions it lets through.
Matches == [f \in ListFilter |-> f]

List == INSTANCE AdminMessages WITH
  Filter <- ListFilter, Limit <- ListLimit, MaxStored <- ListStored, net <- listNet

ASSUME AdministrationAssumption ==
  /\ Lockout!LockoutAssumption /\ Account!AdminAssumption /\ Audit!AuditAssumption
  /\ Pager!PagerAssumption /\ List!MatchesAssumption

-----------------------------------------------------------------------------
\* A part at rest is in one of its initial states.
Init ==
  /\ part \in {"lockout", "account", "audit", "console", "pager", "list"}
  /\ Lockout!Init /\ Account!Init /\ Audit!Init /\ Console!Init /\ Pager!Init /\ List!Init
  /\ part = "account" \/ file = [name |-> DefaultName, plain |-> 1, hash |-> 0]
  /\ part = "audit" \/ /\ lines = <<>> /\ auditEnv = "configured" /\ writable
                       /\ password = CHOOSE p \in AuditPassword : TRUE
  /\ part = "list" \/ (stored = 0 /\ filter = CHOOSE f \in ListFilter : TRUE)

LockoutStep ==
  /\ part = "lockout" /\ Lockout!Next
  /\ UNCHANGED <<part, accountVars, auditVars, consoleVars, pagerVars, listVars>>
AccountStep ==
  /\ part = "account" /\ Account!Next
  /\ UNCHANGED <<part, lockoutVars, auditVars, consoleVars, pagerVars, listVars>>
AuditStep ==
  /\ part = "audit" /\ Audit!Next
  /\ UNCHANGED <<part, lockoutVars, accountVars, consoleVars, pagerVars, listVars>>
ConsoleStep ==
  /\ part = "console" /\ Console!Next
  /\ UNCHANGED <<part, lockoutVars, accountVars, auditVars, pagerVars, listVars>>
PagerStep ==
  /\ part = "pager" /\ Pager!Next
  /\ UNCHANGED <<part, lockoutVars, accountVars, auditVars, consoleVars, listVars>>
ListStep ==
  /\ part = "list" /\ List!Next
  /\ UNCHANGED <<part, lockoutVars, accountVars, auditVars, consoleVars, pagerVars>>

Next == LockoutStep \/ AccountStep \/ AuditStep \/ ConsoleStep \/ PagerStep \/ ListStep

Spec == Init /\ [][Next]_vars

-----------------------------------------------------------------------------
(* Properties, one for each part, and one for the page.                    *)

\* Every part keeps the types of its variables.
TypeOK ==
  /\ part = "lockout" => Lockout!TypeOK
  /\ part = "account" => Account!TypeOK
  /\ part = "audit" => Audit!TypeOK
  /\ part = "console" => Console!TypeOK
  /\ part = "pager" => Pager!TypeOK
  /\ part = "list" => List!TypeOK

\* isRateLimited, recordLoginFailure: the limits let no more through than they
\* promise, wherever windows and locks begin, and refuse or lock out nobody who
\* has not given reason to.
LimitsHold ==
  part = "lockout" =>
    /\ Lockout!BurstBounded /\ Lockout!LimitedForAReason
    /\ Lockout!GuessesBounded /\ Lockout!LockedForAReason

\* persistAdminConfigToEnvFile, readConfiguredAdminConfig: the server starts again with
\* the credentials it runs with, whichever source had them in whatever form, unless the
\* file was edited or a write of it was cut, and never with the default ones, unless a
\* write was cut.
CredentialsSurvive == part = "account" => Account!RestartAgrees /\ Account!NeverDefault

\* recordAdminAction, verifyAdminAuditChain: the page shows what the file holds, a
\* warning has a reason, and a start that finds the chain in order has before it
\* the lines the program wrote.
AuditIsTrusted ==
  /\ [](part = "audit" => Audit!NoFalseAlarm /\ Audit!PageShowsFile)
  /\ Audit!HarmIsSeen

\* openDialog, loadUsers, loadAccessLogs, loadMessages: what is sent is what was
\* confirmed, ticks stay with the users listed, the pager names the page that is
\* drawn, and the list of messages has no gap, whatever answers overtake each other.
PageTellsTruth ==
  /\ part = "console" => Console!NobodyWaits /\ Console!SentAsConfirmed /\ Console!SelectionListed
  /\ part = "pager" => Pager!PagerTellsTruth /\ Pager!ClicksStartHere
  /\ part = "list" => List!NoGap /\ List!NothingLost
=============================================================================
