------------------------------ MODULE MCServer ------------------------------
(***************************************************************************)
(* The parts of the server that keep names, presence, requests and         *)
(* sessions, for TLC in one run: the rename of a user over memory and      *)
(* files, contacts with blocks and presence, the access log, and the file  *)
(* of the sessions, each an instance of its module.                        *)
(*                                                                         *)
(* The parts share no variable.  A behaviour exercises the one that `part` *)
(* names and the others rest, so that the reachable states of a part are   *)
(* those of its own module and their product is never built.               *)
(***************************************************************************)
EXTENDS Naturals, TLC

CONSTANTS
  Account, First, Name, FirstNames, NamesRenames, NamesStops,     \* UserNames
  User, Slot,                                                     \* Relationships
  LogRows, LogQueue, LogBatch, LogCache, LogMetas, LogRenames, LogFailures, LogCrashes,  \* AccessLog
  Session, Ttl, Absolute, Activity, Debounce, MaxTime, SessionsFails, SessionsStops  \* SessionFile

VARIABLES
  part,
  \* UserNames
  user, message, session, disk, namesDirty, register, patch, renames, namesStops, split, blocked,
  \* Relationships
  open, told, shows, blocks, entry, doubt, asked, sent, waiting, held,
  \* AccessLog
  queue, processing, flush, table, saved, metaOf, name, requests, renaming, closing, rows,
  droppedRows, refused, unlogged, lost, due, faults,
  \* SessionFile
  now, up, memory, file, sessionsDirty, timer, fails, sessionsStops, used, born, ended, unsaved,
  behind, shorted

namesVars == <<user, message, session, disk, namesDirty, register, patch, renames, namesStops,
               split, blocked>>
relationsVars == <<open, told, shows, blocks, entry, doubt, asked, sent, waiting, held>>
logVars == <<queue, processing, flush, table, saved, metaOf, name, requests, renaming, closing,
             rows, droppedRows, refused, unlogged, lost, due, faults>>
sessionsVars == <<now, up, memory, file, sessionsDirty, timer, fails, sessionsStops, used, born,
                  ended, unsaved, behind, shorted>>
vars == <<part, namesVars, relationsVars, logVars, sessionsVars>>

-----------------------------------------------------------------------------
Names == INSTANCE UserNames WITH
  MaxRenames <- NamesRenames, MaxStops <- NamesStops, dirty <- namesDirty, stops <- namesStops

Relations == INSTANCE Relationships

Log == INSTANCE AccessLog WITH
  MaxRows <- LogRows, MaxQueue <- LogQueue, BatchSize <- LogBatch, MetaLimit <- LogCache,
  MaxMetas <- LogMetas, MaxRenames <- LogRenames, MaxFailures <- LogFailures,
  MaxCrashes <- LogCrashes

Sessions == INSTANCE SessionFile WITH
  MaxFails <- SessionsFails, MaxStops <- SessionsStops, dirty <- sessionsDirty, stops <- sessionsStops

ASSUME ServerAssumption ==
  Names!NamesAssumption /\ Log!AccessLogAssumption /\ Sessions!TtlAssumption

-----------------------------------------------------------------------------
\* A part at rest is in one of its initial states.
Init ==
  /\ part \in {"names", "relations", "log", "sessions"}
  /\ Names!Init /\ Relations!Init /\ Log!Init /\ Sessions!Init
  /\ part = "relations" \/ shows = User
  /\ {user[w].name : w \in First} = FirstNames   \* names are interchangeable

NamesStep ==
  /\ part = "names" /\ Names!Next
  /\ UNCHANGED <<part, relationsVars, logVars, sessionsVars>>
RelationsStep ==
  /\ part = "relations" /\ Relations!Next
  /\ UNCHANGED <<part, namesVars, logVars, sessionsVars>>
LogStep ==
  /\ part = "log" /\ Log!Next
  /\ UNCHANGED <<part, namesVars, relationsVars, sessionsVars>>
SessionsStep ==
  /\ part = "sessions" /\ Sessions!Next
  /\ UNCHANGED <<part, namesVars, relationsVars, logVars>>

Next == NamesStep \/ RelationsStep \/ LogStep \/ SessionsStep

Spec == Init /\ [][Next]_vars

-----------------------------------------------------------------------------
(* Properties, one for each part.                                          *)

\* Every part keeps the types of its variables.
TypeOK ==
  /\ part = "names" => Names!TypeOK
  /\ part = "relations" => Relations!TypeOK
  /\ part = "log" => Log!TypeOK
  /\ part = "sessions" => Sessions!TypeOK

\* handleRegister, handleAdminUserPatch: two accounts never have one name, a block
\* follows the account and reaches nobody else, and messages and sessions stay
\* those of their account, through renames that wait, fail or are cut by a stop.
NamesBelong == part = "names" => Names!NamesBelong

\* setRelationshipState, pushPresence, markPendingDeliveries: nobody is shown online
\* to whom a block or a setting hides it, whoever may be seen is announced, a contact
\* is blocked or muted exactly while its owner asks for that, restarts included, and a
\* message waits for somebody who is there only if a block withheld it, and then does.
BlocksAreRespected == part = "relations" => Relations!BlocksAreRespected

\* createAccessLogStore: what the queue accepts is served, arrives in the table, once
\* and in order, and gets its client data; a failed batch is gone as a whole, what the
\* full queue refuses is counted; a rename reaches the rows of before; and after a
\* close all that was accepted is in the table, or its batch failed.
LogIsComplete ==
  part = "log" =>
    /\ Log!QueueIsServed /\ Log!WrittenOnce /\ Log!EveryRowArrives /\ Log!FailedBatchIsGone
    /\ Log!RefusalsAreCounted /\ Log!MetaReachesRows /\ Log!RenameReaches
    /\ Log!CloseLosesNothing

\* createSessionStore: a session ends in time on either side of a restart, an
\* ended one stays ended, and whoever uses theirs stays signed in.
SessionsSurviveRestarts == part = "sessions" => Sessions!SessionsSurviveRestarts

-----------------------------------------------------------------------------
\* Accounts, sessions, streams and the users of Relationships are interchangeable.
Symmetry == Permutations(First) \cup Permutations(User) \cup Permutations(Session)
=============================================================================
