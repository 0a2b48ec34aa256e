----------------------------- MODULE UserNames ------------------------------
(***************************************************************************)
(* The names of the accounts: registration (routes/account-routes.js), the *)
(* administrator's rename (routes/admin-routes.js) with its await, and the *)
(* three files that refer to accounts by name, each with a rhythm of its   *)
(* own: users at once, messages and sessions after a delay.                *)
(*                                                                         *)
(* Of the messages and the sessions only the name they carry for each      *)
(* account is kept.                                                        *)
(***************************************************************************)
EXTENDS Naturals, FiniteSets

CONSTANTS
  Account, First,  \* accounts, and those registered at the beginning
  Name,            \* names, and NoName
  MaxRenames, MaxStops

NoName == "none"

\* Assumed of the constants.
NamesAssumption ==
  First \subseteq Account /\ NoName \in Name /\ {MaxRenames, MaxStops} \subseteq Nat

VARIABLES
  user,      \* users: name and block list of each account
  message,   \* the name each account has in the messages
  session,   \* the name in each account's session
  disk,      \* the three files
  dirty,     \* the files for which a write is due
  register,  \* the name each account is being registered for
  patch,     \* the rename under way of each account: it waits for the access log
  renames, stops,
  split,     \* a failure or a crash has left the files out of step
  blocked    \* ghost: <<x, y>> when x has blocked y

vars == <<user, message, session, disk, dirty, register, patch, renames, stops, split, blocked>>

NoUser == [name |-> NoName, blocks |-> {}]
NameOf(x) == user[x].name
Taken(n) == \E x \in Account : NameOf(x) = n
Kept == [users |-> user, messages |-> message, sessions |-> session]

-----------------------------------------------------------------------------
(* Registration.                                                           *)

\* handleRegister before its hash ...
RegisterChecked(x, n) ==
  /\ user[x] = NoUser /\ register[x] = NoName /\ ~Taken(n)
  /\ register' = [register EXCEPT ![x] = n]
  /\ UNCHANGED <<user, message, session, disk, dirty, patch, renames, stops, split, blocked>>

\* ... and after it: users and the session are saved; messages follow.
Registered(x) ==
  /\ register[x] # NoName /\ register' = [register EXCEPT ![x] = NoName]
  /\ LET n == register[x]
     IN  IF Taken(n) THEN UNCHANGED <<user, message, session, disk, dirty>>
         ELSE /\ user' = [user EXCEPT ![x].name = n]
              /\ message' = [message EXCEPT ![x] = n]
              /\ session' = [session EXCEPT ![x] = n]
              /\ disk' = [disk EXCEPT !.users = user', !.sessions = session']
              /\ dirty' = (dirty \ {"sessions"}) \cup {"messages"}
  /\ UNCHANGED <<patch, renames, stops, split, blocked>>

\* Mutant of Block: the other account is not looked for.
BlockUnfound(x, y) ==
  /\ x # y /\ NameOf(x) # NoName /\ <<x, y>> \notin blocked
  /\ user' = [user EXCEPT ![x].blocks = @ \cup {NameOf(y)}]
  /\ disk' = [disk EXCEPT !.users = user']
  /\ blocked' = blocked \cup {<<x, y>>}
  /\ UNCHANGED <<message, session, dirty, register, patch, renames, stops, split>>

\* x blocks y (handleContactBlock), which saves the users.
Block(x, y) ==
  /\ x # y /\ NameOf(x) # NoName /\ NameOf(y) # NoName /\ <<x, y>> \notin blocked
  /\ user' = [user EXCEPT ![x].blocks = @ \cup {NameOf(y)}]
  /\ disk' = [disk EXCEPT !.users = user']
  /\ blocked' = blocked \cup {<<x, y>>}
  /\ UNCHANGED <<message, session, dirty, register, patch, renames, stops, split>>

-----------------------------------------------------------------------------
(* handleAdminUserPatch.                                                   *)

\* Mutant of RenamedBlocks: the block lists of the others are left.
KeptBlocks(list, old, n) == list

RenamedBlocks(list, old, n) == IF old \in list THEN (list \ {old}) \cup {n} ELSE list

\* Users, messages, block lists and sessions take the new name, in memory.
RenameStarted(x, n) ==
  /\ NameOf(x) # NoName /\ patch[x] = NoName /\ ~Taken(n)
  /\ renames < MaxRenames /\ renames' = renames + 1
  /\ user' = [y \in Account |->
                IF y = x THEN [user[x] EXCEPT !.name = n]
                ELSE [user[y] EXCEPT !.blocks = RenamedBlocks(@, NameOf(x), n)]]
  /\ message' = [message EXCEPT ![x] = IF @ = NameOf(x) THEN n ELSE @]
  /\ session' = [y \in Account |-> IF session[y] = NameOf(x) THEN n ELSE session[y]]
  /\ patch' = [patch EXCEPT ![x] = n]
  /\ UNCHANGED <<disk, dirty, register, stops, split, blocked>>

\* The access log has answered: the users are saved, the others scheduled.
RenameSaved(x) ==
  /\ patch[x] # NoName /\ patch' = [patch EXCEPT ![x] = NoName]
  /\ disk' = [disk EXCEPT !.users = user]
  /\ dirty' = dirty \cup {"messages"} \cup (IF session # disk.sessions THEN {"sessions"} ELSE {})
  /\ UNCHANGED <<user, message, session, register, renames, stops, split, blocked>>

\* The access log fails, or "banned" turns out to be no boolean: nothing is saved.
RenameFailed(x) ==
  /\ patch[x] # NoName /\ patch' = [patch EXCEPT ![x] = NoName]
  /\ split' = TRUE
  /\ UNCHANGED <<user, message, session, disk, dirty, register, renames, stops, blocked>>

\* requireSession revokes a session whose name nobody has.
Unknown(x) ==
  /\ session[x] # NoName /\ ~Taken(session[x])
  /\ session' = [session EXCEPT ![x] = NoName]
  /\ disk' = [disk EXCEPT !.sessions = session'] /\ dirty' = dirty \ {"sessions"}
  /\ UNCHANGED <<user, message, register, patch, renames, stops, split, blocked>>

-----------------------------------------------------------------------------
(* Files.                                                                  *)

Flushed(files) ==
  [disk EXCEPT !.messages = IF "messages" \in files THEN message ELSE @,
               !.sessions = IF "sessions" \in files THEN session ELSE @]

\* The timer of a delayed write; new messages and the activity of sessions set
\* it off as well.
Flush(f) ==
  /\ f \in {"messages", "sessions"}
  /\ disk' = Flushed({f}) /\ dirty' = dirty \ {f}
  /\ disk' # disk
  /\ UNCHANGED <<user, message, session, register, patch, renames, stops, split, blocked>>

Load(d) ==
  /\ stops < MaxStops /\ stops' = stops + 1
  /\ disk' = d /\ user' = d.users /\ message' = d.messages /\ session' = d.sessions
  /\ dirty' = {}
  /\ register' = [x \in Account |-> NoName] /\ patch' = [x \in Account |-> NoName]
  /\ UNCHANGED <<renames, blocked>>

\* shutdown: requests are answered, what is due is written.
Stop ==
  /\ \A x \in Account : register[x] = NoName /\ patch[x] = NoName
  /\ Load(Flushed(dirty))
  /\ UNCHANGED split

Crash ==
  /\ Load(disk)
  /\ split' = (split \/ Kept # disk)

-----------------------------------------------------------------------------

Init ==
  \* the first accounts with a name each
  /\ \E name \in [First -> Name \ {NoName}] :
       /\ \A x, y \in First : name[x] = name[y] => x = y
       /\ user = [x \in Account |-> IF x \in First THEN [NoUser EXCEPT !.name = name[x]] ELSE NoUser]
  /\ message = [x \in Account |-> user[x].name] /\ session = message
  /\ disk = Kept /\ dirty = {}
  /\ register = [x \in Account |-> NoName] /\ patch = register
  /\ renames = 0 /\ stops = 0 /\ split = FALSE /\ blocked = {}

Next ==
  \/ \E x \in Account : \/ Registered(x) \/ RenameSaved(x) \/ RenameFailed(x) \/ Unknown(x)
                        \/ \E y \in Account : Block(x, y)
                        \/ \E n \in Name \ {NoName} : RegisterChecked(x, n) \/ RenameStarted(x, n)
  \/ \E f \in {"messages", "sessions"} : Flush(f)
  \/ Stop \/ Crash

Spec == Init /\ [][Next]_vars

-----------------------------------------------------------------------------
(* Properties.                                                             *)

\* Every variable keeps its type.
TypeOK ==
  /\ user \in [Account -> [name : Name, blocks : SUBSET (Name \ {NoName})]]
  /\ {message, session, register, patch} \subseteq [Account -> Name]
  /\ dirty \subseteq {"messages", "sessions"} /\ blocked \subseteq Account \X Account

\* No two accounts have the same name, in memory or in the file, while
\* registrations and renames wait.
OneAccountPerName ==
  \A x, y \in Account : x # y =>
    /\ NameOf(x) # NameOf(y) \/ NameOf(x) = NoName
    /\ disk.users[x].name # disk.users[y].name \/ disk.users[x].name = NoName

\* A block holds through renames, failures and crashes, and never reaches an
\* account that takes a name up again ("so a rename can't be used to slip past
\* an existing block").
BlocksFollow ==
  \A x, y \in Account : x # y /\ NameOf(y) # NoName => (<<x, y>> \in blocked <=> NameOf(y) \in user[x].blocks)

\* Short of a failed rename and of a crash between two files, messages and
\* sessions stay those of their account, through any stop and start.
HistoryFollows ==
  ~split => \A x \in Account : message[x] = NameOf(x) /\ session[x] = NameOf(x)

\* What the server promises of a name.
NamesBelong == OneAccountPerName /\ BlocksFollow /\ HistoryFollows

-----------------------------------------------------------------------------
(* What makes the above inductive.                                         *)

UserRow == [name : Name, blocks : SUBSET (Name \ {NoName})]
Naming == [Account -> Name]
File == [users : [Account -> UserRow], messages : Naming, sessions : Naming]

\* The file has the shape of the memory.
Shape == disk \in File /\ split \in BOOLEAN

\* Of the users in memory and in the file alike: one account per name, and the
\* block lists hold just the names of those who are blocked, who all have one.
Sound(u) ==
  /\ \A x, y \in Account : x # y => u[x].name # u[y].name \/ u[x].name = NoName
  /\ \A x, y \in Account : x # y /\ u[y].name # NoName
       => (<<x, y>> \in blocked <=> u[y].name \in u[x].blocks)
  /\ \A x \in Account : \A n \in u[x].blocks : \E y \in Account \ {x} : u[y].name = n
  /\ \A x, y \in Account : <<x, y>> \in blocked => u[y].name # NoName

\* Only an account without a name is being registered.
OnlyNewRegister == \A x \in Account : register[x] # NoName => NameOf(x) = NoName

Renaming == \E x \in Account : patch[x] # NoName

\* Between renames, what the files do not hold is due to be written.
FilesFollow ==
  ~split /\ ~Renaming =>
    /\ disk.users = user
    /\ disk.messages = message \/ "messages" \in dirty
    /\ disk.sessions = session \/ "sessions" \in dirty

IInv ==
  /\ TypeOK
  /\ Shape
  /\ Sound(user)
  /\ Sound(disk.users)
  /\ OnlyNewRegister
  /\ HistoryFollows
  /\ FilesFollow
=============================================================================
