--------------------------- MODULE UserNamesProofs ---------------------------
(***************************************************************************)
(* A name belongs to one account, a block follows the account it is for,   *)
(* and messages and sessions stay those of their account, through renames  *)
(* that wait, fail or are cut by a stop: for every number of accounts,     *)
(* names, renames and stops.                                               *)
(***************************************************************************)
EXTENDS UserNames, TLAPS

-----------------------------------------------------------------------------
(* The users, with one of them changed, and the files, with one replaced.  *)

LEMMA UserParts ==
  ASSUME NEW u \in UserRow
  PROVE  /\ u.name \in Name /\ u.blocks \in SUBSET (Name \ {NoName})
         /\ \A n \in Name : /\ [u EXCEPT !.name = n] \in UserRow
                            /\ [u EXCEPT !.name = n].name = n
                            /\ [u EXCEPT !.name = n].blocks = u.blocks
         /\ \A b \in SUBSET (Name \ {NoName}) : /\ [u EXCEPT !.blocks = b] \in UserRow
                                            /\ [u EXCEPT !.blocks = b].name = u.name
                                            /\ [u EXCEPT !.blocks = b].blocks = b
  BY DEF UserRow

LEMMA FileParts ==
  ASSUME NEW d \in File
  PROVE  /\ d.users \in [Account -> UserRow] /\ d.messages \in Naming /\ d.sessions \in Naming
         /\ \A u \in [Account -> UserRow] : [d EXCEPT !.users = u] \in File
         /\ \A u \in [Account -> UserRow], s \in Naming : [d EXCEPT !.users = u, !.sessions = s] \in File
         /\ \A s \in Naming : [d EXCEPT !.sessions = s] \in File
         /\ \A m, s \in Naming : [d EXCEPT !.messages = m, !.sessions = s] \in File
  BY DEF File

-----------------------------------------------------------------------------
(* Types.                                                                  *)

Types ==
  /\ user \in [Account -> UserRow]
  /\ message \in Naming
  /\ session \in Naming
  /\ register \in Naming
  /\ patch \in Naming
  /\ disk \in File
  /\ dirty \subseteq {"messages", "sessions"}
  /\ blocked \subseteq Account \X Account
  /\ split \in BOOLEAN

LEMMA TypesAre == Types <=> TypeOK /\ Shape
  BY DEF Types, TypeOK, Shape, UserRow, Naming

LEMMA InitTypes == NamesAssumption /\ Init => Types
<1> SUFFICES ASSUME NamesAssumption, Init PROVE Types
  OBVIOUS
<1>1. user \in [Account -> UserRow]
  <2>1. PICK name \in [First -> Name \ {NoName}] :
          user = [x \in Account |-> IF x \in First THEN [NoUser EXCEPT !.name = name[x]] ELSE NoUser]
    BY DEF Init
  <2>2. NoUser \in UserRow
    BY DEF NamesAssumption, NoUser, UserRow
  <2>3. ASSUME NEW x \in First
        PROVE  [NoUser EXCEPT !.name = name[x]] \in UserRow
    BY <2>2, <2>3, UserParts
  <2> QED
    BY <2>1, <2>2, <2>3
<1>2. \A x \in Account : user[x].name \in Name
  BY <1>1, UserParts
<1>3. /\ message = [x \in Account |-> user[x].name] /\ session = message
      /\ register = [x \in Account |-> NoName] /\ patch = register
      /\ disk = Kept /\ dirty = {} /\ split = FALSE /\ blocked = {}
  BY DEF Init
<1>4. message \in Naming /\ session \in Naming /\ register \in Naming /\ patch \in Naming
  BY <1>2, <1>3 DEF Naming, NamesAssumption
<1> QED
  BY <1>1, <1>3, <1>4 DEF Types, Kept, File

\* The name a request carries is one.
LEMMA NextTypes ==
  ASSUME NamesAssumption, Types, [Next]_vars
  PROVE  Types'
<1>1. NoName \in Name /\ \A f \in Naming, x \in Account : f[x] \in Name
  BY DEF NamesAssumption, Naming
<1>2. \A f \in Naming, x \in Account, n \in Name : [f EXCEPT ![x] = n] \in Naming
  BY DEF Naming
<1>3. ASSUME NEW x \in Account, NEW n \in Name \ {NoName}, RegisterChecked(x, n)
      PROVE  Types'
  BY <1>2, <1>3 DEF RegisterChecked, Types
<1>4. ASSUME NEW x \in Account, Registered(x)
      PROVE  Types'
  <2>1. register' \in Naming /\ UNCHANGED <<patch, split, blocked>>
    BY <1>1, <1>2, <1>4 DEF Registered, Types
  <2>2. CASE Taken(register[x])
    BY <1>4, <2>1, <2>2 DEF Registered, Types
  <2>3. CASE ~Taken(register[x])
    <3>1. /\ user' = [user EXCEPT ![x].name = register[x]]
          /\ message' = [message EXCEPT ![x] = register[x]]
          /\ session' = [session EXCEPT ![x] = register[x]]
          /\ disk' = [disk EXCEPT !.users = user', !.sessions = session']
          /\ dirty' = (dirty \ {"sessions"}) \cup {"messages"}
      BY <1>4, <2>3 DEF Registered
    <3>2. register[x] \in Name
      BY <1>1 DEF Types
    <3>3. user' \in [Account -> UserRow]
      BY <3>1, <3>2, UserParts DEF Types
    <3>4. message' \in Naming /\ session' \in Naming
      BY <1>2, <3>1, <3>2 DEF Types
    <3>5. disk' \in File
      BY <3>1, <3>3, <3>4, FileParts DEF Types
    <3> QED
      BY <2>1, <3>1, <3>3, <3>4, <3>5 DEF Types
  <2> QED
    BY <2>2, <2>3
<1>5. ASSUME NEW x \in Account, NEW y \in Account, Block(x, y)
      PROVE  Types'
  <2>1. /\ user' = [user EXCEPT ![x].blocks = user[x].blocks \cup {NameOf(y)}]
        /\ disk' = [disk EXCEPT !.users = user'] /\ NameOf(y) # NoName
        /\ blocked' = blocked \cup {<<x, y>>}
        /\ UNCHANGED <<message, session, dirty, register, patch, split>>
    BY <1>5 DEF Block
  <2>2. user[x].blocks \cup {NameOf(y)} \in SUBSET (Name \ {NoName})
    <3>1. user[x] \in UserRow /\ user[y] \in UserRow
      BY DEF Types
    <3>2. user[x].blocks \in SUBSET (Name \ {NoName}) /\ user[y].name \in Name
      BY <3>1, UserParts
    <3> QED
      BY <2>1, <3>2 DEF NameOf
  <2>3. user' \in [Account -> UserRow]
    BY <2>1, <2>2, UserParts DEF Types
  <2>4. disk' \in File
    BY <2>1, <2>3, FileParts DEF Types
  <2>5. blocked' \subseteq Account \X Account
    BY <2>1 DEF Types
  <2> QED
    BY <2>1, <2>3, <2>4, <2>5 DEF Types
<1>6. ASSUME NEW x \in Account, NEW n \in Name \ {NoName}, RenameStarted(x, n)
      PROVE  Types'
  <2>1. /\ user' = [y \in Account |->
                      IF y = x THEN [user[x] EXCEPT !.name = n]
                      ELSE [user[y] EXCEPT !.blocks = RenamedBlocks(user[y].blocks, NameOf(x), n)]]
        /\ message' = [message EXCEPT ![x] = IF message[x] = NameOf(x) THEN n ELSE message[x]]
        /\ session' = [y \in Account |-> IF session[y] = NameOf(x) THEN n ELSE session[y]]
        /\ patch' = [patch EXCEPT ![x] = n]
        /\ UNCHANGED <<disk, dirty, register, split, blocked>>
    BY <1>6 DEF RenameStarted
  <2>2. ASSUME NEW y \in Account
        PROVE  RenamedBlocks(user[y].blocks, NameOf(x), n) \in SUBSET (Name \ {NoName})
    <3>1. user[y].blocks \in SUBSET (Name \ {NoName})
      BY UserParts DEF Types
    <3> QED
      BY <3>1 DEF RenamedBlocks
  <2>3. user' \in [Account -> UserRow]
    BY <2>1, <2>2, UserParts DEF Types
  <2>4. message' \in Naming /\ session' \in Naming /\ patch' \in Naming
    BY <1>2, <2>1 DEF Types, Naming
  <2> QED
    BY <2>1, <2>3, <2>4 DEF Types
<1>7. ASSUME NEW x \in Account, RenameSaved(x)
      PROVE  Types'
  <2>1. disk' \in File /\ patch' \in Naming
    BY <1>1, <1>2, <1>7, FileParts DEF RenameSaved, Types
  <2>2. dirty' \subseteq {"messages", "sessions"}
    BY <1>7 DEF RenameSaved, Types
  <2> QED
    BY <1>7, <2>1, <2>2 DEF RenameSaved, Types
<1>8. ASSUME NEW x \in Account, RenameFailed(x)
      PROVE  Types'
  BY <1>1, <1>2, <1>8 DEF RenameFailed, Types
<1>9. ASSUME NEW x \in Account, Unknown(x)
      PROVE  Types'
  <2>1. session' \in Naming
    BY <1>1, <1>2, <1>9 DEF Unknown, Types
  <2>2. disk' \in File
    BY <1>9, <2>1, FileParts DEF Unknown, Types
  <2> QED
    BY <1>9, <2>1, <2>2 DEF Unknown, Types
<1>10. ASSUME NEW files
       PROVE  Flushed(files) \in File
  <2>1. /\ (IF "messages" \in files THEN message ELSE disk.messages) \in Naming
        /\ (IF "sessions" \in files THEN session ELSE disk.sessions) \in Naming
    BY FileParts DEF Types
  <2> QED
    BY <2>1, FileParts DEF Flushed, Types
<1>11. ASSUME NEW f \in {"messages", "sessions"}, Flush(f)
       PROVE  Types'
  BY <1>10, <1>11 DEF Flush, Types
<1>12. ASSUME NEW d \in File, Load(d), split' \in BOOLEAN
       PROVE  Types'
  <2>1. register' \in Naming /\ patch' \in Naming
    BY <1>1, <1>12 DEF Load, Naming
  <2>2. user' \in [Account -> UserRow] /\ message' \in Naming /\ session' \in Naming
    BY <1>12, FileParts DEF Load
  <2> QED
    BY <1>12, <2>1, <2>2 DEF Load, Types
<1>13. CASE Stop
  BY <1>10, <1>12, <1>13 DEF Stop, Types
<1>14. CASE Crash
  <2>1. Load(disk) /\ disk \in File /\ split' \in BOOLEAN
    BY <1>14 DEF Crash, Types
  <2> QED
    BY <1>12, <2>1
<1>15. CASE UNCHANGED vars
  BY <1>15 DEF vars, Types
<1> QED
  BY <1>3, <1>4, <1>5, <1>6, <1>7, <1>8, <1>9, <1>11, <1>13, <1>14, <1>15 DEF Next
-----------------------------------------------------------------------------
(* The users in memory and in the file.                                    *)

\* An account that is registered with a name nobody has.
LEMMA RegisterSound ==
  ASSUME Types, Sound(user), NEW x \in Account, NameOf(x) = NoName,
         NEW n \in Name \ {NoName}, ~Taken(n)
  PROVE  Sound([user EXCEPT ![x].name = n])
<1> DEFINE v == [user EXCEPT ![x].name = n]
<1>1. \A y \in Account : user[y] \in UserRow
  BY DEF Types
<1>2. \A y \in Account : /\ v[y].name = IF y = x THEN n ELSE user[y].name
                         /\ v[y].blocks = user[y].blocks
  <2>1. \A y \in Account : v[y] = IF y = x THEN [user[x] EXCEPT !.name = n] ELSE user[y]
    BY DEF Types
  <2>2. \A y \in Account : [user[y] EXCEPT !.name = n].name = n
                          /\ [user[y] EXCEPT !.name = n].blocks = user[y].blocks
    BY <1>1, UserParts
  <2> HIDE DEF v
  <2> QED
    BY <2>1, <2>2
<1> HIDE DEF v
<1>3. \A y \in Account : user[y].name # n
  BY DEF Taken, NameOf
<1>4. user[x].name = NoName
  BY DEF NameOf
<1>5. ASSUME NEW y \in Account, NEW m \in user[y].blocks
      PROVE  m # n /\ \E z \in Account \ {y, x} : user[z].name = m
  <2>1. m # NoName
    BY <1>1, UserParts
  <2>2. PICK z \in Account \ {y} : user[z].name = m
    BY DEF Sound
  <2> QED
    BY <1>3, <1>4, <2>1, <2>2
<1>6. \A y, z \in Account : y # z => v[y].name # v[z].name \/ v[y].name = NoName
  BY <1>2, <1>3 DEF Sound
<1>7. ASSUME NEW y \in Account, NEW z \in Account, y # z, v[z].name # NoName
      PROVE  <<y, z>> \in blocked <=> v[z].name \in v[y].blocks
  <2>1. CASE z = x
    BY <1>2, <1>4, <1>5, <2>1 DEF Sound
  <2>2. CASE z # x
    BY <1>2, <1>7, <2>2 DEF Sound
  <2> QED
    BY <2>1, <2>2
<1>8. ASSUME NEW y \in Account, NEW m \in v[y].blocks
      PROVE  \E z \in Account \ {y} : v[z].name = m
  BY <1>2, <1>5
<1>9. \A y, z \in Account : <<y, z>> \in blocked => v[z].name # NoName
  BY <1>2 DEF Sound
<1> QED
  BY <1>6, <1>7, <1>8, <1>9 DEF Sound, v

\* An account that blocks another one.
LEMMA BlockSound ==
  ASSUME Types, Sound(user), NEW x \in Account, NEW y \in Account, Block(x, y)
  PROVE  Sound(user)'
<1>1. /\ x # y /\ NameOf(y) # NoName /\ blocked' = blocked \cup {<<x, y>>}
      /\ user' = [user EXCEPT ![x].blocks = user[x].blocks \cup {NameOf(y)}]
  BY DEF Block
<1>2. \A z \in Account : user[z] \in UserRow
  BY DEF Types
<1>3. user[x].blocks \cup {NameOf(y)} \in SUBSET (Name \ {NoName})
  BY <1>1, <1>2, UserParts DEF NameOf
<1>4. \A z \in Account :
        /\ user'[z].name = user[z].name
        /\ user'[z].blocks = IF z = x THEN user[x].blocks \cup {NameOf(y)} ELSE user[z].blocks
  <2>1. \A z \in Account :
          user'[z] = IF z = x THEN [user[x] EXCEPT !.blocks = user[x].blocks \cup {NameOf(y)}]
                     ELSE user[z]
    BY <1>1 DEF Types
  <2> DEFINE b == user[x].blocks \cup {NameOf(y)}
  <2>2. [user[x] EXCEPT !.blocks = b].name = user[x].name
        /\ [user[x] EXCEPT !.blocks = b].blocks = b
    BY <1>2, <1>3, UserParts
  <2> QED
    BY <2>1, <2>2
<1>5. \A a, b \in Account : <<a, b>> \in blocked' <=> <<a, b>> \in blocked \/ (a = x /\ b = y)
  BY <1>1
<1>6. \A a, b \in Account : a # b => user'[a].name # user'[b].name \/ user'[a].name = NoName
  BY <1>4 DEF Sound
<1>7. ASSUME NEW a \in Account, NEW b \in Account, a # b, user'[b].name # NoName
      PROVE  <<a, b>> \in blocked' <=> user'[b].name \in user'[a].blocks
  <2>1. <<a, b>> \in blocked <=> user[b].name \in user[a].blocks
    BY <1>4, <1>7 DEF Sound
  <2>2. CASE a = x
    <3>1. user[b].name = user[y].name <=> b = y
      BY <1>4, <1>7 DEF Sound
    <3> QED
      BY <1>4, <1>5, <2>1, <2>2, <3>1 DEF NameOf
  <2>3. CASE a # x
    BY <1>4, <1>5, <2>1, <2>3
  <2> QED
    BY <2>2, <2>3
<1>8. ASSUME NEW a \in Account, NEW m \in user'[a].blocks
      PROVE  \E b \in Account \ {a} : user'[b].name = m
  <2>1. CASE m \in user[a].blocks
    BY <1>4, <2>1 DEF Sound
  <2>2. CASE m \notin user[a].blocks
    <3>1. a = x /\ m = user[y].name
      BY <1>4, <1>8, <2>2 DEF NameOf
    <3> QED
      BY <1>1, <1>4, <3>1
  <2> QED
    BY <2>1, <2>2
<1>9. \A a, b \in Account : <<a, b>> \in blocked' => user'[b].name # NoName
  BY <1>1, <1>4, <1>5 DEF Sound, NameOf
<1> QED
  BY <1>6, <1>7, <1>8, <1>9 DEF Sound
\* An account whose name the administrator changes: the block lists follow.
LEMMA RenameSound ==
  ASSUME Types, Sound(user), NEW x \in Account, NameOf(x) # NoName,
         NEW n \in Name \ {NoName}, ~Taken(n),
         NEW v, v = [y \in Account |->
                       IF y = x THEN [user[x] EXCEPT !.name = n]
                       ELSE [user[y] EXCEPT !.blocks = RenamedBlocks(user[y].blocks, NameOf(x), n)]]
  PROVE  Sound(v)
<1> DEFINE old == NameOf(x)
           list(y) == IF y = x THEN user[x].blocks ELSE RenamedBlocks(user[y].blocks, old, n)
<1>1. \A y \in Account : user[y] \in UserRow /\ user[y].name # n
  BY DEF Types, Taken, NameOf
<1>2. ASSUME NEW y \in Account
      PROVE  /\ n \notin user[y].blocks /\ old \notin user[x].blocks
             /\ \A m \in user[y].blocks : \E z \in Account \ {y} : user[z].name = m
  <2>1. \A m \in user[y].blocks : \E z \in Account \ {y} : user[z].name = m
    BY DEF Sound
  <2>2. n \notin user[y].blocks
    BY <1>1, <2>1
  <2>3. old \notin user[x].blocks
    BY DEF Sound, NameOf
  <2> QED
    BY <2>1, <2>2, <2>3
<1>3. ASSUME NEW y \in Account
      PROVE  /\ v[y].name = IF y = x THEN n ELSE user[y].name
             /\ v[y].blocks = list(y)
  <2>1. CASE y = x
    <3>1. v[y] = [user[x] EXCEPT !.name = n] /\ user[x] \in UserRow
      BY <1>1, <2>1
    <3>2. \A c \in Name : /\ [user[x] EXCEPT !.name = c].name = c
                          /\ [user[x] EXCEPT !.name = c].blocks = user[x].blocks
      BY <3>1, UserParts
    <3>3. v[y].name = n /\ v[y].blocks = user[x].blocks
      BY <3>1, <3>2
    <3> QED
      BY <2>1, <3>3
  <2>2. CASE y # x
    <3>1. user[y].blocks \in SUBSET (Name \ {NoName})
      BY <1>1, UserParts
    <3>2. RenamedBlocks(user[y].blocks, old, n) \in SUBSET (Name \ {NoName})
      BY <3>1 DEF RenamedBlocks
    <3>3. v[y] = [user[y] EXCEPT !.blocks = RenamedBlocks(user[y].blocks, old, n)]
      BY <2>2
    <3> DEFINE b == RenamedBlocks(user[y].blocks, old, n)
    <3>4. \A c \in SUBSET (Name \ {NoName}) : /\ [user[y] EXCEPT !.blocks = c].name = user[y].name
                                             /\ [user[y] EXCEPT !.blocks = c].blocks = c
      BY <1>1, UserParts
    <3>5. b \in SUBSET (Name \ {NoName}) /\ v[y] = [user[y] EXCEPT !.blocks = b]
      BY <3>2, <3>3
    <3> HIDE DEF b
    <3>6. v[y].name = user[y].name /\ v[y].blocks = b
      BY <3>4, <3>5
    <3> QED
      BY <2>2, <3>6 DEF b
  <2> QED
    BY <2>1, <2>2
<1>4. ASSUME NEW y \in Account, y # x, NEW m
      PROVE  m \in list(y) <=> (m # old /\ m \in user[y].blocks) \/ (m = n /\ old \in user[y].blocks)
  BY <1>2, <1>4 DEF RenamedBlocks
<1>5. old = user[x].name /\ old # NoName /\ old # n
  BY <1>1 DEF NameOf
<1>6. list(x) = user[x].blocks
  OBVIOUS
<1> HIDE DEF old, list
<1>7. ASSUME NEW y \in Account, NEW z \in Account, y # z
      PROVE  /\ v[y].name # v[z].name \/ v[y].name = NoName
             /\ v[z].name # NoName => (<<y, z>> \in blocked <=> v[z].name \in v[y].blocks)
  <2>1. user[y].name # user[z].name \/ user[y].name = NoName
    BY <1>7 DEF Sound
  <2>2. user[z].name # NoName => (<<y, z>> \in blocked <=> user[z].name \in user[y].blocks)
    BY <1>7 DEF Sound
  <2>3. v[y].name # v[z].name \/ v[y].name = NoName
    BY <1>1, <1>3, <1>7, <2>1
  <2>4. CASE z = x
    <3>1. y # x /\ v[z].name = n /\ v[y].blocks = list(y) /\ n \notin user[y].blocks
      BY <1>2, <1>3, <1>7, <2>4
    <3>2. n \in list(y) <=> old \in user[y].blocks
      BY <1>4, <1>5, <3>1
    <3>3. <<y, z>> \in blocked <=> old \in user[y].blocks
      BY <1>5, <2>2, <2>4
    <3> QED
      BY <2>3, <3>1, <3>2, <3>3
  <2>5. CASE z # x /\ y = x
    BY <1>3, <1>6, <2>2, <2>3, <2>5
  <2>6. CASE z # x /\ y # x
    <3>1. user[z].name # old \/ user[z].name = NoName
      BY <1>5, <2>6 DEF Sound
    <3> QED
      BY <1>1, <1>3, <1>4, <2>2, <2>3, <2>6, <3>1
  <2> QED
    BY <2>4, <2>5, <2>6
<1>8. ASSUME NEW y \in Account, NEW m \in v[y].blocks
      PROVE  \E z \in Account \ {y} : v[z].name = m
  <2>1. CASE y # x /\ m = n
    BY <1>3, <2>1
  <2>2. CASE y = x \/ m # n
    <3>1. m \in user[y].blocks /\ m # old
      BY <1>2, <1>3, <1>4, <1>5, <1>6, <1>8, <2>2
    <3>2. PICK z \in Account \ {y} : user[z].name = m
      BY <1>2, <3>1
    <3> QED
      BY <1>3, <1>5, <3>1, <3>2
  <2> QED
    BY <2>1, <2>2
<1>9. ASSUME NEW y \in Account, NEW z \in Account, <<y, z>> \in blocked
      PROVE  v[z].name # NoName
  <2>1. user[z].name # NoName
    BY <1>9 DEF Sound
  <2> QED
    BY <1>3, <2>1
<1> QED
  BY <1>7, <1>8, <1>9 DEF Sound
LEMMA SoundLater ==
  ASSUME Sound(user'), Sound(disk'.users), UNCHANGED blocked
  PROVE  Sound(user)' /\ Sound(disk.users)'
  BY DEF Sound

LEMMA NextSound ==
  ASSUME Types, Sound(user), Sound(disk.users), OnlyNewRegister, [Next]_vars
  PROVE  Sound(user)' /\ Sound(disk.users)' /\ OnlyNewRegister'
<1>1. ASSUME UNCHANGED <<user, blocked>>, disk'.users \in {user, disk.users}
      PROVE  Sound(user)' /\ Sound(disk.users)'
  BY <1>1, SoundLater
<1>2. ASSUME NEW x \in Account, NEW n \in Name \ {NoName}, RegisterChecked(x, n)
      PROVE  Sound(user)' /\ Sound(disk.users)' /\ OnlyNewRegister'
  <2>1. NameOf(x) = NoName /\ register' = [register EXCEPT ![x] = n] /\ UNCHANGED <<user, disk, blocked>>
    BY <1>2 DEF RegisterChecked, NoUser, NameOf
  <2>2. OnlyNewRegister'
    BY <2>1 DEF OnlyNewRegister, NameOf, Types, Naming
  <2> QED
    BY <1>1, <2>1, <2>2
<1>3. ASSUME NEW x \in Account, Registered(x)
      PROVE  Sound(user)' /\ Sound(disk.users)' /\ OnlyNewRegister'
  <2>1. /\ register[x] \in Name \ {NoName} /\ register' = [register EXCEPT ![x] = NoName]
        /\ NameOf(x) = NoName /\ UNCHANGED blocked
    BY <1>3 DEF Registered, Types, Naming, OnlyNewRegister
  <2>2. CASE Taken(register[x])
    <3>1. UNCHANGED <<user, disk>>
      BY <1>3, <2>2 DEF Registered
    <3>2. OnlyNewRegister'
      BY <2>1, <3>1 DEF OnlyNewRegister, NameOf, Types, Naming
    <3> QED
      BY <1>1, <2>1, <3>1, <3>2
  <2>3. CASE ~Taken(register[x])
    <3>1. /\ user' = [user EXCEPT ![x].name = register[x]]
          /\ disk' = [disk EXCEPT !.users = user', !.sessions = session']
      BY <1>3, <2>3 DEF Registered
    <3>2. Sound(user')
      BY <2>1, <2>3, <3>1, RegisterSound
    <3>3. disk'.users = user'
      BY <3>1 DEF Types, File
    <3>4. OnlyNewRegister'
      <4> SUFFICES ASSUME NEW y \in Account, register'[y] # NoName
                   PROVE  user'[y].name = NoName
        BY DEF OnlyNewRegister, NameOf
      <4>1. y # x /\ register[y] # NoName
        BY <2>1 DEF Types, Naming
      <4> QED
        BY <3>1, <4>1 DEF OnlyNewRegister, NameOf, Types
    <3> QED
      BY <2>1, <3>2, <3>3, <3>4, SoundLater
  <2> QED
    BY <2>2, <2>3
<1>4. ASSUME NEW x \in Account, NEW y \in Account, Block(x, y)
      PROVE  Sound(user)' /\ Sound(disk.users)' /\ OnlyNewRegister'
  <2>1. Sound(user)'
    BY <1>4, BlockSound
  <2>2. /\ user' = [user EXCEPT ![x].blocks = user[x].blocks \cup {NameOf(y)}]
        /\ disk' = [disk EXCEPT !.users = user'] /\ UNCHANGED register
    BY <1>4 DEF Block
  <2>3. disk'.users = user'
    BY <2>2 DEF Types, File
  <2>4. Sound(disk.users)'
    BY <2>1, <2>3 DEF Sound
  <2>5. \A z \in Account : user'[z].name = user[z].name
    <3>1. user[x].blocks \cup {NameOf(y)} \in SUBSET (Name \ {NoName})
      <4>1. user[x] \in UserRow /\ user[y] \in UserRow /\ NameOf(y) # NoName
        BY <1>4 DEF Types, Block
      <4> QED
        BY <4>1, UserParts DEF NameOf
    <3>2. \A z \in Account : z # x => user'[z] = user[z]
      BY <2>2 DEF Types
    <3>3. user'[x] = [user[x] EXCEPT !.blocks = user[x].blocks \cup {NameOf(y)}] /\ user[x] \in UserRow
      BY <2>2 DEF Types
    <3>4. user'[x].name = user[x].name
      BY <3>1, <3>3, UserParts
    <3> QED
      BY <3>2, <3>4
  <2>6. OnlyNewRegister'
    BY <2>2, <2>5 DEF OnlyNewRegister, NameOf
  <2> QED
    BY <2>1, <2>4, <2>6
<1>5. ASSUME NEW x \in Account, NEW n \in Name \ {NoName}, RenameStarted(x, n)
      PROVE  Sound(user)' /\ Sound(disk.users)' /\ OnlyNewRegister'
  <2>1. /\ user' = [y \in Account |->
                      IF y = x THEN [user[x] EXCEPT !.name = n]
                      ELSE [user[y] EXCEPT !.blocks = RenamedBlocks(user[y].blocks, NameOf(x), n)]]
        /\ NameOf(x) # NoName /\ ~Taken(n)
        /\ UNCHANGED <<disk, register, blocked>>
    BY <1>5 DEF RenameStarted
  <2>2. Sound(user')
    BY <2>1, RenameSound
  <2>3. \A y \in Account : y # x => user'[y].name = user[y].name
    BY <2>1 DEF Types, UserRow
  <2>4. OnlyNewRegister'
    BY <2>1, <2>3 DEF OnlyNewRegister, NameOf
  <2> QED
    BY <2>1, <2>2, <2>4, SoundLater
<1>6. ASSUME NEW x \in Account, RenameSaved(x)
      PROVE  Sound(user)' /\ Sound(disk.users)' /\ OnlyNewRegister'
  <2>1. disk' = [disk EXCEPT !.users = user] /\ UNCHANGED <<user, register, blocked>>
    BY <1>6 DEF RenameSaved
  <2>2. disk'.users = user
    BY <2>1 DEF Types, File
  <2> QED
    BY <1>1, <2>1, <2>2 DEF OnlyNewRegister, NameOf
<1>7. ASSUME UNCHANGED <<user, register, blocked>>, disk'.users = disk.users
      PROVE  Sound(user)' /\ Sound(disk.users)' /\ OnlyNewRegister'
  BY <1>1, <1>7 DEF OnlyNewRegister, NameOf
<1>8. ASSUME NEW x \in Account, RenameFailed(x) \/ Unknown(x)
      PROVE  Sound(user)' /\ Sound(disk.users)' /\ OnlyNewRegister'
  <2>1. UNCHANGED <<user, register, blocked>>
    BY <1>8 DEF RenameFailed, Unknown
  <2>2. disk'.users = disk.users
    BY <1>8 DEF RenameFailed, Unknown, Types, File
  <2> QED
    BY <1>7, <2>1, <2>2
<1>9. \A files : Flushed(files).users = disk.users
  BY DEF Flushed, Types, File
<1>10. ASSUME NEW f \in {"messages", "sessions"}, Flush(f)
       PROVE  Sound(user)' /\ Sound(disk.users)' /\ OnlyNewRegister'
  BY <1>7, <1>9, <1>10 DEF Flush
<1>11. ASSUME NEW d, Load(d), d.users = disk.users
       PROVE  Sound(user)' /\ Sound(disk.users)' /\ OnlyNewRegister'
  <2>1. /\ user' = disk.users /\ disk'.users = disk.users /\ UNCHANGED blocked
        /\ register' = [x \in Account |-> NoName]
    BY <1>11 DEF Load
  <2>2. OnlyNewRegister'
    BY <2>1 DEF OnlyNewRegister
  <2> QED
    BY <2>1, <2>2, SoundLater
<1>12. CASE Stop \/ Crash
  BY <1>9, <1>11, <1>12 DEF Stop, Crash
<1>13. CASE UNCHANGED vars
  BY <1>7, <1>13 DEF vars
<1> QED
  BY <1>2, <1>3, <1>4, <1>5, <1>6, <1>8, <1>10, <1>12, <1>13 DEF Next
-----------------------------------------------------------------------------
(* The messages and the sessions.                                          *)

\* What is in memory is in the files or due to be written.
LEMMA NextFollows ==
  ASSUME Types, Sound(user), OnlyNewRegister, HistoryFollows, FilesFollow, [Next]_vars
  PROVE  HistoryFollows' /\ FilesFollow'
<1> SUFFICES ASSUME ~split'
             PROVE  HistoryFollows' /\ FilesFollow'
  BY DEF HistoryFollows, FilesFollow
<1>1. ~split
  BY DEF Next, RegisterChecked, Registered, RenameSaved, RenameFailed, Unknown, Block, RenameStarted,
         Flush, Stop, Crash, vars
<1>2. /\ \A x \in Account : message[x] = user[x].name /\ session[x] = user[x].name
      /\ ~Renaming => /\ disk.users = user
                      /\ disk.messages = message \/ "messages" \in dirty
                      /\ disk.sessions = session \/ "sessions" \in dirty
  BY <1>1 DEF HistoryFollows, FilesFollow, NameOf
<1>3. ASSUME NEW x \in Account, NEW n \in Name \ {NoName}, RegisterChecked(x, n)
      PROVE  HistoryFollows' /\ FilesFollow'
  BY <1>2, <1>3 DEF RegisterChecked, HistoryFollows, FilesFollow, NameOf, Renaming
<1>4. ASSUME NEW x \in Account, Registered(x)
      PROVE  HistoryFollows' /\ FilesFollow'
  <2>1. CASE Taken(register[x])
    BY <1>2, <1>4, <2>1 DEF Registered, HistoryFollows, FilesFollow, NameOf, Renaming
  <2>2. CASE ~Taken(register[x])
    <3>1. /\ user' = [user EXCEPT ![x].name = register[x]]
          /\ message' = [message EXCEPT ![x] = register[x]]
          /\ session' = [session EXCEPT ![x] = register[x]]
          /\ disk' = [disk EXCEPT !.users = user', !.sessions = session']
          /\ dirty' = (dirty \ {"sessions"}) \cup {"messages"}
      BY <1>4, <2>2 DEF Registered
    <3>2. user[x] \in UserRow /\ register[x] \in Name
      BY DEF Types, Naming
    <3>3. \A y \in Account : user'[y].name = IF y = x THEN register[x] ELSE user[y].name
      <4>1. \A c \in Name : [user[x] EXCEPT !.name = c].name = c
        BY <3>2, UserParts
      <4>2. \A y \in Account : user'[y] = IF y = x THEN [user[x] EXCEPT !.name = register[x]] ELSE user[y]
        BY <3>1 DEF Types
      <4> QED
        BY <3>2, <4>1, <4>2
    <3>4. \A y \in Account : message'[y] = user'[y].name /\ session'[y] = user'[y].name
      BY <1>2, <3>1, <3>3 DEF Types, Naming
    <3>5. disk'.users = user' /\ disk'.sessions = session'
      BY <3>1 DEF Types, File
    <3> QED
      BY <3>1, <3>4, <3>5 DEF HistoryFollows, FilesFollow, NameOf
  <2> QED
    BY <2>1, <2>2
<1>5. ASSUME NEW x \in Account, NEW y \in Account, Block(x, y)
      PROVE  HistoryFollows' /\ FilesFollow'
  <2>1. /\ user' = [user EXCEPT ![x].blocks = user[x].blocks \cup {NameOf(y)}]
        /\ disk' = [disk EXCEPT !.users = user'] /\ NameOf(y) # NoName
        /\ UNCHANGED <<message, session, dirty, patch>>
    BY <1>5 DEF Block
  <2>2. disk'.users = user' /\ disk'.messages = disk.messages /\ disk'.sessions = disk.sessions
    BY <2>1 DEF Types, File
  <2>3. \A z \in Account : user'[z].name = user[z].name
    <3>1. user[x].blocks \cup {NameOf(y)} \in SUBSET (Name \ {NoName})
      <4>1. user[x] \in UserRow /\ user[y] \in UserRow
        BY DEF Types
      <4> QED
        BY <2>1, <4>1, UserParts DEF NameOf
    <3>2. \A z \in Account : z # x => user'[z] = user[z]
      BY <2>1 DEF Types
    <3>3. user'[x] = [user[x] EXCEPT !.blocks = user[x].blocks \cup {NameOf(y)}] /\ user[x] \in UserRow
      BY <2>1 DEF Types
    <3>4. user'[x].name = user[x].name
      BY <3>1, <3>3, UserParts
    <3> QED
      BY <3>2, <3>4
  <2>4. Renaming' <=> Renaming
    BY <2>1 DEF Renaming
  <2> QED
    BY <1>2, <2>1, <2>2, <2>3, <2>4 DEF HistoryFollows, FilesFollow, NameOf
<1>6. ASSUME NEW x \in Account, NEW n \in Name \ {NoName}, RenameStarted(x, n)
      PROVE  HistoryFollows' /\ FilesFollow'
  <2>1. /\ user' = [y \in Account |->
                      IF y = x THEN [user[x] EXCEPT !.name = n]
                      ELSE [user[y] EXCEPT !.blocks = RenamedBlocks(user[y].blocks, NameOf(x), n)]]
        /\ message' = [message EXCEPT ![x] = IF message[x] = NameOf(x) THEN n ELSE message[x]]
        /\ session' = [y \in Account |-> IF session[y] = NameOf(x) THEN n ELSE session[y]]
        /\ patch' = [patch EXCEPT ![x] = n]
        /\ NameOf(x) # NoName
    BY <1>6 DEF RenameStarted
  <2>2. \A y \in Account : user'[y].name = IF y = x THEN n ELSE user[y].name
    BY <2>1 DEF Types, UserRow
  <2>3. ASSUME NEW y \in Account
        PROVE  message'[y] = user'[y].name /\ session'[y] = user'[y].name
    <3>1. y # x => user[y].name # user[x].name
      BY <2>1 DEF Sound, NameOf
    <3> QED
      BY <1>2, <2>1, <2>2, <3>1 DEF Types, Naming, NameOf
  <2>4. Renaming'
    BY <2>1 DEF Renaming, Types, Naming
  <2> QED
    BY <2>3, <2>4 DEF HistoryFollows, FilesFollow, NameOf
<1>7. ASSUME NEW x \in Account, RenameSaved(x)
      PROVE  HistoryFollows' /\ FilesFollow'
  <2>1. /\ disk' = [disk EXCEPT !.users = user]
        /\ dirty' = dirty \cup {"messages"}
                          \cup (IF session # disk.sessions THEN {"sessions"} ELSE {})
        /\ UNCHANGED <<user, message, session>>
    BY <1>7 DEF RenameSaved
  <2>2. disk'.users = user /\ disk'.sessions = disk.sessions
    BY <2>1 DEF Types, File
  <2>3. disk'.sessions = session' \/ "sessions" \in dirty'
    BY <2>1, <2>2
  <2> QED
    BY <1>2, <2>1, <2>2, <2>3 DEF HistoryFollows, FilesFollow, NameOf
<1>8. ASSUME NEW x \in Account, RenameFailed(x)
      PROVE  FALSE
  BY <1>8 DEF RenameFailed
<1>9. ASSUME NEW x \in Account, Unknown(x)
      PROVE  FALSE
  BY <1>2, <1>9 DEF Unknown, Taken, NameOf
<1>10. ASSUME NEW files
       PROVE  /\ Flushed(files).users = disk.users
              /\ Flushed(files).messages = IF "messages" \in files THEN message ELSE disk.messages
              /\ Flushed(files).sessions = IF "sessions" \in files THEN session ELSE disk.sessions
  BY DEF Flushed, Types, File
<1>11. ASSUME NEW f \in {"messages", "sessions"}, Flush(f)
       PROVE  HistoryFollows' /\ FilesFollow'
  <2>1. /\ disk' = Flushed({f}) /\ dirty' = dirty \ {f}
        /\ UNCHANGED <<user, message, session, patch>>
    BY <1>11 DEF Flush
  <2>2. Renaming' <=> Renaming
    BY <2>1 DEF Renaming
  <2>3. ~Renaming => /\ disk'.users = user
                     /\ disk'.messages = message \/ "messages" \in dirty'
                     /\ disk'.sessions = session \/ "sessions" \in dirty'
    BY <1>2, <1>10, <2>1
  <2> QED
    BY <1>2, <2>1, <2>2, <2>3 DEF HistoryFollows, FilesFollow, NameOf
<1>12. ASSUME NEW d, Load(d), d.users = user, d.messages = message, d.sessions = session
       PROVE  HistoryFollows' /\ FilesFollow'
  BY <1>2, <1>12 DEF Load, HistoryFollows, FilesFollow, NameOf
<1>13. CASE Stop
  <2>1. ~Renaming /\ Load(Flushed(dirty))
    BY <1>13 DEF Stop, Renaming
  <2>2. /\ Flushed(dirty).users = user /\ Flushed(dirty).messages = message
        /\ Flushed(dirty).sessions = session
    BY <1>2, <1>10, <2>1
  <2> QED
    BY <1>12, <2>1, <2>2
<1>14. CASE Crash
  <2>1. Load(disk) /\ disk = [users |-> user, messages |-> message, sessions |-> session]
    BY <1>14 DEF Crash, Kept
  <2>2. disk.users = user /\ disk.messages = message /\ disk.sessions = session
    BY <2>1
  <2> QED
    BY <1>12, <2>1, <2>2
<1>15. CASE UNCHANGED vars
  BY <1>2, <1>15 DEF vars, HistoryFollows, FilesFollow, NameOf, Renaming
<1> QED
  BY <1>3, <1>4, <1>5, <1>6, <1>7, <1>8, <1>9, <1>11, <1>13, <1>14, <1>15 DEF Next

-----------------------------------------------------------------------------
(* The invariant.                                                          *)

LEMMA InitInv == NamesAssumption /\ Init => IInv
<1> SUFFICES ASSUME NamesAssumption, Init PROVE IInv
  OBVIOUS
<1>1. Types /\ TypeOK /\ Shape
  BY InitTypes, TypesAre
<1>2. PICK name \in [First -> Name \ {NoName}] :
        /\ \A x, y \in First : name[x] = name[y] => x = y
        /\ user = [x \in Account |-> IF x \in First THEN [NoUser EXCEPT !.name = name[x]] ELSE NoUser]
  BY DEF Init
<1>3. \A x \in Account : /\ user[x].blocks = {}
                         /\ user[x].name = IF x \in First THEN name[x] ELSE NoName
  BY <1>2 DEF NoUser
<1>4. /\ message = [x \in Account |-> user[x].name] /\ session = message
      /\ register = [x \in Account |-> NoName]
      /\ disk = [users |-> user, messages |-> message, sessions |-> session]
      /\ blocked = {}
  BY DEF Init, Kept
<1>5. Sound(user)
  BY <1>2, <1>3, <1>4 DEF Sound
<1>6. Sound(disk.users)
  BY <1>4, <1>5
<1>7. OnlyNewRegister /\ HistoryFollows /\ FilesFollow
  BY <1>4 DEF OnlyNewRegister, HistoryFollows, FilesFollow, NameOf
<1> QED
  BY <1>1, <1>5, <1>6, <1>7 DEF IInv

LEMMA NextInv ==
  ASSUME NamesAssumption, IInv, [Next]_vars
  PROVE  IInv'
<1>1. Types
  BY TypesAre DEF IInv
<1>2. Types'
  BY <1>1, NextTypes
<1>3. Types' => TypeOK' /\ Shape'
  BY TypesAre, PTL
<1>4. Sound(user)' /\ Sound(disk.users)' /\ OnlyNewRegister'
  BY <1>1, NextSound DEF IInv
<1>5. HistoryFollows' /\ FilesFollow'
  BY <1>1, NextFollows DEF IInv
<1> QED
  BY <1>2, <1>3, <1>4, <1>5 DEF IInv

\* The invariant of the names holds however often accounts are registered,
\* blocked and renamed and the server stops.
THEOREM Invariance == ASSUME NamesAssumption PROVE Spec => []IInv
<1>1. Init => IInv
  BY InitInv
<1>2. IInv /\ [Next]_vars => IInv'
  BY NextInv
<1> QED
  BY <1>1, <1>2, PTL DEF Spec

\* Every variable keeps its type.
THEOREM TypeCorrect == ASSUME NamesAssumption PROVE Spec => []TypeOK
<1>1. IInv => TypeOK
  BY DEF IInv
<1> QED
  BY <1>1, Invariance, PTL

\* handleRegister, handleAdminUserPatch: no two accounts have one name in memory
\* or in the file, a block is for the same account for good, and messages and
\* sessions stay those of their account.
THEOREM Belonging == ASSUME NamesAssumption PROVE Spec => []NamesBelong
<1>1. IInv => NamesBelong
  BY DEF IInv, Sound, NamesBelong, OneAccountPerName, BlocksFollow, NameOf
<1> QED
  BY <1>1, Invariance, PTL
=============================================================================
