---------------------------- MODULE AdminAccount ----------------------------
(***************************************************************************)
(* The administrator's account: where its name and password come from      *)
(* (services/admin-config.js), how the running server follows them         *)
(* (server.js), and the login and the reset, with their awaits             *)
(* (routes/admin-routes.js).                                               *)
(*                                                                         *)
(* Passwords are numbered (0: none); a source holds a plain one, a hashed  *)
(* one, or both.  The operator leaves the name alone.  The environment of  *)
(* a started process is the content of the file (EnvironmentFile of the    *)
(* service).  The file is rewritten in place: a write that fails or ends   *)
(* with the process may have emptied it, or left the beginning of what it  *)
(* was to hold.  The passphrase of a reset is taken to be known throughout.*)
(***************************************************************************)
EXTENDS Naturals, FiniteSets

CONSTANTS
  Name, DefaultName,
  Request,       \* handlers that may be at work at the same time
  MaxPasswords,  \* passwords chosen
  MaxEdits,      \* edits of the file by the operator
  MaxStops       \* restarts

\* A source without ADMIN_USERNAME.
NoName == "unset"

\* Assumed of the constants.
AdminAssumption ==
  /\ DefaultName \in Name /\ NoName \notin Name
  /\ {MaxPasswords, MaxEdits, MaxStops} \subseteq Nat

VARIABLES
  file,      \* the configured file
  env,       \* process.env
  config,    \* adminConfig
  sessions,  \* administrator sessions, each with the credentials it was issued for
  request,
  passwords, edits, stops,
  apart,     \* the file was edited or cut since the server last agreed with it
  torn       \* a write of the file was cut: that is what it holds, or the server started from

vars == <<file, env, config, sessions, request, passwords, edits, stops, apart, torn>>

Default == [form |-> "plain", pw |-> 0]
NoRequest == [kind |-> "none", step |-> "none", name |-> DefaultName, pw |-> 0]
Fresh == passwords + 1

-----------------------------------------------------------------------------

\* readConfiguredAdminConfig: a plain password comes before a hash, the
\* environment before the file.
Configured(e, f) ==
  LET first(key) == IF e[key] # 0 THEN e[key] ELSE f[key]
  IN  [name |-> IF e.name # NoName THEN e.name ELSE IF f.name # NoName THEN f.name ELSE DefaultName,
       cred |-> IF first("plain") # 0 THEN [form |-> "plain", pw |-> first("plain")]
                ELSE IF first("hash") # 0 THEN [form |-> "hash", pw |-> first("hash")] ELSE Default]

\* updateRuntimeAdminConfig
Runtime(c) ==
  /\ config' = c
  /\ env' = [name |-> c.name, plain |-> IF c.cred.form = "plain" THEN c.cred.pw ELSE 0,
             hash |-> IF c.cred.form = "hash" THEN c.cred.pw ELSE 0]

\* Mutant of Written: the keys of both forms are removed.
WrittenBare(f, c) == [f EXCEPT !.name = c.name, !.hash = 0, !.plain = 0]

\* persistAdminConfigToEnvFile, for the hash of a reset
Written(f, c) == [f EXCEPT !.name = c.name, !.hash = c.cred.pw, !.plain = 0]

\* What a write of the file that is cut may leave: the lines before the cut, the
\* name possibly as a shorter one; a hash that is not whole is none.
Cut(c) == [name : Name \cup {NoName}, plain : {0}, hash : {0, c.cred.pw}]

\* Both handlers begin with syncRuntimeAdminConfigFromConfiguredSources, which
\* changes nothing if nothing is new, then wait for the body.
Arrive(r, kind) ==
  /\ request[r] = NoRequest
  /\ request' = [request EXCEPT ![r] = [kind |-> kind, step |-> "body", name |-> DefaultName, pw |-> 0]]
  /\ IF Configured(env, file) = config THEN UNCHANGED <<env, config>>
     ELSE Runtime(Configured(env, file))
  /\ UNCHANGED <<file, sessions, passwords, edits, stops, apart, torn>>

\* handleAdminLogin looks for the account and takes the credential to verify.
LoginChecked(r) ==
  /\ request[r].kind = "login" /\ request[r].step = "body"
  /\ \/ request' = [request EXCEPT ![r] = [kind |-> "login", step |-> "hash", name |-> config.name,
                                           pw |-> config.cred.pw]]
     \/ request' = [request EXCEPT ![r] = NoRequest]   \* another name or password
  /\ UNCHANGED <<file, env, config, sessions, passwords, edits, stops, apart, torn>>

\* Mutant of LoginIssued: the handler is only half forgotten.
LoginIssuedHalf(r) ==
  /\ request[r].kind = "login" /\ request[r].step = "hash"
  /\ sessions' = sessions \cup {[name |-> request[r].name, pw |-> request[r].pw]}
  /\ request' = [request EXCEPT ![r].step = "none"]
  /\ UNCHANGED <<file, env, config, passwords, edits, stops, apart, torn>>

LoginIssued(r) ==
  /\ request[r].kind = "login" /\ request[r].step = "hash"
  /\ sessions' = sessions \cup {[name |-> request[r].name, pw |-> request[r].pw]}
  /\ request' = [request EXCEPT ![r] = NoRequest]
  /\ UNCHANGED <<file, env, config, passwords, edits, stops, apart, torn>>

\* handleAdminAccountReset hashes the new password.
ResetChecked(r, name) ==
  /\ request[r].kind = "reset" /\ request[r].step = "body"
  /\ passwords < MaxPasswords /\ passwords' = Fresh
  /\ request' = [request EXCEPT ![r] = [kind |-> "reset", step |-> "hash", name |-> name, pw |-> Fresh]]
  /\ UNCHANGED <<file, env, config, sessions, edits, stops, apart, torn>>

\* What it is to be.
Chosen(r) == [name |-> request[r].name, cred |-> [form |-> "hash", pw |-> request[r].pw]]

\* File, runtime and sessions in one step.  An error of the write ends it, before the
\* file is touched or when a part, or all, has been written; the server runs on as it was.
ResetDone(r) ==
  /\ request[r].kind = "reset" /\ request[r].step = "hash"
  /\ \/ /\ file' = Written(file, Chosen(r)) /\ Runtime(Chosen(r)) /\ sessions' = {}
        /\ apart' = FALSE /\ torn' = FALSE
     \/ UNCHANGED <<file, env, config, sessions, apart, torn>>
     \/ /\ file' \in Cut(Chosen(r))
        /\ apart' = TRUE /\ torn' = (torn \/ file' # Written(file, Chosen(r)))
        /\ UNCHANGED <<env, config, sessions>>
  /\ request' = [request EXCEPT ![r] = NoRequest]
  /\ UNCHANGED <<passwords, edits, stops>>

\* The operator sets a password as the README describes.
Edit(key) ==
  /\ edits < MaxEdits /\ edits' = edits + 1
  /\ passwords < MaxPasswords /\ passwords' = Fresh
  /\ file' = [file EXCEPT ![key] = Fresh]
  /\ apart' = TRUE
  /\ UNCHANGED <<env, config, sessions, request, stops, torn>>

\* The process is started again; sessions come back from their file.
Started(f) ==
  /\ stops < MaxStops /\ stops' = stops + 1
  /\ file' = f /\ config' = Configured(f, f) /\ env' = f
  /\ request' = [r \in Request |-> NoRequest]
  /\ apart' = FALSE
  /\ UNCHANGED <<sessions, passwords, edits>>

Restart == Started(file) /\ UNCHANGED torn

\* The file is truncated before it is written, and written before the sessions
\* are: the process dies in between.
CrashResetting(r) ==
  /\ request[r].kind = "reset" /\ request[r].step = "hash"
  /\ \E f \in Cut(Chosen(r)) : Started(f) /\ torn' = (f # Written(file, Chosen(r)))

-----------------------------------------------------------------------------

Init ==
  /\ file \in [name : {NoName, DefaultName}, plain : {0, 1}, hash : {0, 1}]
  /\ file.plain # file.hash
  /\ env = file /\ config = Configured(file, file)
  /\ sessions = {} /\ request = [r \in Request |-> NoRequest]
  /\ passwords = 1 /\ edits = 0 /\ stops = 0 /\ apart = FALSE /\ torn = FALSE

Next ==
  \/ \E r \in Request : \/ \E kind \in {"login", "reset"} : Arrive(r, kind)
                        \/ LoginChecked(r) \/ LoginIssued(r)
                        \/ \E name \in Name : ResetChecked(r, name)
                        \/ ResetDone(r) \/ CrashResetting(r)
  \/ \E key \in {"plain", "hash"} : Edit(key)
  \/ Restart

Spec == Init /\ [][Next]_vars

-----------------------------------------------------------------------------
(* Properties.                                                             *)

Source == [name : Name \cup {NoName}, plain : 0..passwords, hash : 0..passwords]

\* Every variable keeps its type.
TypeOK ==
  /\ {file, env} \subseteq Source
  /\ config \in [name : Name, cred : [form : {"plain", "hash"}, pw : 0..passwords]]
  /\ sessions \subseteq [name : Name, pw : 0..passwords]
  /\ \A r \in Request : /\ request[r].pw \in 0..passwords
                       /\ (request[r].step = "none") = (request[r] = NoRequest)

\* The server starts again with the credentials it runs with: a reset that was
\* answered with success has reached the file whole, whatever form the password had in
\* it before.  Only an edit, or a reset whose write failed half way, parts the two.
RestartAgrees == ~apart => Configured(file, file) = config

\* The default password is never in force on a server that was configured, unless it
\* was started from a file that a failed write or a crash had cut.
NeverDefault == ~torn => config.cred # Default

\* After the account or its password has changed every session is of the new
\* ones (the README).
SessionsAreCurrent == \A s \in sessions : s = [name |-> config.name, pw |-> config.cred.pw]

-----------------------------------------------------------------------------
(* What makes the first two inductive.                                     *)

Form == {"plain", "hash"}
Shape ==
  /\ passwords \in Nat \ {0}
  /\ file \in Source /\ env \in Source
  /\ config \in [name : Name, cred : [form : Form, pw : 0..passwords]]
  /\ sessions \subseteq [name : Name, pw : 0..passwords]
  /\ request \in [Request -> [kind : {"none", "login", "reset"}, step : {"none", "body", "hash"},
                             name : Name, pw : 0..passwords]]

\* A handler at work is not NoRequest, and a reset has a password.
RequestsSound ==
  \A r \in Request : /\ (request[r].step = "none") = (request[r] = NoRequest)
                     /\ request[r].kind = "reset" /\ request[r].step = "hash" => request[r].pw # 0

\* The environment says what the server runs with, and the file has a password
\* unless a write of it was cut.
EnvironmentAgrees == Configured(env, env) = config
FileHasOne == torn \/ file.plain # 0 \/ file.hash # 0

IInv == Shape /\ RequestsSound /\ EnvironmentAgrees /\ FileHasOne /\ RestartAgrees /\ NeverDefault
=============================================================================
