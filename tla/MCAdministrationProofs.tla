----------------------- MODULE MCAdministrationProofs -----------------------
(***************************************************************************)
(* The promises of the administration, for every value of the constants.   *)
(* Account: the server starts again with the credentials it runs with, and *)
(* never with the default ones, unless an edit or a cut write of the file  *)
(* parted them. Lockout: the rate limit and the lock of a name let no more *)
(* through than they promise, and stop nobody without a reason. Audit: a   *)
(* start that finds the chain of the log in order has before it what was   *)
(* written, and a warning has a reason. Console, Pager and List: the       *)
(* administration page tells the truth about what it sends and shows. Each *)
(* is proved of the part alone, from an invariant of the part, and carried *)
(* over to the whole, whose other parts leave the variables of this one    *)
(* alone.                                                                  *)
(***************************************************************************)
EXTENDS MCAdministration, Sequences, FiniteSetTheorems, SequenceTheorems, NaturalsInduction,
  WellFoundedInduction, TLAPS

-----------------------------------------------------------------------------
(* The administrator's account.                                            *)

\* The types, with the numbers of passwords given out.
AccountSources(n) == [name : Name \cup {Account!NoName}, plain : 0..n, hash : 0..n]
AccountCredentials(n) == [name : Name, cred : [form : Account!Form, pw : 0..n]]
AccountSessions(n) == [name : Name, pw : 0..n]
AccountRequests(n) == [kind : {"none", "login", "reset"}, step : {"none", "body", "hash"},
                       name : Name, pw : 0..n]

\* The credential of a source with these passwords.
AccountCredential(plain, hash) ==
  IF plain # 0 THEN [form |-> "plain", pw |-> plain]
  ELSE IF hash # 0 THEN [form |-> "hash", pw |-> hash] ELSE Account!Default

AccountFirstOf(a, b) == IF a # 0 THEN a ELSE b
AccountOwnName(f) == IF f.name # Account!NoName THEN f.name ELSE DefaultName
AccountFirstName(e, f) == IF e.name # Account!NoName THEN e.name ELSE AccountOwnName(f)

\* The credential of a source, form and password.
LEMMA AccountCredentialIs ==
  ASSUME NEW p \in Nat, NEW h \in Nat
  PROVE  /\ AccountCredential(p, h).form \in Account!Form
         /\ AccountCredential(p, h).pw = AccountFirstOf(p, h)
         /\ AccountCredential(p, h)
              = [form |-> AccountCredential(p, h).form, pw |-> AccountCredential(p, h).pw]
         /\ AccountCredential(p, h).form = "hash" <=> (p = 0 /\ h # 0)
         /\ AccountCredential(p, h) = Account!Default <=> (p = 0 /\ h = 0)
<1>1. CASE p # 0
  BY <1>1 DEF AccountCredential, Account!Default, Account!Form, AccountFirstOf
<1>2. CASE p = 0 /\ h # 0
  BY <1>2 DEF AccountCredential, Account!Default, Account!Form, AccountFirstOf
<1>3. CASE p = 0 /\ h = 0
  BY <1>3 DEF AccountCredential, Account!Default, Account!Form, AccountFirstOf
<1> QED
  BY <1>1, <1>2, <1>3

\* readConfiguredAdminConfig on two sources of the types.
LEMMA AccountConfiguredIs ==
  ASSUME Account!AdminAssumption, NEW n \in Nat, NEW e \in AccountSources(n),
         NEW f \in AccountSources(n)
  PROVE  /\ Account!Configured(e, f) = [name |-> AccountFirstName(e, f),
                                cred |-> AccountCredential(AccountFirstOf(e.plain, f.plain),
                                                           AccountFirstOf(e.hash, f.hash))]
         /\ Account!Configured(e, f) \in AccountCredentials(n)
         /\ Account!Configured(e, f).cred.form = "hash" => Account!Configured(e, f).cred.pw # 0
<1> DEFINE p == AccountFirstOf(e.plain, f.plain)
           h == AccountFirstOf(e.hash, f.hash)
<1>1. p \in 0..n /\ h \in 0..n /\ p \in Nat /\ h \in Nat /\ AccountFirstName(e, f) \in Name
  BY DEF AccountFirstOf, AccountSources, AccountFirstName, AccountOwnName, Account!AdminAssumption
<1>2. Account!Configured(e, f)
        = [name |-> AccountFirstName(e, f), cred |-> AccountCredential(p, h)]
  BY DEF Account!Configured, AccountCredential, AccountFirstOf, AccountFirstName,
         AccountOwnName
<1> HIDE DEF p, h
<1>3. /\ AccountCredential(p, h) \in [form : Account!Form, pw : 0..n]
      /\ AccountCredential(p, h).form = "hash" => AccountCredential(p, h).pw # 0
  BY <1>1, AccountCredentialIs DEF AccountFirstOf
<1>4. /\ Account!Configured(e, f) \in AccountCredentials(n)
      /\ Account!Configured(e, f).cred = AccountCredential(p, h)
  BY <1>1, <1>2, <1>3 DEF AccountCredentials
<1> QED
  BY <1>2, <1>3, <1>4 DEF p, h

\* Two sources that say the same say it together, and whatever the file says, an
\* environment with a password is not without one.
LEMMA AccountConfiguredAgrees ==
  ASSUME Account!AdminAssumption, NEW n \in Nat, NEW e \in AccountSources(n),
         NEW f \in AccountSources(n)
  PROVE  /\ Account!Configured(e, e) = Account!Configured(f, f) =>
              Account!Configured(e, f) = Account!Configured(e, e)
         /\ Account!Configured(e, e).cred # Account!Default =>
              Account!Configured(e, f).cred # Account!Default
         /\ Account!Configured(e, e).cred = Account!Default <=> e.plain = 0 /\ e.hash = 0
<1>1. e.plain \in Nat /\ e.hash \in Nat /\ f.plain \in Nat /\ f.hash \in Nat
  BY DEF AccountSources
<1> DEFINE p == AccountFirstOf(e.plain, f.plain)
           h == AccountFirstOf(e.hash, f.hash)
<1>2. p \in Nat /\ h \in Nat
  BY <1>1 DEF AccountFirstOf
<1>3. AccountFirstOf(e.plain, e.plain) = e.plain /\ AccountFirstOf(e.hash, e.hash) = e.hash
      /\ AccountFirstOf(f.plain, f.plain) = f.plain /\ AccountFirstOf(f.hash, f.hash) = f.hash
  BY DEF AccountFirstOf
<1>4. /\ Account!Configured(e, e)
           = [name |-> AccountOwnName(e), cred |-> AccountCredential(e.plain, e.hash)]
      /\ Account!Configured(f, f)
           = [name |-> AccountOwnName(f), cred |-> AccountCredential(f.plain, f.hash)]
      /\ Account!Configured(e, f)
           = [name |-> AccountFirstName(e, f), cred |-> AccountCredential(p, h)]
  BY <1>3, AccountConfiguredIs DEF AccountFirstName, AccountOwnName
<1>5. /\ Account!Configured(e, e).cred = AccountCredential(e.plain, e.hash)
      /\ Account!Configured(e, f).cred = AccountCredential(p, h)
  BY <1>4
<1>6. (p = 0 /\ h = 0) => e.plain = 0 /\ e.hash = 0
  BY DEF AccountFirstOf
<1>7. ASSUME Account!Configured(e, e) = Account!Configured(f, f)
      PROVE  Account!Configured(e, f) = Account!Configured(e, e)
  <2>1. /\ AccountOwnName(e) = AccountOwnName(f)
        /\ AccountCredential(e.plain, e.hash) = AccountCredential(f.plain, f.hash)
    BY <1>4, <1>7
  <2>2. /\ (e.plain = 0 /\ e.hash # 0) <=> (f.plain = 0 /\ f.hash # 0)
        /\ AccountFirstOf(e.plain, e.hash) = AccountFirstOf(f.plain, f.hash)
    BY <1>1, <2>1, AccountCredentialIs
  <2>3. AccountCredential(p, h) = AccountCredential(e.plain, e.hash)
    BY <2>2 DEF AccountCredential, AccountFirstOf
  <2>4. AccountFirstName(e, f) = AccountOwnName(e)
    BY <2>1 DEF AccountFirstName, AccountOwnName
  <2> QED
    BY <1>4, <2>3, <2>4
<1> HIDE DEF p, h
<1>8. /\ AccountCredential(e.plain, e.hash) = Account!Default <=> e.plain = 0 /\ e.hash = 0
      /\ AccountCredential(p, h) = Account!Default <=> p = 0 /\ h = 0
  BY <1>1, <1>2, AccountCredentialIs
<1> QED
  BY <1>5, <1>6, <1>7, <1>8

\* The environment of a running server gives back what was put into it.
LEMMA AccountRuntimeIs ==
  ASSUME Account!AdminAssumption, NEW n \in Nat, NEW c \in AccountCredentials(n),
         Account!Runtime(c),
         c.cred.form = "hash" => c.cred.pw # 0
  PROVE  /\ accountEnv' \in AccountSources(n) /\ config' = c
         /\ Account!Configured(accountEnv', accountEnv') = c
BY DEF Account!Runtime, Account!Configured, AccountSources, AccountCredentials, Account!Default,
       Account!Form, Account!AdminAssumption

\* More passwords widen the types.
LEMMA AccountWider ==
  ASSUME NEW n \in Nat, NEW m \in Nat, n <= m
  PROVE  /\ AccountSources(n) \subseteq AccountSources(m)
         /\ AccountCredentials(n) \subseteq AccountCredentials(m)
         /\ AccountSessions(n) \subseteq AccountSessions(m)
         /\ AccountRequests(n) \subseteq AccountRequests(m)
<1>1. 0..n \subseteq 0..m
  OBVIOUS
<1> QED
  BY <1>1 DEF AccountSources, AccountCredentials, AccountSessions, AccountRequests

\* The invariant gives the types by number of passwords.
LEMMA AccountShapeIs ==
  Account!Shape <=> /\ passwords \in Nat \ {0}
            /\ file \in AccountSources(passwords) /\ accountEnv \in AccountSources(passwords)
            /\ config \in AccountCredentials(passwords)
            /\ sessions \subseteq AccountSessions(passwords)
            /\ request \in [Request -> AccountRequests(passwords)]
BY DEF Account!Shape, Account!Source, AccountSources, AccountCredentials, AccountSessions,
       AccountRequests

\* What the handlers do with a request.
LEMMA AccountAsked ==
  ASSUME NEW n \in Nat, request \in [Request -> AccountRequests(n)], Account!RequestsSound,
         NEW r \in Request, NEW q \in AccountRequests(n), request' = [request EXCEPT ![r] = q],
         (q.step = "none") = (q = Account!NoRequest),
         q.kind = "reset" /\ q.step = "hash" => q.pw # 0
  PROVE  request' \in [Request -> AccountRequests(n)] /\ Account!RequestsSound'
<1>1. request' \in [Request -> AccountRequests(n)]
  OBVIOUS
<1>2. ASSUME NEW t \in Request
      PROVE  /\ (request'[t].step = "none") = (request'[t] = Account!NoRequest)
             /\ request'[t].kind = "reset" /\ request'[t].step = "hash" => request'[t].pw # 0
  <2>1. CASE t = r
    BY <2>1
  <2>2. CASE t # r
    BY <2>2 DEF Account!RequestsSound
  <2> QED
    BY <2>1, <2>2
<1> QED
  BY <1>1, <1>2 DEF Account!RequestsSound

\* A handler that has ended has its type.
LEMMA AccountNothingAsked ==
  ASSUME Account!AdminAssumption, NEW n \in Nat
  PROVE  /\ Account!NoRequest \in AccountRequests(n) /\ Account!NoRequest.step = "none"
         /\ Account!NoRequest.kind = "none"
BY DEF Account!AdminAssumption, Account!NoRequest, AccountRequests

-----------------------------------------------------------------------------

\* The configured file of a new installation.
LEMMA AccountInitInv == Account!AdminAssumption /\ Account!Init => Account!IInv
<1> SUFFICES ASSUME Account!AdminAssumption, Account!Init PROVE Account!IInv
  OBVIOUS
<1>1. passwords = 1 /\ sessions = {} /\ ~torn /\ ~apart
  BY DEF Account!Init
<1>2. /\ file \in AccountSources(1) /\ accountEnv = file /\ (file.plain # 0 \/ file.hash # 0)
      /\ config = Account!Configured(file, file)
  BY DEF Account!Init, Account!AdminAssumption, AccountSources
<1>3. config \in AccountCredentials(1) /\ config.cred # Account!Default
  BY <1>2, AccountConfiguredIs, AccountConfiguredAgrees
<1>4. request \in [Request -> AccountRequests(1)] /\ \A r \in Request :
        request[r] = Account!NoRequest
  BY AccountNothingAsked DEF Account!Init
<1>5. Account!Shape
  BY <1>1, <1>2, <1>3, <1>4, AccountShapeIs
<1>6. Account!RequestsSound
  BY <1>4, AccountNothingAsked DEF Account!RequestsSound
<1> QED
  BY <1>1, <1>2, <1>3, <1>5, <1>6 DEF Account!IInv, Account!EnvironmentAgrees,
                                      Account!FileHasOne, Account!RestartAgrees,
                                      Account!NeverDefault

\* syncRuntimeAdminConfigFromConfiguredSources changes nothing as long as the
\* operator leaves the file alone, and never finds the default password.
LEMMA AccountArriveInv ==
  ASSUME Account!AdminAssumption, Account!IInv, NEW r \in Request,
         NEW kind \in {"login", "reset"}, Account!Arrive(r, kind)
  PROVE  Account!IInv'
<1> DEFINE c == Account!Configured(accountEnv, file)
           q == [kind |-> kind, step |-> "body", name |-> DefaultName, pw |-> 0]
<1>1. /\ passwords \in Nat \ {0}
      /\ file \in AccountSources(passwords) /\ accountEnv \in AccountSources(passwords)
      /\ config \in AccountCredentials(passwords) /\ sessions \subseteq AccountSessions(passwords)
      /\ request \in [Request -> AccountRequests(passwords)] /\ Account!RequestsSound
  BY AccountShapeIs DEF Account!IInv
<1>2. /\ IF c = config THEN UNCHANGED <<accountEnv, config>> ELSE Account!Runtime(c)
      /\ request' = [request EXCEPT ![r] = q]
      /\ UNCHANGED <<file, sessions, passwords, edits, accountStops, apart, torn>>
  BY DEF Account!Arrive
<1>3. c \in AccountCredentials(passwords) /\ (c.cred.form = "hash" => c.cred.pw # 0)
  BY <1>1, AccountConfiguredIs
<1>4. /\ config = Account!Configured(accountEnv, accountEnv)
      /\ (~torn => config.cred # Account!Default)
      /\ (~apart => Account!Configured(file, file) = config)
  BY DEF Account!IInv, Account!EnvironmentAgrees, Account!NeverDefault, Account!RestartAgrees
<1>5. ~torn => c.cred # Account!Default
  BY <1>1, <1>4, AccountConfiguredAgrees
<1>6. ~apart => c = config
  BY <1>1, <1>4, AccountConfiguredAgrees
<1> HIDE DEF c
<1>7. /\ accountEnv' \in AccountSources(passwords) /\ config' = c
      /\ Account!Configured(accountEnv', accountEnv') = c
  <2>1. CASE c = config
    BY <1>1, <1>2, <1>4, <2>1
  <2>2. CASE c # config
    BY <1>1, <1>2, <1>3, <2>2, AccountRuntimeIs
  <2> QED
    BY <2>1, <2>2
<1>8. q \in AccountRequests(passwords) /\ q.step = "body" /\ q # Account!NoRequest
  BY <1>1 DEF Account!AdminAssumption, Account!NoRequest, AccountRequests
<1> HIDE DEF q
<1>9. request' \in [Request -> AccountRequests(passwords)] /\ Account!RequestsSound'
  BY <1>1, <1>2, <1>8, AccountAsked
<1>10. Account!Shape'
  <2>1. /\ passwords' \in Nat \ {0}
        /\ file' \in AccountSources(passwords') /\ accountEnv' \in AccountSources(passwords')
        /\ config' \in AccountCredentials(passwords')
        /\ sessions' \subseteq AccountSessions(passwords')
        /\ request' \in [Request -> AccountRequests(passwords')]
    BY <1>1, <1>2, <1>3, <1>7, <1>9
  <2> QED
    BY <2>1 DEF Account!Shape, Account!Source, AccountSources, AccountCredentials,
                AccountSessions, AccountRequests
<1> QED
  BY <1>2, <1>4, <1>5, <1>6, <1>7, <1>9, <1>10 DEF Account!IInv, Account!EnvironmentAgrees,
                                                   Account!FileHasOne, Account!RestartAgrees,
                                                   Account!NeverDefault

\* What the others leave alone, and what they may change: requests and sessions.
LEMMA AccountQuietInv ==
  ASSUME Account!AdminAssumption, Account!IInv, NEW r \in Request,
         NEW q \in AccountRequests(passwords),
         request' = [request EXCEPT ![r] = q],
         (q.step = "none") = (q = Account!NoRequest), q.kind # "reset",
         sessions' \subseteq AccountSessions(passwords),
         UNCHANGED <<file, accountEnv, config, passwords, apart, torn>>
  PROVE  Account!IInv'
<1>1. Account!Shape
  BY DEF Account!IInv
<1>2. request' \in [Request -> AccountRequests(passwords)] /\ Account!RequestsSound'
  BY <1>1, AccountShapeIs, AccountAsked DEF Account!IInv
<1>3. Account!Shape'
  BY <1>1, <1>2 DEF Account!Shape, Account!Source, AccountSessions, AccountRequests
<1> QED
  BY <1>2, <1>3 DEF Account!IInv, Account!EnvironmentAgrees, Account!FileHasOne,
                    Account!RestartAgrees, Account!NeverDefault

\* A login reads the credential and issues a session for it.
LEMMA AccountLoginInv ==
  ASSUME Account!AdminAssumption, Account!IInv, NEW r \in Request,
         Account!LoginChecked(r) \/ Account!LoginIssued(r)
  PROVE  Account!IInv'
<1>1. /\ passwords \in Nat \ {0} /\ config \in AccountCredentials(passwords)
      /\ sessions \subseteq AccountSessions(passwords)
      /\ request[r] \in AccountRequests(passwords)
  BY AccountShapeIs DEF Account!IInv
<1> DEFINE q == [kind |-> "login", step |-> "hash", name |-> config.name, pw |-> config.cred.pw]
<1>2. /\ q \in AccountRequests(passwords) /\ q.step = "hash" /\ q.kind = "login"
      /\ q # Account!NoRequest
  BY <1>1 DEF AccountRequests, AccountCredentials, Account!NoRequest
<1>3. request' = [request EXCEPT ![r] = q] \/ request' = [request EXCEPT ![r] = Account!NoRequest]
  BY DEF Account!LoginChecked, Account!LoginIssued
<1> HIDE DEF q
<1>4. UNCHANGED <<file, accountEnv, config, passwords, apart, torn>>
  BY DEF Account!LoginChecked, Account!LoginIssued
<1>5. sessions' \subseteq AccountSessions(passwords)
  BY <1>1 DEF Account!LoginChecked, Account!LoginIssued, AccountSessions, AccountRequests
<1>6. /\ Account!NoRequest \in AccountRequests(passwords) /\ Account!NoRequest.step = "none"
      /\ Account!NoRequest.kind = "none"
  BY <1>1, AccountNothingAsked
<1>7. CASE request' = [request EXCEPT ![r] = q]
  BY <1>2, <1>4, <1>5, <1>7, AccountQuietInv
<1>8. CASE request' = [request EXCEPT ![r] = Account!NoRequest]
  BY <1>4, <1>5, <1>6, <1>8, AccountQuietInv
<1> QED
  BY <1>3, <1>7, <1>8

\* A new password: the operator's, or one whose hash a reset awaits.
LEMMA AccountResetCheckedInv ==
  ASSUME Account!AdminAssumption, Account!IInv, NEW r \in Request, NEW name \in Name,
         Account!ResetChecked(r, name)
  PROVE  Account!IInv'
<1> DEFINE q == [kind |-> "reset", step |-> "hash", name |-> name, pw |-> passwords + 1]
<1>1. /\ passwords \in Nat \ {0}
      /\ file \in AccountSources(passwords) /\ accountEnv \in AccountSources(passwords)
      /\ config \in AccountCredentials(passwords) /\ sessions \subseteq AccountSessions(passwords)
      /\ request \in [Request -> AccountRequests(passwords)] /\ Account!RequestsSound
  BY AccountShapeIs DEF Account!IInv
<1>2. /\ passwords' = passwords + 1 /\ request' = [request EXCEPT ![r] = q]
      /\ UNCHANGED <<file, accountEnv, config, sessions, edits, accountStops, apart, torn>>
  BY DEF Account!ResetChecked, Account!Fresh
<1>3. passwords \in Nat /\ passwords' \in Nat \ {0} /\ passwords <= passwords'
  BY <1>1, <1>2
<1>4. /\ q \in AccountRequests(passwords') /\ q # Account!NoRequest /\ q.step = "hash" /\ q.pw # 0
  BY <1>1, <1>2, <1>3 DEF AccountRequests, Account!NoRequest
<1> HIDE DEF q
<1>5. /\ file' \in AccountSources(passwords') /\ accountEnv' \in AccountSources(passwords')
      /\ config' \in AccountCredentials(passwords')
      /\ sessions' \subseteq AccountSessions(passwords')
      /\ request \in [Request -> AccountRequests(passwords')]
  BY <1>1, <1>2, <1>3, AccountWider
<1>6. request' \in [Request -> AccountRequests(passwords')] /\ Account!RequestsSound'
  BY <1>1, <1>2, <1>3, <1>4, <1>5, AccountAsked
<1>7. Account!Shape'
  BY <1>3, <1>5, <1>6 DEF Account!Shape, Account!Source, AccountSources, AccountCredentials,
                          AccountSessions, AccountRequests
<1> QED
  BY <1>2, <1>6, <1>7 DEF Account!IInv, Account!EnvironmentAgrees, Account!FileHasOne,
                          Account!RestartAgrees, Account!NeverDefault

\* The operator edits the file: from now on it may differ from the server.
LEMMA AccountEditInv ==
  ASSUME Account!AdminAssumption, Account!IInv, NEW form \in {"plain", "hash"}, Account!Edit(form)
  PROVE  Account!IInv'
<1>1. /\ passwords \in Nat \ {0}
      /\ file \in AccountSources(passwords) /\ accountEnv \in AccountSources(passwords)
      /\ config \in AccountCredentials(passwords) /\ sessions \subseteq AccountSessions(passwords)
      /\ request \in [Request -> AccountRequests(passwords)] /\ Account!RequestsSound
  BY AccountShapeIs DEF Account!IInv
<1>2. /\ passwords' = passwords + 1 /\ file' = [file EXCEPT ![form] = passwords + 1] /\ apart'
      /\ UNCHANGED <<accountEnv, config, sessions, request, accountStops, torn>>
  BY DEF Account!Edit, Account!Fresh
<1>3. passwords \in Nat /\ passwords' \in Nat \ {0} /\ passwords <= passwords'
  BY <1>1, <1>2
<1>4. /\ file \in AccountSources(passwords') /\ accountEnv' \in AccountSources(passwords')
      /\ config' \in AccountCredentials(passwords')
      /\ sessions' \subseteq AccountSessions(passwords')
      /\ request' \in [Request -> AccountRequests(passwords')]
  BY <1>1, <1>2, <1>3, AccountWider
<1>5. file' \in AccountSources(passwords') /\ (file'.plain # 0 \/ file'.hash # 0)
  BY <1>1, <1>2, <1>3, <1>4 DEF AccountSources
<1>6. Account!Shape'
  BY <1>3, <1>4, <1>5 DEF Account!Shape, Account!Source, AccountSources, AccountCredentials,
                          AccountSessions, AccountRequests
<1>7. Account!RequestsSound'
  BY <1>1, <1>2 DEF Account!RequestsSound
<1> QED
  BY <1>2, <1>5, <1>6, <1>7 DEF Account!IInv, Account!EnvironmentAgrees, Account!FileHasOne,
                                Account!RestartAgrees, Account!NeverDefault

\* The file a reset writes has the new password and nothing else; one that is cut is a file.
LEMMA AccountWrittenIs ==
  ASSUME Account!AdminAssumption, NEW n \in Nat \ {0}, NEW f \in AccountSources(n),
         NEW name \in Name, NEW pw \in 1..n
  PROVE  LET c == [name |-> name, cred |-> [form |-> "hash", pw |-> pw]]
         IN  /\ Account!Written(f, c) \in AccountSources(n) /\ Account!Written(f, c).hash # 0
             /\ Account!Configured(Account!Written(f, c), Account!Written(f, c)) = c
             /\ c \in AccountCredentials(n) /\ c.cred # Account!Default
             /\ Account!Cut(c) \subseteq AccountSources(n)
<1> DEFINE c == [name |-> name, cred |-> [form |-> "hash", pw |-> pw]]
           w == [f EXCEPT !.name = name, !.hash = pw, !.plain = 0]
<1>0. c.name = name /\ c.cred.pw = pw
  OBVIOUS
<1>1. w \in AccountSources(n) /\ w.name = name /\ w.plain = 0 /\ w.hash = pw /\ pw # 0
  <2>1. /\ f \in [name : Name \cup {Account!NoName}, plain : 0..n, hash : 0..n]
        /\ 0 \in 0..n /\ pw \in 0..n /\ pw # 0
    BY DEF AccountSources
  <2>2. w \in [name : Name \cup {Account!NoName}, plain : 0..n, hash : 0..n]
    BY <2>1
  <2>3. w.plain = 0
    BY <2>1, SMTT(30)
  <2>4. w.hash = pw
    BY <2>1, SMTT(30)
  <2>5. w.name = name
    BY <2>1, SMTT(30)
  <2> QED
    BY <2>1, <2>2, <2>3, <2>4, <2>5 DEF AccountSources
<1>2. c \in AccountCredentials(n) /\ c.cred # Account!Default
  BY DEF AccountCredentials, Account!Form, Account!Default
<1>3. Account!Written(f, c) = w
  <2> HIDE DEF c
  <2> QED
    BY <1>0 DEF Account!Written
<1> HIDE DEF w
<1>4. Account!Configured(w, w) = c
  BY <1>1 DEF Account!Configured, Account!AdminAssumption
<1>5. Account!Cut(c) \subseteq AccountSources(n)
  BY <1>0 DEF Account!Cut, AccountSources
<1> QED
  BY <1>1, <1>2, <1>3, <1>4, <1>5

\* persistAdminConfigToEnvFile: the file has the new hash alone, and so has the server;
\* or the write is cut, and from now on the file may differ from the server.
LEMMA AccountResetDoneInv ==
  ASSUME Account!AdminAssumption, Account!IInv, NEW r \in Request, Account!ResetDone(r)
  PROVE  Account!IInv'
<1> DEFINE c == Account!Chosen(r)
           w == Account!Written(file, c)
<1>1. /\ passwords \in Nat \ {0} /\ passwords \in Nat
      /\ file \in AccountSources(passwords) /\ sessions \subseteq AccountSessions(passwords)
      /\ accountEnv \in AccountSources(passwords) /\ config \in AccountCredentials(passwords)
      /\ request \in [Request -> AccountRequests(passwords)] /\ Account!RequestsSound
  BY AccountShapeIs DEF Account!IInv
<1>2. request[r].name \in Name /\ request[r].pw \in 1..passwords
  BY <1>1 DEF Account!RequestsSound, AccountRequests, Account!ResetDone
<1>3. /\ w \in AccountSources(passwords) /\ w.hash # 0 /\ Account!Configured(w, w) = c
      /\ c \in AccountCredentials(passwords) /\ c.cred # Account!Default
      /\ Account!Cut(c) \subseteq AccountSources(passwords)
  BY <1>1, <1>2, AccountWrittenIs DEF Account!Chosen
<1>4. /\ Account!NoRequest \in AccountRequests(passwords) /\ Account!NoRequest.step = "none"
      /\ Account!NoRequest.kind = "none"
  BY <1>1, AccountNothingAsked
<1>5. /\ request' = [request EXCEPT ![r] = Account!NoRequest] /\ UNCHANGED passwords
      /\ \/ /\ file' = w /\ Account!Runtime(c) /\ sessions' = {}
            /\ apart' = FALSE /\ torn' = FALSE
         \/ UNCHANGED <<file, accountEnv, config, sessions, apart, torn>>
         \/ /\ file' \in Account!Cut(c) /\ apart' = TRUE /\ torn' = (torn \/ file' # w)
            /\ UNCHANGED <<accountEnv, config, sessions>>
  BY DEF Account!ResetDone
<1>6. c.cred.pw # 0
  BY <1>2 DEF Account!Chosen
<1>7. request' \in [Request -> AccountRequests(passwords)] /\ Account!RequestsSound'
  BY <1>1, <1>4, <1>5, AccountAsked
<1> HIDE DEF c, w
<1>8. CASE UNCHANGED <<file, accountEnv, config, sessions, apart, torn>>
  BY <1>1, <1>4, <1>5, <1>8, AccountQuietInv
<1>9. CASE file' = w /\ Account!Runtime(c) /\ sessions' = {} /\ apart' = FALSE /\ torn' = FALSE
  <2>1. /\ accountEnv' \in AccountSources(passwords) /\ config' = c
        /\ Account!Configured(accountEnv', accountEnv') = c
    BY <1>1, <1>3, <1>6, <1>9, AccountRuntimeIs
  <2>2. Account!Shape'
    BY <1>1, <1>3, <1>5, <1>7, <1>9, <2>1 DEF Account!Shape, Account!Source, AccountSources,
                                              AccountCredentials, AccountSessions, AccountRequests
  <2> QED
    BY <1>3, <1>7, <1>9, <2>1, <2>2 DEF Account!IInv, Account!EnvironmentAgrees,
                                        Account!FileHasOne, Account!RestartAgrees,
                                        Account!NeverDefault
<1>10. CASE /\ file' \in Account!Cut(c) /\ apart' = TRUE /\ torn' = (torn \/ file' # w)
            /\ UNCHANGED <<accountEnv, config, sessions>>
  <2>1. file' \in AccountSources(passwords) /\ (torn' \/ file'.hash # 0) /\ (torn => torn')
    BY <1>3, <1>10
  <2>2. Account!Shape'
    BY <1>1, <1>5, <1>7, <1>10, <2>1 DEF Account!Shape, Account!Source, AccountSources,
                                         AccountCredentials, AccountSessions, AccountRequests
  <2> QED
    BY <1>7, <1>10, <2>1, <2>2 DEF Account!IInv, Account!EnvironmentAgrees,
                                   Account!FileHasOne, Account!RestartAgrees,
                                   Account!NeverDefault
<1> QED
  BY <1>5, <1>8, <1>9, <1>10

\* The process starts again with a file that has a password, or was cut.
LEMMA AccountStartedInv ==
  ASSUME Account!AdminAssumption, Account!IInv, NEW f \in AccountSources(passwords),
         Account!Started(f),
         torn' \/ f.plain # 0 \/ f.hash # 0
  PROVE  Account!IInv'
<1>1. /\ passwords \in Nat \ {0} /\ passwords \in Nat
      /\ sessions \subseteq AccountSessions(passwords)
  BY AccountShapeIs DEF Account!IInv
<1>2. /\ file' = f /\ config' = Account!Configured(f, f) /\ accountEnv' = f /\ apart' = FALSE
      /\ request' = [t \in Request |-> Account!NoRequest] /\ UNCHANGED <<sessions, passwords>>
  BY DEF Account!Started
<1>3. /\ config' \in AccountCredentials(passwords)
      /\ (config'.cred = Account!Default <=> f.plain = 0 /\ f.hash = 0)
  BY <1>1, <1>2, AccountConfiguredIs, AccountConfiguredAgrees
<1>4. request' \in [Request -> AccountRequests(passwords)] /\ Account!RequestsSound'
  BY <1>1, <1>2, AccountNothingAsked DEF Account!RequestsSound
<1>5. Account!Shape'
  BY <1>1, <1>2, <1>3, <1>4 DEF Account!Shape, Account!Source, AccountSources,
                                AccountCredentials, AccountSessions, AccountRequests
<1> QED
  BY <1>2, <1>3, <1>4, <1>5 DEF Account!IInv, Account!EnvironmentAgrees, Account!FileHasOne,
                                Account!RestartAgrees, Account!NeverDefault

\* A restart with the file as it is.
LEMMA AccountRestartInv ==
  ASSUME Account!AdminAssumption, Account!IInv, Account!Restart
  PROVE  Account!IInv'
<1>1. /\ Account!Started(file) /\ torn' = torn /\ file \in AccountSources(passwords)
      /\ Account!FileHasOne
  BY AccountShapeIs DEF Account!Restart, Account!IInv
<1> QED
  BY <1>1, AccountStartedInv DEF Account!FileHasOne

\* A restart after a crash that cut the file, or left it written.
LEMMA AccountCrashInv ==
  ASSUME Account!AdminAssumption, Account!IInv, NEW r \in Request, Account!CrashResetting(r)
  PROVE  Account!IInv'
<1> DEFINE c == Account!Chosen(r)
           w == Account!Written(file, c)
<1>1. /\ passwords \in Nat \ {0} /\ file \in AccountSources(passwords)
      /\ request \in [Request -> AccountRequests(passwords)] /\ Account!RequestsSound
  BY AccountShapeIs DEF Account!IInv
<1>2. request[r].name \in Name /\ request[r].pw \in 1..passwords
  BY <1>1 DEF Account!RequestsSound, AccountRequests, Account!CrashResetting
<1>3. w.hash # 0 /\ Account!Cut(c) \subseteq AccountSources(passwords)
  BY <1>1, <1>2, AccountWrittenIs DEF Account!Chosen
<1>4. PICK f \in Account!Cut(c) : Account!Started(f) /\ torn' = (f # w)
  BY DEF Account!CrashResetting
<1> HIDE DEF c, w
<1>5. f \in AccountSources(passwords) /\ (torn' \/ f.hash # 0)
  BY <1>3, <1>4
<1> QED
  BY <1>4, <1>5, AccountStartedInv

\* Every step of the account keeps its invariant.
LEMMA AccountNextInv ==
  ASSUME Account!AdminAssumption, Account!IInv, [Account!Next]_(Account!vars)
  PROVE  Account!IInv'
<1>1. ASSUME NEW r \in Request, NEW kind \in {"login", "reset"}, Account!Arrive(r, kind)
      PROVE  Account!IInv'
  BY <1>1, AccountArriveInv
<1>2. ASSUME NEW r \in Request, Account!LoginChecked(r) \/ Account!LoginIssued(r)
      PROVE  Account!IInv'
  BY <1>2, AccountLoginInv
<1>3. ASSUME NEW r \in Request, NEW name \in Name, Account!ResetChecked(r, name)
      PROVE  Account!IInv'
  BY <1>3, AccountResetCheckedInv
<1>4. ASSUME NEW r \in Request, Account!ResetDone(r) \/ Account!CrashResetting(r)
      PROVE  Account!IInv'
  BY <1>4, AccountResetDoneInv, AccountCrashInv
<1>5. ASSUME NEW form \in {"plain", "hash"}, Account!Edit(form) PROVE Account!IInv'
  BY <1>5, AccountEditInv
<1>6. CASE UNCHANGED Account!vars
  BY <1>6 DEF Account!vars, Account!IInv, Account!Shape, Account!Source, Account!RequestsSound,
              Account!EnvironmentAgrees, Account!FileHasOne, Account!RestartAgrees,
              Account!NeverDefault
<1> QED
  BY <1>1, <1>2, <1>3, <1>4, <1>5, <1>6, AccountRestartInv DEF Account!Next

\* IInv is an invariant of the account.
THEOREM AccountInvariance == ASSUME Account!AdminAssumption PROVE Account!Spec => []Account!IInv
<1>1. Account!Init => Account!IInv
  BY AccountInitInv
<1>2. Account!IInv /\ [Account!Next]_(Account!vars) => Account!IInv'
  BY AccountNextInv
<1> QED
  BY <1>1, <1>2, PTL DEF Account!Spec

-----------------------------------------------------------------------------
(* Limits and lockouts: how many times fall into a span.                   *)

\* The part and this module count alike.
LEMMA SameSets ==
  \A S : Lockout!Cardinality(S) = Cardinality(S) /\ (Lockout!IsFiniteSet(S) <=> IsFiniteSet(S))
<1> SUFFICES ASSUME NEW S
             PROVE  Lockout!Cardinality(S) = Cardinality(S)
                    /\ (Lockout!IsFiniteSet(S) <=> IsFiniteSet(S))
  OBVIOUS
<1>1. Lockout!IsFiniteSet(S) <=> IsFiniteSet(S)
  BY DEF Lockout!IsFiniteSet, IsFiniteSet
<1>2. Lockout!Cardinality(S) = Cardinality(S)
  BY DEF Lockout!Cardinality, Cardinality
<1> QED
  BY <1>1, <1>2

\* The constants are numbers.
LEMMA LockoutSpans ==
  ASSUME Lockout!LockoutAssumption
  PROVE  /\ Window \in Nat /\ WindowLimit \in Nat /\ FailWindow \in Nat /\ LockSpan \in Nat
         /\ MaxFailures \in Nat /\ Hashing \in Nat /\ MaxTime \in Nat
         /\ Lockout!Time \subseteq Nat
         /\ Lockout!Reach \in Nat /\ Lockout!Reach <= LockSpan /\ Lockout!Reach <= FailWindow
<1>1. /\ Window \in Nat /\ WindowLimit \in Nat /\ FailWindow \in Nat /\ LockSpan \in Nat
      /\ MaxFailures \in Nat /\ Hashing \in Nat /\ MaxTime \in Nat
  BY DEF Lockout!LockoutAssumption
<1> QED
  BY <1>1 DEF Lockout!Time, Lockout!Reach

\* The places of a sequence at which it says something of S.
LockoutPlaces(times, S) == {i \in 1..Len(times) : times[i] \in S}

\* Hits counts a finite set.
LEMMA LockoutPlacesFinite ==
  ASSUME NEW s \in Seq(Nat), NEW S
  PROVE  /\ IsFiniteSet(LockoutPlaces(s, S)) /\ Lockout!Hits(s, S) \in Nat
         /\ Lockout!Hits(s, S) = Cardinality(LockoutPlaces(s, S))
<1>1. IsFiniteSet(1..Len(s))
  BY FS_Interval
<1>2. LockoutPlaces(s, S) \in SUBSET (1..Len(s))
  BY DEF LockoutPlaces
<1> QED
  BY SameSets, <1>1, <1>2, FS_Subset, FS_CardinalityType DEF Lockout!Hits, LockoutPlaces

\* One more time counts where it falls into the span.
LEMMA LockoutHitsAppend ==
  ASSUME NEW s \in Seq(Nat), NEW t \in Nat, NEW S
  PROVE  Lockout!Hits(Append(s, t), S)
           = (IF t \in S THEN Lockout!Hits(s, S) + 1 ELSE Lockout!Hits(s, S))
<1>1. LockoutPlaces(Append(s, t), S) = IF t \in S THEN LockoutPlaces(s, S) \cup {Len(s) + 1}
        ELSE LockoutPlaces(s, S)
  BY DEF LockoutPlaces
<1>2. Len(s) + 1 \notin LockoutPlaces(s, S)
  BY DEF LockoutPlaces
<1>3. Append(s, t) \in Seq(Nat)
  OBVIOUS
<1>4. Lockout!Hits(Append(s, t), S) = Cardinality(LockoutPlaces(Append(s, t), S))
  BY <1>3, LockoutPlacesFinite
<1>5. IsFiniteSet(LockoutPlaces(s, S)) /\ Lockout!Hits(s, S) = Cardinality(LockoutPlaces(s, S))
  BY LockoutPlacesFinite
<1>6. Cardinality(LockoutPlaces(s, S) \cup {Len(s) + 1}) = Cardinality(LockoutPlaces(s, S)) + 1
  BY <1>2, <1>5, FS_AddElement
<1> QED
  BY <1>1, <1>4, <1>5, <1>6

\* A span that holds all that is in another counts no less.
LEMMA LockoutHitsMono ==
  ASSUME NEW s \in Seq(Nat), NEW S, NEW T,
         \A i \in 1..Len(s) : s[i] \in S => s[i] \in T
  PROVE  Lockout!Hits(s, S) <= Lockout!Hits(s, T)
<1>1. LockoutPlaces(s, S) \in SUBSET LockoutPlaces(s, T)
  BY DEF LockoutPlaces
<1> QED
  BY <1>1, LockoutPlacesFinite, FS_Subset

\* A span that two others cover counts no more than both.
LEMMA LockoutHitsSplit ==
  ASSUME NEW s \in Seq(Nat), NEW S, NEW T, NEW U,
         \A i \in 1..Len(s) : s[i] \in S => s[i] \in T \/ s[i] \in U
  PROVE  Lockout!Hits(s, S) <= Lockout!Hits(s, T) + Lockout!Hits(s, U)
<1> DEFINE B == LockoutPlaces(s, T) \cup LockoutPlaces(s, U)
<1>1. LockoutPlaces(s, S) \in SUBSET B
  BY DEF LockoutPlaces
<1>2. IsFiniteSet(LockoutPlaces(s, T) \cap LockoutPlaces(s, U))
  BY LockoutPlacesFinite, FS_Subset, LockoutPlaces(s, T) \cap LockoutPlaces(s,
     U) \in SUBSET LockoutPlaces(s, T)
<1>3. /\ IsFiniteSet(B)
      /\ Cardinality(B) <= Cardinality(LockoutPlaces(s, T)) + Cardinality(LockoutPlaces(s, U))
  <2>1. IsFiniteSet(LockoutPlaces(s, T)) /\ IsFiniteSet(LockoutPlaces(s, U))
    BY LockoutPlacesFinite
  <2>2. /\ IsFiniteSet(B)
        /\ Cardinality(B) = Cardinality(LockoutPlaces(s, T)) + Cardinality(LockoutPlaces(s, U))
                             - Cardinality(LockoutPlaces(s, T) \cap LockoutPlaces(s, U))
    BY <2>1, FS_Union
  <2>3. /\ Cardinality(LockoutPlaces(s, T)) \in Nat /\ Cardinality(LockoutPlaces(s, U)) \in Nat
        /\ Cardinality(LockoutPlaces(s, T) \cap LockoutPlaces(s, U)) \in Nat
    BY <1>2, <2>1, FS_CardinalityType
  <2> HIDE DEF B
  <2> QED
    BY <2>2, <2>3
<1>4. Cardinality(LockoutPlaces(s, S)) <= Cardinality(B)
  BY <1>1, <1>3, FS_Subset
<1> HIDE DEF B
<1> QED
  BY <1>3, <1>4, LockoutPlacesFinite, FS_CardinalityType

\* A span without any counts none.
LEMMA LockoutHitsNone ==
  ASSUME NEW s \in Seq(Nat), NEW S, \A i \in 1..Len(s) : s[i] \notin S
  PROVE  Lockout!Hits(s, S) = 0
<1>1. LockoutPlaces(s, S) = {}
  BY DEF LockoutPlaces
<1> QED
  BY <1>1, LockoutPlacesFinite, FS_EmptySet

-----------------------------------------------------------------------------
(* The rate limit.                                                         *)

\* A span of a window's length that is not over holds at most one bucket and
\* the one before it.
LEMMA LockoutBurst ==
  ASSUME Lockout!LockoutAssumption, Lockout!Shape, Lockout!BucketCounts,
         bucket # Lockout!NoBucket,
         NEW t \in Nat, t + Window >= now
  PROVE  Lockout!InSpan(admitted, t, Window) <= 2 * WindowLimit
<1> DEFINE b == bucket.startedAt
<1>1. /\ Window \in Nat /\ WindowLimit \in Nat /\ now \in Nat /\ admitted \in Seq(Nat)
      /\ b \in 0..now /\ bucket.count \in Nat
  BY LockoutSpans DEF Lockout!Shape, Lockout!BucketCounts
<1>2. \A i \in 1..Len(admitted) : admitted[i] \in Nat
  BY <1>1
<1>3. /\ Lockout!Hits(admitted, Lockout!From(b)) <= WindowLimit
      /\ Lockout!Hits(admitted, b - Window..b - 1) <= WindowLimit
  BY <1>1 DEF Lockout!BucketCounts
<1>4. \A i \in 1..Len(admitted) :
        admitted[i] \in t..t + Window =>
          admitted[i] \in Lockout!From(b) \/ admitted[i] \in b - Window..b - 1
  BY <1>1, <1>2 DEF Lockout!From
<1>5. Lockout!InSpan(admitted, t, Window)
        <= Lockout!Hits(admitted, Lockout!From(b)) + Lockout!Hits(admitted, b - Window..b - 1)
  BY <1>1, <1>4, LockoutHitsSplit DEF Lockout!InSpan
<1>6. /\ Lockout!InSpan(admitted, t, Window) \in Nat
      /\ Lockout!Hits(admitted, Lockout!From(b)) \in Nat
      /\ Lockout!Hits(admitted, b - Window..b - 1) \in Nat
  BY <1>1, LockoutPlacesFinite DEF Lockout!InSpan
<1> HIDE DEF b
<1> QED
  BY <1>1, <1>3, <1>5, <1>6

\* The same as one formula.
LEMMA LockoutBursts ==
  Lockout!LockoutAssumption /\ Lockout!Shape /\ Lockout!BucketCounts
  /\ bucket # Lockout!NoBucket =>
    \A t \in Nat : t + Window >= now => Lockout!InSpan(admitted, t, Window) <= 2 * WindowLimit
  BY LockoutBurst

\* A new bucket finds nothing of this moment, and no more than the limit before it.
LEMMA LockoutNewBucket ==
  ASSUME Lockout!LockoutAssumption, Lockout!Shape, Lockout!BucketCounts,
         bucket = Lockout!NoBucket \/ Lockout!Past(bucket.startedAt, Window)
  PROVE  /\ Lockout!Hits(admitted, Lockout!From(now)) = 0
         /\ Lockout!Hits(admitted, now - Window..now - 1) <= WindowLimit
<1>1. /\ Window \in Nat /\ WindowLimit \in Nat /\ now \in Nat /\ admitted \in Seq(Nat)
      /\ bucket.count \in Nat
  BY LockoutSpans DEF Lockout!Shape
<1>2. \A i \in 1..Len(admitted) : admitted[i] \in Nat
  BY <1>1
<1>3. CASE bucket = Lockout!NoBucket
  <2>1. \A i \in 1..Len(admitted) : admitted[i] + Window < now
    BY <1>3 DEF Lockout!BucketCounts
  <2>2. \A i \in 1..Len(admitted) : admitted[i] \notin Lockout!From(now)
                                    /\ admitted[i] \notin now - Window..now - 1
    BY <1>1, <1>2, <2>1 DEF Lockout!From
  <2>3. /\ Lockout!Hits(admitted, Lockout!From(now)) = 0
        /\ Lockout!Hits(admitted, now - Window..now - 1) = 0
    <3>1. Lockout!Hits(admitted, Lockout!From(now)) = 0
      BY <1>1, <2>2, LockoutHitsNone
    <3>2. Lockout!Hits(admitted, now - Window..now - 1) = 0
      BY <1>1, <2>2, LockoutHitsNone
    <3> QED
      BY <3>1, <3>2
  <2> QED
    BY <1>1, <2>3
<1>4. CASE bucket # Lockout!NoBucket /\ Lockout!Past(bucket.startedAt, Window)
  <2> DEFINE b == bucket.startedAt
  <2>1. /\ b \in 0..now /\ b + Window < now
        /\ \A i \in 1..Len(admitted) : admitted[i] <= b + Window
        /\ Lockout!Hits(admitted, Lockout!From(b)) <= WindowLimit
    BY <1>1, <1>4 DEF Lockout!BucketCounts, Lockout!Past
  <2> HIDE DEF b
  <2>2. \A i \in 1..Len(admitted) :
          /\ admitted[i] \notin Lockout!From(now)
          /\ admitted[i] \in now - Window..now - 1 => admitted[i] \in Lockout!From(b)
    BY <1>1, <1>2, <2>1 DEF Lockout!From
  <2>3. Lockout!Hits(admitted, Lockout!From(now)) = 0
    BY <1>1, <2>2, LockoutHitsNone
  <2>4. Lockout!Hits(admitted, now - Window..now - 1) <= Lockout!Hits(admitted, Lockout!From(b))
    BY <1>1, <2>2, LockoutHitsMono
  <2> QED
    BY <1>1, <2>1, <2>3, <2>4, LockoutPlacesFinite
<1> QED
  BY <1>3, <1>4

\* isRateLimited: the request is counted, in a new bucket or in the one there is,
\* and refused only when as many as the limit allows are within the window.
LEMMA LockoutCounting ==
  ASSUME Lockout!LockoutAssumption, Lockout!Shape, Lockout!BucketCounts,
         bucket' = Lockout!Counted, now' = now,
         IF bucket'.count > WindowLimit THEN admitted' = admitted
         ELSE admitted' = Append(admitted, now)
  PROVE  /\ Lockout!BucketCounts' /\ bucket' # Lockout!NoBucket
         /\ bucket' \in [count : Nat, startedAt : Int]
         /\ bucket'.count > WindowLimit =>
              Lockout!InSpan(admitted, now - Window, Window) >= WindowLimit
<1>1. /\ Window \in Nat /\ WindowLimit \in Nat /\ now \in Nat /\ admitted \in Seq(Nat)
      /\ bucket.count \in Nat /\ bucket.startedAt \in Int
      /\ bucket \in [count : Nat, startedAt : Int]
  BY LockoutSpans DEF Lockout!Shape
<1>2. \A i \in 1..Len(admitted) : admitted[i] \in Nat /\ admitted[i] <= now
  BY <1>1 DEF Lockout!BucketCounts
<1>3. \/ admitted' = admitted
      \/ /\ admitted' \in Seq(Nat) /\ Len(admitted') = Len(admitted) + 1
         /\ \A i \in 1..Len(admitted) : admitted'[i] = admitted[i]
         /\ admitted'[Len(admitted) + 1] = now
  <2>1. CASE admitted' = Append(admitted, now)
    BY <1>1, <2>1
  <2> QED
    BY <2>1
<1>4. \A i \in 1..Len(admitted') : \/ i \in 1..Len(admitted) /\ admitted'[i] = admitted[i]
                                  \/ admitted'[i] = now
  BY <1>1, <1>3
<1>5. CASE bucket = Lockout!NoBucket \/ Lockout!Past(bucket.startedAt, Window)
  <2>1. bucket' = [count |-> 1, startedAt |-> now]
    BY <1>5 DEF Lockout!Counted
  <2>2. bucket'.count = 1 /\ bucket'.startedAt = now /\ bucket' # Lockout!NoBucket
    BY <1>1, <2>1 DEF Lockout!NoBucket
  <2>3. /\ Lockout!Hits(admitted, Lockout!From(now)) = 0
        /\ Lockout!Hits(admitted, now - Window..now - 1) <= WindowLimit
    BY <1>5, LockoutNewBucket
  <2>4. /\ Lockout!Hits(admitted', Lockout!From(now)) = IF 1 > WindowLimit THEN 0 ELSE 1
        /\ Lockout!Hits(admitted', now - Window..now - 1)
             = Lockout!Hits(admitted, now - Window..now - 1)
    <3>1. CASE 1 > WindowLimit
      BY <2>2, <2>3, <3>1
    <3>2. CASE ~(1 > WindowLimit)
      <4>1. admitted' = Append(admitted, now)
        BY <2>2, <3>2
      <4>2. now \in Lockout!From(now) /\ now \notin now - Window..now - 1
        BY <1>1 DEF Lockout!From
      <4> QED
        BY <1>1, <2>3, <3>2, <4>1, <4>2, LockoutHitsAppend
    <3> QED
      BY <3>1, <3>2
  <2>5. \A i \in 1..Len(admitted') : admitted'[i] <= now /\ admitted'[i] <= now + Window
    <3>1. \A i \in 1..Len(admitted) : admitted[i] <= now /\ admitted[i] <= now + Window
      BY <1>1, <1>2
    <3>2. now <= now /\ now <= now + Window
      BY <1>1
    <3> QED
      BY <1>4, <3>1, <3>2
  <2>6. Lockout!BucketCounts'
    BY <1>1, <2>2, <2>3, <2>4, <2>5 DEF Lockout!BucketCounts
  <2>7. bucket'.count > WindowLimit =>
          Lockout!InSpan(admitted, now - Window, Window) >= WindowLimit
    BY <1>1, <2>2, LockoutPlacesFinite DEF Lockout!InSpan
  <2> QED
    BY <1>1, <2>1, <2>2, <2>6, <2>7
<1>6. CASE bucket # Lockout!NoBucket /\ ~Lockout!Past(bucket.startedAt, Window)
  <2> DEFINE b == bucket.startedAt
             n == bucket.count
  <2>1. bucket' = [bucket EXCEPT !.count = @ + 1]
    BY <1>6 DEF Lockout!Counted
  <2>2. bucket'.count = n + 1 /\ bucket'.startedAt = b
    BY <1>1, <2>1
  <2>3. bucket' \in [count : Nat, startedAt : Int]
    BY <1>1, <2>1
  <2>4. /\ b \in 0..now /\ now <= b + Window
        /\ \A i \in 1..Len(admitted) : admitted[i] <= b + Window
        /\ Lockout!Hits(admitted, Lockout!From(b)) = (IF n < WindowLimit THEN n ELSE WindowLimit)
        /\ Lockout!Hits(admitted, b - Window..b - 1) <= WindowLimit
    BY <1>1, <1>6 DEF Lockout!BucketCounts, Lockout!Past
  <2>5. bucket' # Lockout!NoBucket
    BY <1>1, <2>2, <2>4 DEF Lockout!NoBucket
  <2>6. n \in Nat
    BY <1>1
  <2> HIDE DEF b, n
  <2>7. /\ Lockout!Hits(admitted', Lockout!From(b))
             = (IF n + 1 < WindowLimit THEN n + 1 ELSE WindowLimit)
        /\ Lockout!Hits(admitted', b - Window..b - 1) <= WindowLimit
    <3>1. CASE n + 1 > WindowLimit
      BY <1>1, <2>2, <2>4, <2>6, <3>1
    <3>2. CASE ~(n + 1 > WindowLimit)
      <4>1. admitted' = Append(admitted, now)
        BY <2>2, <3>2
      <4>2. now \in Lockout!From(b) /\ now \notin b - Window..b - 1
        BY <1>1, <2>4 DEF Lockout!From
      <4>3. Lockout!Hits(admitted', Lockout!From(b)) = Lockout!Hits(admitted, Lockout!From(b)) + 1
        BY <1>1, <4>1, <4>2, LockoutHitsAppend
      <4>4. Lockout!Hits(admitted', b - Window..b - 1) = Lockout!Hits(admitted, b - Window..b - 1)
        <5> DEFINE B == b - Window..b - 1
        <5>1. now \notin B
          BY <4>2
        <5> HIDE DEF B
        <5>2. Lockout!Hits(admitted', B) = Lockout!Hits(admitted, B)
          BY <1>1, <4>1, <5>1, LockoutHitsAppend
        <5> QED
          BY <5>2 DEF B
      <4> QED
        BY <1>1, <2>4, <2>6, <3>2, <4>3, <4>4
    <3> QED
      BY <3>1, <3>2
  <2>8. \A i \in 1..Len(admitted') : admitted'[i] <= now /\ admitted'[i] <= b + Window
    <3>1. /\ now <= now
          /\ \A i \in 1..Len(admitted) : admitted[i] <= now /\ admitted[i] <= b + Window
      BY <1>1, <1>2, <2>4
    <3> QED
      BY <1>4, <2>4, <3>1
  <2>9. Lockout!BucketCounts'
    BY <1>1, <2>2, <2>4, <2>5, <2>7, <2>8 DEF Lockout!BucketCounts
  <2>10. ASSUME bucket'.count > WindowLimit
         PROVE  Lockout!InSpan(admitted, now - Window, Window) >= WindowLimit
    <3>1. Lockout!Hits(admitted, Lockout!From(b)) = WindowLimit
      BY <1>1, <2>2, <2>4, <2>6, <2>10
    <3>2. \A i \in 1..Len(admitted) :
            admitted[i] \in Lockout!From(b) =>
              admitted[i] \in now - Window..(now - Window) + Window
      BY <1>1, <1>2, <2>4 DEF Lockout!From
    <3>3. Lockout!Hits(admitted, Lockout!From(b))
            <= Lockout!InSpan(admitted, now - Window, Window)
      BY <1>1, <3>2, LockoutHitsMono DEF Lockout!InSpan
    <3> QED
      BY <3>1, <3>3
  <2> QED
    BY <2>3, <2>5, <2>9, <2>10
<1> QED
  BY <1>5, <1>6

-----------------------------------------------------------------------------
(* The lock.                                                               *)

\* No more guesses are in flight than there are workers.
LEMMA LockoutInFlightIs ==
  ASSUME Lockout!LockoutAssumption, NEW t
  PROVE  /\ IsFiniteSet(Lockout!InFlight(t)) /\ Cardinality(Lockout!InFlight(t)) \in Nat
         /\ Cardinality(Worker) \in Nat /\ Cardinality(Lockout!InFlight(t)) <= Cardinality(Worker)
<1>1. Lockout!InFlight(t) \in SUBSET Worker /\ IsFiniteSet(Worker)
  BY SameSets DEF Lockout!InFlight, Lockout!LockoutAssumption
<1> QED
  BY <1>1, FS_Subset, FS_CardinalityType

\* While there is no lock, the guesses within reach are the failures that are
\* allowed and those in flight.
LEMMA LockoutWithin ==
  Lockout!LockoutAssumption /\ Lockout!Shape /\ Lockout!LockFollows /\ Lockout!GuessesCounted
  /\ ~Lockout!Locked =>
    \A t \in Lockout!Time : now < t + Lockout!Reach =>
      Lockout!Hits(guesses, Lockout!From(t)) <= MaxFailures + Cardinality(Worker)
<1> SUFFICES ASSUME Lockout!LockoutAssumption, Lockout!Shape, Lockout!LockFollows,
                    Lockout!GuessesCounted, ~Lockout!Locked,
                    NEW t \in Lockout!Time, now < t + Lockout!Reach
             PROVE  Lockout!Hits(guesses, Lockout!From(t)) <= MaxFailures + Cardinality(Worker)
  OBVIOUS
<1>1. /\ LockSpan \in Nat /\ MaxFailures \in Nat /\ FailWindow \in Nat
      /\ t \in Nat /\ now \in Nat /\ Lockout!Reach \in Nat /\ Lockout!Reach <= LockSpan
      /\ failures.count \in Nat /\ failures.lockedUntil \in Nat /\ failures.lastFailedAt \in Int
  BY LockoutSpans DEF Lockout!Shape
<1>2. /\ Lockout!Hits(guesses, Lockout!From(t)) \in Nat
      /\ Cardinality(Lockout!InFlight(t)) \in Nat
      /\ Cardinality(Worker) \in Nat /\ Cardinality(Lockout!InFlight(t)) <= Cardinality(Worker)
  BY LockoutPlacesFinite, LockoutInFlightIs DEF Lockout!Shape
<1>3. \/ Lockout!Hits(guesses, Lockout!From(t)) <= Cardinality(Lockout!InFlight(t))
      \/ /\ failures.lastFailedAt >= t
         /\ Lockout!Hits(guesses, Lockout!From(t))
              <= Cardinality(Lockout!InFlight(t)) + failures.count
  BY SameSets DEF Lockout!GuessesCounted
<1>4. failures.lastFailedAt >= t => failures.count <= MaxFailures
  BY <1>1 DEF Lockout!LockFollows, Lockout!Locked
<1> QED
  BY <1>1, <1>2, <1>3, <1>4

\* recordLoginFailure
LEMMA LockoutFailedIs ==
  ASSUME Lockout!Shape, Lockout!LockoutAssumption
  PROVE  \E recent \in 0..failures.count :
           /\ failures # Lockout!NoFailures /\ ~Lockout!Past(failures.lastFailedAt, FailWindow)
              => recent = failures.count
           /\ Lockout!Failed.count = recent + 1 /\ Lockout!Failed.lastFailedAt = now
           /\ Lockout!Failed.lockedUntil
                = (IF recent + 1 > MaxFailures THEN now + LockSpan ELSE 0)
           /\ Lockout!Failed \in [count : Nat, lockedUntil : Nat, lastFailedAt : Int]
<1> DEFINE recent ==
             IF failures # Lockout!NoFailures /\ ~Lockout!Past(failures.lastFailedAt, FailWindow)
             THEN failures.count ELSE 0
<1>1. recent \in 0..failures.count /\ recent \in Nat
  BY DEF Lockout!Shape
<1>2. Lockout!Failed = [count |-> recent + 1, lastFailedAt |-> now,
                lockedUntil |-> IF recent + 1 > MaxFailures THEN now + LockSpan ELSE 0]
  BY DEF Lockout!Failed
<1>3. failures # Lockout!NoFailures /\ ~Lockout!Past(failures.lastFailedAt, FailWindow) =>
        recent = failures.count
  OBVIOUS
<1> HIDE DEF recent
<1>4. now \in Nat /\ now \in Int /\ LockSpan \in Nat
  BY LockoutSpans DEF Lockout!Shape
<1>5. (IF recent + 1 > MaxFailures THEN now + LockSpan ELSE 0) \in Nat /\ recent + 1 \in Nat
  BY <1>1, <1>4
<1>6. Lockout!Failed \in [count : Nat, lockedUntil : Nat, lastFailedAt : Int]
  BY <1>2, <1>4, <1>5
<1> QED
  BY <1>1, <1>2, <1>3, <1>6

\* A wrong password goes to its hash.
LEMMA LockoutGuessMade ==
  ASSUME Lockout!LockoutAssumption, Lockout!IInv, NEW w \in Worker, hashing[w] = Lockout!NoLogin,
         ~Lockout!Locked,
         hashing' = [hashing EXCEPT ![w] = [since |-> now, right |-> FALSE]],
         guesses' = Append(guesses, now), UNCHANGED <<now, failures, wrong>>, Lockout!Shape'
  PROVE  Lockout!GuessesCounted' /\ Lockout!GuessesBounded'
<1>1. /\ now \in Nat /\ Lockout!Reach \in Nat /\ guesses \in Seq(Nat)
      /\ hashing \in [Worker -> [since : Int, right : BOOLEAN]]
      /\ Lockout!Time \subseteq Nat /\ failures.count \in Nat /\ failures.lastFailedAt \in Int
  BY LockoutSpans DEF Lockout!IInv, Lockout!Shape
<1>2. \A i \in 1..Len(guesses) : guesses[i] \in Nat /\ guesses[i] <= now
  BY <1>1 DEF Lockout!IInv, Lockout!GuessesCounted
<1>3. \A i \in 1..Len(guesses') : guesses'[i] <= now
  BY <1>1, <1>2
<1>4. ASSUME NEW t \in Lockout!Time, now < t + Lockout!Reach
      PROVE  \/ Lockout!Hits(guesses', Lockout!From(t)) <= Cardinality(Lockout!InFlight(t)')
             \/ /\ failures.lastFailedAt >= t
                /\ Lockout!Hits(guesses', Lockout!From(t))
                     <= Cardinality(Lockout!InFlight(t)') + failures.count
  <2>1. t \in Nat
    BY <1>1
  <2>2. CASE t <= now
    <3>1. Lockout!InFlight(t)' = Lockout!InFlight(t) \cup {w}
      BY <1>1, <2>1, <2>2 DEF Lockout!InFlight
    <3>2. w \notin Lockout!InFlight(t)
      BY <2>1 DEF Lockout!InFlight, Lockout!NoLogin
    <3>3. Cardinality(Lockout!InFlight(t)') = Cardinality(Lockout!InFlight(t)) + 1
      BY <3>1, <3>2, LockoutInFlightIs, FS_AddElement
    <3>4. Lockout!Hits(guesses', Lockout!From(t)) = Lockout!Hits(guesses, Lockout!From(t)) + 1
      BY <1>1, <2>1, <2>2, LockoutHitsAppend DEF Lockout!From
    <3>5. /\ Lockout!Hits(guesses, Lockout!From(t)) \in Nat
          /\ Cardinality(Lockout!InFlight(t)) \in Nat
      BY <1>1, LockoutPlacesFinite, LockoutInFlightIs
    <3>6. \/ Lockout!Hits(guesses, Lockout!From(t)) <= Cardinality(Lockout!InFlight(t))
          \/ /\ failures.lastFailedAt >= t
             /\ Lockout!Hits(guesses, Lockout!From(t))
                  <= Cardinality(Lockout!InFlight(t)) + failures.count
      BY SameSets, <1>4 DEF Lockout!IInv, Lockout!GuessesCounted
    <3> QED
      BY <1>1, <3>3, <3>4, <3>5, <3>6
  <2>3. CASE t > now
    <3>1. \A i \in 1..Len(guesses) : guesses[i] \notin Lockout!From(t)
      BY <1>1, <1>2, <2>1, <2>3 DEF Lockout!From
    <3>2. Lockout!Hits(guesses, Lockout!From(t)) = 0
      BY <1>1, <3>1, LockoutHitsNone
    <3>3. Lockout!Hits(guesses', Lockout!From(t)) = 0
      BY <1>1, <2>1, <2>3, <3>2, LockoutHitsAppend DEF Lockout!From
    <3>4. IsFiniteSet(Lockout!InFlight(t)')
      BY SameSets, LockoutInFlightIs, FS_Subset,
         Lockout!InFlight(t)' \in SUBSET Worker DEF Lockout!InFlight, Lockout!LockoutAssumption
    <3>5. Cardinality(Lockout!InFlight(t)') \in Nat
      BY <3>4, FS_CardinalityType
    <3> QED
      BY <3>3, <3>5
  <2> QED
    BY <1>1, <2>1, <2>2, <2>3
<1>5. Lockout!GuessesCounted'
  BY SameSets, <1>3, <1>4 DEF Lockout!GuessesCounted, Lockout!Time, Lockout!Reach
<1>6. Lockout!LockFollows' /\ ~Lockout!Locked'
  BY DEF Lockout!IInv, Lockout!LockFollows, Lockout!Locked
<1>7. \A t \in Lockout!Time : now < t + Lockout!Reach =>
        Lockout!Hits(guesses', Lockout!From(t)) <= MaxFailures + Cardinality(Worker)
  <2>1. (Lockout!LockoutAssumption /\ Lockout!Shape /\ Lockout!LockFollows
         /\ Lockout!GuessesCounted /\ ~Lockout!Locked =>
           \A t \in Lockout!Time : now < t + Lockout!Reach =>
             Lockout!Hits(guesses, Lockout!From(t)) <= MaxFailures + Cardinality(Worker))'
    BY LockoutWithin, PTL
  <2> QED
    BY <1>5, <1>6, <2>1 DEF Lockout!LockoutAssumption, Lockout!Time, Lockout!Reach,
                            Lockout!From, Lockout!Hits
<1>8. ASSUME NEW t \in Lockout!Time
      PROVE  Lockout!InSpan(guesses', t, Lockout!Reach - 1) <= MaxFailures + Cardinality(Worker)
  <2> DEFINE S == t..t + (Lockout!Reach - 1)
  <2>1. t \in Nat /\ Lockout!InSpan(guesses', t, Lockout!Reach - 1) = Lockout!Hits(guesses', S)
        /\ Lockout!InSpan(guesses, t, Lockout!Reach - 1) = Lockout!Hits(guesses, S)
    BY <1>1 DEF Lockout!InSpan
  <2>2. CASE now \in S
    <3>1. now < t + Lockout!Reach
      BY <1>1, <2>1, <2>2
    <3>2. \A i \in 1..Len(guesses') : guesses'[i] \in S => guesses'[i] \in Lockout!From(t)
      BY <1>1, <2>1 DEF Lockout!From
    <3>3. guesses' \in Seq(Nat)
      BY <1>1
    <3> HIDE DEF S
    <3>4. Lockout!Hits(guesses', S) <= Lockout!Hits(guesses', Lockout!From(t))
      BY <3>2, <3>3, LockoutHitsMono
    <3>5. Lockout!Hits(guesses', Lockout!From(t)) <= MaxFailures + Cardinality(Worker)
      BY <1>7, <3>1
    <3>6. /\ Lockout!Hits(guesses', S) \in Nat /\ Lockout!Hits(guesses', Lockout!From(t)) \in Nat
          /\ MaxFailures \in Nat /\ Cardinality(Worker) \in Nat
      BY <3>3, LockoutPlacesFinite, LockoutInFlightIs DEF Lockout!LockoutAssumption
    <3> QED
      BY <2>1, <3>4, <3>5, <3>6
  <2>3. CASE now \notin S
    <3> HIDE DEF S
    <3>1. Lockout!Hits(guesses', S) = Lockout!Hits(guesses, S)
      BY <1>1, <2>3, LockoutHitsAppend
    <3> QED
      BY SameSets, <2>1, <3>1 DEF Lockout!IInv, Lockout!GuessesBounded
  <2> QED
    BY <2>2, <2>3
<1>9. Lockout!GuessesBounded'
  BY SameSets, <1>8 DEF Lockout!GuessesBounded, Lockout!Time, Lockout!Reach
<1> QED
  BY <1>5, <1>9

\* A hash is over: what it took off the guesses in flight it adds to the failures,
\* or the count begins anew.
LEMMA LockoutHashOver ==
  ASSUME Lockout!LockoutAssumption, Lockout!IInv, NEW w \in Worker, Lockout!Hashed(w)
  PROVE  Lockout!LockFollows' /\ Lockout!GuessesCounted'
<1>1. /\ now \in Nat /\ Lockout!Reach \in Nat /\ Lockout!Reach <= FailWindow
      /\ FailWindow \in Nat /\ LockSpan \in Nat
      /\ guesses \in Seq(Nat) /\ wrong \in Nat /\ MaxFailures \in Nat
      /\ hashing \in [Worker -> [since : Int, right : BOOLEAN]]
      /\ Lockout!Time \subseteq Nat /\ failures.count \in Nat /\ failures.lastFailedAt \in Int
  BY LockoutSpans DEF Lockout!IInv, Lockout!Shape
<1>2. CASE hashing[w].right
  <2>1. failures' = Lockout!NoFailures /\ guesses' = <<>> /\ wrong' = 0 /\ now' = now
    BY <1>2 DEF Lockout!Hashed
  <2>2. Lockout!LockFollows'
    BY <1>1, <2>1 DEF Lockout!LockFollows, Lockout!NoFailures
  <2>3. ASSUME NEW t \in Lockout!Time
        PROVE  Lockout!Hits(guesses', Lockout!From(t)) <= Cardinality(Lockout!InFlight(t)')
    <3>1. {i \in 1..Len(guesses') : guesses'[i] \in Lockout!From(t)} = {}
      BY <2>1
    <3>2. Lockout!Hits(guesses', Lockout!From(t)) = 0
      BY SameSets, <3>1, FS_EmptySet DEF Lockout!Hits
    <3>3. IsFiniteSet(Lockout!InFlight(t)')
      BY SameSets, LockoutInFlightIs, FS_Subset,
         Lockout!InFlight(t)' \in SUBSET Worker DEF Lockout!InFlight, Lockout!LockoutAssumption
    <3>4. Cardinality(Lockout!InFlight(t)') \in Nat
      BY <3>3, FS_CardinalityType
    <3> QED
      BY <3>2, <3>4
  <2>4. Lockout!GuessesCounted'
    BY SameSets, <2>1, <2>3 DEF Lockout!GuessesCounted, Lockout!Time, Lockout!Reach
  <2> QED
    BY <2>2, <2>4
<1>3. CASE ~hashing[w].right
  <2>1. /\ failures' = Lockout!Failed /\ guesses' = guesses /\ wrong' = wrong + 1 /\ now' = now
        /\ hashing' = [hashing EXCEPT ![w] = Lockout!NoLogin] /\ hashing[w] # Lockout!NoLogin
    BY <1>3 DEF Lockout!Hashed
  <2>2. PICK recent \in 0..failures.count :
           /\ failures # Lockout!NoFailures /\ ~Lockout!Past(failures.lastFailedAt, FailWindow)
              => recent = failures.count
           /\ Lockout!Failed.count = recent + 1 /\ Lockout!Failed.lastFailedAt = now
           /\ Lockout!Failed.lockedUntil
                = (IF recent + 1 > MaxFailures THEN now + LockSpan ELSE 0)
    BY LockoutFailedIs DEF Lockout!IInv
  <2>3. failures.count <= wrong
    BY DEF Lockout!IInv, Lockout!LockFollows
  <2>4. Lockout!LockFollows'
    BY <1>1, <2>1, <2>2, <2>3 DEF Lockout!LockFollows
  <2>5. ASSUME NEW t \in Lockout!Time, now < t + Lockout!Reach
        PROVE  \/ Lockout!Hits(guesses, Lockout!From(t)) <= Cardinality(Lockout!InFlight(t)')
               \/ /\ now >= t
                  /\ Lockout!Hits(guesses, Lockout!From(t))
                       <= Cardinality(Lockout!InFlight(t)') + recent + 1
    <3>1. t \in Nat /\ recent \in Nat
      BY <1>1, <2>2
    <3>2. Lockout!InFlight(t)' = Lockout!InFlight(t) \ {w}
      BY <1>1, <2>1, <3>1 DEF Lockout!InFlight, Lockout!NoLogin
    <3>3. /\ Cardinality(Lockout!InFlight(t)') \in Nat /\ Cardinality(Lockout!InFlight(t)) \in Nat
          /\ Cardinality(Lockout!InFlight(t)') >= Cardinality(Lockout!InFlight(t)) - 1
      <4>1. IsFiniteSet(Lockout!InFlight(t)) /\ Cardinality(Lockout!InFlight(t)) \in Nat
        BY LockoutInFlightIs
      <4>2. /\ IsFiniteSet(Lockout!InFlight(t) \ {w})
            /\ Cardinality(Lockout!InFlight(t) \ {w})
                 \in {Cardinality(Lockout!InFlight(t)) - 1, Cardinality(Lockout!InFlight(t))}
        BY <4>1, FS_RemoveElement
      <4>3. Cardinality(Lockout!InFlight(t) \ {w}) \in Nat
        BY <4>2, FS_CardinalityType
      <4> QED
        BY <3>2, <4>1, <4>2, <4>3
    <3>4. Lockout!Hits(guesses, Lockout!From(t)) \in Nat
      BY <1>1, LockoutPlacesFinite
    <3>5. CASE now >= t
      <4>1. \/ Lockout!Hits(guesses, Lockout!From(t)) <= Cardinality(Lockout!InFlight(t))
            \/ /\ failures.lastFailedAt >= t
               /\ Lockout!Hits(guesses, Lockout!From(t))
                    <= Cardinality(Lockout!InFlight(t)) + failures.count
        BY SameSets, <2>5 DEF Lockout!IInv, Lockout!GuessesCounted
      <4>2. failures.lastFailedAt >= t => recent = failures.count
        <5>1. HAVE failures.lastFailedAt >= t
        <5>2. failures # Lockout!NoFailures
          BY <1>1, <3>1, <5>1 DEF Lockout!NoFailures
        <5>3. ~Lockout!Past(failures.lastFailedAt, FailWindow)
          BY <1>1, <2>5, <3>1, <5>1 DEF Lockout!Past
        <5> QED
          BY <2>2, <5>2, <5>3
      <4> QED
        BY <1>1, <3>1, <3>3, <3>4, <3>5, <4>1, <4>2
    <3>6. CASE now < t
      <4>1. \A i \in 1..Len(guesses) : guesses[i] \in Nat /\ guesses[i] <= now
        BY <1>1 DEF Lockout!IInv, Lockout!GuessesCounted
      <4>2. \A i \in 1..Len(guesses) : guesses[i] \notin Lockout!From(t)
        BY <1>1, <3>1, <3>6, <4>1 DEF Lockout!From
      <4>3. Lockout!Hits(guesses, Lockout!From(t)) = 0
        BY <1>1, <4>2, LockoutHitsNone
      <4> QED
        BY <3>3, <4>3
    <3> QED
      BY <1>1, <3>1, <3>5, <3>6
  <2>6. failures'.count = recent + 1 /\ failures'.lastFailedAt = now
    BY <2>1, <2>2
  <2>7. \A i \in 1..Len(guesses') : guesses'[i] <= now'
    BY <2>1 DEF Lockout!IInv, Lockout!GuessesCounted
  <2>8. ASSUME NEW t \in Lockout!Time, now' < t + Lockout!Reach
        PROVE  \/ Lockout!Hits(guesses', Lockout!From(t)) <= Cardinality(Lockout!InFlight(t)')
               \/ /\ failures'.lastFailedAt >= t
                  /\ Lockout!Hits(guesses', Lockout!From(t))
                       <= Cardinality(Lockout!InFlight(t)') + failures'.count
    <3>1. t \in Nat /\ recent \in Nat
      BY <1>1, <2>2
    <3>2. Cardinality(Lockout!InFlight(t)') \in Nat
      <4>1. IsFiniteSet(Lockout!InFlight(t)')
        BY SameSets, LockoutInFlightIs, FS_Subset,
           Lockout!InFlight(t)' \in SUBSET Worker DEF Lockout!InFlight, Lockout!LockoutAssumption
      <4> QED
        BY <4>1, FS_CardinalityType
    <3> QED
      BY <2>1, <2>5, <2>6, <2>8, <3>1, <3>2
  <2>9. Lockout!GuessesCounted'
    BY SameSets, <2>7, <2>8 DEF Lockout!GuessesCounted, Lockout!Time, Lockout!Reach
  <2> QED
    BY <2>4, <2>9
<1> QED
  BY <1>2, <1>3

-----------------------------------------------------------------------------
(* The steps.                                                              *)

\* What a step leaves as it was.
LockoutBucketRest == UNCHANGED <<now, bucket, admitted, told>>
LockoutLockRest == UNCHANGED <<now, failures, hashing, guesses, wrong>>
LockoutLockPart == Lockout!LockFollows /\ Lockout!GuessesCounted /\ Lockout!GuessesBounded
LockoutBucketPart == Lockout!BucketCounts /\ Lockout!BurstBounded /\ Lockout!LimitedForAReason

\* The halves of the invariant depend on their own variables.
LEMMA LockoutRests ==
  ASSUME Lockout!LockoutAssumption, Lockout!IInv
  PROVE  /\ LockoutBucketRest => LockoutBucketPart'
         /\ LockoutLockRest => LockoutLockPart'
<1>1. ASSUME LockoutBucketRest PROVE LockoutBucketPart'
  BY <1>1 DEF Lockout!IInv, LockoutBucketRest, LockoutBucketPart, Lockout!BucketCounts,
              Lockout!BurstBounded, Lockout!LimitedForAReason, Lockout!InSpan,
              Lockout!Hits, Lockout!From, Lockout!Time
<1>2. ASSUME LockoutLockRest PROVE LockoutLockPart'
  BY <1>2 DEF Lockout!IInv, LockoutLockRest, LockoutLockPart, Lockout!LockFollows,
              Lockout!GuessesCounted, Lockout!GuessesBounded, Lockout!InSpan,
              Lockout!Hits, Lockout!From, Lockout!Time, Lockout!Reach, Lockout!InFlight
<1> QED
  BY <1>1, <1>2

\* A request: the limit, the lock, and a hash that begins.
LEMMA LockoutLoginInv ==
  ASSUME Lockout!LockoutAssumption, Lockout!IInv, NEW w \in Worker, NEW right \in BOOLEAN,
         Lockout!Login(w, right)
  PROVE  Lockout!IInv'
<1>1. /\ Lockout!Shape /\ Lockout!TypeOK /\ Lockout!BucketCounts /\ Lockout!BurstBounded
      /\ Lockout!LockFollows /\ Lockout!GuessesCounted
      /\ now \in Nat /\ Lockout!Time \subseteq Nat /\ Window \in Nat /\ WindowLimit \in Nat
      /\ Hashing \in Nat
      /\ admitted \in Seq(Nat) /\ guesses \in Seq(Nat)
      /\ hashing \in [Worker -> [since : Int, right : BOOLEAN]]
  BY LockoutSpans DEF Lockout!IInv, Lockout!Shape
<1>2. /\ bucket' = Lockout!Counted /\ hashing[w] = Lockout!NoLogin
      /\ UNCHANGED <<now, failures, wrong>>
      /\ IF bucket'.count > WindowLimit
         THEN /\ told' = "limited" /\ admitted' = admitted /\ hashing' = hashing
              /\ guesses' = guesses
         ELSE /\ admitted' = Append(admitted, now)
              /\ \/ told' = "locked" /\ hashing' = hashing /\ guesses' = guesses
                 \/ /\ ~Lockout!Locked /\ told' = "hashing"
                    /\ hashing' = [hashing EXCEPT ![w] = [since |-> now, right |-> right]]
                    /\ guesses' = IF right THEN guesses ELSE Append(guesses, now)
  BY DEF Lockout!Login
<1>3. /\ Lockout!BucketCounts' /\ bucket' # Lockout!NoBucket
      /\ bucket' \in [count : Nat, startedAt : Int]
      /\ bucket'.count > WindowLimit =>
           Lockout!InSpan(admitted, now - Window, Window) >= WindowLimit
  <2>1. IF bucket'.count > WindowLimit THEN admitted' = admitted
          ELSE admitted' = Append(admitted, now)
    BY <1>2
  <2> QED
    BY <1>1, <1>2, <2>1, LockoutCounting
<1>4. Lockout!LimitedForAReason'
  BY <1>2, <1>3 DEF Lockout!LimitedForAReason
<1>5. Lockout!Shape'
  <2>1. /\ admitted' \in Seq(Nat) /\ guesses' \in Seq(Nat)
        /\ hashing' \in [Worker -> [since : Int, right : BOOLEAN]]
    <3>1. Append(admitted, now) \in Seq(Nat) /\ Append(guesses, now) \in Seq(Nat)
      BY <1>1
    <3>2. admitted' \in Seq(Nat)
      BY <1>1, <1>2, <3>1
    <3>3. guesses' \in Seq(Nat)
      BY <1>1, <1>2, <3>1
    <3>4. hashing' \in [Worker -> [since : Int, right : BOOLEAN]]
      <4>1. [since |-> now, right |-> right] \in [since : Int, right : BOOLEAN]
        BY <1>1
      <4>2. CASE hashing' = [hashing EXCEPT ![w] = [since |-> now, right |-> right]]
        BY <1>1, <4>1, <4>2
      <4> QED
        BY <1>1, <1>2, <4>2
    <3> QED
      BY <3>2, <3>3, <3>4
  <2> QED
    BY <1>1, <1>2, <1>3, <2>1 DEF Lockout!Shape, Lockout!Time
<1>6. Lockout!TypeOK'
  <2>1. bucket'.startedAt \in -1..now' /\ bucket'.count \in Nat
    BY <1>1, <1>2, <1>3 DEF Lockout!BucketCounts
  <2>2. \A v \in Worker : hashing'[v] = Lockout!NoLogin \/ now' - hashing'[v].since \in 0..Hashing
    BY <1>1, <1>2 DEF Lockout!TypeOK
  <2> QED
    BY <1>1, <1>2, <2>1, <2>2 DEF Lockout!TypeOK, Lockout!Time
<1>7. Lockout!BurstBounded'
  <2>1. (Lockout!LockoutAssumption /\ Lockout!Shape /\ Lockout!BucketCounts
         /\ bucket # Lockout!NoBucket =>
          \A t \in Nat : t + Window >= now =>
            Lockout!InSpan(admitted, t, Window) <= 2 * WindowLimit)'
    BY LockoutBursts, PTL
  <2>2. ASSUME NEW t \in Lockout!Time
        PROVE  Lockout!InSpan(admitted', t, Window) <= 2 * WindowLimit
    <3>1. t \in Nat
      BY <1>1
    <3>2. CASE t + Window >= now
      BY <1>2, <1>3, <1>5, <2>1, <3>1, <3>2 DEF Lockout!LockoutAssumption, Lockout!InSpan,
                                                Lockout!Hits
    <3>3. CASE t + Window < now
      <4> DEFINE S == t..t + Window
      <4>1. now \notin S
        BY <1>1, <3>1, <3>3
      <4>2. Lockout!Hits(admitted, S) <= 2 * WindowLimit
        BY <1>1 DEF Lockout!BurstBounded, Lockout!InSpan
      <4> HIDE DEF S
      <4>3. Lockout!Hits(admitted', S) = Lockout!Hits(admitted, S)
        <5>1. CASE admitted' = Append(admitted, now)
          BY <1>1, <4>1, <5>1, LockoutHitsAppend
        <5> QED
          BY <1>2, <5>1
      <4>4. Lockout!Hits(admitted', S) <= 2 * WindowLimit
        BY <4>2, <4>3
      <4> QED
        BY <4>4 DEF S, Lockout!InSpan
    <3> QED
      BY <1>1, <3>1, <3>2, <3>3
  <2> QED
    BY <2>2 DEF Lockout!BurstBounded, Lockout!Time
<1>8. LockoutLockPart'
  <2>1. CASE hashing' = hashing /\ guesses' = guesses
    BY <1>2, <2>1, LockoutRests DEF LockoutLockRest
  <2>2. CASE /\ ~Lockout!Locked /\ ~right /\ guesses' = Append(guesses, now)
             /\ hashing' = [hashing EXCEPT ![w] = [since |-> now, right |-> right]]
    <3>1. right = FALSE
      BY <2>2
    <3>2. Lockout!GuessesCounted' /\ Lockout!GuessesBounded'
      BY <1>2, <1>5, <2>2, <3>1, LockoutGuessMade
    <3>3. Lockout!LockFollows'
      BY <1>1, <1>2 DEF Lockout!LockFollows
    <3> QED
      BY <3>2, <3>3 DEF LockoutLockPart
  <2>3. CASE /\ ~Lockout!Locked /\ right /\ guesses' = guesses
             /\ hashing' = [hashing EXCEPT ![w] = [since |-> now, right |-> right]]
    <3>1. \A t \in Lockout!Time : Lockout!InFlight(t)' = Lockout!InFlight(t)
      BY <1>1, <1>2, <2>3 DEF Lockout!InFlight, Lockout!NoLogin
    <3>2. Lockout!LockFollows' /\ Lockout!GuessesBounded'
      BY <1>1, <1>2, <2>3 DEF Lockout!IInv, Lockout!LockFollows, Lockout!GuessesBounded,
                              Lockout!Time, Lockout!Reach
    <3>3. Lockout!GuessesCounted'
      BY <1>1, <1>2, <2>3, <3>1 DEF Lockout!GuessesCounted, Lockout!Time, Lockout!Reach
    <3> QED
      BY <3>2, <3>3 DEF LockoutLockPart
  <2> QED
    BY <1>2, <2>1, <2>2, <2>3
<1> QED
  BY <1>3, <1>4, <1>5, <1>6, <1>7, <1>8 DEF Lockout!IInv, LockoutLockPart

\* A hash is over, rightly or wrongly.
LEMMA LockoutHashedInv ==
  ASSUME Lockout!LockoutAssumption, Lockout!IInv, NEW w \in Worker, Lockout!Hashed(w)
  PROVE  Lockout!IInv'
<1>1. /\ Lockout!Shape /\ Lockout!TypeOK /\ now \in Nat /\ guesses \in Seq(Nat) /\ wrong \in Nat
      /\ LockSpan \in Nat
      /\ hashing \in [Worker -> [since : Int, right : BOOLEAN]] /\ MaxFailures \in Nat
      /\ Hashing \in Nat
  BY LockoutSpans DEF Lockout!IInv, Lockout!Shape
<1>2. /\ UNCHANGED <<now, bucket, admitted, told>>
      /\ hashing' = [hashing EXCEPT ![w] = Lockout!NoLogin]
      /\ failures' = Lockout!NoFailures \/ failures' = Lockout!Failed
      /\ guesses' = <<>> \/ guesses' = guesses
      /\ wrong' = 0 \/ wrong' = wrong + 1
  BY DEF Lockout!Hashed
<1>3. Lockout!LockFollows' /\ Lockout!GuessesCounted'
  BY LockoutHashOver
<1>4. LockoutBucketPart'
  BY <1>2, LockoutRests DEF LockoutBucketRest
<1>5. /\ failures' \in [count : Nat, lockedUntil : Nat, lastFailedAt : Int]
      /\ failures'.lastFailedAt \in -1..now /\ failures'.lockedUntil \in 0..now + LockSpan
      /\ failures'.count \in Nat
  <2>1. CASE failures' = Lockout!NoFailures
    BY <1>1, <2>1 DEF Lockout!NoFailures
  <2>2. CASE failures' = Lockout!Failed
    <3>1. PICK recent \in 0..failures.count :
            /\ Lockout!Failed.count = recent + 1 /\ Lockout!Failed.lastFailedAt = now
            /\ Lockout!Failed.lockedUntil
                 = (IF recent + 1 > MaxFailures THEN now + LockSpan ELSE 0)
            /\ Lockout!Failed \in [count : Nat, lockedUntil : Nat, lastFailedAt : Int]
      BY <1>1, LockoutFailedIs
    <3>2. Lockout!Failed.lockedUntil \in {0, now + LockSpan} /\ Lockout!Failed.count \in Nat
      BY <3>1
    <3> QED
      BY <1>1, <2>2, <3>1, <3>2
  <2> QED
    BY <1>2, <2>1, <2>2
<1>6. Lockout!Shape'
  <2>1. hashing' \in [Worker -> [since : Int, right : BOOLEAN]]
    BY <1>1, <1>2 DEF Lockout!NoLogin
  <2>2. guesses' \in Seq(Nat)
    BY <1>1, <1>2, <<>> \in Seq(Nat)
  <2>3. wrong' \in Nat
    BY <1>1, <1>2
  <2> QED
    BY <1>1, <1>2, <1>5, <2>1, <2>2, <2>3 DEF Lockout!Shape, Lockout!Time
<1>7. Lockout!TypeOK'
  <2>1. \A v \in Worker : hashing'[v] = Lockout!NoLogin \/ now' - hashing'[v].since \in 0..Hashing
    BY <1>1, <1>2 DEF Lockout!TypeOK
  <2> QED
    BY <1>1, <1>2, <1>5, <2>1 DEF Lockout!TypeOK, Lockout!Time
<1>8. Lockout!GuessesBounded'
  <2>1. CASE guesses' = guesses
    BY <2>1 DEF Lockout!IInv, Lockout!GuessesBounded, Lockout!Time, Lockout!Reach
  <2>2. CASE guesses' = <<>>
    <3>1. ASSUME NEW t \in Lockout!Time
          PROVE  Lockout!InSpan(guesses', t, Lockout!Reach - 1)
                   <= MaxFailures + Cardinality(Worker)
      <4>1. {i \in 1..Len(guesses') : guesses'[i] \in t..t + (Lockout!Reach - 1)} = {}
        BY <2>2
      <4>2. Lockout!InSpan(guesses', t, Lockout!Reach - 1) = 0
        BY SameSets, <4>1, FS_EmptySet DEF Lockout!InSpan, Lockout!Hits
      <4>3. Cardinality(Worker) \in Nat
        BY LockoutInFlightIs
      <4> QED
        BY <1>1, <4>2, <4>3
    <3> QED
      BY SameSets, <3>1 DEF Lockout!GuessesBounded, Lockout!Time, Lockout!Reach
  <2> QED
    BY <1>2, <2>1, <2>2
<1> QED
  BY <1>3, <1>4, <1>6, <1>7, <1>8 DEF Lockout!IInv, LockoutBucketPart

\* cleanRateBucketMap: what the forgotten bucket counted is out of reach.
LEMMA LockoutCleanBucketsInv ==
  ASSUME Lockout!LockoutAssumption, Lockout!IInv, Lockout!CleanBuckets
  PROVE  Lockout!IInv'
<1>1. /\ Lockout!Shape /\ Lockout!TypeOK /\ now \in Nat /\ admitted \in Seq(Nat) /\ Window \in Nat
      /\ bucket # Lockout!NoBucket /\ bucket.startedAt \in 0..now
      /\ \A i \in 1..Len(admitted) : admitted[i] <= bucket.startedAt + Window
  BY LockoutSpans DEF Lockout!IInv, Lockout!Shape, Lockout!CleanBuckets, Lockout!BucketCounts
<1>2. /\ now - bucket.startedAt > 3 * Window /\ bucket' = Lockout!NoBucket
      /\ UNCHANGED <<now, failures, hashing, admitted, guesses, wrong, told>>
  BY DEF Lockout!CleanBuckets, Lockout!Past
<1>3. \A i \in 1..Len(admitted) : admitted[i] \in Nat /\ admitted[i] + Window < now
  BY <1>1, <1>2
<1>4. Lockout!BucketCounts'
  BY <1>1, <1>2, <1>3 DEF Lockout!BucketCounts, Lockout!IInv
<1>5. Lockout!BurstBounded' /\ Lockout!LimitedForAReason'
  BY <1>2 DEF Lockout!IInv, Lockout!BurstBounded, Lockout!LimitedForAReason, Lockout!Time
<1>6. LockoutLockPart'
  BY <1>2, LockoutRests DEF LockoutLockRest
<1>7. Lockout!Shape' /\ Lockout!TypeOK'
  BY <1>1, <1>2 DEF Lockout!Shape, Lockout!TypeOK, Lockout!NoBucket, Lockout!Time
<1> QED
  BY <1>4, <1>5, <1>6, <1>7 DEF Lockout!IInv, LockoutLockPart

\* cleanLoginFailuresMap: failures that are forgotten would not have counted again.
LEMMA LockoutCleanFailuresInv ==
  ASSUME Lockout!LockoutAssumption, Lockout!IInv, Lockout!CleanFailures
  PROVE  Lockout!IInv'
<1>1. /\ Lockout!Shape /\ Lockout!TypeOK /\ now \in Nat /\ FailWindow \in Nat
      /\ LockSpan \in Nat /\ Lockout!Time \subseteq Nat
      /\ failures.lastFailedAt \in Int /\ wrong \in Nat /\ MaxFailures \in Nat
  BY LockoutSpans DEF Lockout!IInv, Lockout!Shape
<1>2. /\ now - failures.lastFailedAt > FailWindow /\ failures' = Lockout!NoFailures
      /\ UNCHANGED <<now, bucket, hashing, admitted, guesses, wrong, told>>
  BY DEF Lockout!CleanFailures, Lockout!Past
<1>3. LockoutBucketPart'
  BY <1>2, LockoutRests DEF LockoutBucketRest
<1>4. Lockout!LockFollows'
  BY <1>1, <1>2 DEF Lockout!LockFollows, Lockout!NoFailures
<1>5. ASSUME NEW t \in Lockout!Time, now < t + Lockout!Reach
      PROVE  Lockout!Hits(guesses, Lockout!From(t)) <= Cardinality(Lockout!InFlight(t))
  <2>1. t \in Nat /\ Lockout!Reach \in Nat /\ Lockout!Reach <= FailWindow
    BY <1>1 DEF Lockout!Reach
  <2>2. ~(failures.lastFailedAt >= t)
    BY <1>1, <1>2, <1>5, <2>1
  <2> QED
    BY SameSets, <1>5, <2>2 DEF Lockout!IInv, Lockout!GuessesCounted
<1>6. \A t \in Lockout!Time : Lockout!InFlight(t)' = Lockout!InFlight(t)
  BY <1>2 DEF Lockout!InFlight
<1>7. Lockout!GuessesCounted'
  BY SameSets, <1>2, <1>5, <1>6 DEF Lockout!IInv, Lockout!GuessesCounted, Lockout!Time,
                                      Lockout!Reach
<1>8. Lockout!GuessesBounded'
  BY <1>2 DEF Lockout!IInv, Lockout!GuessesBounded, Lockout!Time, Lockout!Reach
<1>9. Lockout!Shape' /\ Lockout!TypeOK'
  BY <1>1, <1>2 DEF Lockout!Shape, Lockout!TypeOK, Lockout!NoFailures, Lockout!Time
<1> QED
  BY <1>3, <1>4, <1>7, <1>8, <1>9 DEF Lockout!IInv, LockoutBucketPart

\* Time passes.
LEMMA LockoutTickInv ==
  ASSUME Lockout!LockoutAssumption, Lockout!IInv, Lockout!Tick
  PROVE  Lockout!IInv'
<1>1. /\ Lockout!Shape /\ Lockout!TypeOK /\ now \in Nat /\ now + 1 \in Lockout!Time
      /\ Lockout!Time \subseteq Nat /\ Window \in Nat
      /\ LockSpan \in Nat /\ Lockout!Reach \in Nat /\ Hashing \in Nat
      /\ hashing \in [Worker -> [since : Int, right : BOOLEAN]]
      /\ admitted \in Seq(Nat) /\ guesses \in Seq(Nat)
  <2>1. /\ LockSpan \in Nat /\ FailWindow \in Nat /\ MaxTime \in Nat /\ Window \in Nat
        /\ Hashing \in Nat
    BY DEF Lockout!LockoutAssumption
  <2>2. Lockout!Reach \in Nat
    BY <2>1 DEF Lockout!Reach
  <2>3. Lockout!Shape /\ Lockout!TypeOK
    BY DEF Lockout!IInv
  <2> QED
    BY <2>1, <2>2, <2>3 DEF Lockout!Shape, Lockout!Time, Lockout!Tick
<1>2. /\ now' = now + 1 /\ told' = "none"
      /\ UNCHANGED <<bucket, failures, hashing, admitted, guesses, wrong>>
      /\ \A w \in Worker : hashing[w] = Lockout!NoLogin \/ now - hashing[w].since < Hashing
  BY DEF Lockout!Tick
<1>3. /\ \A i \in 1..Len(admitted) : admitted[i] \in Nat /\ admitted[i] <= now
      /\ \A i \in 1..Len(guesses) : guesses[i] \in Nat /\ guesses[i] <= now
  BY <1>1 DEF Lockout!IInv, Lockout!BucketCounts, Lockout!GuessesCounted
<1>4. Lockout!BucketCounts'
  <2>1. bucket # Lockout!NoBucket => bucket.startedAt \in 0..now + 1
    BY <1>1 DEF Lockout!IInv, Lockout!BucketCounts
  <2>2. bucket = Lockout!NoBucket => \A i \in 1..Len(admitted) : admitted[i] + Window < now + 1
    BY <1>1, <1>3 DEF Lockout!IInv, Lockout!BucketCounts
  <2>3. \A i \in 1..Len(admitted) : admitted[i] <= now + 1
    BY <1>1, <1>3
  <2> QED
    BY <1>2, <2>1, <2>2, <2>3 DEF Lockout!IInv, Lockout!BucketCounts
<1>5. /\ Lockout!BurstBounded' /\ Lockout!GuessesBounded' /\ Lockout!LimitedForAReason'
      /\ Lockout!LockFollows'
  BY <1>2 DEF Lockout!IInv, Lockout!BurstBounded, Lockout!GuessesBounded,
              Lockout!LimitedForAReason, Lockout!LockFollows, Lockout!Time, Lockout!Reach
<1>6. \A t \in Lockout!Time : Lockout!InFlight(t)' = Lockout!InFlight(t)
  BY <1>2 DEF Lockout!InFlight
<1>7. \A t \in Lockout!Time : now + 1 < t + Lockout!Reach => now < t + Lockout!Reach
  BY <1>1
<1>8. \A i \in 1..Len(guesses) : guesses[i] <= now + 1
  BY <1>1, <1>3
<1>9. Lockout!GuessesCounted'
  BY <1>2, <1>6, <1>7, <1>8 DEF Lockout!IInv, Lockout!GuessesCounted, Lockout!Time, Lockout!Reach
<1>10. Lockout!Shape' /\ Lockout!TypeOK'
  <2>1. \A w \in Worker :
          hashing[w] = Lockout!NoLogin \/ now + 1 - hashing[w].since \in 0..Hashing
    <3> TAKE w \in Worker
    <3>1. hashing[w] = Lockout!NoLogin \/ now - hashing[w].since \in 0..Hashing
      BY <1>1 DEF Lockout!TypeOK
    <3>2. hashing[w] = Lockout!NoLogin \/ now - hashing[w].since < Hashing
      BY <1>2
    <3>3. hashing[w].since \in Int
      BY <1>1
    <3> QED
      BY <1>1, <3>1, <3>2, <3>3
  <2>2. /\ bucket.startedAt \in -1..now + 1 /\ failures.lastFailedAt \in -1..now + 1
        /\ failures.lockedUntil \in 0..(now + 1) + LockSpan
    BY <1>1 DEF Lockout!TypeOK
  <2>3. Lockout!Shape'
    BY <1>1, <1>2 DEF Lockout!Shape, Lockout!Time
  <2>4. failures.count \in Nat /\ bucket.count \in Nat
    BY <1>1 DEF Lockout!TypeOK
  <2>5. Lockout!TypeOK'
    <3>1. now' \in Lockout!Time'
      BY <1>1, <1>2 DEF Lockout!Time
    <3>2. \A w \in Worker : hashing'[w] = Lockout!NoLogin
                            \/ now' - hashing'[w].since \in 0..Hashing
      <4> TAKE w \in Worker
      <4>1. now' = now + 1 /\ hashing' = hashing
        BY <1>2
      <4>2. hashing[w] = Lockout!NoLogin \/ now + 1 - hashing[w].since \in 0..Hashing
        BY <2>1
      <4>3. now \in Nat /\ hashing[w].since \in Int
        BY <1>1
      <4> QED
        BY <4>1, <4>2, <4>3
    <3>3. /\ bucket'.startedAt \in -1..now' /\ bucket'.count \in Nat
          /\ failures'.lastFailedAt \in -1..now' /\ failures'.lockedUntil \in 0..now' + LockSpan
          /\ failures'.count \in Nat
      BY <1>2, <2>2, <2>4
    <3> QED
      BY <3>1, <3>2, <3>3 DEF Lockout!TypeOK
  <2> QED
    BY <2>3, <2>5
<1> QED
  BY <1>4, <1>5, <1>9, <1>10 DEF Lockout!IInv

\* A server that has just started has seen nothing.
LEMMA LockoutInitInv == Lockout!LockoutAssumption /\ Lockout!Init => Lockout!IInv
<1> SUFFICES ASSUME Lockout!LockoutAssumption, Lockout!Init PROVE Lockout!IInv
  OBVIOUS
<1>1. /\ now = 0 /\ bucket = Lockout!NoBucket /\ failures = Lockout!NoFailures
      /\ admitted = <<>> /\ guesses = <<>>
      /\ hashing = [w \in Worker |-> Lockout!NoLogin] /\ wrong = 0 /\ told = "none"
  BY DEF Lockout!Init
<1>2. /\ LockSpan \in Nat /\ MaxFailures \in Nat /\ MaxTime \in Nat /\ WindowLimit \in Nat
      /\ FailWindow \in Nat
      /\ Cardinality(Worker) \in Nat
  BY LockoutInFlightIs DEF Lockout!LockoutAssumption
<1>3. \A S : Lockout!Hits(<<>>, S) = 0
  <2> SUFFICES ASSUME NEW S PROVE Lockout!Hits(<<>>, S) = 0
    OBVIOUS
  <2>1. {i \in 1..Len(<<>>) : <<>>[i] \in S} = {}
    OBVIOUS
  <2> QED
    BY SameSets, <2>1, FS_EmptySet DEF Lockout!Hits
<1>4. Lockout!Shape /\ Lockout!TypeOK
  BY <1>1, <1>2 DEF Lockout!Shape, Lockout!TypeOK, Lockout!Time, Lockout!NoBucket,
                    Lockout!NoFailures, Lockout!NoLogin
<1>5. Lockout!BucketCounts /\ Lockout!LockFollows
  BY <1>1, <1>2 DEF Lockout!BucketCounts, Lockout!LockFollows, Lockout!NoFailures
<1>6. Lockout!GuessesCounted
  BY SameSets, <1>1, <1>3, LockoutInFlightIs DEF Lockout!GuessesCounted
<1>7. Lockout!BurstBounded /\ Lockout!GuessesBounded /\ Lockout!LimitedForAReason
  BY SameSets, <1>1, <1>2, <1>3 DEF Lockout!BurstBounded, Lockout!GuessesBounded,
                          Lockout!LimitedForAReason, Lockout!InSpan
<1> QED
  BY <1>4, <1>5, <1>6, <1>7 DEF Lockout!IInv

\* Every step of the lockout keeps its invariant.
LEMMA LockoutNextInv ==
  Lockout!LockoutAssumption /\ Lockout!IInv /\ [Lockout!Next]_(Lockout!vars) => Lockout!IInv'
<1> SUFFICES ASSUME Lockout!LockoutAssumption, Lockout!IInv, [Lockout!Next]_(Lockout!vars)
             PROVE  Lockout!IInv'
  OBVIOUS
<1>1. CASE Lockout!Next
  BY <1>1, LockoutLoginInv, LockoutHashedInv, LockoutCleanBucketsInv, LockoutCleanFailuresInv,
     LockoutTickInv DEF Lockout!Next
<1>2. CASE UNCHANGED Lockout!vars
  <2>1. LockoutLockPart' /\ LockoutBucketPart'
    BY <1>2, LockoutRests DEF Lockout!vars, LockoutLockRest, LockoutBucketRest
  <2>2. Lockout!Shape' /\ Lockout!TypeOK'
    BY <1>2 DEF Lockout!IInv, Lockout!vars, Lockout!Shape, Lockout!TypeOK, Lockout!Time
  <2> QED
    BY <2>1, <2>2 DEF Lockout!IInv, LockoutLockPart, LockoutBucketPart
<1> QED
  BY <1>1, <1>2

\* IInv is an invariant of the limits and lockouts.
THEOREM LockoutInvariance ==
  ASSUME Lockout!LockoutAssumption
  PROVE  Lockout!Spec => []Lockout!IInv
<1>1. Lockout!Init => Lockout!IInv
  BY LockoutInitInv
<1>2. Lockout!IInv /\ [Lockout!Next]_(Lockout!vars) => Lockout!IInv'
  BY LockoutNextInv
<1> QED
  BY <1>1, <1>2, PTL DEF Lockout!Spec

\* A lock is backed by the failures since the last success.
LEMMA LockoutLockReason == Lockout!LockoutAssumption /\ Lockout!IInv => Lockout!LockedForAReason
<1> SUFFICES ASSUME Lockout!LockoutAssumption, Lockout!IInv, Lockout!Locked
             PROVE  wrong > MaxFailures
  BY DEF Lockout!LockedForAReason
<1>1. /\ now \in Nat /\ failures.lockedUntil \in Nat /\ failures.count \in Nat /\ wrong \in Nat
      /\ MaxFailures \in Nat
  BY LockoutSpans DEF Lockout!IInv, Lockout!Shape
<1> QED
  BY <1>1 DEF Lockout!IInv, Lockout!LockFollows, Lockout!Locked

-----------------------------------------------------------------------------
(* The pages of the access log.                                            *)

\* A load.
LEMMA PagerLoadInv ==
  ASSUME Pager!IInv, NEW s \in PagerSlot, NEW p \in Pager!Page, Pager!Load(s, p)
  PROVE  Pager!IInv'
<1> DEFINE q == [kind |-> "query", page |-> p]
<1>1. q \in [kind : {"query"}, page : Pager!Page] /\ q # Pager!Free
  BY DEF Pager!Free
<1>2. Pager!TypeOK'
  BY <1>1 DEF Pager!IInv, Pager!TypeOK, Pager!Load, Pager!drawn
<1>3. pagerNet'[s] = q
  BY DEF Pager!Load, Pager!IInv, Pager!TypeOK
<1>4. ~Pager!Idle'
  BY <1>1, <1>3 DEF Pager!Idle
<1>5. Pager!PagerTellsTruth'
  BY DEF Pager!IInv, Pager!PagerTellsTruth, Pager!Load, Pager!drawn
<1> QED
  BY <1>2, <1>4, <1>5 DEF Pager!IInv, Pager!ClicksStartHere

\* The server answers.
LEMMA PagerServeInv ==
  ASSUME Pager!IInv, NEW s \in PagerSlot, Pager!Serve(s)
  PROVE  Pager!IInv'
<1>1. PICK t \in Pager!Page :
        pagerNet'
          = [pagerNet EXCEPT ![s] = [kind |-> "answer", page |-> pagerNet[s].page, total |-> t]]
  BY DEF Pager!Serve
<1> DEFINE a == [kind |-> "answer", page |-> pagerNet[s].page, total |-> t]
<1>2. pagerNet[s].page \in Pager!Page
  BY DEF Pager!Serve, Pager!IInv, Pager!TypeOK, Pager!Free
<1>3. a \in [kind : {"answer"}, page : Pager!Page, total : Pager!Page] /\ a # Pager!Free
  BY <1>2 DEF Pager!Free
<1>4. Pager!TypeOK'
  BY <1>1, <1>3 DEF Pager!IInv, Pager!TypeOK, Pager!Serve, Pager!drawn
<1>5. pagerNet'[s] = a
  BY <1>1 DEF Pager!IInv, Pager!TypeOK
<1>6. ~Pager!Idle'
  BY <1>3, <1>5 DEF Pager!Idle
<1>7. Pager!PagerTellsTruth'
  BY DEF Pager!IInv, Pager!PagerTellsTruth, Pager!Serve, Pager!drawn
<1> QED
  BY <1>4, <1>6, <1>7 DEF Pager!IInv, Pager!ClicksStartHere

\* An answer arrives.
LEMMA PagerArriveInv ==
  ASSUME Pager!PagerAssumption, Pager!IInv, NEW s \in PagerSlot, Pager!Arrive(s)
  PROVE  Pager!IInv'
<1>1. pagerNet[s].page \in Pager!Page /\ pagerNet[s].total \in Pager!Page
  BY DEF Pager!Arrive, Pager!IInv, Pager!TypeOK, Pager!Free
<1>2. Pager!Page \subseteq 0..MaxPage
  BY DEF Pager!PagerAssumption, Pager!Page
<1>3. Pager!TypeOK'
  BY <1>1, <1>2 DEF Pager!IInv, Pager!TypeOK, Pager!Arrive
<1> QED
  BY <1>3 DEF Pager!IInv, Pager!PagerTellsTruth, Pager!ClicksStartHere, Pager!Arrive

\* A request fails.
LEMMA PagerFailsInv ==
  ASSUME Pager!IInv, NEW s \in PagerSlot, Pager!Fails(s)
  PROVE  Pager!IInv'
<1>1. Pager!TypeOK'
  BY DEF Pager!IInv, Pager!TypeOK, Pager!Fails, Pager!drawn
<1> QED
  BY <1>1 DEF Pager!IInv, Pager!PagerTellsTruth, Pager!ClicksStartHere, Pager!Fails, Pager!drawn

\* A logout.
LEMMA PagerLogoutInv ==
  ASSUME Pager!PagerAssumption, Pager!IInv, Pager!Logout
  PROVE  Pager!IInv'
<1>1. 1 \in Pager!Page /\ 0 \in 0..MaxPage
  BY DEF Pager!PagerAssumption, Pager!Page
<1>2. Pager!TypeOK'
  BY <1>1 DEF Pager!IInv, Pager!TypeOK, Pager!Logout, Pager!drawn
<1> QED
  BY <1>2 DEF Pager!IInv, Pager!PagerTellsTruth, Pager!ClicksStartHere, Pager!Logout, Pager!drawn

\* A login.
LEMMA PagerLoginInv ==
  ASSUME Pager!IInv, NEW s \in PagerSlot, Pager!Login(s)
  PROVE  Pager!IInv'
<1> DEFINE q == [kind |-> "query", page |-> page]
<1>1. q \in [kind : {"query"}, page : Pager!Page] /\ q # Pager!Free
  BY DEF Pager!Free, Pager!IInv, Pager!TypeOK
<1>2. Pager!TypeOK'
  BY <1>1 DEF Pager!IInv, Pager!TypeOK, Pager!Login, Pager!drawn
<1>3. pagerNet'[s] = q
  BY DEF Pager!Login, Pager!IInv, Pager!TypeOK
<1>4. ~Pager!Idle'
  BY <1>1, <1>3 DEF Pager!Idle
<1>5. Pager!PagerTellsTruth'
  BY DEF Pager!IInv, Pager!PagerTellsTruth, Pager!Login, Pager!drawn
<1> QED
  BY <1>2, <1>4, <1>5 DEF Pager!IInv, Pager!ClicksStartHere

\* Every step.
LEMMA PagerNextInv ==
  ASSUME Pager!PagerAssumption, Pager!IInv, [Pager!Next]_(Pager!vars)
  PROVE  Pager!IInv'
<1>1. ASSUME NEW s \in PagerSlot,
             \/ Pager!ApplyFilter(s) \/ Pager!Refresh(s) \/ Pager!Previous(s)
                  \/ Pager!Following(s)
      PROVE  Pager!IInv'
  <2>1. \E p \in Pager!Page : Pager!Load(s, p)
    <3>1. 1 \in Pager!Page /\ page \in Pager!Page /\ total \in 0..MaxPage
      BY DEF Pager!PagerAssumption, Pager!IInv, Pager!TypeOK, Pager!Page
    <3>2. page > 1 => page - 1 \in Pager!Page
      BY <3>1 DEF Pager!PagerAssumption, Pager!Page
    <3>3. page < total => page + 1 \in Pager!Page
      BY <3>1 DEF Pager!PagerAssumption, Pager!Page
    <3> QED
      BY <1>1, <3>1, <3>2, <3>3 DEF Pager!ApplyFilter, Pager!Refresh, Pager!Previous,
                                    Pager!Following
  <2> QED
    BY <2>1, PagerLoadInv
<1>2. CASE UNCHANGED Pager!vars
  BY <1>2 DEF Pager!vars, Pager!IInv, Pager!TypeOK, Pager!PagerTellsTruth,
              Pager!ClicksStartHere, Pager!Idle
<1> QED
  BY <1>1, <1>2, PagerServeInv, PagerArriveInv, PagerFailsInv, PagerLogoutInv,
     PagerLoginInv DEF Pager!Next

\* The first state.
LEMMA PagerInitInv == Pager!PagerAssumption /\ Pager!Init => Pager!IInv
<1> SUFFICES ASSUME Pager!PagerAssumption, Pager!Init PROVE Pager!IInv
  OBVIOUS
<1>1. 1 \in Pager!Page /\ 0 \in 0..MaxPage
  BY DEF Pager!PagerAssumption, Pager!Page
<1> QED
  BY <1>1 DEF Pager!Init, Pager!IInv, Pager!TypeOK, Pager!PagerTellsTruth, Pager!ClicksStartHere

\* The invariant of the pages.
LEMMA PagerInvariance == ASSUME Pager!PagerAssumption PROVE Pager!Spec => []Pager!IInv
  BY PagerInitInv, PagerNextInv, PTL DEF Pager!Spec

-----------------------------------------------------------------------------
(* Users, ticks and dialogs.                                               *)

\* What a dialog was opened for, and what came of it.
ConsoleAsk ==
  [names : Console!Names, ban : BOOLEAN, answer : {"waiting", "yes", "no"}, sent : Console!Call \cup {Console!NotSent}]

\* A list says of users whether they are banned.
LEMMA ConsoleListIs ==
  ASSUME NEW list \in Console!Lists
  PROVE  DOMAIN list \subseteq User /\ \A u \in DOMAIN list : list[u] \in BOOLEAN
  BY DEF Console!Lists

\* The empty list.
LEMMA ConsoleNobodyIs == Console!Nobody \in Console!Lists /\ DOMAIN Console!Nobody = {}
<1>1. Console!Nobody \in [{} -> BOOLEAN]
  BY DEF Console!Nobody
<1> QED
  BY <1>1 DEF Console!Lists

\* What is asked has its type, and a dialog is one of the asks.
LEMMA ConsoleAskIs ==
  ASSUME Console!IInv
  PROVE  /\ asks \in Seq(ConsoleAsk) /\ Len(asks) \in Nat /\ dialog \in 0..Len(asks)
         /\ dialog # 0 => dialog \in 1..Len(asks) /\ asks[dialog] \in ConsoleAsk
<1>1. asks \in Seq(ConsoleAsk) /\ dialog \in 0..Len(asks)
  BY DEF Console!IInv, Console!TypeOK, ConsoleAsk
<1>2. Len(asks) \in Nat
  BY <1>1
<1>3. dialog # 0 => dialog \in 1..Len(asks)
  BY <1>1, <1>2
<1>4. \A i \in 1..Len(asks) : asks[i] \in ConsoleAsk
  BY <1>1
<1> QED
  BY <1>1, <1>2, <1>3, <1>4

\* What a dialog waits for.
LEMMA ConsoleWaitingIs ==
  ASSUME Console!IInv, NEW i \in 1..Len(asks)
  PROVE  asks[i].answer = "waiting" <=> i = dialog
<1>1. i # 0
  BY ConsoleAskIs
<1> QED
  BY <1>1 DEF Console!IInv, Console!NobodyWaits

\* A dialog is opened.
LEMMA ConsoleOpenDialogInv ==
  ASSUME Console!IInv, NEW names \in Console!Names, NEW ban \in BOOLEAN,
         Console!OpenDialog(names, ban),
         UNCHANGED <<session, consoleShown, Console!page, consoleNet>>
  PROVE  Console!IInv'
<1> DEFINE n == Len(asks)
           new == [names |-> names, ban |-> ban, answer |-> "waiting", sent |-> Console!NotSent]
           old ==
             [i \in 1..n |-> IF i = dialog THEN [asks[i] EXCEPT !.answer = "no"] ELSE asks[i]]
<1>1. asks \in Seq(ConsoleAsk) /\ n \in Nat /\ dialog \in 0..n
  BY ConsoleAskIs
<1>2. new \in ConsoleAsk
  BY DEF ConsoleAsk
<1>3. \A i \in 1..n : asks[i] \in ConsoleAsk /\ [asks[i] EXCEPT !.answer = "no"] \in ConsoleAsk
  <2>1. \A a \in ConsoleAsk : [a EXCEPT !.answer = "no"] \in ConsoleAsk
    BY DEF ConsoleAsk
  <2>2. \A i \in 1..n : asks[i] \in ConsoleAsk
    BY <1>1
  <2> QED
    BY <2>1, <2>2
<1>4. old \in Seq(ConsoleAsk) /\ Len(old) = n
  BY <1>1, <1>3
<1>5. asks' = Append(old, new) /\ dialog' = n + 1
  BY DEF Console!OpenDialog
<1> HIDE DEF new, old
<1>6. /\ asks' \in Seq(ConsoleAsk) /\ Len(asks') = n + 1 /\ asks'[n + 1] = new
      /\ \A i \in 1..n : asks'[i] = old[i]
  BY <1>2, <1>4, <1>5
<1>7. Console!TypeOK'
  <2>1. dialog' \in 0..Len(asks')
    BY <1>1, <1>5, <1>6
  <2> QED
    BY <1>6, <2>1 DEF Console!IInv, Console!TypeOK, Console!page, ConsoleAsk
<1>8. \A i \in 1..n : old[i].answer # "waiting"
  <2> TAKE i \in 1..n
  <2>1. asks[i] \in ConsoleAsk
    BY <1>3
  <2>2. CASE i = dialog
    BY <2>1, <2>2 DEF old, ConsoleAsk
  <2>3. CASE i # dialog
    BY <2>3, ConsoleWaitingIs DEF old
  <2> QED
    BY <2>2, <2>3
<1>9. Console!NobodyWaits'
  <2>1. \A i \in 1..Len(asks') : asks'[i].answer = "waiting" <=> i = n + 1
    <3> TAKE i \in 1..Len(asks')
    <3>1. CASE i = n + 1
      BY <3>1, <1>6 DEF new
    <3>2. CASE i # n + 1
      <4>1. i \in 1..n
        BY <3>2, <1>1, <1>6
      <4> QED
        BY <4>1, <1>6, <1>8, <3>2
    <3> QED
      BY <3>1, <3>2
  <2>2. {dialog'} \ {0} = {n + 1} /\ n + 1 \in 1..Len(asks')
    BY <1>1, <1>5, <1>6
  <2>3. {i \in 1..Len(asks') : asks'[i].answer = "waiting"} = {n + 1}
    BY <2>1, <2>2
  <2> QED
    BY <2>2, <2>3 DEF Console!NobodyWaits
<1>10. Console!SentAsConfirmed'
  <2>1. Console!SentAsConfirmed
    BY DEF Console!IInv
  <2>2. ASSUME NEW i \in 1..n
        PROVE  old[i].sent = IF old[i].answer
                 = "yes" THEN [names |-> old[i].names, ban |-> old[i].ban]
                             ELSE Console!NotSent
    <3>1. asks[i] \in ConsoleAsk
      BY <1>3
    <3>2. CASE i = dialog
      <4>1. asks[i].answer = "waiting"
        BY <3>2, ConsoleWaitingIs
      <4>2. asks[i].sent = Console!NotSent
        BY <4>1, <2>1 DEF Console!SentAsConfirmed
      <4>3. old[i].sent = asks[i].sent /\ old[i].answer = "no"
        BY <3>1, <3>2 DEF old, ConsoleAsk
      <4> QED
        BY <4>2, <4>3
    <3>3. CASE i # dialog
      BY <3>3, <2>1 DEF old, Console!SentAsConfirmed
    <3> QED
      BY <3>2, <3>3
  <2>3. ASSUME NEW i \in 1..Len(asks')
        PROVE  asks'[i].sent = IF asks'[i].answer = "yes"
                               THEN [names |-> asks'[i].names, ban |-> asks'[i].ban] ELSE Console!NotSent
    <3>1. CASE i = n + 1
      BY <3>1, <1>6 DEF new
    <3>2. CASE i # n + 1
      <4>1. i \in 1..n
        BY <3>2, <1>1, <1>6
      <4> QED
        BY <4>1, <1>6, <2>2
    <3> QED
      BY <3>1, <3>2
  <2> QED
    BY <2>3 DEF Console!SentAsConfirmed
<1>11. Console!SelectionListed'
  BY DEF Console!IInv, Console!SelectionListed, Console!page
<1> QED
  BY <1>7, <1>9, <1>10, <1>11 DEF Console!IInv

\* The dialog is answered: of its ask the answer and what is sent change.
LEMMA ConsoleAnsweredInv ==
  ASSUME Console!IInv, dialog # 0, dialog' = 0, consoleNet' \in [ConsoleSlot -> Console!Message],
         NEW ask \in ConsoleAsk, asks' = [asks EXCEPT ![dialog] = ask],
         ask.answer \in {"yes", "no"},
         ask.sent = IF ask.answer = "yes" THEN [names |-> ask.names, ban |-> ask.ban]
           ELSE Console!NotSent,
         UNCHANGED <<session, consoleShown, Console!page>>
  PROVE  Console!IInv'
<1>1. asks \in Seq(ConsoleAsk) /\ Len(asks) \in Nat /\ dialog \in 1..Len(asks)
  BY ConsoleAskIs
<1>2. /\ asks' \in Seq(ConsoleAsk) /\ Len(asks') = Len(asks)
      /\ \A i \in 1..Len(asks) : asks'[i] = IF i = dialog THEN ask ELSE asks[i]
  BY <1>1
<1>3. Console!TypeOK'
  <2>1. dialog' \in 0..Len(asks')
    BY <1>1, <1>2
  <2> QED
    BY <1>2, <2>1 DEF Console!IInv, Console!TypeOK, Console!page, ConsoleAsk
<1>4. \A i \in 1..Len(asks') : asks'[i].answer # "waiting"
  BY <1>2, ConsoleWaitingIs
<1>5. Console!NobodyWaits'
  BY <1>4 DEF Console!NobodyWaits
<1>6. Console!SentAsConfirmed'
  BY <1>2 DEF Console!IInv, Console!SentAsConfirmed
<1>7. Console!SelectionListed'
  BY DEF Console!IInv, Console!SelectionListed, Console!page
<1> QED
  BY <1>3, <1>5, <1>6, <1>7 DEF Console!IInv

\* A dialog is dismissed.
LEMMA ConsoleCancelInv ==
  ASSUME Console!IInv, Console!Cancel
  PROVE  Console!IInv'
<1> DEFINE ask == [asks[dialog] EXCEPT !.answer = "no"]
<1>1. /\ dialog # 0 /\ dialog \in 1..Len(asks) /\ asks[dialog] \in ConsoleAsk
      /\ asks \in Seq(ConsoleAsk)
  BY ConsoleAskIs DEF Console!Cancel
<1>2. ask \in ConsoleAsk /\ ask.answer = "no" /\ ask.sent = asks[dialog].sent
  BY <1>1 DEF ConsoleAsk
<1>3. ask.sent = Console!NotSent
  <2>1. asks[dialog].answer = "waiting"
    BY <1>1, ConsoleWaitingIs
  <2> QED
    BY <1>1, <1>2, <2>1 DEF Console!IInv, Console!SentAsConfirmed
<1>4. asks' = [asks EXCEPT ![dialog] = ask]
  BY DEF Console!Cancel
<1>5. /\ consoleNet' \in [ConsoleSlot -> Console!Message] /\ dialog' = 0
      /\ UNCHANGED <<session, consoleShown, Console!page>>
  BY DEF Console!Cancel, Console!IInv, Console!TypeOK
<1> HIDE DEF ask
<1> QED
  BY <1>1, <1>2, <1>3, <1>4, <1>5, ConsoleAnsweredInv

\* A dialog is confirmed.
LEMMA ConsoleConfirmInv ==
  ASSUME Console!IInv, NEW s \in ConsoleSlot, Console!Confirm(s)
  PROVE  Console!IInv'
<1> DEFINE it == asks[dialog]
           call == [names |-> it.names, ban |-> it.ban]
           ask == [it EXCEPT !.answer = "yes", !.sent = call]
           m == [kind |-> "patch", names |-> it.names, ban |-> it.ban, token |-> consoleShown]
<1>1. dialog # 0 /\ dialog \in 1..Len(asks) /\ it \in ConsoleAsk /\ asks \in Seq(ConsoleAsk)
  BY ConsoleAskIs DEF Console!Confirm
<1>2. call \in Console!Call
  BY <1>1 DEF ConsoleAsk, Console!Call
<1>3. /\ ask \in ConsoleAsk /\ ask.answer = "yes" /\ ask.sent = call /\ ask.names = it.names
      /\ ask.ban = it.ban
  BY <1>1, <1>2 DEF ConsoleAsk
<1>4. asks' = [asks EXCEPT ![dialog] = ask]
  BY <1>1 DEF Console!Confirm
<1>5. m \in Console!Message
  BY <1>1 DEF ConsoleAsk, Console!Message, Console!IInv, Console!TypeOK
<1>6. consoleNet' = [consoleNet EXCEPT ![s] = m]
  BY DEF Console!Confirm
<1> HIDE DEF m
<1>7. consoleNet' \in [ConsoleSlot -> Console!Message]
  BY <1>5, <1>6 DEF Console!IInv, Console!TypeOK
<1>8. dialog' = 0 /\ UNCHANGED <<session, consoleShown, Console!page>>
  BY DEF Console!Confirm
<1>9. ask.sent = [names |-> ask.names, ban |-> ask.ban]
  BY <1>3
<1> HIDE DEF ask
<1> QED
  BY <1>1, <1>3, <1>4, <1>7, <1>8, <1>9, ConsoleAnsweredInv

\* Steps that leave the dialogs alone.
LEMMA ConsoleQuietInv ==
  ASSUME Console!IInv, UNCHANGED Console!talk, session' \in BOOLEAN, consoleShown' \in BOOLEAN,
         users'
           \in Console!Lists, consoleRows' \subseteq User, selected' \subseteq User, leftover' \subseteq User,
         consoleNet'
           \in [ConsoleSlot -> Console!Message], selected' \subseteq DOMAIN users' \cup leftover'
  PROVE  Console!IInv'
  BY DEF Console!IInv, Console!TypeOK, Console!NobodyWaits, Console!SentAsConfirmed,
         Console!SelectionListed, Console!talk

\* What is under way has its type.
LEMMA ConsoleNetIs ==
  ASSUME Console!IInv, NEW s \in ConsoleSlot, NEW m \in Console!Message,
         consoleNet' = [consoleNet EXCEPT ![s] = m]
  PROVE  consoleNet' \in [ConsoleSlot -> Console!Message]
  BY DEF Console!IInv, Console!TypeOK

\* What the server sends.
LEMMA ConsoleMessages ==
  /\ Console!Free \in Console!Message
  /\ \A k \in {"list", "done", "error", "refused"} : [kind |-> k] \in Console!Message
  /\ \A list \in Console!Lists : [kind |-> "rows", list |-> list] \in Console!Message
  BY DEF Console!Message

\* A box is ticked.
LEMMA ConsoleTickInv ==
  ASSUME Console!IInv, NEW u \in User, Console!Tick(u)
  PROVE  Console!IInv'
<1>1. DOMAIN users \subseteq User
  BY ConsoleListIs DEF Console!IInv, Console!TypeOK
<1>2. selected' \subseteq User /\ leftover' \subseteq User
  BY DEF Console!Tick, Console!IInv, Console!TypeOK
<1>3. selected' \subseteq DOMAIN users \cup leftover'
  BY DEF Console!Tick, Console!IInv, Console!SelectionListed
<1>4. /\ UNCHANGED Console!talk /\ consoleRows' \subseteq User /\ users' \in Console!Lists
      /\ consoleNet' \in [ConsoleSlot -> Console!Message]
      /\ users' = users
  BY <1>1 DEF Console!Tick, Console!IInv, Console!TypeOK
<1>5. session' \in BOOLEAN /\ consoleShown' \in BOOLEAN
  BY DEF Console!Tick, Console!IInv, Console!TypeOK
<1> QED
  BY <1>2, <1>3, <1>4, <1>5, ConsoleQuietInv

\* All boxes are ticked.
LEMMA ConsoleTickAllInv ==
  ASSUME Console!IInv, NEW on \in BOOLEAN, Console!TickAll(on)
  PROVE  Console!IInv'
<1>1. DOMAIN users \subseteq User
  BY ConsoleListIs DEF Console!IInv, Console!TypeOK
<1>2. selected' \subseteq User /\ leftover' \subseteq User
  BY <1>1 DEF Console!TickAll, Console!IInv, Console!TypeOK
<1>3. selected' \subseteq DOMAIN users \cup leftover'
  BY DEF Console!TickAll, Console!IInv, Console!SelectionListed
<1>4. /\ UNCHANGED Console!talk /\ consoleRows' \subseteq User /\ users' \in Console!Lists
      /\ consoleNet' \in [ConsoleSlot -> Console!Message]
      /\ users' = users
  BY <1>1 DEF Console!TickAll, Console!IInv, Console!TypeOK
<1>5. session' \in BOOLEAN /\ consoleShown' \in BOOLEAN
  BY DEF Console!TickAll, Console!IInv, Console!TypeOK
<1> QED
  BY <1>2, <1>3, <1>4, <1>5, ConsoleQuietInv

\* Steps that touch only the session, the card and the network.
LEMMA ConsoleNetInv ==
  ASSUME Console!IInv, UNCHANGED <<Console!page, Console!talk>>, session' \in BOOLEAN,
         consoleShown' \in BOOLEAN,
         consoleNet' \in [ConsoleSlot -> Console!Message]
  PROVE  Console!IInv'
  BY ConsoleQuietInv DEF Console!page, Console!IInv, Console!TypeOK, Console!SelectionListed

\* A load.
LEMMA ConsoleLoadInv ==
  ASSUME Console!IInv, NEW s \in ConsoleSlot, Console!Load(s) \/ Console!Login(s)
  PROVE  Console!IInv'
<1>1. consoleNet' \in [ConsoleSlot -> Console!Message]
  BY ConsoleMessages, ConsoleNetIs DEF Console!Load, Console!Login
<1>2. session' \in BOOLEAN /\ consoleShown' \in BOOLEAN
  BY DEF Console!Load, Console!Login, Console!IInv, Console!TypeOK
<1>3. UNCHANGED <<Console!page, Console!talk>>
  BY DEF Console!Load, Console!Login
<1> QED
  BY <1>1, <1>2, <1>3, ConsoleNetInv

\* The server answers.
LEMMA ConsoleServeInv ==
  ASSUME Console!IInv, NEW s \in ConsoleSlot,
         Console!ServePatch(s) \/ Console!Limited(s) \/ Console!Lost(s)
           \/ \E list \in Console!Lists : Console!ServeList(s, list)
  PROVE  Console!IInv'
<1>1. \E m \in Console!Message : consoleNet' = [consoleNet EXCEPT ![s] = m]
  <2>1. CASE Console!ServePatch(s)
    <3> DEFINE k ==
                 IF ~session THEN "refused" ELSE IF consoleNet[s].token THEN "done" ELSE "error"
    <3>1. k \in {"list", "done", "error", "refused"}
      OBVIOUS
    <3>2. consoleNet' = [consoleNet EXCEPT ![s] = [kind |-> k]]
      BY <2>1 DEF Console!ServePatch
    <3> HIDE DEF k
    <3> QED
      BY <3>1, <3>2, ConsoleMessages
  <2>2. CASE Console!Limited(s)
    BY <2>2, ConsoleMessages DEF Console!Limited
  <2>3. CASE Console!Lost(s)
    BY <2>3, ConsoleMessages DEF Console!Lost
  <2>4. ASSUME NEW list \in Console!Lists, Console!ServeList(s, list)
        PROVE  \E m \in Console!Message : consoleNet' = [consoleNet EXCEPT ![s] = m]
    <3>1. CASE session
      BY <2>4, <3>1, ConsoleMessages DEF Console!ServeList
    <3>2. CASE ~session
      BY <2>4, <3>2, ConsoleMessages DEF Console!ServeList
    <3> QED
      BY <3>1, <3>2
  <2> QED
    BY <2>1, <2>2, <2>3, <2>4
<1>2. consoleNet' \in [ConsoleSlot -> Console!Message]
  BY <1>1, ConsoleNetIs
<1>3. session' \in BOOLEAN /\ consoleShown' \in BOOLEAN
  BY DEF Console!ServePatch, Console!Limited, Console!Lost, Console!ServeList, Console!IInv,
         Console!TypeOK
<1>4. UNCHANGED <<Console!page, Console!talk>>
  BY DEF Console!ServePatch, Console!Limited, Console!Lost, Console!ServeList
<1> QED
  BY <1>2, <1>3, <1>4, ConsoleNetInv

\* The page is reset.
LEMMA ConsoleResetInv ==
  ASSUME Console!IInv, Console!Reset, UNCHANGED Console!talk, session' \in BOOLEAN,
         consoleNet' \in [ConsoleSlot -> Console!Message]
  PROVE  Console!IInv'
<1>1. /\ users' \in Console!Lists /\ consoleRows' \subseteq User /\ selected' = {}
      /\ leftover' = {}
  BY ConsoleNobodyIs DEF Console!Reset, Console!IInv, Console!TypeOK
<1>2. consoleShown' \in BOOLEAN
  BY DEF Console!Reset
<1> QED
  BY <1>1, <1>2, ConsoleQuietInv

\* An answer arrives.
LEMMA ConsoleArriveInv ==
  ASSUME Console!IInv, NEW s \in ConsoleSlot, Console!Arrive(s)
  PROVE  Console!IInv'
<1>1. consoleNet' \in [ConsoleSlot -> Console!Message]
  BY ConsoleMessages, ConsoleNetIs DEF Console!Arrive
<1>2. UNCHANGED Console!talk /\ session' \in BOOLEAN
  BY DEF Console!Arrive, Console!IInv, Console!TypeOK
<1>3. CASE consoleNet[s].kind = "refused" /\ Console!Reset
  BY <1>1, <1>2, <1>3, ConsoleResetInv
<1>4. CASE UNCHANGED <<consoleShown, Console!page>>
  <2>1. consoleShown' \in BOOLEAN
    BY <1>4 DEF Console!IInv, Console!TypeOK
  <2> QED
    BY <1>1, <1>2, <1>4, <2>1, ConsoleNetInv
<1>5. CASE /\ consoleNet[s].kind = "rows" /\ Console!Loaded(consoleNet[s].list)
           /\ UNCHANGED consoleShown
  <2>1. consoleNet[s].list \in Console!Lists
    BY <1>5 DEF Console!IInv, Console!TypeOK, Console!Message, Console!Free
  <2> DEFINE list == consoleNet[s].list
  <2>2. DOMAIN list \subseteq User
    BY <2>1, ConsoleListIs
  <2>3. /\ users' = list /\ consoleRows' = DOMAIN list /\ selected' = selected \cap DOMAIN list
        /\ leftover' = {}
    BY <1>5 DEF Console!Loaded
  <2>4. consoleShown' \in BOOLEAN
    BY <1>5 DEF Console!IInv, Console!TypeOK
  <2> HIDE DEF list
  <2>5. users' \in Console!Lists
    BY <2>1, <2>3 DEF list
  <2>6. selected' \subseteq User /\ selected' \subseteq DOMAIN users' \cup leftover'
    BY <2>2, <2>3
  <2> QED
    BY <1>1, <1>2, <2>2, <2>3, <2>4, <2>5, <2>6, ConsoleQuietInv
<1> QED
  BY <1>3, <1>4, <1>5 DEF Console!Arrive

\* Every step.
LEMMA ConsoleNextInv ==
  ASSUME Console!IInv, [Console!Next]_(Console!vars)
  PROVE  Console!IInv'
<1>1. ASSUME NEW u \in User, Console!AskOne(u) PROVE Console!IInv'
  <2>1. {u} \in Console!Names
    <3>1. {u} # {} /\ {u} \in SUBSET User
      OBVIOUS
    <3> QED
      BY <3>1 DEF Console!Names
  <2>2. (~users[u]) \in BOOLEAN
    BY Zenon
  <2>3. /\ Console!OpenDialog({u}, ~users[u])
        /\ UNCHANGED <<session, consoleShown, Console!page, consoleNet>>
    BY <1>1 DEF Console!AskOne
  <2> QED
    BY <2>1, <2>2, <2>3, ConsoleOpenDialogInv
<1>2. ASSUME NEW b \in BOOLEAN, Console!AskBatch(b) PROVE Console!IInv'
  <2>1. selected \in Console!Names
    <3>1. selected # {} /\ selected \in SUBSET User
      BY <1>2 DEF Console!AskBatch, Console!IInv, Console!TypeOK
    <3> QED
      BY <3>1 DEF Console!Names
  <2>2. /\ Console!OpenDialog(selected, b)
        /\ UNCHANGED <<session, consoleShown, Console!page, consoleNet>>
    BY <1>2 DEF Console!AskBatch
  <2> QED
    BY <2>1, <2>2, ConsoleOpenDialogInv
<1>3. CASE Console!Logout
  <2>1. /\ Console!Reset /\ UNCHANGED Console!talk /\ session' \in BOOLEAN
        /\ consoleNet' \in [ConsoleSlot -> Console!Message]
    BY <1>3 DEF Console!Logout, Console!IInv, Console!TypeOK
  <2> QED
    BY <2>1, ConsoleResetInv
<1>4. CASE Console!Expire
  <2>1. /\ UNCHANGED <<Console!page, Console!talk>> /\ session' \in BOOLEAN
        /\ consoleShown' \in BOOLEAN
        /\ consoleNet' \in [ConsoleSlot -> Console!Message]
    BY <1>4 DEF Console!Expire, Console!IInv, Console!TypeOK
  <2> QED
    BY <2>1, ConsoleNetInv
<1>5. CASE UNCHANGED Console!vars
  <2>1. /\ UNCHANGED <<Console!page, Console!talk>> /\ session' \in BOOLEAN
        /\ consoleShown' \in BOOLEAN
        /\ consoleNet' \in [ConsoleSlot -> Console!Message]
    BY <1>5 DEF Console!vars, Console!IInv, Console!TypeOK, Console!page, Console!talk
  <2> QED
    BY <2>1, ConsoleNetInv
<1> QED
  BY <1>1, <1>2, <1>3, <1>4, <1>5, ConsoleTickInv, ConsoleTickAllInv, ConsoleCancelInv,
     ConsoleConfirmInv, ConsoleLoadInv, ConsoleServeInv,
     ConsoleArriveInv DEF Console!Next

\* The first state.
LEMMA ConsoleInitInv == Console!Init => Console!IInv
<1> SUFFICES ASSUME Console!Init PROVE Console!IInv
  OBVIOUS
<1>1. consoleNet \in [ConsoleSlot -> Console!Message]
  BY ConsoleMessages DEF Console!Init
<1>2. Console!TypeOK
  <2>1. asks = <<>> /\ dialog \in 0..Len(asks)
    BY DEF Console!Init
  <2>2. asks \in Seq(ConsoleAsk)
    BY <2>1
  <2>3. session \in BOOLEAN /\ consoleShown \in BOOLEAN
    BY DEF Console!Init
  <2>4. /\ users \in Console!Lists /\ consoleRows \subseteq User /\ selected \subseteq User
        /\ leftover \subseteq User
    BY ConsoleNobodyIs DEF Console!Init
  <2> QED
    BY <1>1, <2>1, <2>2, <2>3, <2>4 DEF Console!TypeOK, ConsoleAsk
<1>3. Console!NobodyWaits /\ Console!SentAsConfirmed /\ Console!SelectionListed
  BY DEF Console!Init, Console!NobodyWaits, Console!SentAsConfirmed, Console!SelectionListed
<1> QED
  BY <1>2, <1>3 DEF Console!IInv

\* The invariant of the page.
LEMMA ConsoleInvariance == Console!Spec => []Console!IInv
  BY ConsoleInitInv, ConsoleNextInv, PTL DEF Console!Spec

-----------------------------------------------------------------------------
(* The audit log.                                                          *)

(* Sequences of whatever they hold.                                        *)

\* A set of numbers has a least one.
LEMMA LeastOf ==
  ASSUME NEW S \in SUBSET Nat, S # {}
  PROVE  \E x \in S : \A y \in S : x <= y
<1>1. IsWellFoundedOn({s \in Nat \X Nat : s[1] < s[2]}, Nat)
  BY NatLessThanWellFounded DEF OpToRel
<1>2. PICK x \in S : \A y \in S : ~(<<y, x>> \in {s \in Nat \X Nat : s[1] < s[2]})
  BY <1>1, WFMin
<1>3. \A y \in S : <<y, x>> \in Nat \X Nat /\ ~(y < x)
  BY <1>2
<1>4. ASSUME NEW y \in S PROVE x <= y
  <2>1. x \in Nat /\ y \in Nat
    OBVIOUS
  <2>2. ~(y < x)
    BY <1>3
  <2> QED
    BY <2>1, <2>2
<1> QED
  BY <1>4

\* A sequence of whatever it holds.
LEMMA AuditSeqIs ==
  ASSUME NEW s, Audit!IsSeq(s)
  PROVE  Len(s) \in Nat /\ DOMAIN s = 1..Len(s) /\ (s = <<>> <=> Len(s) = 0)
<1>1. s \in Seq(Audit!ToSet(s))
  BY DEF Audit!IsSeq
<1> QED
  BY <1>1, LenProperties, EmptySeq

\* A function on the first numbers is a sequence.
LEMMA AuditSeqFrom ==
  ASSUME NEW n \in Nat, NEW s, s = [i \in 1..n |-> s[i]]
  PROVE  Audit!IsSeq(s) /\ Len(s) = n /\ DOMAIN s = 1..n
<1>1. DOMAIN s = 1..n
  OBVIOUS
<1>2. s \in [1..n -> Audit!ToSet(s)]
  BY <1>1 DEF Audit!ToSet
<1> QED
  BY <1>1, <1>2 DEF Audit!IsSeq

\* The same, by where its values are.
LEMMA AuditSeqIn ==
  ASSUME NEW n \in Nat, NEW X, NEW s \in [1..n -> X]
  PROVE  Audit!IsSeq(s) /\ Len(s) = n /\ DOMAIN s = 1..n
<1>1. s = [i \in 1..n |-> s[i]]
  OBVIOUS
<1> QED
  BY <1>1, AuditSeqFrom

\* The sequence t is s and e after it.
AuditLonger(t, s, e) ==
  /\ Audit!IsSeq(t) /\ Len(t) = Len(s) + 1 /\ DOMAIN t = 1..Len(s) + 1
  /\ \A i \in 1..Len(s) : t[i] = s[i]
  /\ t[Len(s) + 1] = e

\* One more at the end.
LEMMA AuditAppendIs ==
  ASSUME NEW s, Audit!IsSeq(s), NEW e, NEW t, t = Append(s, e)
  PROVE  AuditLonger(t, s, e)
<1>1. s \in Seq(Audit!ToSet(s)) /\ Len(s) \in Nat
  BY AuditSeqIs DEF Audit!IsSeq
<1> DEFINE X == Audit!ToSet(s) \cup {e}
<1>2. s \in Seq(X)
  BY <1>1
<1>3. t \in Seq(X) /\ Len(t) = Len(s) + 1 /\ t[Len(s) + 1] = e /\ \A i \in 1..Len(s) : t[i] = s[i]
  BY <1>2, AppendProperties
<1>4. DOMAIN t = 1..Len(s) + 1
  BY <1>3, LenProperties
<1>5. t \in [1..Len(s) + 1 -> X]
  BY <1>3, LenProperties
<1>6. Len(s) + 1 \in Nat
  BY <1>1
<1>7. Audit!IsSeq(t)
  BY <1>5, <1>6, AuditSeqIn
<1> QED
  BY <1>3, <1>4, <1>7 DEF AuditLonger

\* One less at the end.
LEMMA AuditFrontIs ==
  ASSUME NEW s, Audit!IsSeq(s), s # <<>>
  PROVE  /\ Audit!IsSeq(Audit!Front(s)) /\ Len(Audit!Front(s)) = Len(s) - 1
         /\ \A i \in 1..Len(s) - 1 : Audit!Front(s)[i] = s[i]
<1>1. s \in Seq(Audit!ToSet(s)) /\ Len(s) \in Nat \ {0}
  BY AuditSeqIs DEF Audit!IsSeq
<1> DEFINE f == SubSeq(s, 1, Len(s) - 1)
<1>2. f = [i \in 1..Len(s) - 1 |-> s[i]]
  BY <1>1
<1>3. f = [i \in 1..Len(s) - 1 |-> f[i]]
  BY <1>2
<1>4. Len(s) - 1 \in Nat
  BY <1>1
<1>5. Audit!IsSeq(f) /\ Len(f) = Len(s) - 1
  BY <1>3, <1>4, AuditSeqFrom
<1>6. Audit!Front(s) = f
  BY DEF Audit!Front
<1> QED
  BY <1>2, <1>5, <1>6

\* One less at a place.
LEMMA AuditRemoveIs ==
  ASSUME NEW s, Audit!IsSeq(s), NEW r \in 1..Len(s), NEW t, t = Audit!RemoveAt(s, r)
  PROVE  /\ Audit!IsSeq(t) /\ Len(t) = Len(s) - 1 /\ DOMAIN t = 1..Len(s) - 1
         /\ \A i \in 1..Len(s) - 1 : t[i] = s[IF i < r THEN i ELSE i + 1]
<1>1. s \in Seq(Audit!ToSet(s)) /\ Len(s) \in Nat
  BY AuditSeqIs DEF Audit!IsSeq
<1> DEFINE n == Len(s)
           a == SubSeq(s, 1, r - 1)
           b == SubSeq(s, r + 1, n)
<1>2. a \in Seq(Audit!ToSet(s)) /\ Len(a) = r - 1 /\ \A i \in 1..r - 1 : a[i] = s[i]
  BY <1>1
<1>3. b \in Seq(Audit!ToSet(s)) /\ Len(b) = n - r /\ \A i \in 1..n - r : b[i] = s[r + i]
  BY <1>1
<1>4. t = a \o b
  BY DEF Audit!RemoveAt
<1> HIDE DEF a, b
<1>p. PICK X : X = Audit!ToSet(s)
  OBVIOUS
<1>q. a \in Seq(X) /\ b \in Seq(X)
  BY <1>2, <1>3, <1>p
<1>r. /\ a \o b \in Seq(X) /\ Len(a \o b) = Len(a) + Len(b)
      /\ \A i \in 1..Len(a) + Len(b) :
           (a \o b)[i] = IF i <= Len(a) THEN a[i] ELSE b[i - Len(a)]
  BY <1>q, ConcatProperties
<1>5. /\ t \in Seq(Audit!ToSet(s)) /\ Len(t) = Len(a) + Len(b)
      /\ \A i \in 1..Len(a) + Len(b) : t[i] = IF i <= Len(a) THEN a[i] ELSE b[i - Len(a)]
  BY <1>4, <1>p, <1>r
<1>6. Len(a) + Len(b) = n - 1 /\ n - 1 \in Nat
  BY <1>1, <1>2, <1>3
<1>7. ASSUME NEW i \in 1..n - 1 PROVE t[i] = s[IF i < r THEN i ELSE i + 1]
  <2>1. t[i] = IF i <= r - 1 THEN a[i] ELSE b[i - (r - 1)]
    BY <1>2, <1>5, <1>6
  <2>2. CASE i < r
    <3>1. i <= r - 1 /\ i \in 1..r - 1
      BY <1>1, <2>2
    <3> QED
      BY <1>2, <2>1, <2>2, <3>1
  <2>3. CASE ~(i < r)
    <3>1. ~(i <= r - 1) /\ i - (r - 1) \in 1..n - r /\ r + (i - (r - 1)) = i + 1
      BY <1>1, <2>3
    <3>2. b[i - (r - 1)] = s[r + (i - (r - 1))]
      BY <1>3, <3>1
    <3> QED
      BY <2>1, <2>3, <3>1, <3>2
  <2> QED
    BY <2>2, <2>3
<1>8. DOMAIN t = 1..n - 1 /\ Len(t) = n - 1 /\ t \in [1..n - 1 -> Audit!ToSet(s)]
  BY <1>5, <1>6, LenProperties
<1>10. Audit!IsSeq(t)
  BY <1>6, <1>8, AuditSeqIn
<1> QED
  BY <1>7, <1>8, <1>10

-----------------------------------------------------------------------------
(* Entries and lines.                                                      *)

\* No key is the one of the old hashes.
LEMMA AuditKeysAre ==
  ASSUME Audit!AuditAssumption
  PROVE  Audit!Sha \notin Audit!Keys /\ \A p \in AuditPassword : p # Audit!NoKey /\ p # Audit!Sha
  BY DEF Audit!AuditAssumption, Audit!Keys, Audit!Sha, Audit!NoKey, Audit!Blank, Audit!Short

\* An entry, field by field.
LEMMA AuditEntryIs ==
  ASSUME NEW p, NEW i, NEW k, NEW e, e = Audit!Entry(p, i, k)
  PROVE  /\ e.id = i /\ e.key = k /\ e.prev = p /\ e.hash = <<p, i, k>>
         /\ Audit!Intact(e) /\ Audit!Number(e) = i /\ e.hash # Audit!Genesis
         /\ e = Audit!Entry(e.prev, e.id, e.key)
  BY DEF Audit!Entry, Audit!Hash, Audit!Intact, Audit!Number, Audit!Genesis

\* An entry whose line was changed: its hash does not match any more.
LEMMA AuditChangedIs ==
  ASSUME NEW p, NEW i \in Nat \ {0}, NEW k, NEW e, e = Audit!Entry(p, i, k)
  PROVE  /\ ~Audit!Intact(Audit!Changed(e))
         /\ Audit!Changed(Audit!Changed(e)) = Audit!Changed(e)
         /\ Audit!Number(Audit!Changed(e)) = i
         /\ Audit!Changed(e).key = k /\ Audit!Changed(e) # Audit!Garbage
         /\ Audit!Changed(e).hash # Audit!Genesis
         /\ [e EXCEPT !.id = 0] = Audit!Changed(e)
         /\ [Audit!Changed(e) EXCEPT !.id = 0] = Audit!Changed(e)
<1>1. /\ e.id = i /\ e.key = k /\ e.prev = p /\ e.hash = <<p, i, k>>
      /\ e = [id |-> i, key |-> k, prev |-> p, hash |-> <<p, i, k>>]
  BY DEF Audit!Entry, Audit!Hash
<1> DEFINE c == [id |-> 0, key |-> k, prev |-> p, hash |-> <<p, i, k>>]
<1>2. Audit!Changed(e) = c
  BY <1>1 DEF Audit!Changed
<1>3. Audit!Changed(c) = c /\ c.id = 0 /\ c.key = k /\ c.prev = p /\ c.hash = <<p, i, k>>
  BY DEF Audit!Changed
<1>4. c.hash # Audit!Genesis
  BY <1>3 DEF Audit!Genesis
<1>5. ~Audit!Intact(c)
  <2>1. SUFFICES ASSUME <<p, i, k>> = <<p, 0, k>> PROVE FALSE
    BY <1>3 DEF Audit!Intact, Audit!Hash
  <2>2. <<p, i, k>>[2] = <<p, 0, k>>[2]
    BY <2>1
  <2> QED
    BY <2>2
<1>6. Audit!Number(c) = i
  BY <1>3 DEF Audit!Number
<1>7. c # Audit!Garbage
  BY <1>3, <1>4 DEF Audit!Garbage
<1>8. [e EXCEPT !.id = 0] = c
  BY <1>1
<1>9. [c EXCEPT !.id = 0] = c
  OBVIOUS
<1> HIDE DEF c
<1> QED
  BY <1>2, <1>3, <1>4, <1>5, <1>6, <1>7, <1>8, <1>9

\* A piece of a line does not verify.
LEMMA AuditGarbageIs ==
  /\ ~Audit!Intact(Audit!Garbage) /\ Audit!Changed(Audit!Garbage) = Audit!Garbage
  /\ [Audit!Garbage EXCEPT !.id = 0] = Audit!Garbage
  BY DEF Audit!Garbage, Audit!Intact, Audit!Changed, Audit!Hash, Audit!Genesis

\* What was written, by its place.
LEMMA AuditWrittenIs ==
  ASSUME Audit!TypeOK, Audit!FileTypes, NEW j \in DOMAIN written
  PROVE  /\ written[j] = Audit!Entry(written[j].prev, written[j].id, written[j].key)
         /\ written[j].id \in Nat \ {0} /\ written[j].id < next
         /\ written[j].key \in (Audit!Keys \ {Audit!NoKey}) \cup {Audit!Sha}
         /\ Audit!Intact(written[j]) /\ Audit!Number(written[j]) = written[j].id
         /\ written[j].hash # Audit!Genesis /\ written[j] # Audit!Garbage
         /\ j \in Nat \ {0}
         /\ \A k \in DOMAIN written : /\ j < k => written[j].id < written[k].id
                                      /\ written[j].id = written[k].id => j = k
                                      /\ written[j].hash = written[k].hash => j = k
<1>1. Audit!IsEntry(written[j]) /\ next \in Nat
  BY DEF Audit!FileTypes, Audit!TypeOK
<1>2. written[j] = Audit!Entry(written[j].prev, written[j].id, written[j].key)
  BY <1>1 DEF Audit!IsEntry
<1>3. /\ Audit!Intact(written[j]) /\ Audit!Number(written[j]) = written[j].id
      /\ written[j].hash # Audit!Genesis
  BY <1>2, AuditEntryIs
<1>4. written[j] # Audit!Garbage
  BY <1>3, AuditGarbageIs
<1>5. DOMAIN written = 1..Len(written) /\ Len(written) \in Nat
  BY AuditSeqIs DEF Audit!FileTypes
<1>6. ASSUME NEW k \in DOMAIN written
      PROVE  /\ j < k => written[j].id < written[k].id
             /\ written[j].id = written[k].id => j = k
             /\ written[j].hash = written[k].hash => j = k
  <2>1. /\ j < k => written[j].id < written[k].id
        /\ k < j => written[k].id < written[j].id
    BY DEF Audit!FileTypes
  <2>2. Audit!IsEntry(written[k])
    BY DEF Audit!FileTypes
  <2>3. written[j].id \in Nat /\ written[k].id \in Nat
    BY <1>1, <2>2 DEF Audit!IsEntry
  <2>4. written[j].id = written[k].id => j = k
    BY <1>5, <2>1, <2>3
  <2>5. written[j].hash = <<written[j].prev, written[j].id, written[j].key>>
    BY <1>2, AuditEntryIs
  <2>6. written[k] = Audit!Entry(written[k].prev, written[k].id, written[k].key)
    BY <2>2 DEF Audit!IsEntry
  <2>7. written[k].hash = <<written[k].prev, written[k].id, written[k].key>>
    BY <2>6, AuditEntryIs
  <2> QED
    BY <2>1, <2>4, <2>5, <2>7
<1>7. written[j].id \in Nat \ {0} /\ written[j].id < next
  BY <1>1 DEF Audit!IsEntry
<1> QED
  BY <1>1, <1>2, <1>3, <1>4, <1>5, <1>6, <1>7 DEF Audit!IsEntry

\* A line of the file: garbage, or with the number of an entry that was written.
LEMMA AuditLineIs ==
  ASSUME Audit!TypeOK, Audit!FileTypes, NEW i \in DOMAIN lines
  PROVE  /\ i \in Nat \ {0}
         /\ Audit!Changed(Audit!Changed(lines[i])) = Audit!Changed(lines[i])
         /\ ~Audit!Intact(Audit!Changed(lines[i]))
         /\ [lines[i] EXCEPT !.id = 0] = Audit!Changed(lines[i])
         /\ lines[i] # Audit!Garbage =>
              /\ Audit!Changed(lines[i]) # Audit!Garbage
              /\ Audit!Number(Audit!Changed(lines[i])) = Audit!Number(lines[i])
              /\ lines[i].hash # Audit!Genesis
              /\ lines[i].key \in (Audit!Keys \ {Audit!NoKey}) \cup {Audit!Sha}
              /\ \E j \in DOMAIN written : /\ lines[i] \in {written[j], Audit!Changed(written[j])}
                                           /\ Audit!Number(lines[i]) = written[j].id
                                           /\ Audit!Changed(lines[i]) = Audit!Changed(written[j])
                                           /\ Audit!Intact(lines[i]) => lines[i] = written[j]
<1>1. DOMAIN lines = 1..Len(lines) /\ Len(lines) \in Nat
  BY AuditSeqIs DEF Audit!FileTypes
<1>2. CASE lines[i] = Audit!Garbage
  BY <1>1, <1>2, AuditGarbageIs
<1>3. CASE lines[i] # Audit!Garbage
  <2>1. PICK j \in DOMAIN written : lines[i] \in {written[j], Audit!Changed(written[j])}
    BY <1>3 DEF Audit!FileTypes
  <2>2. PICK w : w = written[j]
    OBVIOUS
  <2>3. /\ w = Audit!Entry(w.prev, w.id, w.key) /\ w.id \in Nat \ {0} /\ Audit!Number(w) = w.id
        /\ Audit!Intact(w)
        /\ w.hash # Audit!Genesis /\ w.key \in (Audit!Keys \ {Audit!NoKey}) \cup {Audit!Sha}
    BY <2>2, AuditWrittenIs
  <2>4. /\ ~Audit!Intact(Audit!Changed(w)) /\ Audit!Changed(Audit!Changed(w)) = Audit!Changed(w)
        /\ Audit!Number(Audit!Changed(w)) = w.id
        /\ Audit!Changed(w).key = w.key /\ Audit!Changed(w) # Audit!Garbage
        /\ Audit!Changed(w).hash # Audit!Genesis
        /\ [w EXCEPT !.id = 0] = Audit!Changed(w)
        /\ [Audit!Changed(w) EXCEPT !.id = 0] = Audit!Changed(w)
    BY <2>3, AuditChangedIs
  <2>5. CASE lines[i] = w
    BY <1>1, <2>2, <2>3, <2>4, <2>5
  <2>6. CASE lines[i] = Audit!Changed(w)
    BY <1>1, <2>2, <2>3, <2>4, <2>6
  <2> QED
    BY <2>1, <2>2, <2>5, <2>6
<1> QED
  BY <1>2, <1>3

\* A line that verifies is one that was written.
LEMMA AuditIntactIs ==
  ASSUME Audit!TypeOK, Audit!FileTypes, NEW i \in DOMAIN lines, Audit!Intact(lines[i])
  PROVE  lines[i] # Audit!Garbage /\ \E j \in DOMAIN written : lines[i] = written[j]
<1>1. lines[i] # Audit!Garbage
  BY AuditGarbageIs
<1> QED
  BY <1>1, AuditLineIs

\* Lines are told apart by their numbers, and in the order of these.
LEMMA AuditNumbersTell ==
  ASSUME Audit!TypeOK, Audit!FileTypes, NEW i \in DOMAIN lines, NEW k \in DOMAIN lines,
         lines[i] # Audit!Garbage, lines[k] # Audit!Garbage
  PROVE  /\ Audit!Number(lines[i]) \in Nat /\ Audit!Number(lines[k]) \in Nat
         /\ Audit!Number(lines[i]) = Audit!Number(lines[k]) => i = k
         /\ i < k <=> Audit!Number(lines[i]) < Audit!Number(lines[k])
<1>1. i \in Nat /\ k \in Nat /\ Audit!Number(lines[i]) \in Nat /\ Audit!Number(lines[k]) \in Nat
  <2>1. PICK j \in DOMAIN written : Audit!Number(lines[i]) = written[j].id
    BY AuditLineIs
  <2>2. PICK l \in DOMAIN written : Audit!Number(lines[k]) = written[l].id
    BY AuditLineIs
  <2>3. written[j].id \in Nat /\ written[l].id \in Nat
    BY AuditWrittenIs
  <2>4. i \in Nat /\ k \in Nat
    BY AuditLineIs
  <2> QED
    BY <2>1, <2>2, <2>3, <2>4
<1>2. Audit!Garbage \notin {lines[i], lines[k]}
  OBVIOUS
<1>3. (i < k => Audit!Number(lines[i]) < Audit!Number(lines[k])) /\ (k < i =>
         Audit!Number(lines[k]) < Audit!Number(lines[i]))
  BY <1>2 DEF Audit!FileTypes
<1> QED
  BY <1>1, <1>3

\* A line that verifies is told by its hash.
LEMMA AuditHashTells ==
  Audit!TypeOK /\ Audit!FileTypes =>
    \A i \in DOMAIN lines, j \in DOMAIN written :
      Audit!Intact(lines[i]) /\ lines[i].hash = written[j].hash => lines[i] = written[j]
<1> SUFFICES ASSUME Audit!TypeOK, Audit!FileTypes, NEW i \in DOMAIN lines,
                    NEW j \in DOMAIN written,
                    Audit!Intact(lines[i]), lines[i].hash = written[j].hash
             PROVE  lines[i] = written[j]
  OBVIOUS
<1>1. PICK m \in DOMAIN written : lines[i] = written[m]
  BY AuditIntactIs
<1>2. written[m].hash = written[j].hash => m = j
  BY AuditWrittenIs
<1> QED
  BY <1>1, <1>2

-----------------------------------------------------------------------------
(* What was written, after a step.                                         *)

\* What was written stays, with the next entry after it or without.
LEMMA AuditWrittenStays ==
  ASSUME Audit!TypeOK, Audit!FileTypes, next' \in Nat,
         \/ written' = written /\ next <= next'
         \/ /\ written' = Append(written, Audit!Entry(last, next, key))
            /\ key \in Audit!Keys \ {Audit!NoKey} /\ next' = next + 1
  PROVE  /\ Audit!IsSeq(written')
         /\ (\A j \in DOMAIN written : Audit!IsEntry(written[j]))'
         /\ (\A j, k \in DOMAIN written : j < k => written[j].id < written[k].id)'
         /\ \A j \in DOMAIN written : j \in DOMAIN written' /\ written'[j] = written[j]
         /\ \A e : Audit!Follows(e) => Audit!Follows(e)'
<1>1. Audit!IsSeq(written) /\ DOMAIN written = 1..Len(written) /\ Len(written) \in Nat
  BY AuditSeqIs DEF Audit!FileTypes
<1>n. next \in Nat \ {0}
  BY DEF Audit!TypeOK
<1>2. ASSUME \A j \in DOMAIN written : j \in DOMAIN written' /\ written'[j] = written[j],
             NEW e, Audit!Follows(e)
      PROVE  Audit!Follows(e)'
  <2>1. PICK j \in DOMAIN written : /\ e = written[j]
                                    /\ e.prev = IF j = 1 THEN Audit!Genesis
                                         ELSE written[j - 1].hash
    BY <1>2 DEF Audit!Follows
  <2>2. j # 1 => j - 1 \in DOMAIN written
    BY <1>1
  <2>3. j \in DOMAIN written' /\ e = written'[j]
    BY <1>2, <2>1
  <2>4. e.prev = IF j = 1 THEN Audit!Genesis ELSE written'[j - 1].hash
    BY <1>2, <2>1, <2>2
  <2> QED
    BY <2>3, <2>4 DEF Audit!Follows
<1>5. Audit!Keys' = Audit!Keys
  BY DEF Audit!Keys
<1>3. CASE written' = written /\ next <= next'
  <2>1. ASSUME NEW j \in DOMAIN written PROVE Audit!IsEntry(written[j])'
    <3>1. Audit!IsEntry(written[j])
      BY DEF Audit!FileTypes
    <3>2. written[j].id \in 1..next' - 1
      <4>1. written[j].id \in 1..next - 1
        BY <3>1 DEF Audit!IsEntry
      <4>2. next <= next'
        BY <1>3
      <4> QED
        BY <1>n, <4>1, <4>2
    <3> QED
      BY <1>3, <1>5, <3>1, <3>2 DEF Audit!IsEntry
  <2> QED
    BY <1>1, <1>2, <1>3, <2>1 DEF Audit!FileTypes
<1>4. CASE /\ written' = Append(written, Audit!Entry(last, next, key))
           /\ key \in Audit!Keys \ {Audit!NoKey} /\ next' = next + 1
  <2>0. PICK e : e = Audit!Entry(last, next, key)
    OBVIOUS
  <2>z. PICK s, w : s = written /\ w = written'
    OBVIOUS
  <2>n. next' = next + 1
    BY <1>4
  <2>1. /\ Audit!IsSeq(written') /\ DOMAIN written' = 1..Len(written) + 1
        /\ \A i \in 1..Len(written) : written'[i] = written[i]
        /\ written'[Len(written) + 1] = e
    <3>2. Audit!IsSeq(s) /\ w = Append(s, e)
      BY <1>1, <1>4, <2>0, <2>z
    <3>3. /\ Audit!IsSeq(w) /\ Len(w) = Len(s) + 1 /\ DOMAIN w = 1..Len(s) + 1
          /\ \A i \in 1..Len(s) : w[i] = s[i]
          /\ w[Len(s) + 1] = e
      <4>1. AuditLonger(w, s, e)
        BY <3>2, AuditAppendIs
      <4> QED
        BY <4>1 DEF AuditLonger
    <3> QED
      BY <2>z, <3>3
  <2>2. e.id = next /\ e.key = key /\ e = Audit!Entry(e.prev, e.id, e.key)
    BY <2>0, AuditEntryIs
  <2>3. ASSUME NEW j \in DOMAIN written' PROVE Audit!IsEntry(written[j])'
    <3>1. CASE j \in DOMAIN written
      <4>1. Audit!IsEntry(written[j]) /\ written'[j] = written[j]
        BY <1>1, <2>1, <3>1 DEF Audit!FileTypes
      <4>2. written[j].id \in 1..next' - 1
        <5>1. written[j].id \in 1..next - 1
          BY <4>1 DEF Audit!IsEntry
        <5> QED
          BY <1>n, <2>n, <5>1
      <4> QED
        BY <1>5, <4>1, <4>2 DEF Audit!IsEntry
    <3>2. CASE j = Len(written) + 1
      <4>1. written'[j] = e
        BY <2>1, <3>2
      <4>2. next \in 1..next' - 1
        BY <1>n, <2>n
      <4> QED
        BY <1>4, <1>5, <2>2, <4>1, <4>2 DEF Audit!IsEntry
    <3> QED
      BY <1>1, <2>1, <3>1, <3>2
  <2>4. ASSUME NEW j \in DOMAIN written', NEW k \in DOMAIN written', j < k
        PROVE  written'[j].id < written'[k].id
    <3>1. j \in DOMAIN written /\ written'[j] = written[j] /\ Audit!IsEntry(written[j])
      BY <1>1, <2>1, <2>4 DEF Audit!FileTypes
    <3>2. CASE k \in DOMAIN written
      BY <1>1, <2>1, <2>4, <3>1, <3>2 DEF Audit!FileTypes
    <3>3. CASE k = Len(written) + 1
      <4>0. written'[k].id = next
        BY <2>1, <2>2, <3>3
      <4>2. written[j].id \in 1..next - 1
        BY <3>1 DEF Audit!IsEntry
      <4>1. written[j].id < next /\ written'[k].id = next
        BY <1>n, <4>0, <4>2
      <4> QED
        BY <3>1, <4>1
    <3> QED
      BY <1>1, <2>1, <3>2, <3>3
  <2>5. \A j \in DOMAIN written : j \in DOMAIN written' /\ written'[j] = written[j]
    BY <1>1, <2>1
  <2> QED
    BY <1>2, <2>1, <2>3, <2>4, <2>5
<1> QED
  BY <1>3, <1>4

-----------------------------------------------------------------------------
(* The file, after lines were lost, changed, or spoiled by a piece.        *)

\* The lines that are left, in their order, some of them changed or made garbage.
LEMMA AuditLinesThin ==
  ASSUME Audit!TypeOK, Audit!FileTypes, Audit!ChainsAreWritten, next' \in Nat,
         \/ written' = written /\ next <= next'
         \/ /\ written' = Append(written, Audit!Entry(last, next, key))
            /\ key \in Audit!Keys \ {Audit!NoKey} /\ next' = next + 1,
         Audit!IsSeq(lines'), Audit!IsSeq(entries'), tail' # "whole" => lines' # <<>>,
         NEW o,
         \A i \in DOMAIN lines' :
           lines'[i] = Audit!Garbage \/ (/\ o[i] \in DOMAIN lines
                                         /\ lines'[i]
                                              \in {lines[o[i]], Audit!Changed(lines[o[i]])}),
         \A i, k \in DOMAIN lines' :
           i < k /\ lines'[i] # Audit!Garbage /\ lines'[k] # Audit!Garbage => o[i] < o[k]
  PROVE  Audit!FileTypes' /\ Audit!ChainsAreWritten'
<1>1. /\ Audit!IsSeq(written')
      /\ (\A j \in DOMAIN written : Audit!IsEntry(written[j]))'
      /\ (\A j, k \in DOMAIN written : j < k => written[j].id < written[k].id)'
      /\ \A j \in DOMAIN written : j \in DOMAIN written' /\ written'[j] = written[j]
      /\ \A e : Audit!Follows(e) => Audit!Follows(e)'
  BY AuditWrittenStays
<1>2. ASSUME NEW i \in DOMAIN lines', lines'[i] # Audit!Garbage
      PROVE  /\ o[i] \in DOMAIN lines /\ lines[o[i]] # Audit!Garbage
             /\ Audit!Number(lines'[i]) = Audit!Number(lines[o[i]])
             /\ \E j \in DOMAIN written : lines'[i] \in {written[j], Audit!Changed(written[j])}
             /\ Audit!Intact(lines'[i]) => lines'[i] = lines[o[i]]
  <2>1. o[i] \in DOMAIN lines /\ lines'[i] \in {lines[o[i]], Audit!Changed(lines[o[i]])}
    BY <1>2
  <2>2. PICK m \in DOMAIN lines : m = o[i]
    BY <2>1
  <2>3. lines'[i] \in {lines[m], Audit!Changed(lines[m])}
    BY <2>1, <2>2
  <2>4. lines[m] # Audit!Garbage
    BY <1>2, <2>3, AuditGarbageIs
  <2>5. /\ Audit!Number(Audit!Changed(lines[m])) = Audit!Number(lines[m])
        /\ ~Audit!Intact(Audit!Changed(lines[m]))
    BY <2>4, AuditLineIs
  <2>6. \E j \in DOMAIN written : /\ lines[m] \in {written[j], Audit!Changed(written[j])}
                                  /\ Audit!Changed(lines[m]) = Audit!Changed(written[j])
    BY <2>4, AuditLineIs
  <2>7. Audit!Intact(lines'[i]) => lines'[i] = lines[m]
    BY <2>3, <2>5
  <2>8. Audit!Number(lines'[i]) = Audit!Number(lines[m])
    BY <2>3, <2>5
  <2>9. \E j \in DOMAIN written : lines'[i] \in {written[j], Audit!Changed(written[j])}
    BY <2>3, <2>6
  <2> QED
    BY <2>2, <2>4, <2>7, <2>8, <2>9
<1>3. Audit!FileTypes'
  <2>1. ASSUME NEW i \in DOMAIN lines'
        PROVE  \/ lines'[i] = Audit!Garbage
               \/ \E j \in DOMAIN written' :
                    lines'[i] \in {written'[j], Audit!Changed(written'[j])}
    <3>1. CASE lines'[i] # Audit!Garbage
      <4>1. PICK j \in DOMAIN written : lines'[i] \in {written[j], Audit!Changed(written[j])}
        BY <1>2, <3>1
      <4>2. j \in DOMAIN written' /\ written'[j] = written[j]
        BY <1>1
      <4> QED
        BY <4>1, <4>2
    <3> QED
      BY <3>1
  <2>2. ASSUME NEW i \in DOMAIN lines', NEW k \in DOMAIN lines', i < k,
               Audit!Garbage \notin {lines'[i], lines'[k]}
        PROVE  Audit!Number(lines'[i]) < Audit!Number(lines'[k])
    <3>1. lines'[i] # Audit!Garbage /\ lines'[k] # Audit!Garbage
      BY <2>2
    <3>2. o[i] < o[k]
      BY <2>2, <3>1
    <3>3. /\ o[i] \in DOMAIN lines /\ lines[o[i]] # Audit!Garbage
          /\ Audit!Number(lines'[i]) = Audit!Number(lines[o[i]])
      BY <1>2, <3>1
    <3>4. /\ o[k] \in DOMAIN lines /\ lines[o[k]] # Audit!Garbage
          /\ Audit!Number(lines'[k]) = Audit!Number(lines[o[k]])
      BY <1>2, <3>1
    <3>5. Audit!Garbage \notin {lines[o[i]], lines[o[k]]}
      BY <3>3, <3>4
    <3>6. Audit!Number(lines[o[i]]) < Audit!Number(lines[o[k]])
      BY <3>2, <3>3, <3>4, <3>5 DEF Audit!FileTypes
    <3> QED
      BY <3>3, <3>4, <3>6
  <2> QED
    BY <1>1, <2>1, <2>2 DEF Audit!FileTypes
<1>4. ASSUME NEW k \in Audit!Keys, NEW S \in SUBSET DOMAIN lines', Audit!Rooted(S, k)',
             NEW i \in S
      PROVE  Audit!Follows(lines[i])'
  <2> DEFINE T == {o[m] : m \in S}
  <2>1. ASSUME NEW m \in S
        PROVE  /\ Audit!Intact(lines'[m]) /\ lines'[m].key \in {k, Audit!Sha}
               /\ lines'[m].prev = Audit!Genesis \/ \E j \in S :
                    j < m /\ lines'[m].prev = lines'[j].hash
               /\ lines'[m] # Audit!Garbage /\ o[m] \in DOMAIN lines /\ lines'[m] = lines[o[m]]
    <3>1. /\ Audit!Intact(lines'[m]) /\ lines'[m].key \in {k, Audit!Sha}
          /\ lines'[m].prev = Audit!Genesis \/ \E j \in S :
               j < m /\ lines'[m].prev = lines'[j].hash
      BY <1>4 DEF Audit!Rooted, Audit!Intact
    <3>2. lines'[m] # Audit!Garbage
      BY <3>1, AuditGarbageIs
    <3> QED
      BY <1>2, <3>1, <3>2
  <2>2. T \in SUBSET DOMAIN lines
    BY <2>1
  <2>3. ASSUME NEW t \in T
        PROVE  /\ Audit!Intact(lines[t]) /\ lines[t].key \in {k, Audit!Sha}
               /\ lines[t].prev = Audit!Genesis \/ \E j \in T :
                    j < t /\ lines[t].prev = lines[j].hash
    <3>1. PICK m \in S : t = o[m]
      OBVIOUS
    <3>2. Audit!Intact(lines[t]) /\ lines[t].key \in {k, Audit!Sha}
      BY <2>1, <3>1
    <3>3. ASSUME NEW j \in S, j < m, lines'[m].prev = lines'[j].hash
          PROVE  \E l \in T : l < t /\ lines[t].prev = lines[l].hash
      <4>1. o[j] \in T /\ o[j] < o[m]
        BY <2>1, <3>3
      <4>2. lines[o[m]].prev = lines[o[j]].hash
        BY <2>1, <3>3
      <4> QED
        BY <3>1, <4>1, <4>2
    <3> QED
      BY <2>1, <3>1, <3>2, <3>3
  <2>4. Audit!Rooted(T, k)
    BY <2>3 DEF Audit!Rooted
  <2>5. o[i] \in T
    OBVIOUS
  <2> HIDE DEF T
  <2>6. Audit!Follows(lines[o[i]])
    BY <2>2, <2>4, <2>5 DEF Audit!ChainsAreWritten
  <2>7. PICK e : e = lines'[i]
    OBVIOUS
  <2>8. Audit!Follows(e)'
    BY <1>1, <2>1, <2>6, <2>7
  <2> QED
    BY <2>7, <2>8 DEF Audit!Follows
<1>5. Audit!Keys' = Audit!Keys
  BY DEF Audit!Keys
<1> QED
  BY <1>3, <1>4, <1>5 DEF Audit!ChainsAreWritten

-----------------------------------------------------------------------------
(* The file, after an entry was appended.                                  *)

\* The lines with the next entry after them.
LEMMA AuditLinesExtend ==
  ASSUME Audit!AuditAssumption, Audit!TypeOK, Audit!FileTypes, Audit!ChainsAreWritten,
         Audit!NextContinues,
         up, tail = "whole", key \in Audit!Keys \ {Audit!NoKey}, next' = next + 1,
         NEW e, e = Audit!Entry(last, next, key),
         AuditLonger(lines', lines, e), written' = Append(written, e), Audit!IsSeq(entries')
  PROVE  Audit!FileTypes' /\ Audit!ChainsAreWritten'
<1>1. DOMAIN lines = 1..Len(lines) /\ Len(lines) \in Nat
  BY AuditSeqIs DEF Audit!FileTypes
<1>2. Audit!IsSeq(written) /\ DOMAIN written = 1..Len(written) /\ Len(written) \in Nat
  BY AuditSeqIs DEF Audit!FileTypes
<1>3. next \in Nat
  BY DEF Audit!TypeOK
<1>4. /\ Audit!IsSeq(written')
      /\ (\A j \in DOMAIN written : Audit!IsEntry(written[j]))'
      /\ (\A j, k \in DOMAIN written : j < k => written[j].id < written[k].id)'
      /\ \A j \in DOMAIN written : j \in DOMAIN written' /\ written'[j] = written[j]
      /\ \A x : Audit!Follows(x) => Audit!Follows(x)'
  <2>1. next' \in Nat
    BY <1>3
  <2> QED
    BY <2>1, AuditWrittenStays
<1>5. /\ DOMAIN written' = 1..Len(written) + 1
      /\ written'[Len(written) + 1] = e
  <2>1. AuditLonger(Append(written, e), written, e)
    BY <1>2, AuditAppendIs
  <2> QED
    BY <2>1 DEF AuditLonger
<1>6. /\ Audit!IsSeq(lines') /\ DOMAIN lines' = 1..Len(lines) + 1
      /\ \A i \in DOMAIN lines : lines'[i] = lines[i]
      /\ lines'[Len(lines) + 1] = e
  BY <1>1 DEF AuditLonger
<1>7. /\ e.id = next /\ e.key = key /\ e.prev = last /\ Audit!Intact(e) /\ Audit!Number(e) = next
      /\ e.hash # Audit!Genesis
  BY AuditEntryIs
<1>8. ASSUME NEW i \in DOMAIN lines, lines[i] # Audit!Garbage
      PROVE  Audit!Number(lines[i]) \in Nat /\ Audit!Number(lines[i]) < next
  <2>1. PICK j \in DOMAIN written : Audit!Number(lines[i]) = written[j].id
    BY <1>8, AuditLineIs
  <2>2. written[j].id \in Nat /\ written[j].id < next
    BY AuditWrittenIs
  <2> QED
    BY <2>1, <2>2
<1>9. Audit!FileTypes'
  <2>1. ASSUME NEW i \in DOMAIN lines'
        PROVE  \/ lines'[i] = Audit!Garbage
               \/ \E j \in DOMAIN written' :
                    lines'[i] \in {written'[j], Audit!Changed(written'[j])}
    <3>1. CASE i \in DOMAIN lines
      <4>1. \/ lines[i] = Audit!Garbage
            \/ \E j \in DOMAIN written : lines[i] \in {written[j], Audit!Changed(written[j])}
        BY <3>1 DEF Audit!FileTypes
      <4> QED
        BY <1>4, <1>6, <3>1, <4>1
    <3>2. CASE i = Len(lines) + 1
      <4>1. Len(written) + 1 \in DOMAIN written'
        BY <1>2, <1>5
      <4>2. lines'[i] = written'[Len(written) + 1]
        BY <1>5, <1>6, <3>2
      <4> QED
        BY <4>1, <4>2
    <3> QED
      BY <1>1, <1>6, <3>1, <3>2
  <2>2. ASSUME NEW i \in DOMAIN lines', NEW k \in DOMAIN lines', i < k,
               Audit!Garbage \notin {lines'[i], lines'[k]}
        PROVE  Audit!Number(lines'[i]) < Audit!Number(lines'[k])
    <3>1. i \in DOMAIN lines /\ lines'[i] = lines[i] /\ lines[i] # Audit!Garbage
      BY <1>1, <1>6, <2>2
    <3>2. CASE k \in DOMAIN lines
      <4>1. lines'[k] = lines[k] /\ Audit!Garbage \notin {lines[i], lines[k]}
        BY <1>6, <2>2, <3>1, <3>2
      <4> QED
        BY <2>2, <3>1, <3>2, <4>1 DEF Audit!FileTypes
    <3>3. CASE k = Len(lines) + 1
      <4>1. lines'[k] = e
        BY <1>6, <3>3
      <4> QED
        BY <1>7, <1>8, <3>1, <4>1
    <3> QED
      BY <1>1, <1>6, <3>2, <3>3
  <2>3. lines' # <<>>
    <3>1. Len(lines) + 1 \in DOMAIN lines'
      BY <1>1, <1>6
    <3>2. DOMAIN <<>> = {}
      OBVIOUS
    <3> QED
      BY <3>1, <3>2
  <2> QED
    BY <1>4, <1>6, <2>1, <2>2, <2>3 DEF Audit!FileTypes
<1>10. ASSUME NEW k \in Audit!Keys, NEW S \in SUBSET DOMAIN lines', Audit!Rooted(S, k)',
              NEW i \in S
       PROVE  Audit!Follows(lines[i])'
  <2> DEFINE n == Len(lines) + 1
             T == S \ {n}
  <2>1. ASSUME NEW m \in S
        PROVE  /\ Audit!Intact(lines'[m]) /\ lines'[m].key \in {k, Audit!Sha}
               /\ lines'[m].prev = Audit!Genesis \/ \E j \in S :
                    j < m /\ lines'[m].prev = lines'[j].hash
    BY <1>10 DEF Audit!Rooted, Audit!Intact
  <2>2. \A m \in S : m \in 1..Len(lines) + 1
    BY <1>6
  <2>3. \A m \in S, j \in S : j < m => j \in DOMAIN lines
    BY <1>1, <2>2
  <2>4. \A m \in T : m \in DOMAIN lines /\ lines'[m] = lines[m]
    <3>1. ASSUME NEW m \in T PROVE m \in DOMAIN lines
      BY <1>1, <2>2
    <3> QED
      BY <1>6, <3>1
  <2>5. \A m \in S, j \in S : j < m => j \in T
    BY <1>1, <2>3
  <2>6. ASSUME NEW m \in T
        PROVE  /\ Audit!Intact(lines[m]) /\ lines[m].key \in {k, Audit!Sha}
               /\ lines[m].prev = Audit!Genesis \/ \E j \in T :
                    j < m /\ lines[m].prev = lines[j].hash
    <3>1. m \in S /\ lines'[m] = lines[m]
      BY <2>4
    <3>2. /\ Audit!Intact(lines[m]) /\ lines[m].key \in {k, Audit!Sha}
          /\ lines[m].prev = Audit!Genesis \/ \E j \in S : j < m /\ lines[m].prev = lines'[j].hash
      BY <2>1, <3>1
    <3>3. ASSUME NEW j \in S, j < m, lines[m].prev = lines'[j].hash
          PROVE  j \in T /\ lines[m].prev = lines[j].hash
      <4>1. j \in T
        BY <2>5, <3>1, <3>3
      <4> QED
        BY <2>4, <3>3, <4>1
    <3> QED
      BY <3>2, <3>3
  <2>7. Audit!Rooted(T, k) /\ T \in SUBSET DOMAIN lines
    <3>1. T \in SUBSET DOMAIN lines
      BY <2>4
    <3> HIDE DEF T
    <3> QED
      BY <2>6, <3>1 DEF Audit!Rooted
  <2>8. CASE i \in T
    <3>1. Audit!Follows(lines[i])
      BY <2>7, <2>8 DEF Audit!ChainsAreWritten
    <3>2. PICK x : x = lines[i]
      OBVIOUS
    <3>3. Audit!Follows(x)'
      BY <1>4, <3>1, <3>2
    <3>4. lines'[i] = x
      BY <2>4, <2>8, <3>2
    <3> QED
      BY <3>3, <3>4 DEF Audit!Follows
  <2>9. CASE i = n
    <3>1. lines'[i] = e
      BY <1>6, <2>9
    <3>2. k = key
      <4>1. key \in {k, Audit!Sha}
        BY <1>7, <2>1, <3>1
      <4>2. key # Audit!Sha
        BY AuditKeysAre
      <4> QED
        BY <4>1, <4>2
    <3>3. last = Audit!Genesis \/ \E j \in T : last = lines[j].hash
      <4>1. last = Audit!Genesis \/ \E j \in S : j < i /\ last = lines'[j].hash
        BY <1>7, <2>1, <3>1
      <4>2. ASSUME NEW j \in S, j < i, last = lines'[j].hash
            PROVE  j \in T /\ last = lines[j].hash
        <5>1. j \in T
          BY <2>5, <4>2
        <5> QED
          BY <2>4, <4>2, <5>1
      <4> QED
        BY <4>1, <4>2
    <3> HIDE DEF T, n
    <3>4. e.prev = IF Len(written) + 1 = 1 THEN Audit!Genesis
            ELSE written'[Len(written) + 1 - 1].hash
      <4>1. CASE last = Audit!Genesis
        <5>1. written = <<>>
          BY <4>1 DEF Audit!NextContinues
        <5>2. Len(written) = 0
          BY <1>2, <5>1, AuditSeqIs
        <5> QED
          BY <1>7, <4>1, <5>2
      <4>2. CASE \E j \in T : last = lines[j].hash
        <5>1. PICK j \in T : last = lines[j].hash
          BY <4>2
        <5>2. lines[j] = written[Len(written)]
          BY <2>7, <3>2, <5>1 DEF Audit!NextContinues
        <5>3. Audit!Intact(lines[j]) /\ j \in DOMAIN lines
          BY <2>6, <2>7
        <5>4. \E m \in DOMAIN written : lines[j] = written[m]
          BY <5>3, AuditIntactIs
        <5>5. Len(written) \in DOMAIN written /\ Len(written) + 1 # 1
              /\ Len(written) + 1 - 1 = Len(written)
          BY <1>2, <5>4
        <5>6. written'[Len(written)] = written[Len(written)]
          BY <1>4, <5>5
        <5> QED
          BY <1>7, <5>1, <5>2, <5>5, <5>6
      <4> QED
        BY <3>3, <4>1, <4>2
    <3>5. Len(written) + 1 \in DOMAIN written' /\ e = written'[Len(written) + 1]
      BY <1>2, <1>5
    <3>6. PICK c : c = Len(written) + 1
      OBVIOUS
    <3>7. /\ c \in DOMAIN written' /\ e = written'[c]
          /\ e.prev = IF c = 1 THEN Audit!Genesis ELSE written'[c - 1].hash
      BY <3>4, <3>5, <3>6
    <3>8. \E j \in DOMAIN written' : /\ e = written'[j]
                                     /\ e.prev = IF j = 1 THEN Audit!Genesis
                                          ELSE written'[j - 1].hash
      BY <3>7
    <3> QED
      BY <3>1, <3>8 DEF Audit!Follows
  <2> QED
    BY <2>8, <2>9
<1>11. Audit!Keys' = Audit!Keys
  BY DEF Audit!Keys
<1> QED
  BY <1>9, <1>10, <1>11 DEF Audit!ChainsAreWritten

-----------------------------------------------------------------------------
(* The chain of the file.                                                  *)

\* The hash before a line is that of the line before it.
LEMMA AuditHashBefore ==
  ASSUME NEW s, Audit!IsSeq(s)
  PROVE  /\ Audit!HashAfter(s) = IF s = <<>> THEN Audit!Genesis ELSE s[Len(s)].hash
         /\ \A i \in 1..Len(s) :
              Audit!HashAfter(SubSeq(s, 1, i - 1)) = IF i = 1 THEN Audit!Genesis
                ELSE s[i - 1].hash
<1>1. s \in Seq(Audit!ToSet(s)) /\ Len(s) \in Nat
  BY AuditSeqIs DEF Audit!IsSeq
<1>2. ASSUME NEW i \in 1..Len(s)
      PROVE  Audit!HashAfter(SubSeq(s, 1, i - 1)) = IF i = 1 THEN Audit!Genesis ELSE s[i - 1].hash
  <2> DEFINE f == SubSeq(s, 1, i - 1)
  <2>1. f \in Seq(Audit!ToSet(s)) /\ Len(f) = i - 1 /\ \A j \in 1..i - 1 : f[j] = s[j]
    BY <1>1
  <2>2. CASE i = 1
    <3>1. f = <<>>
      BY <2>1, <2>2, EmptySeq
    <3> QED
      BY <2>2, <3>1 DEF Audit!HashAfter
  <2>3. CASE i # 1
    <3>1. f # <<>> /\ Audit!Last(f) = s[i - 1]
      <4> HIDE DEF f
      <4>1. Len(f) = i - 1 /\ i - 1 \in 1..i - 1 /\ Len(<<>>) = 0
        BY <2>1, <2>3
      <4> QED
        BY <2>1, <4>1 DEF Audit!Last
    <3> HIDE DEF f
    <3>2. Audit!HashAfter(f) = s[i - 1].hash
      BY <3>1 DEF Audit!HashAfter
    <3> QED
      BY <2>3, <3>2 DEF f
  <2> QED
    BY <2>2, <2>3
<1>3. Audit!HashAfter(s) = IF s = <<>> THEN Audit!Genesis ELSE s[Len(s)].hash
  BY DEF Audit!HashAfter, Audit!Last
<1> QED
  BY <1>2, <1>3

\* Each line is chained to the one before it.
AuditChained(k) ==
  \A i \in DOMAIN lines :
    /\ Audit!Intact(lines[i]) /\ lines[i].key \in {k, Audit!Sha}
    /\ lines[i].prev = IF i = 1 THEN Audit!Genesis ELSE lines[i - 1].hash

\* verifyAdminAuditChain: the file verifies if each line is chained to the one before it.
LEMMA AuditVerifiesIs ==
  ASSUME Audit!FileTypes, NEW k
  PROVE  Audit!Verifies(k) <=> AuditChained(k)
<1>1. Audit!IsSeq(lines) /\ DOMAIN lines = 1..Len(lines)
  BY AuditSeqIs DEF Audit!FileTypes
<1>2. \A i \in 1..Len(lines) :
        Audit!HashAfter(SubSeq(lines, 1, i - 1)) = IF i = 1 THEN Audit!Genesis
          ELSE lines[i - 1].hash
  BY <1>1, AuditHashBefore
<1> QED
  BY <1>1, <1>2 DEF Audit!Verifies, AuditChained, Audit!Intact

\* A file that verifies has the beginning of what was written.
LEMMA AuditFileIsWritten ==
  ASSUME Audit!TypeOK, Audit!FileTypes, Audit!ChainsAreWritten, NEW k \in Audit!Keys,
         AuditChained(k)
  PROVE  \A i \in DOMAIN lines : i \in DOMAIN written /\ lines[i] = written[i]
<1>1. DOMAIN lines = 1..Len(lines) /\ Len(lines) \in Nat
  BY AuditSeqIs DEF Audit!FileTypes
<1>2. DOMAIN written = 1..Len(written) /\ Len(written) \in Nat
  BY AuditSeqIs DEF Audit!FileTypes
<1>3. Audit!Rooted(DOMAIN lines, k)
  <2>1. ASSUME NEW i \in DOMAIN lines
        PROVE  /\ Audit!Intact(lines[i]) /\ lines[i].key \in {k, Audit!Sha}
               /\ \/ lines[i].prev = Audit!Genesis
                  \/ \E j \in DOMAIN lines : j < i /\ lines[i].prev = lines[j].hash
    <3>1. /\ Audit!Intact(lines[i]) /\ lines[i].key \in {k, Audit!Sha}
          /\ lines[i].prev = IF i = 1 THEN Audit!Genesis ELSE lines[i - 1].hash
      BY DEF AuditChained
    <3>2. i # 1 => i - 1 \in DOMAIN lines /\ i - 1 < i
      BY <1>1
    <3> QED
      BY <3>1, <3>2
  <2> QED
    BY <2>1 DEF Audit!Rooted
<1>4. \A i \in DOMAIN lines : Audit!Follows(lines[i])
  BY <1>3 DEF Audit!ChainsAreWritten
<1> DEFINE D == {i \in DOMAIN lines : ~(i \in DOMAIN written /\ lines[i] = written[i])}
<1>5. SUFFICES ASSUME D # {} PROVE FALSE
  OBVIOUS
<1>6. D \in SUBSET Nat
  BY <1>1
<1>7. PICK i \in D : \A y \in D : i <= y
  <2> HIDE DEF D
  <2> QED
    BY <1>5, <1>6, LeastOf
<1>8. i \in DOMAIN lines
  OBVIOUS
<1>9. PICK j \in DOMAIN written : /\ lines[i] = written[j]
                                  /\ lines[i].prev = IF j = 1 THEN Audit!Genesis
                                       ELSE written[j - 1].hash
  BY <1>4, <1>8 DEF Audit!Follows
<1>10. j # i
  BY <1>9
<1>11. lines[i].prev = IF i = 1 THEN Audit!Genesis ELSE lines[i - 1].hash
  BY <1>8 DEF AuditChained
<1>12. j # 1 => j - 1 \in DOMAIN written /\ j \in Nat
  BY <1>2
<1>13. i # 1 => i - 1 \in DOMAIN lines /\ i - 1 \notin D /\ i \in Nat
  <2>1. i # 1 => i - 1 \in DOMAIN lines /\ i - 1 < i
    BY <1>1, <1>8
  <2> HIDE DEF D
  <2>2. i - 1 \in D => i <= i - 1
    BY <1>7
  <2> QED
    BY <1>1, <1>8, <2>1, <2>2
<1>14. i # 1 => i - 1 \in DOMAIN written /\ lines[i - 1] = written[i - 1]
  BY <1>13
<1> HIDE DEF D
<1>15. CASE i = 1
  <2>1. written[j - 1].hash # Audit!Genesis
    BY <1>10, <1>12, <1>15, AuditWrittenIs
  <2> QED
    BY <1>9, <1>10, <1>11, <1>15, <2>1
<1>16. CASE i # 1
  <2>1. i - 1 \in DOMAIN written /\ lines[i].prev = written[i - 1].hash
    BY <1>11, <1>14, <1>16
  <2>2. written[i - 1].hash # Audit!Genesis
    BY <2>1, AuditWrittenIs
  <2>3. j # 1 /\ written[j - 1].hash = written[i - 1].hash
    BY <1>9, <2>1, <2>2
  <2>4. j - 1 = i - 1
    BY <1>12, <2>1, <2>3, AuditWrittenIs
  <2>5. j \in Nat /\ i \in Nat
    BY <1>12, <1>13, <1>16, <2>3
  <2> QED
    BY <1>10, <2>4, <2>5
<1> QED
  BY <1>15, <1>16

\* A chain that verifies and holds the last line is the whole file.
LEMMA AuditChainIsFile ==
  ASSUME Audit!TypeOK, Audit!FileTypes, Audit!ChainsAreWritten, NEW k \in Audit!Keys,
         \A i \in DOMAIN lines : lines[i] # Audit!Garbage,
         NEW S \in SUBSET DOMAIN lines, Audit!Rooted(S, k), Len(lines) \in S
  PROVE  AuditChained(k)
<1>1. DOMAIN lines = 1..Len(lines) /\ Len(lines) \in Nat
  BY AuditSeqIs DEF Audit!FileTypes
<1>2. DOMAIN written = 1..Len(written) /\ Len(written) \in Nat
  BY AuditSeqIs DEF Audit!FileTypes
<1>3. \A i \in S : Audit!Follows(lines[i])
  BY DEF Audit!ChainsAreWritten
<1>4. ASSUME NEW i \in S
      PROVE  /\ Audit!Intact(lines[i]) /\ lines[i].key \in {k, Audit!Sha} /\ i \in DOMAIN lines
             /\ lines[i].prev = Audit!Genesis \/ \E j \in S :
                  j < i /\ lines[i].prev = lines[j].hash
  BY DEF Audit!Rooted
<1>5. PICK n : n = Len(lines)
  OBVIOUS
<1>6. PICK J \in DOMAIN written : lines[n] = written[J]
  BY <1>3, <1>5 DEF Audit!Follows
<1>7. J \in Nat \ {0}
  BY <1>2
<1> DEFINE Has(m) == \E i \in S : lines[i] = written[m]
           D == {d \in Nat : d < J /\ ~Has(J - d)}
<1>8. D = {}
  <2>1. SUFFICES ASSUME D # {} PROVE FALSE
    OBVIOUS
  <2>2. D \in SUBSET Nat
    OBVIOUS
  <2>3. PICK d \in D : \A y \in D : d <= y
    <3> HIDE DEF D
    <3> QED
      BY <2>1, <2>2, LeastOf
  <2>4. d \in Nat /\ d < J /\ ~Has(J - d)
    OBVIOUS
  <2>5. Has(J)
    BY <1>5, <1>6
  <2> HIDE DEF Has
  <2>6. d # 0
    <3>1. J - 0 = J
      BY <1>7
    <3> QED
      BY <2>4, <2>5, <3>1
  <2>7. Has(J - d + 1)
    <3>1. d - 1 \in Nat /\ d - 1 < J /\ J - (d - 1) = J - d + 1
      BY <1>7, <2>4, <2>6
    <3>2. d - 1 \notin D
      <4> HIDE DEF D
      <4>1. d - 1 \in D => d <= d - 1
        BY <2>3
      <4> QED
        BY <2>4, <4>1
    <3> QED
      BY <3>1, <3>2
  <2> HIDE DEF D
  <2>8. PICK i \in S : lines[i] = written[J - d + 1]
    BY <2>7 DEF Has
  <2>9. PICK j \in DOMAIN written : /\ lines[i] = written[j]
                                    /\ lines[i].prev = IF j = 1 THEN Audit!Genesis
                                         ELSE written[j - 1].hash
    BY <1>3 DEF Audit!Follows
  <2>10. J - d + 1 \in DOMAIN written /\ J - d \in DOMAIN written /\ J - d + 1 # 1
         /\ J - d + 1 - 1 = J - d
    BY <1>2, <1>7, <2>4, <2>6
  <2>11. j = J - d + 1
    BY <2>8, <2>9, <2>10, AuditWrittenIs
  <2>12. lines[i].prev = written[J - d].hash
    BY <2>9, <2>10, <2>11
  <2>13. written[J - d].hash # Audit!Genesis
    BY <2>10, AuditWrittenIs
  <2>14. PICK l \in S : lines[i].prev = lines[l].hash
    BY <1>4, <2>12, <2>13
  <2>15. lines[l] = written[J - d]
    <3>1. PICK m \in DOMAIN written : m = J - d
      BY <2>10
    <3>2. Audit!Intact(lines[l]) /\ l \in DOMAIN lines
      BY <1>4
    <3>3. lines[l].hash = written[m].hash
      BY <2>12, <2>14, <3>1
    <3>4. lines[l] = written[m]
      BY <3>2, <3>3, AuditHashTells
    <3> QED
      BY <3>1, <3>4
  <2>16. Has(J - d)
    BY <2>15 DEF Has
  <2> QED
    BY <2>4, <2>16
<1>9. ASSUME NEW m \in DOMAIN written, m <= J
      PROVE  \E i \in S : lines[i] = written[m]
  <2>1. J - m \in Nat /\ J - m < J /\ J - (J - m) = m
    BY <1>2, <1>7, <1>9
  <2>2. Has(J - (J - m))
    <3> HIDE DEF Has
    <3> QED
      BY <1>8, <2>1
  <2> QED
    BY <2>1, <2>2
<1> HIDE DEF Has, D
<1>10. ASSUME NEW i \in DOMAIN lines
       PROVE  /\ i \in S
              /\ \E j \in DOMAIN written : j <= J /\ lines[i] = written[j]
  <2>1. PICK j \in DOMAIN written : Audit!Number(lines[i]) = written[j].id
    BY AuditLineIs
  <2>2. Audit!Number(lines[n]) = written[J].id
    BY <1>6, AuditWrittenIs
  <2>3. n \in DOMAIN lines
    BY <1>4, <1>5
  <2>4. i = n \/ i < n
    BY <1>1, <1>5
  <2>5. Audit!Number(lines[i]) = Audit!Number(lines[n])
          \/ Audit!Number(lines[i]) < Audit!Number(lines[n])
    BY <2>3, <2>4, AuditNumbersTell
  <2>6. j <= J
    <3>1. J < j => written[J].id < written[j].id
      BY AuditWrittenIs
    <3>2. written[J].id \in Nat /\ written[j].id \in Nat
      BY AuditWrittenIs
    <3> QED
      BY <1>2, <1>7, <2>1, <2>2, <2>5, <3>1, <3>2
  <2>7. PICK l \in S : lines[l] = written[j]
    BY <1>9, <2>6
  <2>8. Audit!Number(lines[l]) = Audit!Number(lines[i]) /\ l \in DOMAIN lines
    BY <1>4, <2>1, <2>7, AuditWrittenIs
  <2>9. l = i
    BY <2>8, AuditNumbersTell
  <2> QED
    BY <2>6, <2>7, <2>9
<1>11. ASSUME NEW i \in DOMAIN lines
       PROVE  lines[i].prev = IF i = 1 THEN Audit!Genesis ELSE lines[i - 1].hash
  <2>1. PICK j \in DOMAIN written : /\ lines[i] = written[j]
                                    /\ lines[i].prev = IF j = 1 THEN Audit!Genesis
                                         ELSE written[j - 1].hash
    BY <1>3, <1>10 DEF Audit!Follows
  <2>2. Audit!Number(lines[i]) = written[j].id /\ written[j].id \in Nat /\ j \in Nat /\ i \in Nat
    BY <1>1, <2>1, AuditWrittenIs
  <2>3. j <= J
    <3>1. PICK m \in DOMAIN written : m <= J /\ lines[i] = written[m]
      BY <1>10
    <3>2. m = j
      BY <2>1, <3>1, AuditWrittenIs
    <3> QED
      BY <3>1, <3>2
  <2>4. CASE j = 1
    <3>1. SUFFICES ASSUME i # 1 PROVE FALSE
      BY <2>1, <2>4
    <3>2. 1 \in DOMAIN lines /\ 1 < i
      BY <1>1, <3>1
    <3>3. Audit!Number(lines[1]) < Audit!Number(lines[i])
      BY <3>2, AuditNumbersTell
    <3>4. PICK m \in DOMAIN written : lines[1] = written[m]
      BY <1>10, <3>2
    <3>5. Audit!Number(lines[1]) = written[m].id /\ written[m].id \in Nat
      BY <3>4, AuditWrittenIs
    <3>6. m = j \/ j < m
      BY <1>2, <2>4
    <3>7. j < m => written[j].id < written[m].id
      BY AuditWrittenIs
    <3> QED
      BY <2>2, <3>3, <3>5, <3>6, <3>7
  <2>5. CASE j # 1
    <3>1. j - 1 \in DOMAIN written /\ j - 1 <= J /\ j - 1 < j
      BY <1>2, <1>7, <2>3, <2>5
    <3>2. PICK l \in S : lines[l] = written[j - 1]
      BY <1>9, <3>1
    <3>3. written[j - 1].id < written[j].id
      BY <3>1, AuditWrittenIs
    <3>4. l \in DOMAIN lines /\ Audit!Number(lines[l]) = written[j - 1].id /\ l \in Nat
      BY <1>1, <1>4, <3>1, <3>2, AuditWrittenIs
    <3>5. l < i
      BY <2>2, <3>3, <3>4, AuditNumbersTell
    <3>6. l = i - 1
      <4>1. SUFFICES ASSUME l < i - 1 PROVE FALSE
        BY <1>1, <3>4, <3>5
      <4>2. i - 1 \in DOMAIN lines /\ i - 1 < i
        BY <1>1, <3>4, <3>5
      <4>3. PICK m \in DOMAIN written : lines[i - 1] = written[m]
        BY <1>10, <4>2
      <4>4. Audit!Number(lines[i - 1]) = written[m].id /\ written[m].id \in Nat
        BY <4>3, AuditWrittenIs
      <4>5. /\ Audit!Number(lines[l]) < Audit!Number(lines[i - 1])
            /\ Audit!Number(lines[i - 1]) < Audit!Number(lines[i])
        BY <3>4, <4>1, <4>2, AuditNumbersTell
      <4>6. written[j - 1].id < written[m].id /\ written[m].id < written[j].id
        BY <2>2, <3>4, <4>4, <4>5
      <4>7. ~(m < j - 1) /\ m # j - 1 /\ ~(j < m) /\ m # j
        <5>1. m < j - 1 => written[m].id < written[j - 1].id
          BY <3>1, AuditWrittenIs
        <5>2. j < m => written[j].id < written[m].id
          BY AuditWrittenIs
        <5>3. written[j - 1].id \in Nat
          BY <3>1, AuditWrittenIs
        <5> QED
          BY <2>2, <4>4, <4>6, <5>1, <5>2, <5>3
      <4> QED
        BY <1>2, <2>2, <4>7
    <3>7. i # 1
      BY <1>1, <3>4, <3>6
    <3> QED
      BY <2>1, <2>5, <3>2, <3>6, <3>7
  <2> QED
    BY <2>4, <2>5
<1> QED
  BY <1>4, <1>10, <1>11 DEF AuditChained

\* After an entry was recorded, a chain the next one continues ends with it.
LEMMA AuditNextHash ==
  Audit!TypeOK /\ Audit!FileTypes /\ written # <<>> /\ last = written[Len(written)].hash =>
    Audit!NextContinues
<1> SUFFICES ASSUME Audit!TypeOK, Audit!FileTypes, written # <<>>,
                    last = written[Len(written)].hash
             PROVE  Audit!NextContinues
  OBVIOUS
<1>1. DOMAIN written = 1..Len(written) /\ Len(written) \in Nat /\ Len(written) # 0
  BY AuditSeqIs DEF Audit!FileTypes
<1>2. Len(written) \in DOMAIN written
  BY <1>1
<1>3. last # Audit!Genesis
  BY <1>2, AuditWrittenIs
<1>4. ASSUME NEW S \in SUBSET DOMAIN lines, Audit!Rooted(S, key), NEW i \in S,
             lines[i].hash = last
      PROVE  lines[i] = written[Len(written)]
  <2>1. Audit!Intact(lines[i]) /\ i \in DOMAIN lines
    BY <1>4 DEF Audit!Rooted
  <2> QED
    BY <1>2, <1>4, <2>1, AuditHashTells
<1> QED
  BY <1>3, <1>4 DEF Audit!NextContinues

-----------------------------------------------------------------------------
(* Starting.                                                               *)

\* A start finds a key.
LEMMA AuditStartKeyIs ==
  ASSUME Audit!AuditAssumption, Audit!TypeOK
  PROVE  Audit!StartKey \in Audit!Keys \ {Audit!NoKey, Audit!Blank}
BY DEF Audit!StartKey, Audit!Keys, Audit!NoKey, Audit!Blank, Audit!TypeOK, Audit!AuditAssumption

\* A start leaves the file in shape, and continues what it found in order.
LEMMA AuditStartInv ==
  ASSUME Audit!AuditAssumption, Audit!IInv, Audit!Start, Audit!TypeOK'
  PROVE  /\ Audit!FileTypes' /\ Audit!ChainsAreWritten' /\ Audit!NextContinues'
         /\ checked' = "ok" => Audit!IsPrefix(lines, written)
         /\ checked' = "ok" <=> AuditChained(key')
<1> USE DEF Audit!IInv
<1>1. /\ lines' = lines /\ tail' = tail /\ next' = next /\ entries' = lines /\ up'
      /\ last' = Audit!HashAfter(lines) /\ key' = Audit!StartKey
      /\ \A i \in DOMAIN lines : lines[i] # Audit!Garbage
  <2>1. DOMAIN lines = 1..Len(lines)
    BY AuditSeqIs DEF Audit!FileTypes
  <2> QED
    BY <2>1 DEF Audit!Start, Audit!Loaded
<1>2. key' \in Audit!Keys \ {Audit!NoKey}
  BY <1>1, AuditStartKeyIs
<1>3. checked' = IF AuditChained(key') THEN "ok" ELSE "failed"
  <2>1. PICK k : k = key'
    OBVIOUS
  <2>2. Audit!Verifies(k) <=> AuditChained(k)
    BY AuditVerifiesIs
  <2>3. checked' = IF Audit!Verifies(k) THEN "ok" ELSE "failed"
    BY <2>1 DEF Audit!Start
  <2> QED
    BY <2>1, <2>2, <2>3
<1>4. written' = IF AuditChained(key') THEN lines ELSE written
  BY <1>3 DEF Audit!Start
<1>5. /\ Audit!IsSeq(lines) /\ DOMAIN lines = 1..Len(lines) /\ Len(lines) \in Nat
      /\ Audit!HashAfter(lines) = IF lines = <<>> THEN Audit!Genesis ELSE lines[Len(lines)].hash
  BY AuditSeqIs, AuditHashBefore DEF Audit!FileTypes
<1>6. Audit!IsSeq(written) /\ DOMAIN written = 1..Len(written) /\ Len(written) \in Nat
  BY AuditSeqIs DEF Audit!FileTypes
<1>7. CASE AuditChained(key')
  <2>1. PICK k \in Audit!Keys : k = key'
    BY <1>2
  <2>2. AuditChained(k)
    BY <1>7, <2>1
  <2>3. \A i \in DOMAIN lines : i \in DOMAIN written /\ lines[i] = written[i]
    BY <2>2, AuditFileIsWritten
  <2>4. written' = lines
    BY <1>4, <1>7
  <2>5. Audit!IsPrefix(lines, written)
    <3>1. Len(lines) <= Len(written)
      BY <1>5, <1>6, <2>3
    <3>2. lines \in Seq(Audit!ToSet(lines)) /\ written \in Seq(Audit!ToSet(written))
      BY <1>5, <1>6 DEF Audit!IsSeq
    <3>3. SubSeq(lines, 1, Len(lines)) = [i \in 1..Len(lines) |-> lines[i]]
      BY <1>5, <3>2
    <3>4. SubSeq(written, 1, Len(lines)) = [i \in 1..Len(lines) |-> written[i]]
      BY <1>5, <1>6, <3>1, <3>2
    <3>5. SubSeq(lines, 1, Len(lines)) = SubSeq(written, 1, Len(lines))
      BY <1>5, <2>3, <3>3, <3>4
    <3> QED
      BY <3>1, <3>5 DEF Audit!IsPrefix
  <2>6. Audit!FileTypes'
    <3>1. ASSUME NEW j \in DOMAIN lines PROVE Audit!IsEntry(lines[j])'
      <4>1. Audit!IsEntry(written[j]) /\ lines[j] = written[j]
        BY <2>3 DEF Audit!FileTypes
      <4>2. Audit!Keys' = Audit!Keys
        BY DEF Audit!Keys
      <4> QED
        BY <1>1, <4>1, <4>2 DEF Audit!IsEntry
    <3>2. (\A j \in DOMAIN written : Audit!IsEntry(written[j]))'
      BY <1>1, <2>4, <3>1
    <3>3. ASSUME NEW j \in DOMAIN lines, NEW m \in DOMAIN lines, j < m
          PROVE  lines[j].id < lines[m].id
      BY <2>3, <3>3 DEF Audit!FileTypes
    <3>4. \A i \in DOMAIN lines :
            \E j \in DOMAIN lines : lines[i] \in {lines[j], Audit!Changed(lines[j])}
      OBVIOUS
    <3> QED
      BY <1>1, <1>5, <2>4, <3>2, <3>3, <3>4 DEF Audit!FileTypes
  <2>7. Audit!ChainsAreWritten'
    <3>1. ASSUME NEW m \in Audit!Keys, NEW S \in SUBSET DOMAIN lines, Audit!Rooted(S, m),
                 NEW i \in S
          PROVE  /\ i \in DOMAIN lines
                 /\ lines[i].prev = IF i = 1 THEN Audit!Genesis ELSE lines[i - 1].hash
      BY <2>2 DEF AuditChained
    <3>2. ASSUME NEW m \in Audit!Keys, NEW S \in SUBSET DOMAIN lines', Audit!Rooted(S, m)',
                 NEW i \in S
          PROVE  Audit!Follows(lines[i])'
      <4>1. Audit!Rooted(S, m)
        BY <1>1, <3>2 DEF Audit!Rooted, Audit!Intact
      <4>2. /\ i \in DOMAIN lines
            /\ lines[i].prev = IF i = 1 THEN Audit!Genesis ELSE lines[i - 1].hash
        BY <1>1, <3>1, <4>1
      <4>3. \E j \in DOMAIN written' :
              /\ lines'[i] = written'[j]
              /\ lines'[i].prev = IF j = 1 THEN Audit!Genesis ELSE written'[j - 1].hash
        BY <1>1, <2>4, <4>2
      <4> QED
        BY <4>3 DEF Audit!Follows
    <3>3. Audit!Keys' = Audit!Keys
      BY DEF Audit!Keys
    <3> QED
      BY <3>2, <3>3 DEF Audit!ChainsAreWritten
  <2>8. Audit!NextContinues'
    <3>1. CASE lines = <<>>
      <4>1. written' = <<>> /\ DOMAIN lines' = {}
        BY <1>1, <1>5, <2>4, <3>1
      <4> QED
        BY <4>1 DEF Audit!NextContinues
    <3>2. CASE lines # <<>>
      <4>1. written' # <<>> /\ last' = written'[Len(written')].hash
        BY <1>1, <1>5, <2>4, <3>2
      <4>2. (written # <<>> /\ last = written[Len(written)].hash)'
        BY <4>1
      <4>3. Audit!TypeOK'
        OBVIOUS
      <4> QED
        BY <2>6, <4>2, <4>3, AuditNextHash, PTL
    <3> QED
      BY <3>1, <3>2
  <2> QED
    BY <1>3, <1>7, <2>5, <2>6, <2>7, <2>8
<1>8. CASE ~AuditChained(key')
  <2>1. written' = written
    BY <1>4, <1>8
  <2>2. Audit!FileTypes'
    <3>1. (\A j \in DOMAIN written : Audit!IsEntry(written[j]))'
      <4>1. Audit!Keys' = Audit!Keys
        BY DEF Audit!Keys
      <4> QED
        BY <1>1, <2>1, <4>1 DEF Audit!FileTypes, Audit!IsEntry
    <3> QED
      BY <1>1, <1>5, <2>1, <3>1 DEF Audit!FileTypes
  <2>3. Audit!ChainsAreWritten'
    <3>1. Audit!Keys' = Audit!Keys
      BY DEF Audit!Keys
    <3> QED
      BY <1>1, <2>1, <3>1 DEF Audit!ChainsAreWritten, Audit!Rooted, Audit!Follows, Audit!Intact
  <2>4. lines # <<>>
    <3>1. SUFFICES ASSUME lines = <<>> PROVE AuditChained(key')
      BY <1>8
    <3>2. DOMAIN lines = {}
      BY <1>5, <3>1
    <3> QED
      BY <3>2 DEF AuditChained
  <2>5. PICK n \in DOMAIN lines : n = Len(lines) /\ last' = lines[n].hash
    <3>1. Len(lines) \in DOMAIN lines
      BY <1>5, <2>4, EmptySeq, AuditSeqIs
    <3> QED
      BY <1>1, <1>5, <2>4, <3>1
  <2>6. last' # Audit!Genesis
    BY <1>1, <2>5, AuditLineIs
  <2>7. ASSUME NEW k, k = key', NEW S \in SUBSET DOMAIN lines, Audit!Rooted(S, k),
               NEW i \in S, lines[i].hash = last'
        PROVE  FALSE
    <3>1. k \in Audit!Keys /\ ~AuditChained(k)
      BY <1>2, <1>8, <2>7
    <3>2. i \in DOMAIN lines /\ lines[i] # Audit!Garbage /\ lines[n] # Audit!Garbage
      BY <1>1
    <3>3. Audit!Number(lines[i]) = Audit!Number(lines[n])
      BY <2>5, <2>7 DEF Audit!Number
    <3>4. i = n
      BY <3>2, <3>3, AuditNumbersTell
    <3>5. Len(lines) \in S
      BY <2>5, <3>4
    <3> QED
      BY <1>1, <2>7, <3>1, <3>5, AuditChainIsFile
  <2>8. Audit!NextContinues'
    <3>1. ASSUME NEW S \in SUBSET DOMAIN lines', Audit!Rooted(S, key)', NEW i \in S,
                 lines'[i].hash = last'
          PROVE  FALSE
      <4>1. PICK k : k = key'
        OBVIOUS
      <4>2. Audit!Rooted(S, k)
        BY <1>1, <3>1, <4>1 DEF Audit!Rooted, Audit!Intact
      <4> QED
        BY <1>1, <2>7, <3>1, <4>1, <4>2
    <3> QED
      BY <2>6, <3>1 DEF Audit!NextContinues
  <2> QED
    BY <1>3, <1>8, <2>2, <2>3, <2>8
<1> QED
  BY <1>7, <1>8

-----------------------------------------------------------------------------
(* Each action.                                                            *)

\* Every step keeps the types.
LEMMA AuditStepTypes ==
  ASSUME Audit!AuditAssumption, Audit!IInv, [Audit!Next]_(Audit!vars)
  PROVE  Audit!TypeOK'
<1> USE DEF Audit!IInv
<1>1. Audit!Keys' = Audit!Keys
  BY DEF Audit!Keys
<1>2. /\ Audit!IsSeq(entries) /\ DOMAIN entries = 1..Len(entries) /\ Len(entries) \in Nat
  BY AuditSeqIs DEF Audit!FileTypes
<1>3. /\ \A i \in 1..Len(entries) :
           entries[i].key \in (Audit!Keys \ {Audit!NoKey}) \cup {Audit!Sha}
      /\ up => key \in Audit!Keys \ {Audit!NoKey}
  BY DEF Audit!TypeOK, Audit!FileVerifies
<1> DEFINE EntriesOK ==
             \A i \in 1..Len(entries) :
               entries[i].key \in (Audit!Keys \ {Audit!NoKey}) \cup {Audit!Sha}
<1>4. /\ up \in BOOLEAN /\ tail \in {"whole", "entry", "piece"}
      /\ checked \in {"no", "ok", "failed"}
      /\ key \in Audit!Keys /\ auditEnv \in Audit!Keys /\ keyFile \in Audit!Keys
      /\ Audit!Blank \notin {key, keyFile} /\ Audit!Blank # "generated"
      /\ password \in AuditPassword /\ writable \in BOOLEAN
      /\ next \in 2..AuditEntries + 1 /\ auditStops \in 0..AuditStops /\ harm \in 0..AuditHarm
      /\ AuditEntries \in Nat \ {0} /\ AuditStops \in Nat /\ AuditHarm \in Nat
      /\ Audit!NoKey \in Audit!Keys /\ "generated" \in Audit!Keys /\ \A p \in AuditPassword :
           p \in Audit!Keys
  BY DEF Audit!TypeOK, Audit!AuditAssumption, Audit!Keys, Audit!Blank
<1>5. ASSUME up, Audit!Recorded PROVE EntriesOK' /\ tail' = "whole"
  <2>1. PICK e :
          e = Audit!Entry(last, next, key) /\ entries' = Append(entries, e) /\ tail' = "whole"
    BY <1>5 DEF Audit!Recorded
  <2>2. PICK t : t = entries'
    OBVIOUS
  <2>3. AuditLonger(t, entries, e)
    BY <1>2, <2>1, <2>2, AuditAppendIs
  <2>4. e.key \in Audit!Keys \ {Audit!NoKey}
    BY <1>3, <1>5, <2>1, AuditEntryIs
  <2>5. ASSUME NEW i \in 1..Len(t)
        PROVE  t[i].key \in (Audit!Keys \ {Audit!NoKey}) \cup {Audit!Sha}
    <3>1. i \in 1..Len(entries) \/ i = Len(entries) + 1
      BY <1>2, <2>3 DEF AuditLonger
    <3>2. i \in 1..Len(entries) => t[i] = entries[i]
      BY <2>3 DEF AuditLonger
    <3>3. t[Len(entries) + 1] = e
      BY <2>3 DEF AuditLonger
    <3> QED
      BY <1>3, <2>4, <3>1, <3>2, <3>3
  <2> QED
    BY <1>1, <2>1, <2>2, <2>5
<1>6. entries' = <<>> => EntriesOK'
  OBVIOUS
<1>7. entries' = entries => EntriesOK'
  BY <1>1, <1>3
<1>8. ASSUME next <= AuditEntries, next' = next + 1 PROVE next' \in 2..AuditEntries + 1
  BY <1>4, <1>8
<1>9. ASSUME auditStops < AuditStops, auditStops' = auditStops + 1
      PROVE  auditStops' \in 0..AuditStops
  BY <1>4, <1>9
<1>10. ASSUME harm < AuditHarm, harm' = harm + 1 PROVE harm' \in 0..AuditHarm
  BY <1>4, <1>10
<1>11. CASE Audit!Record
  <2>1. /\ EntriesOK' /\ tail' \in {"whole", "entry", "piece"} /\ next' \in 2..AuditEntries + 1
    BY <1>4, <1>5, <1>7, <1>8, <1>11 DEF Audit!Record, Audit!NotRecorded, Audit!file, Audit!memory
  <2> QED
    BY <1>1, <1>4, <1>11, <2>1 DEF Audit!TypeOK, Audit!Record, Audit!keys
<1>12. CASE Audit!Start
  <2>1. EntriesOK'
    <3>1. DOMAIN lines = 1..Len(lines)
      BY AuditSeqIs DEF Audit!FileTypes
    <3>2. \A i \in 1..Len(lines) : lines[i].key \in (Audit!Keys \ {Audit!NoKey}) \cup {Audit!Sha}
      BY <1>12, <3>1, AuditLineIs DEF Audit!Start
    <3>3. entries' = lines
      BY <1>12 DEF Audit!Start, Audit!Loaded
    <3> QED
      BY <1>1, <3>2, <3>3
  <2>2. /\ key' \in Audit!Keys /\ keyFile' \in Audit!Keys /\ checked' \in {"no", "ok", "failed"}
        /\ Audit!Blank \notin {key', keyFile'}
    BY <1>4, <1>12, AuditStartKeyIs DEF Audit!Start
  <2> QED
    BY <1>1, <1>4, <1>12, <2>1, <2>2 DEF Audit!TypeOK, Audit!Start
<1>13. CASE Audit!Stop
  <2>1. EntriesOK' /\ auditStops' \in 0..AuditStops
    BY <1>6, <1>9, <1>13 DEF Audit!Stop
  <2> QED
    BY <1>1, <1>4, <1>13, <2>1 DEF Audit!TypeOK, Audit!Stop, Audit!file, Audit!keys
<1>14. CASE \E piece \in {"entry", "piece"}, crash \in BOOLEAN : Audit!BrokenOff(piece, crash)
  <2>1. PICK piece \in {"entry", "piece"}, crash \in BOOLEAN : Audit!BrokenOff(piece, crash)
    BY <1>14
  <2>2. /\ tail' \in {"whole", "entry", "piece"} /\ next' \in 2..AuditEntries + 1
        /\ harm' \in 0..AuditHarm
    BY <1>8, <1>10, <2>1 DEF Audit!BrokenOff
  <2>3. up' \in BOOLEAN /\ EntriesOK' /\ auditStops' \in 0..AuditStops
    BY <1>4, <1>6, <1>7, <1>9, <2>1 DEF Audit!BrokenOff, Audit!memory
  <2> QED
    BY <1>1, <1>4, <2>1, <2>2, <2>3 DEF Audit!TypeOK, Audit!BrokenOff, Audit!keys
<1>15. CASE \E p \in AuditPassword : Audit!Reset(p)
  <2>1. PICK p \in AuditPassword : Audit!Reset(p)
    BY <1>15
  <2>2. /\ EntriesOK' /\ tail' \in {"whole", "entry", "piece"} /\ next' \in 2..AuditEntries + 1
    BY <1>4, <1>5, <1>7, <1>8, <2>1 DEF Audit!Reset, Audit!NotRecorded, Audit!file, Audit!memory
  <2>3. auditEnv' \in Audit!Keys
    BY <1>4, <2>1 DEF Audit!Reset, Audit!KeyKept
  <2> QED
    BY <1>1, <1>4, <2>1, <2>2, <2>3 DEF Audit!TypeOK, Audit!Reset
<1>16. CASE \E crash \in BOOLEAN : Audit!ResetCut(crash)
  <2>1. PICK crash \in BOOLEAN : Audit!ResetCut(crash)
    BY <1>16
  <2>2. auditEnv' \in Audit!Keys
    BY <1>4, <2>1 DEF Audit!ResetCut, Audit!KeyKept, Audit!Keys
  <2>3. up' \in BOOLEAN /\ EntriesOK' /\ auditStops' \in 0..AuditStops
    BY <1>4, <1>6, <1>7, <1>9, <2>1 DEF Audit!ResetCut, Audit!memory
  <2>4. harm' \in 0..AuditHarm /\ UNCHANGED Audit!file
    BY <1>10, <2>1 DEF Audit!ResetCut
  <2> QED
    BY <1>1, <1>4, <2>1, <2>2, <2>3, <2>4 DEF Audit!TypeOK, Audit!ResetCut, Audit!file
<1>17. CASE \E p \in AuditPassword : Audit!EditPassword(p)
  BY <1>1, <1>4, <1>7, <1>17 DEF Audit!TypeOK, Audit!EditPassword, Audit!file, Audit!memory
<1>18. CASE \E i \in 1..Len(lines) : Audit!LoseLine(i) \/ Audit!ChangeLine(i) \/ Audit!Repair(i)
  <2>1. PICK i \in 1..Len(lines) : Audit!LoseLine(i) \/ Audit!ChangeLine(i) \/ Audit!Repair(i)
    BY <1>18
  <2>2. EntriesOK' /\ tail' \in {"whole", "entry", "piece"} /\ harm' \in 0..AuditHarm
    BY <1>4, <1>7, <1>10, <2>1 DEF Audit!LoseLine, Audit!ChangeLine, Audit!Repair, Audit!memory
  <2> QED
    BY <1>1, <1>4, <2>1, <2>2 DEF Audit!TypeOK, Audit!LoseLine, Audit!ChangeLine, Audit!Repair,
                                  Audit!keys
<1>19. CASE UNCHANGED Audit!vars
  BY <1>1, <1>4, <1>7, <1>19 DEF Audit!TypeOK, Audit!vars
<1> QED
  BY <1>11, <1>12, <1>13, <1>14, <1>15, <1>16, <1>17, <1>18, <1>19 DEF Audit!Next

\* The lines are the same.
LEMMA AuditFileStays ==
  ASSUME Audit!IInv, next' \in Nat, next <= next', UNCHANGED <<lines, written>>,
         Audit!IsSeq(entries'),
         tail' # "whole" => lines # <<>>
  PROVE  Audit!FileTypes' /\ Audit!ChainsAreWritten'
<1> USE DEF Audit!IInv
<1>1. DOMAIN lines = 1..Len(lines) /\ Len(lines) \in Nat
  BY AuditSeqIs DEF Audit!FileTypes
<1>2. PICK o : o = [i \in DOMAIN lines |-> i]
  OBVIOUS
<1>3. Audit!IsSeq(lines') /\ lines' = lines /\ written' = written
  BY DEF Audit!FileTypes
<1>4. \A i \in DOMAIN lines' :
        lines'[i] = Audit!Garbage \/ (/\ o[i] \in DOMAIN lines
                                      /\ lines'[i] \in {lines[o[i]], Audit!Changed(lines[o[i]])})
  BY <1>2, <1>3
<1>5. \A i, k \in DOMAIN lines' :
        i < k /\ lines'[i] # Audit!Garbage /\ lines'[k] # Audit!Garbage => o[i] < o[k]
  BY <1>2, <1>3
<1>6. tail' # "whole" => lines' # <<>>
  BY <1>3
<1> QED
  BY <1>3, <1>4, <1>5, <1>6, AuditLinesThin

\* The last line is a piece now.
LEMMA AuditPieceInv ==
  ASSUME Audit!IInv, next' \in Nat,
         \/ written' = written /\ next <= next'
         \/ /\ written' = Append(written, Audit!Entry(last, next, key))
            /\ key \in Audit!Keys \ {Audit!NoKey} /\ next' = next + 1,
         Audit!IsSeq(entries'),
         \/ lines' = Append(lines, Audit!Garbage)
         \/ tail # "whole" /\ lines' = Append(Audit!Front(lines), Audit!Garbage)
  PROVE  Audit!FileTypes' /\ Audit!ChainsAreWritten' /\ Audit!Garbage \in Audit!ToSet(lines')
<1> USE DEF Audit!IInv
<1>1. Audit!IsSeq(lines) /\ DOMAIN lines = 1..Len(lines) /\ Len(lines) \in Nat
  BY AuditSeqIs DEF Audit!FileTypes
<1>2. PICK o : o = [i \in Nat |-> i]
  OBVIOUS
<1>3. PICK t, n : t = lines' /\ n = Len(t)
  OBVIOUS
<1>4. /\ Audit!IsSeq(t) /\ DOMAIN t = 1..n /\ n \in Nat \ {0} /\ t[n] = Audit!Garbage
      /\ \A i \in 1..n : i # n => i \in DOMAIN lines /\ t[i] = lines[i]
  <2>1. CASE lines' = Append(lines, Audit!Garbage)
    <3>1. AuditLonger(t, lines, Audit!Garbage)
      BY <1>1, <1>3, <2>1, AuditAppendIs
    <3> QED
      BY <1>1, <1>3, <3>1 DEF AuditLonger
  <2>2. CASE tail # "whole" /\ lines' = Append(Audit!Front(lines), Audit!Garbage)
    <3>1. lines # <<>>
      BY <2>2 DEF Audit!FileTypes
    <3>2. PICK f : f = Audit!Front(lines)
      OBVIOUS
    <3>3. /\ Audit!IsSeq(f) /\ Len(f) = Len(lines) - 1
          /\ \A i \in 1..Len(lines) - 1 : f[i] = lines[i]
      BY <1>1, <3>1, <3>2, AuditFrontIs
    <3>4. AuditLonger(t, f, Audit!Garbage)
      BY <1>3, <2>2, <3>2, <3>3, AuditAppendIs
    <3>5. Len(lines) \in Nat \ {0}
      BY <1>1, <3>1, AuditSeqIs
    <3>6. n = Len(lines) /\ Audit!IsSeq(t) /\ DOMAIN t = 1..n /\ t[n] = Audit!Garbage
      BY <1>3, <3>3, <3>4, <3>5 DEF AuditLonger
    <3>7. \A i \in 1..n : i # n => i \in 1..Len(lines) - 1
      BY <3>5, <3>6
    <3>8. \A i \in 1..Len(lines) - 1 : t[i] = f[i]
      BY <3>3, <3>4 DEF AuditLonger
    <3> QED
      BY <1>1, <3>3, <3>5, <3>6, <3>7, <3>8
  <2> QED
    BY <2>1, <2>2
<1>5. \A i \in DOMAIN lines' :
        lines'[i] = Audit!Garbage \/ (/\ o[i] \in DOMAIN lines
                                      /\ lines'[i] \in {lines[o[i]], Audit!Changed(lines[o[i]])})
  <2>1. ASSUME NEW i \in 1..n, i # n PROVE o[i] \in DOMAIN lines /\ t[i] = lines[o[i]]
    BY <1>2, <1>4, <2>1
  <2> QED
    BY <1>3, <1>4, <2>1
<1>6. \A i, k \in DOMAIN lines' :
        i < k /\ lines'[i] # Audit!Garbage /\ lines'[k] # Audit!Garbage => o[i] < o[k]
  BY <1>2, <1>3, <1>4
<1>7. Audit!IsSeq(lines') /\ lines' # <<>> /\ Audit!Garbage \in Audit!ToSet(lines')
  <2>1. n \in DOMAIN lines'
    BY <1>3, <1>4
  <2>2. DOMAIN <<>> = {}
    OBVIOUS
  <2> QED
    BY <1>3, <1>4, <2>1, <2>2 DEF Audit!ToSet
<1>8. Audit!FileTypes' /\ Audit!ChainsAreWritten'
  BY <1>5, <1>6, <1>7, AuditLinesThin
<1> QED
  BY <1>7, <1>8

\* A line is gone, or is changed.
LEMMA AuditRemovedInv ==
  ASSUME Audit!IInv, next' = next, UNCHANGED <<written, entries>>, NEW r \in 1..Len(lines),
         lines' = Audit!RemoveAt(lines, r), tail' = IF r = Len(lines) THEN "whole" ELSE tail
  PROVE  Audit!FileTypes' /\ Audit!ChainsAreWritten'
<1> USE DEF Audit!IInv
<1>1. /\ Audit!IsSeq(lines) /\ DOMAIN lines = 1..Len(lines) /\ Len(lines) \in Nat
      /\ Audit!IsSeq(entries')
  BY AuditSeqIs DEF Audit!FileTypes
<1>2. PICK o : o = [i \in Nat |-> IF i < r THEN i ELSE i + 1]
  OBVIOUS
<1>3. PICK t, n : t = lines' /\ n = Len(lines) - 1
  OBVIOUS
<1>4. /\ Audit!IsSeq(t) /\ DOMAIN t = 1..n
      /\ \A i \in 1..n : t[i] = lines[IF i < r THEN i ELSE i + 1]
  <2>1. t = Audit!RemoveAt(lines, r)
    BY <1>3
  <2> QED
    BY <1>1, <1>3, <2>1, AuditRemoveIs
<1>n. n \in Nat /\ Len(lines) = n + 1 /\ r \in 1..n + 1 /\ DOMAIN lines = 1..n + 1
  <2>1. n = Len(lines) - 1
    BY <1>3
  <2>2. Len(lines) \in Nat
    BY <1>1
  <2>3. n \in Nat /\ Len(lines) = n + 1
    BY <2>1, <2>2
  <2>4. DOMAIN lines = 1..Len(lines)
    BY <1>1
  <2> QED
    BY <2>3, <2>4
<1>o. ASSUME NEW i \in 1..n
      PROVE  o[i] = (IF i < r THEN i ELSE i + 1) /\ o[i] \in 1..n + 1
  <2>1. i \in Nat
    OBVIOUS
  <2>2. o[i] = IF i < r THEN i ELSE i + 1
    BY <1>2, <2>1
  <2> QED
    BY <1>n, <2>2
<1>5. \A i \in DOMAIN lines' :
        lines'[i] = Audit!Garbage \/ (/\ o[i] \in DOMAIN lines
                                      /\ lines'[i] \in {lines[o[i]], Audit!Changed(lines[o[i]])})
  <2>1. ASSUME NEW i \in 1..n PROVE o[i] \in DOMAIN lines /\ t[i] = lines[o[i]]
    BY <1>n, <1>o, <1>4
  <2> QED
    BY <1>3, <1>4, <2>1
<1>6. \A i, k \in DOMAIN lines' :
        i < k /\ lines'[i] # Audit!Garbage /\ lines'[k] # Audit!Garbage => o[i] < o[k]
  <2>1. ASSUME NEW i \in 1..n, NEW k \in 1..n, i < k PROVE o[i] < o[k]
    BY <1>n, <1>o, <2>1
  <2> QED
    BY <1>3, <1>4, <2>1
<1>7. Audit!IsSeq(lines')
  BY <1>3, <1>4
<1>8. tail' # "whole" => lines' # <<>>
  <2>1. SUFFICES ASSUME r # Len(lines) PROVE lines' # <<>>
    OBVIOUS
  <2>2. 1 \in DOMAIN lines'
    <3>1. n # 0
      BY <1>n, <2>1
    <3>2. 1 \in 1..n
      BY <1>n, <3>1
    <3> QED
      BY <1>3, <1>4, <3>2
  <2>3. DOMAIN <<>> = {}
    OBVIOUS
  <2> QED
    BY <2>2, <2>3
<1>9. next' \in Nat /\ (written' = written /\ next <= next')
  BY DEF Audit!TypeOK
<1> QED
  BY <1>1, <1>5, <1>6, <1>7, <1>8, <1>9, AuditLinesThin

\* A line is changed.
LEMMA AuditChangedInv ==
  ASSUME Audit!IInv, next' = next, UNCHANGED <<written, entries, tail>>, NEW r \in 1..Len(lines),
         lines' = [lines EXCEPT ![r].id = 0]
  PROVE  Audit!FileTypes' /\ Audit!ChainsAreWritten'
<1> USE DEF Audit!IInv
<1>1. /\ Audit!IsSeq(lines) /\ DOMAIN lines = 1..Len(lines) /\ Len(lines) \in Nat
      /\ Audit!IsSeq(entries')
  BY AuditSeqIs DEF Audit!FileTypes
<1>2. PICK o : o = [i \in Nat |-> i]
  OBVIOUS
<1>3. PICK c : c = Audit!Changed(lines[r])
  OBVIOUS
<1>4. lines' = [lines EXCEPT ![r] = c]
  <2>1. [lines[r] EXCEPT !.id = 0] = c
    BY <1>1, <1>3, AuditLineIs
  <2> QED
    BY <2>1
<1>5. lines \in [1..Len(lines) -> Audit!ToSet(lines)]
  BY <1>1, LenProperties DEF Audit!IsSeq
<1>6. DOMAIN lines' = 1..Len(lines) /\ \A i \in 1..Len(lines) :
        lines'[i] = IF i = r THEN c ELSE lines[i]
  BY <1>4, <1>5
<1>7. Audit!IsSeq(lines')
  <2>1. PICK t : t = [lines EXCEPT ![r] = c]
    OBVIOUS
  <2>2. t \in [1..Len(lines) -> Audit!ToSet(lines) \cup {c}]
    BY <1>5, <2>1
  <2>3. Audit!IsSeq(t)
    BY <1>1, <2>2, AuditSeqIn
  <2> QED
    BY <1>4, <2>1, <2>3
<1>8. \A i \in DOMAIN lines' :
        lines'[i] = Audit!Garbage \/ (/\ o[i] \in DOMAIN lines
                                      /\ lines'[i] \in {lines[o[i]], Audit!Changed(lines[o[i]])})
  BY <1>1, <1>2, <1>3, <1>6
<1>9. \A i, k \in DOMAIN lines' :
        i < k /\ lines'[i] # Audit!Garbage /\ lines'[k] # Audit!Garbage => o[i] < o[k]
  BY <1>1, <1>2, <1>6
<1>10. tail' # "whole" => lines' # <<>>
  <2>1. r \in DOMAIN lines' /\ DOMAIN <<>> = {}
    BY <1>6
  <2> QED
    BY <2>1
<1>11. next' \in Nat /\ (written' = written /\ next <= next')
  BY DEF Audit!TypeOK
<1> QED
  BY <1>1, <1>7, <1>8, <1>9, <1>10, <1>11, AuditLinesThin

\* An entry is recorded: in the file, on the page, and in the hash.
LEMMA AuditRecordedInv ==
  ASSUME Audit!AuditAssumption, Audit!IInv, Audit!TypeOK', up, next' = next + 1, Audit!Recorded
  PROVE  /\ Audit!FileTypes' /\ Audit!ChainsAreWritten' /\ Audit!NextContinues'
         /\ Audit!PageShowsFile'
<1> USE DEF Audit!IInv
<1>1. /\ Audit!IsSeq(lines) /\ Audit!IsSeq(entries) /\ Audit!IsSeq(written)
      /\ Len(written) \in Nat
      /\ Len(lines) \in Nat /\ DOMAIN lines = 1..Len(lines)
  BY AuditSeqIs DEF Audit!FileTypes
<1>2. PICK e : e = Audit!Entry(last, next, key)
  OBVIOUS
<1>3. /\ written' = Append(written, e) /\ entries' = Append(entries, e) /\ last' = e.hash
      /\ tail' = "whole" /\ lines' = Audit!Appended(e)
  BY <1>2 DEF Audit!Recorded
<1>4. key \in Audit!Keys \ {Audit!NoKey}
  BY DEF Audit!TypeOK, Audit!FileVerifies
<1>5. Audit!IsSeq(entries')
  <2>1. PICK t : t = entries'
    OBVIOUS
  <2>2. AuditLonger(t, entries, e)
    BY <1>1, <1>3, <2>1, AuditAppendIs
  <2> QED
    BY <2>1, <2>2 DEF AuditLonger
<1>6. next' \in Nat /\ next \in Nat
  BY DEF Audit!TypeOK
<1>7. Audit!FileTypes' /\ Audit!ChainsAreWritten' /\ Audit!PageShowsFile'
  <2>1. CASE tail = "whole"
    <3>1. lines' = Append(lines, e)
      BY <1>3, <2>1 DEF Audit!Appended
    <3>2. AuditLonger(lines', lines, e)
      <4>1. PICK t : t = lines'
        OBVIOUS
      <4>2. AuditLonger(t, lines, e)
        BY <1>1, <3>1, <4>1, AuditAppendIs
      <4> QED
        BY <4>1, <4>2
    <3>3. Audit!FileTypes' /\ Audit!ChainsAreWritten'
      BY <1>2, <1>3, <1>4, <1>5, <2>1, <3>2, AuditLinesExtend
    <3>4. Audit!PageShowsFile'
      <4>1. SUFFICES ASSUME Audit!Garbage \notin Audit!ToSet(lines')
                     PROVE  entries' = lines' /\ last' = Audit!HashAfter(lines')
        BY DEF Audit!PageShowsFile
      <4>2. \A i \in DOMAIN lines : i \in DOMAIN lines' /\ lines'[i] = lines[i]
        BY <1>1, <3>2 DEF AuditLonger
      <4>3. Audit!Garbage \notin Audit!ToSet(lines)
        BY <4>1, <4>2 DEF Audit!ToSet
      <4>4. entries = lines
        BY <2>1, <4>3 DEF Audit!PageShowsFile
      <4>5. PICK t : t = lines'
        OBVIOUS
      <4>6. Audit!IsSeq(t) /\ Len(t) = Len(lines) + 1 /\ t[Len(lines) + 1] = e
        BY <3>2, <4>5 DEF AuditLonger
      <4>7. Len(t) # 0
        BY <1>1, <4>6
      <4>8. t # <<>>
        BY <4>6, <4>7, AuditSeqIs
      <4>9. Audit!HashAfter(t) = e.hash
        BY <4>6, <4>8, AuditHashBefore
      <4> QED
        BY <1>3, <3>1, <4>4, <4>5, <4>9
    <3> QED
      BY <3>3, <3>4
  <2>2. CASE tail # "whole"
    <3>1. lines' = Append(Audit!Front(lines), Audit!Garbage)
      BY <1>3, <2>2 DEF Audit!Appended
    <3>2. Audit!FileTypes' /\ Audit!ChainsAreWritten' /\ Audit!Garbage \in Audit!ToSet(lines')
      BY <1>2, <1>3, <1>4, <1>5, <1>6, <2>2, <3>1, AuditPieceInv
    <3> QED
      BY <3>2 DEF Audit!PageShowsFile
  <2> QED
    BY <2>1, <2>2
<1>8. (written # <<>> /\ last = written[Len(written)].hash)'
  <2>1. PICK t : t = written'
    OBVIOUS
  <2>2. AuditLonger(t, written, e)
    BY <1>1, <1>3, <2>1, AuditAppendIs
  <2>3. Audit!IsSeq(t) /\ Len(t) = Len(written) + 1 /\ t[Len(written) + 1] = e
    BY <2>2 DEF AuditLonger
  <2>4. Len(t) # 0
    BY <1>1, <2>3
  <2>5. t # <<>> /\ t[Len(t)] = e
    BY <2>3, <2>4, AuditSeqIs
  <2> QED
    BY <1>3, <2>1, <2>5
<1>9. Audit!TypeOK'
  OBVIOUS
<1>10. Audit!NextContinues'
  BY <1>7, <1>8, <1>9, AuditNextHash, PTL
<1> QED
  BY <1>7, <1>10

\* Nothing of the file, the page or the hash has changed.
LEMMA AuditRestInv ==
  ASSUME Audit!IInv, next' \in Nat, next <= next', UNCHANGED <<up, Audit!file, Audit!memory, key>>
  PROVE  /\ Audit!FileTypes' /\ Audit!ChainsAreWritten' /\ Audit!NextContinues'
         /\ Audit!PageShowsFile'
<1> USE DEF Audit!IInv
<1>1. /\ up' = up /\ lines' = lines /\ tail' = tail /\ written' = written /\ entries' = entries
      /\ last' = last /\ key' = key
  BY DEF Audit!file, Audit!memory
<1>2. Audit!FileTypes' /\ Audit!ChainsAreWritten'
  BY <1>1, AuditFileStays DEF Audit!FileTypes
<1>3. Audit!NextContinues'
  BY <1>1 DEF Audit!NextContinues, Audit!Rooted, Audit!Intact
<1>4. Audit!PageShowsFile'
  BY <1>1 DEF Audit!PageShowsFile
<1> QED
  BY <1>2, <1>3, <1>4

\* Every step keeps the file in shape, and the page to what it holds.
LEMMA AuditStepFile ==
  ASSUME Audit!AuditAssumption, Audit!IInv, Audit!TypeOK', [Audit!Next]_(Audit!vars)
  PROVE  /\ Audit!FileTypes' /\ Audit!ChainsAreWritten' /\ Audit!NextContinues'
         /\ Audit!PageShowsFile'
<1> USE DEF Audit!IInv
<1>1. next \in Nat /\ next' \in Nat /\ next <= next + 1 /\ next <= next
  BY DEF Audit!TypeOK
<1>2. up => key \in Audit!Keys \ {Audit!NoKey}
  BY DEF Audit!TypeOK, Audit!FileVerifies
<1>3. ASSUME ~up' PROVE Audit!NextContinues' /\ Audit!PageShowsFile'
  BY <1>3 DEF Audit!NextContinues, Audit!PageShowsFile
<1>4. Audit!IsSeq(entries) /\ Audit!IsSeq(lines) /\ Audit!IsSeq(<<>>)
  <2>1. <<>> \in Seq(Audit!ToSet(<<>>))
    OBVIOUS
  <2> QED
    BY <2>1 DEF Audit!FileTypes, Audit!IsSeq
<1>5. CASE Audit!Record
  <2>1. next' = next + 1 /\ up /\ next <= next' /\ UNCHANGED <<up, key>>
    BY <1>1, <1>5 DEF Audit!Record
  <2>2. CASE Audit!Recorded
    BY <2>1, <2>2, AuditRecordedInv
  <2>3. CASE Audit!NotRecorded
    BY <1>1, <2>1, <2>3, AuditRestInv DEF Audit!NotRecorded
  <2> QED
    BY <1>5, <2>2, <2>3 DEF Audit!Record
<1>6. CASE Audit!Start
  <2>1. Audit!FileTypes' /\ Audit!ChainsAreWritten' /\ Audit!NextContinues'
    BY <1>6, AuditStartInv
  <2>2. Audit!PageShowsFile'
    BY <1>6 DEF Audit!PageShowsFile, Audit!Start, Audit!Loaded
  <2> QED
    BY <2>1, <2>2
<1>7. CASE Audit!Stop
  <2>1. ~up' /\ UNCHANGED <<lines, written, tail, next>> /\ entries' = <<>>
    BY <1>7 DEF Audit!Stop, Audit!file
  <2>2. tail' # "whole" => lines # <<>>
    BY <2>1 DEF Audit!FileTypes
  <2>3. Audit!FileTypes' /\ Audit!ChainsAreWritten'
    BY <1>1, <1>4, <2>1, <2>2, AuditFileStays
  <2> QED
    BY <1>3, <2>1, <2>3
<1>8. CASE \E piece \in {"entry", "piece"}, crash \in BOOLEAN : Audit!BrokenOff(piece, crash)
  <2>1. PICK piece \in {"entry", "piece"}, crash \in BOOLEAN : Audit!BrokenOff(piece, crash)
    BY <1>8
  <2>2. PICK e : e = Audit!Entry(last, next, key)
    OBVIOUS
  <2>3. /\ up /\ tail = "whole" /\ tail' = piece /\ next' = next + 1 /\ tail' # "whole"
        /\ lines' = Append(lines, IF piece = "entry" THEN e ELSE Audit!Garbage)
        /\ written' = IF piece = "entry" THEN Append(written, e) ELSE written
    BY <2>1, <2>2 DEF Audit!BrokenOff
  <2>4. Audit!IsSeq(entries')
    BY <1>4, <2>1 DEF Audit!BrokenOff, Audit!memory
  <2>5. Audit!FileTypes' /\ Audit!ChainsAreWritten'
    <3>1. CASE piece = "entry"
      <4>1. PICK t : t = lines'
        OBVIOUS
      <4>2. AuditLonger(t, lines, e)
        BY <1>4, <2>3, <3>1, <4>1, AuditAppendIs
      <4>3. AuditLonger(lines', lines, e) /\ written' = Append(written, e)
        BY <2>3, <3>1, <4>1, <4>2
      <4> QED
        BY <1>2, <2>2, <2>3, <2>4, <4>3, AuditLinesExtend
    <3>2. CASE piece = "piece"
      <4>1. lines' = Append(lines, Audit!Garbage) /\ written' = written /\ next <= next'
        BY <1>1, <2>3, <3>2
      <4> QED
        BY <1>1, <2>4, <4>1, AuditPieceInv
    <3> QED
      BY <3>1, <3>2
  <2>6. Audit!NextContinues' /\ Audit!PageShowsFile'
    BY <2>3 DEF Audit!NextContinues, Audit!PageShowsFile
  <2> QED
    BY <2>5, <2>6
<1>9. CASE \E p \in AuditPassword : Audit!Reset(p)
  <2>1. /\ next' = next + 1 /\ up /\ next <= next' /\ UNCHANGED <<up, key>>
        /\ (Audit!Recorded \/ Audit!NotRecorded)
    BY <1>1, <1>9 DEF Audit!Reset
  <2>2. CASE Audit!Recorded
    BY <2>1, <2>2, AuditRecordedInv
  <2>3. CASE Audit!NotRecorded
    BY <1>1, <2>1, <2>3, AuditRestInv DEF Audit!NotRecorded
  <2> QED
    BY <2>1, <2>2, <2>3
<1>10. CASE \E crash \in BOOLEAN : Audit!ResetCut(crash)
  <2>1. PICK crash \in BOOLEAN : Audit!ResetCut(crash)
    BY <1>10
  <2>2. /\ UNCHANGED <<lines, written, tail, next, key>>
        /\ \/ ~up' /\ entries' = <<>>
           \/ UNCHANGED <<up, Audit!memory>>
    BY <2>1 DEF Audit!ResetCut, Audit!file
  <2>3. CASE ~up' /\ entries' = <<>>
    <3>1. tail' # "whole" => lines # <<>>
      BY <2>2 DEF Audit!FileTypes
    <3>2. Audit!FileTypes' /\ Audit!ChainsAreWritten'
      BY <1>1, <1>4, <2>2, <2>3, <3>1, AuditFileStays
    <3> QED
      BY <1>3, <2>3, <3>2
  <2>4. CASE UNCHANGED <<up, Audit!memory>>
    BY <1>1, <2>2, <2>4, AuditRestInv DEF Audit!file
  <2> QED
    BY <2>2, <2>3, <2>4
<1>11. CASE \E p \in AuditPassword : Audit!EditPassword(p)
  BY <1>1, <1>11, AuditRestInv DEF Audit!EditPassword
<1>12. CASE \E i \in 1..Len(lines) : Audit!LoseLine(i) \/ Audit!ChangeLine(i) \/ Audit!Repair(i)
  <2>1. PICK i \in 1..Len(lines) : Audit!LoseLine(i) \/ Audit!ChangeLine(i) \/ Audit!Repair(i)
    BY <1>12
  <2>2. ~up' /\ next' = next /\ UNCHANGED <<written, entries>>
    BY <2>1 DEF Audit!LoseLine, Audit!ChangeLine, Audit!Repair, Audit!memory
  <2>3. CASE Audit!LoseLine(i) \/ Audit!Repair(i)
    <3>1. lines' = Audit!RemoveAt(lines, i) /\ tail' = IF i = Len(lines) THEN "whole" ELSE tail
      BY <2>3 DEF Audit!LoseLine, Audit!Repair
    <3> QED
      BY <1>3, <2>2, <3>1, AuditRemovedInv
  <2>4. CASE Audit!ChangeLine(i)
    <3>1. lines' = [lines EXCEPT ![i].id = 0] /\ tail' = tail
      BY <2>4 DEF Audit!ChangeLine
    <3> QED
      BY <1>3, <2>2, <3>1, AuditChangedInv
  <2> QED
    BY <2>1, <2>3, <2>4
<1>13. CASE UNCHANGED Audit!vars
  BY <1>1, <1>13, AuditRestInv DEF Audit!vars, Audit!file, Audit!memory
<1> QED
  BY <1>5, <1>6, <1>7, <1>8, <1>9, <1>10, <1>11, <1>12, <1>13 DEF Audit!Next

-----------------------------------------------------------------------------
(* Warnings.                                                               *)

\* Without an excuse every line verifies.
LEMMA AuditChainedIs ==
  ASSUME Audit!IInv, ~excused
  PROVE  \A i \in DOMAIN lines : /\ Audit!Intact(lines[i]) /\ lines[i].key \in {key, Audit!Sha}
                                 /\ lines[i].prev = IF i = 1 THEN Audit!Genesis
                                      ELSE lines[i - 1].hash
                                 /\ lines[i] # Audit!Garbage /\ lines[i].key # Audit!NoKey
BY AuditGarbageIs, AuditLineIs DEF Audit!IInv, Audit!FileVerifies, Audit!NoKey, Audit!Sha,
                                   Audit!Blank, Audit!Short, Audit!Keys

\* Without an excuse the file verifies with the recorded entry too.
LEMMA AuditRecordedVerifies ==
  ASSUME Audit!AuditAssumption, Audit!IInv, up, Audit!Recorded, ~excused
  PROVE  /\ tail' = "whole"
         /\ \A i \in DOMAIN lines' :
              /\ Audit!Intact(lines'[i]) /\ lines'[i].key \in {key, Audit!Sha}
              /\ lines'[i].prev = IF i = 1 THEN Audit!Genesis ELSE lines'[i - 1].hash
<1> USE DEF Audit!IInv
<1>1. Audit!IsSeq(lines) /\ Len(lines) \in Nat /\ DOMAIN lines = 1..Len(lines) /\ tail = "whole"
  BY AuditSeqIs DEF Audit!FileTypes, Audit!FileVerifies
<1>2. PICK e, t : e = Audit!Entry(last, next, key) /\ t = lines'
  OBVIOUS
<1>3. t = Append(lines, e) /\ tail' = "whole"
  BY <1>1, <1>2 DEF Audit!Recorded, Audit!Appended
<1>4. AuditLonger(t, lines, e)
  BY <1>1, <1>3, AuditAppendIs
<1>5. /\ DOMAIN t = 1..Len(lines) + 1 /\ t[Len(lines) + 1] = e
      /\ \A i \in 1..Len(lines) : t[i] = lines[i]
  BY <1>4 DEF AuditLonger
<1>6. Audit!Garbage \notin Audit!ToSet(lines)
  BY AuditChainedIs DEF Audit!ToSet
<1>7. last = IF lines = <<>> THEN Audit!Genesis ELSE lines[Len(lines)].hash
  BY <1>1, <1>6, AuditHashBefore DEF Audit!PageShowsFile
<1>8. e.prev = last /\ e.key = key /\ Audit!Intact(e)
  BY <1>2, AuditEntryIs
<1>9. ASSUME NEW i \in DOMAIN t
      PROVE  /\ Audit!Intact(t[i]) /\ t[i].key \in {key, Audit!Sha}
             /\ t[i].prev = IF i = 1 THEN Audit!Genesis ELSE t[i - 1].hash
  <2>1. CASE i \in 1..Len(lines)
    <3>1. /\ t[i] = lines[i] /\ Audit!Intact(lines[i]) /\ lines[i].key \in {key, Audit!Sha}
          /\ lines[i].prev = IF i = 1 THEN Audit!Genesis ELSE lines[i - 1].hash
      BY <1>1, <1>5, <2>1, AuditChainedIs
    <3>2. i # 1 => i - 1 \in 1..Len(lines)
      BY <1>1, <2>1
    <3> QED
      BY <1>5, <3>1, <3>2
  <2>2. CASE i = Len(lines) + 1
    <3>1. t[i] = e
      BY <1>5, <2>2
    <3>2. i # 1 => i - 1 = Len(lines) /\ Len(lines) \in 1..Len(lines)
      BY <1>1, <2>2
    <3>3. i # 1 => t[i - 1] = lines[Len(lines)]
      BY <1>5, <3>2
    <3>4. lines = <<>> <=> i = 1
      <4>1. lines = <<>> <=> Len(lines) = 0
        BY <1>1, AuditSeqIs
      <4> QED
        BY <1>1, <2>2, <4>1
    <3> QED
      BY <1>7, <1>8, <3>1, <3>3, <3>4
  <2> QED
    BY <1>1, <1>5, <2>1, <2>2
<1> QED
  BY <1>2, <1>3, <1>9

\* Every step keeps the file in order unless it gives an excuse.
LEMMA AuditStepVerifies ==
  ASSUME Audit!AuditAssumption, Audit!IInv, Audit!TypeOK', [Audit!Next]_(Audit!vars)
  PROVE  Audit!NoFalseAlarm' /\ Audit!FileVerifies'
<1> USE DEF Audit!IInv
<1>1. /\ up => key # Audit!NoKey
      /\ ~excused => tail = "whole" /\ (key # Audit!NoKey => Audit!StartKey = key)
  BY DEF Audit!FileVerifies
<1> DEFINE BlankOK == auditEnv = Audit!Blank => key \notin AuditPassword \cup {Audit!NoKey}
<1>2. /\ ~excused => BlankOK
      /\ key # Audit!Blank /\ keyFile # Audit!Blank
  BY DEF Audit!FileVerifies, Audit!TypeOK
<1>3. UNCHANGED <<key, auditEnv>> => (BlankOK => BlankOK')
  OBVIOUS
<1> DEFINE Sound ==
      \A i \in DOMAIN lines :
        /\ Audit!Intact(lines[i]) /\ lines[i].key \in {key, Audit!Sha}
        /\ lines[i].prev = IF i = 1 THEN Audit!Genesis ELSE lines[i - 1].hash
<1>4. ~excused => Sound
  BY DEF Audit!FileVerifies
<1>5. lines' = lines /\ key' = key => (Sound => Sound')
  BY DEF Audit!Intact
<1>6. ASSUME up' => key' # Audit!NoKey, ~excused' => tail' = "whole", ~excused' => Sound',
             ~excused' => (key' # Audit!NoKey => (Audit!StartKey = key)'), ~excused' => BlankOK'
      PROVE  Audit!FileVerifies'
  BY <1>6 DEF Audit!FileVerifies
<1>7. UNCHANGED <<key, auditEnv, keyFile, password, writable>> =>
        (Audit!StartKey = key => (Audit!StartKey = key)')
  BY DEF Audit!StartKey
<1>8. checked' = checked /\ (excused => excused') => Audit!NoFalseAlarm'
  BY DEF Audit!NoFalseAlarm
<1>9. up /\ Audit!Recorded /\ ~excused /\ key' = key => Sound' /\ tail' = "whole"
  <2>1. SUFFICES ASSUME up, Audit!Recorded, ~excused, key' = key PROVE Sound' /\ tail' = "whole"
    OBVIOUS
  <2>2. /\ tail' = "whole"
        /\ \A i \in DOMAIN lines' :
              /\ Audit!Intact(lines'[i]) /\ lines'[i].key \in {key, Audit!Sha}
              /\ lines'[i].prev = IF i = 1 THEN Audit!Genesis ELSE lines'[i - 1].hash
    BY <2>1, AuditRecordedVerifies
  <2> QED
    BY <2>1, <2>2 DEF Audit!Intact
<1>10. Audit!NotRecorded /\ ~excused /\ key' = key => Sound' /\ tail' = "whole"
  BY <1>1, <1>4, <1>5 DEF Audit!NotRecorded, Audit!file
<1> HIDE DEF Sound, BlankOK
<1>11. CASE Audit!Record
  <2>1. /\ up /\ up' /\ UNCHANGED <<key, Audit!keys, checked, excused>>
        /\ (Audit!Recorded \/ Audit!NotRecorded)
    BY <1>11 DEF Audit!Record
  <2>2. UNCHANGED <<key, auditEnv, keyFile, password, writable>>
    BY <2>1 DEF Audit!keys
  <2>3. Audit!FileVerifies'
    BY <1>1, <1>2, <1>3, <1>6, <1>7, <1>9, <1>10, <2>1, <2>2
  <2> QED
    BY <1>8, <2>1, <2>3
<1>12. CASE Audit!Start
  <2>1. /\ lines' = lines /\ tail' = tail /\ excused' = excused /\ auditEnv' = auditEnv
        /\ password' = password /\ writable' = writable /\ key' = Audit!StartKey
        /\ keyFile' = IF auditEnv \in {Audit!NoKey, Audit!Blank} /\ keyFile = Audit!NoKey
             /\ writable THEN "generated" ELSE keyFile
    BY <1>12 DEF Audit!Start
  <2>2. key' \in Audit!Keys \ {Audit!NoKey}
    BY <2>1, AuditStartKeyIs
  <2>7. ~excused => BlankOK'
    BY <1>1, <1>2, <2>1 DEF BlankOK
  <2>3. (Audit!StartKey = key)'
    BY <2>1 DEF Audit!StartKey, Audit!NoKey
  <2>4. ~excused => Sound'
    <3>1. SUFFICES ASSUME ~excused PROVE Sound'
      OBVIOUS
    <3>2. ASSUME NEW i \in DOMAIN lines
          PROVE  /\ Audit!Intact(lines[i]) /\ lines[i].key \in {key', Audit!Sha}
                 /\ lines[i].prev = IF i = 1 THEN Audit!Genesis ELSE lines[i - 1].hash
      <4>1. /\ Audit!Intact(lines[i]) /\ lines[i].key \in {key, Audit!Sha}
            /\ lines[i].key # Audit!NoKey
            /\ lines[i].prev = IF i = 1 THEN Audit!Genesis ELSE lines[i - 1].hash
        BY <3>1, AuditChainedIs
      <4>2. key # Audit!NoKey => key' = key
        BY <1>1, <2>1, <3>1
      <4> QED
        BY <4>1, <4>2
    <3> QED
      BY <2>1, <3>2 DEF Sound, Audit!Intact
  <2>5. Audit!FileVerifies'
    BY <1>1, <1>6, <2>1, <2>2, <2>3, <2>4, <2>7
  <2>6. Audit!NoFalseAlarm'
    <3>1. Sound' => AuditChained(key')
      BY <2>1 DEF Sound, AuditChained, Audit!Intact
    <3>2. checked' = "ok" <=> AuditChained(key')
      BY <1>12, AuditStartInv
    <3> QED
      BY <2>1, <2>4, <3>1, <3>2 DEF Audit!NoFalseAlarm
  <2> QED
    BY <2>5, <2>6
<1>13. CASE Audit!Stop
  <2>1. /\ ~up'
        /\ UNCHANGED <<lines, tail, key, auditEnv, keyFile, password, writable, checked, excused>>
    BY <1>13 DEF Audit!Stop, Audit!file, Audit!keys
  <2> QED
    BY <1>1, <1>2, <1>3, <1>4, <1>5, <1>6, <1>7, <1>8, <2>1
<1>14. CASE \E piece \in {"entry", "piece"}, crash \in BOOLEAN : Audit!BrokenOff(piece, crash)
  <2>1. up /\ excused' /\ UNCHANGED <<key, checked>>
    BY <1>14 DEF Audit!BrokenOff
  <2> QED
    BY <1>1, <1>6, <1>8, <2>1
<1>15. CASE \E p \in AuditPassword : Audit!Reset(p)
  <2>1. /\ up /\ up' /\ UNCHANGED <<key, keyFile, writable, checked, excused>>
        /\ auditEnv' = Audit!KeyKept /\ (Audit!Recorded \/ Audit!NotRecorded)
    BY <1>15 DEF Audit!Reset
  <2>2. ~excused => (Audit!StartKey = key)' /\ BlankOK'
    <3>1. SUFFICES ASSUME ~excused PROVE (Audit!StartKey = key)' /\ BlankOK'
      OBVIOUS
    <3>2. /\ Audit!StartKey = key /\ key # Audit!NoKey /\ password \in AuditPassword
          /\ auditEnv = Audit!Blank => key \notin AuditPassword
      BY <1>1, <1>2, <2>1, <3>1 DEF BlankOK, Audit!TypeOK
    <3>3. CASE auditEnv = Audit!NoKey
      <4>1. auditEnv' = key
        BY <2>1, <3>3 DEF Audit!KeyKept
      <4>2. key' = key /\ key # Audit!Blank
        BY <1>2, <2>1
      <4> QED
        BY <3>2, <4>1, <4>2 DEF BlankOK, Audit!StartKey
    <3>4. CASE auditEnv # Audit!NoKey
      <4>1. auditEnv' = auditEnv
        BY <2>1, <3>4 DEF Audit!KeyKept
      <4>2. UNCHANGED <<key, keyFile, writable>>
        BY <2>1
      <4> QED
        BY <3>2, <3>4, <4>1, <4>2 DEF BlankOK, Audit!StartKey
    <3> QED
      BY <3>3, <3>4
  <2>3. Audit!FileVerifies'
    BY <1>1, <1>6, <1>9, <1>10, <2>1, <2>2
  <2> QED
    BY <1>8, <2>1, <2>3
<1>16. CASE \E crash \in BOOLEAN : Audit!ResetCut(crash)
  <2>1. PICK crash \in BOOLEAN : Audit!ResetCut(crash)
    BY <1>16
  <2>2. /\ up /\ lines' = lines /\ tail' = tail
        /\ UNCHANGED <<key, keyFile, writable, checked>>
        /\ auditEnv' \in {Audit!KeyKept, Audit!NoKey, Audit!Blank, Audit!Short}
        /\ excused' = \/ excused
                       \/ auditEnv' = Audit!Short
                       \/ (auditEnv \notin {Audit!NoKey, Audit!Blank} /\ auditEnv' # auditEnv)
                       \/ (auditEnv' \in {Audit!NoKey, Audit!Blank} /\ key \in AuditPassword)
    BY <2>1 DEF Audit!ResetCut, Audit!file
  <2>3. ~excused' => (Audit!StartKey = key)' /\ BlankOK'
    <3>1. SUFFICES ASSUME ~excused' PROVE (Audit!StartKey = key)' /\ BlankOK'
      OBVIOUS
    <3>2. /\ Audit!StartKey = key /\ key # Audit!NoKey /\ password \in AuditPassword
          /\ auditEnv \notin {Audit!NoKey, Audit!Blank} => auditEnv' = auditEnv
          /\ auditEnv' \in {Audit!NoKey, Audit!Blank} => key \notin AuditPassword
          /\ auditEnv' \in {Audit!KeyKept, Audit!NoKey, Audit!Blank}
      BY <1>1, <2>2, <3>1 DEF Audit!TypeOK
    <3>3. BlankOK'
      BY <2>2, <3>2 DEF BlankOK
    <3>4. CASE auditEnv' \in {Audit!NoKey, Audit!Blank}
      <4>1. auditEnv \in {Audit!NoKey, Audit!Blank}
        BY <3>2, <3>4
      <4> QED
        BY <2>2, <3>2, <3>3, <3>4, <4>1 DEF Audit!StartKey
    <3>5. CASE auditEnv' = Audit!KeyKept /\ auditEnv' \notin {Audit!NoKey, Audit!Blank}
      BY <1>2, <2>2, <3>2, <3>3, <3>5 DEF Audit!StartKey, Audit!KeyKept
    <3> QED
      BY <3>2, <3>3, <3>4, <3>5
  <2>4. ~excused' => ~excused
    BY <2>2
  <2>5. Audit!FileVerifies'
    BY <1>1, <1>4, <1>5, <1>6, <2>2, <2>3, <2>4
  <2> QED
    BY <1>8, <2>2, <2>4, <2>5
<1>17. CASE \E p \in AuditPassword : Audit!EditPassword(p)
  <2>1. /\ up' = up /\ ~up /\ UNCHANGED <<lines, tail, key, auditEnv, keyFile, writable, checked>>
        /\ excused' = (excused \/ key \in AuditPassword)
    BY <1>17 DEF Audit!EditPassword, Audit!file
  <2>2. ~excused' => (key' # Audit!NoKey => (Audit!StartKey = key)')
    BY <1>1, <2>1 DEF Audit!StartKey, Audit!TypeOK
  <2> QED
    BY <1>1, <1>2, <1>3, <1>4, <1>5, <1>6, <1>8, <2>1, <2>2
<1>18. CASE \E i \in 1..Len(lines) : Audit!LoseLine(i) \/ Audit!ChangeLine(i) \/ Audit!Repair(i)
  <2>1. ~up' /\ excused' /\ checked' = checked
    BY <1>18 DEF Audit!LoseLine, Audit!ChangeLine, Audit!Repair
  <2> QED
    BY <1>6, <1>8, <2>1
<1>19. CASE UNCHANGED Audit!vars
  <2>1. UNCHANGED <<up, lines, tail, key, auditEnv, keyFile, password, writable, checked, excused>>
    BY <1>19 DEF Audit!vars
  <2> QED
    BY <1>1, <1>2, <1>3, <1>4, <1>5, <1>6, <1>7, <1>8, <2>1
<1> QED
  BY <1>11, <1>12, <1>13, <1>14, <1>15, <1>16, <1>17, <1>18, <1>19 DEF Audit!Next

-----------------------------------------------------------------------------
\* A first start finds nothing, or one entry of the older kind.
LEMMA AuditInitially ==
  ASSUME Audit!AuditAssumption
  PROVE  Audit!Init => Audit!IInv
<1> SUFFICES ASSUME Audit!Init PROVE Audit!IInv
  OBVIOUS
<1> USE DEF Audit!Init
<1>1. PICK e : e = Audit!Entry(Audit!Genesis, 1, Audit!Sha)
  OBVIOUS
<1>2. /\ e.id = 1 /\ e.key = Audit!Sha /\ e.prev = Audit!Genesis /\ Audit!Intact(e)
      /\ e.hash # Audit!Genesis
      /\ e = Audit!Entry(e.prev, e.id, e.key) /\ Audit!Number(e) = 1
  BY <1>1, AuditEntryIs
<1>3. PICK s : s = lines
  OBVIOUS
<1>4. /\ s = <<>> \/ s = <<e>>
      /\ written = s /\ lines = s /\ entries = <<>>
  BY <1>1, <1>3
<1>5. Audit!IsSeq(<<>>) /\ Audit!IsSeq(s)
  <2>1. <<>> \in Seq(Audit!ToSet(<<>>))
    OBVIOUS
  <2>2. e \in Audit!ToSet(<<e>>)
    BY DEF Audit!ToSet
  <2>3. <<e>> \in Seq(Audit!ToSet(<<e>>))
    BY <2>2
  <2> QED
    BY <1>4, <2>1, <2>3 DEF Audit!IsSeq
<1>6. \A i \in DOMAIN s : i = 1 /\ s[i] = e
  BY <1>4
<1>7. Audit!TypeOK
  <2>1. /\ {key, auditEnv, keyFile} \subseteq Audit!Keys
        /\ Audit!Blank \notin {key, keyFile} /\ Audit!Blank \notin {key, auditEnv, keyFile}
    BY DEF Audit!Keys, Audit!NoKey, Audit!Blank
  <2>2. \A i \in 1..Len(entries) :
          entries[i].key \in (Audit!Keys \ {Audit!NoKey}) \cup {Audit!Sha}
    <3>1. entries = <<>> /\ Len(<<>>) = 0
      BY <1>4
    <3> QED
      BY <3>1
  <2>3. next \in 2..AuditEntries + 1 /\ auditStops \in 0..AuditStops /\ harm \in 0..AuditHarm
    BY DEF Audit!AuditAssumption
  <2> QED
    BY <2>1, <2>2, <2>3 DEF Audit!TypeOK
<1>8. Audit!IsEntry(e)
  <2>1. e.id \in 1..next - 1
    BY <1>2
  <2> QED
    BY <1>2, <2>1 DEF Audit!IsEntry
<1>9. Audit!FileTypes
  BY <1>4, <1>5, <1>6, <1>8 DEF Audit!FileTypes
<1>10. Audit!ChainsAreWritten
  <2>1. ASSUME NEW i \in DOMAIN lines PROVE Audit!Follows(lines[i])
    BY <1>2, <1>4, <1>6, <2>1 DEF Audit!Follows
  <2> QED
    BY <2>1 DEF Audit!ChainsAreWritten
<1>11. Audit!NextContinues /\ Audit!PageShowsFile /\ Audit!NoFalseAlarm
  BY DEF Audit!NextContinues, Audit!PageShowsFile, Audit!NoFalseAlarm
<1>12. Audit!FileVerifies
  <2>1. ASSUME NEW i \in DOMAIN lines
        PROVE  /\ Audit!Intact(lines[i]) /\ lines[i].key \in {key, Audit!Sha}
               /\ lines[i].prev = IF i = 1 THEN Audit!Genesis ELSE lines[i - 1].hash
    BY <1>2, <1>4, <1>6
  <2>2. auditEnv # Audit!Blank
    BY DEF Audit!NoKey, Audit!Blank
  <2> QED
    BY <2>1, <2>2 DEF Audit!FileVerifies
<1> QED
  BY <1>7, <1>9, <1>10, <1>11, <1>12 DEF Audit!IInv

\* The invariant of the audit log.
LEMMA AuditInvariance ==
  ASSUME Audit!AuditAssumption
  PROVE  Audit!Spec => []Audit!IInv
<1>1. Audit!Init => Audit!IInv
  BY AuditInitially
<1>2. Audit!IInv /\ [Audit!Next]_(Audit!vars) => Audit!IInv'
  <2>1. SUFFICES ASSUME Audit!IInv, [Audit!Next]_(Audit!vars) PROVE Audit!IInv'
    OBVIOUS
  <2>2. Audit!TypeOK'
    BY <2>1, AuditStepTypes
  <2> QED
    BY <2>1, <2>2, AuditStepFile, AuditStepVerifies DEF Audit!IInv
<1> QED
  BY <1>1, <1>2, PTL DEF Audit!Spec

\* A start that finds the chain in order has the beginning of what was written.
LEMMA AuditStartsKnow ==
  ASSUME Audit!AuditAssumption
  PROVE  Audit!Spec => Audit!HarmIsSeen
<1>1. Audit!IInv /\ Audit!IInv' /\ [Audit!Next]_(Audit!vars) =>
        [~up /\ up' /\ checked' = "ok" => Audit!IsPrefix(lines, written)]_(Audit!vars)
  <2>1. SUFFICES ASSUME Audit!IInv, Audit!IInv', Audit!Next, ~up, up', checked' = "ok"
                 PROVE  Audit!IsPrefix(lines, written)
    OBVIOUS
  <2>2. Audit!Start
    BY <2>1 DEF Audit!Next, Audit!Record, Audit!Stop, Audit!BrokenOff, Audit!Reset,
                Audit!ResetCut, Audit!EditPassword, Audit!LoseLine, Audit!ChangeLine, Audit!Repair
  <2> QED
    BY <2>1, <2>2, AuditStartInv DEF Audit!IInv
<1> QED
  BY <1>1, AuditInvariance, PTL DEF Audit!Spec, Audit!HarmIsSeen

-----------------------------------------------------------------------------
(* The list of messages.                                                   *)

\* The part counts as this module does.
LEMMA ListSizes == \A S : List!Cardinality(S) = Cardinality(S)
BY DEF List!Cardinality, Cardinality

(* A set of positions in order.                                            *)

\* A set of positions has a last one.
LEMMA ListGreatestOf ==
  ASSUME NEW N \in Nat, NEW S \in SUBSET (1..N), S # {}
  PROVE  \E x \in S : \A y \in S : y <= x
<1> DEFINE D == {N - y : y \in S}
<1>1. D \in SUBSET Nat /\ D # {}
  <2>1. \A y \in S : y \in 1..N
    OBVIOUS
  <2>2. \A y \in S : N - y \in Nat
    BY <2>1
  <2> QED
    BY <2>2
<1>2. PICK d \in D : \A e \in D : d <= e
  BY <1>1, LeastOf
<1>3. PICK x \in S : d = N - x
  OBVIOUS
<1>4. ASSUME NEW y \in S PROVE y <= x
  <2>1. d <= N - y
    BY <1>2
  <2> QED
    BY <1>3, <2>1
<1> QED
  BY <1>4

\* The sequence has the members of the set in order.
ListOrdered(S, s) ==
  s \in [1..Cardinality(S) -> S] /\ List!Increasing(s) /\ \A x \in S :
    \E i \in DOMAIN s : s[i] = x

\* A set of positions is finite.
LEMMA ListSizeIs ==
  ASSUME NEW N \in Nat, NEW S \in SUBSET (1..N)
  PROVE  IsFiniteSet(S) /\ Cardinality(S) \in Nat
<1>1. IsFiniteSet(1..N)
  BY FS_Interval
<1>2. IsFiniteSet(S)
  BY <1>1, FS_Subset
<1> QED
  BY <1>2, FS_CardinalityType

\* One more at the end.
LEMMA ListOrderedMore ==
  ASSUME NEW N \in Nat, NEW S \in SUBSET (1..N), NEW x \in S, \A y \in S : y <= x,
         NEW s, ListOrdered(S \ {x}, s)
  PROVE  \E t : ListOrdered(S, t)
<1> DEFINE T == S \ {x}
           n == Cardinality(T)
           t == [i \in 1..n + 1 |-> IF i = n + 1 THEN x ELSE s[i]]
<1>1. IsFiniteSet(S) /\ IsFiniteSet(T) /\ n \in Nat /\ Cardinality(S) \in Nat
  BY ListSizeIs
<1>2. Cardinality(S) = n + 1
  <2>1. n = Cardinality(S) - 1
    BY <1>1, FS_RemoveElement
  <2> QED
    BY <1>1, <2>1
<1>3. s \in [1..n -> T] /\ List!Increasing(s) /\ \A y \in T : \E i \in 1..n : s[i] = y
  BY DEF ListOrdered
<1> HIDE DEF n
<1>4. t \in [1..n + 1 -> S]
  BY <1>1, <1>3
<1>5. \A i \in 1..n : t[i] = s[i] /\ s[i] \in T
  BY <1>1, <1>3
<1>6. t[n + 1] = x
  BY <1>1
<1> HIDE DEF t
<1>7. ASSUME NEW i \in 1..n + 1, NEW j \in 1..n + 1, i < j PROVE t[i] < t[j]
  <2>1. i \in 1..n
    BY <1>1, <1>7
  <2>2. CASE j = n + 1
    <3>1. t[i] \in T /\ t[j] = x
      BY <1>5, <1>6, <2>1, <2>2
    <3>2. t[i] \in 1..N /\ x \in 1..N
      <4>1. \A y \in S : y \in 1..N
        OBVIOUS
      <4> QED
        BY <3>1, <4>1
    <3>3. t[i] <= x /\ t[i] # x /\ t[i] \in Nat /\ x \in Nat
      BY <3>1, <3>2
    <3> QED
      BY <3>1, <3>3
  <2>3. CASE j # n + 1
    <3>1. j \in 1..n
      BY <1>1, <2>3
    <3> QED
      BY <1>3, <1>5, <1>7, <2>1, <3>1 DEF List!Increasing
  <2> QED
    BY <2>2, <2>3
<1>8. DOMAIN t = 1..n + 1
  BY <1>4
<1>9. List!Increasing(t)
  BY <1>7, <1>8 DEF List!Increasing
<1>10. \A y \in S : \E i \in DOMAIN t : t[i] = y
  <2> TAKE y \in S
  <2>1. CASE y = x
    <3>1. n + 1 \in DOMAIN t
      BY <1>1, <1>8
    <3> QED
      BY <1>6, <2>1, <3>1
  <2>2. CASE y # x
    <3>1. PICK i \in 1..n : s[i] = y
      BY <1>3, <2>2
    <3>2. i \in DOMAIN t
      BY <1>1, <1>8
    <3> QED
      BY <1>5, <3>1, <3>2
  <2> QED
    BY <2>1, <2>2
<1> QED
  BY <1>2, <1>4, <1>9, <1>10 DEF ListOrdered

\* There is an order.
LEMMA ListOrderedExists ==
  ASSUME NEW N \in Nat, NEW S \in SUBSET (1..N)
  PROVE  \E s : ListOrdered(S, s)
<1> DEFINE Bad == {Cardinality(T) : T \in {U \in SUBSET (1..N) : ~\E s : ListOrdered(U, s)}}
<1> SUFFICES ASSUME ~\E s : ListOrdered(S, s) PROVE FALSE
  OBVIOUS
<1>1. Bad \in SUBSET Nat
  BY ListSizeIs
<1>2. Bad # {}
  OBVIOUS
<1>3. PICK n \in Bad : \A m \in Bad : n <= m
  BY <1>1, <1>2, LeastOf
<1>4. PICK T \in SUBSET (1..N) : n = Cardinality(T) /\ ~\E s : ListOrdered(T, s)
  BY <1>3
<1>5. T # {}
  <2> SUFFICES ASSUME T = {} PROVE FALSE
    OBVIOUS
  <2>1. Cardinality(T) = 0
    BY FS_EmptySet
  <2> DEFINE e == [i \in 1..0 |-> i]
  <2>2. e \in [1..0 -> T] /\ List!Increasing(e)
    BY DEF List!Increasing
  <2>3. ListOrdered(T, e)
    BY <2>1, <2>2 DEF ListOrdered
  <2> QED
    BY <1>4, <2>3
<1>6. PICK x \in T : \A y \in T : y <= x
  BY <1>5, ListGreatestOf
<1>7. /\ Cardinality(T \ {x}) = Cardinality(T) - 1
      /\ Cardinality(T) \in Nat /\ T \ {x} \in SUBSET (1..N)
  BY ListSizeIs, FS_RemoveElement
<1>8. Cardinality(T \ {x}) \notin Bad
  <2>1. ~(n <= Cardinality(T \ {x}))
    BY <1>4, <1>7
  <2> QED
    BY <1>3, <2>1
<1>9. \E s : ListOrdered(T \ {x}, s)
  BY <1>7, <1>8
<1> QED
  BY <1>4, <1>6, <1>9, ListOrderedMore

\* What InOrder finds.
LEMMA ListInOrderIs ==
  ASSUME NEW N \in Nat, NEW S \in SUBSET (1..N)
  PROVE  /\ List!InOrder(S) \in [1..Cardinality(S) -> S] /\ List!Increasing(List!InOrder(S))
         /\ \A x \in S : \E i \in DOMAIN List!InOrder(S) : List!InOrder(S)[i] = x
         /\ List!InOrder(S) \in Seq(S)
<1>1. PICK s : ListOrdered(S, s)
  BY ListOrderedExists
<1>2. ListOrdered(S, List!InOrder(S))
  BY <1>1, ListSizes DEF ListOrdered, List!InOrder
<1>3. Cardinality(S) \in Nat
  BY ListSizeIs
<1>4. List!InOrder(S) \in Seq(S)
  BY <1>2, <1>3 DEF ListOrdered
<1> QED
  BY <1>2, <1>4 DEF ListOrdered

-----------------------------------------------------------------------------
(* Pages.                                                                  *)

\* What the page counts for a position.
ListUpTo(found, i) == {j \in found : j >= i}

\* All of a small set is on the page, and of a larger one the last, without a gap.
LEMMA ListNewestIs ==
  ASSUME NEW N \in Nat, NEW F \in SUBSET (1..N), ListLimit \in Nat \ {0}
  PROVE  /\ List!Newest(F) \subseteq F
         /\ ~(Cardinality(F) > ListLimit) => List!Newest(F) = F
         /\ F # {} => List!Newest(F) # {}
         /\ \A i \in List!Newest(F) : \A p \in F : p >= i => p \in List!Newest(F)
<1>1. IsFiniteSet(F) /\ Cardinality(F) \in Nat
  BY ListSizeIs
<1>2. \A i \in F : ListUpTo(F, i) \subseteq F /\ ListUpTo(F, i) \in SUBSET (1..N)
  BY DEF ListUpTo
<1>3. \A i \in F : i \in List!Newest(F) <=> Cardinality(ListUpTo(F, i)) <= ListLimit
  BY ListSizes DEF List!Newest, ListUpTo
<1>4. List!Newest(F) \subseteq F
  BY DEF List!Newest
<1>5. ASSUME ~(Cardinality(F) > ListLimit) PROVE List!Newest(F) = F
  <2>1. ASSUME NEW i \in F PROVE i \in List!Newest(F)
    <3>1. Cardinality(ListUpTo(F, i)) <= Cardinality(F) /\ Cardinality(ListUpTo(F, i)) \in Nat
      BY <1>1, <1>2, FS_Subset, ListSizeIs
    <3> QED
      BY <1>1, <1>3, <1>5, <3>1
  <2> QED
    BY <1>4, <2>1
<1>6. ASSUME F # {} PROVE List!Newest(F) # {}
  <2>1. PICK x \in F : \A y \in F : y <= x
    BY <1>6, ListGreatestOf
  <2>2. ListUpTo(F, x) = {x}
    <3>1. \A y \in F : y \in Nat
      OBVIOUS
    <3>2. \A y \in F : y >= x <=> y = x
      BY <2>1, <3>1
    <3> QED
      BY <3>2 DEF ListUpTo
  <2>3. Cardinality({x}) = 1
    BY FS_Singleton
  <2> QED
    BY <1>3, <2>1, <2>2, <2>3
<1>7. ASSUME NEW i \in List!Newest(F), NEW p \in F, p >= i PROVE p \in List!Newest(F)
  <2>1. ListUpTo(F, p) \subseteq ListUpTo(F, i)
    <3>1. \A y \in F : y \in Nat
      OBVIOUS
    <3>2. p \in Nat /\ i \in Nat
      BY <1>4, <3>1
    <3>3. \A y \in F : y >= p => y >= i
      BY <1>7, <3>1, <3>2
    <3> QED
      BY <3>3 DEF ListUpTo
  <2>2. /\ IsFiniteSet(ListUpTo(F, i)) /\ Cardinality(ListUpTo(F, i)) \in Nat
        /\ Cardinality(ListUpTo(F, p)) \in Nat
    BY <1>2, <1>4, ListSizeIs
  <2>3. Cardinality(ListUpTo(F, p)) <= Cardinality(ListUpTo(F, i))
    BY <2>1, <2>2, FS_Subset
  <2>4. Cardinality(ListUpTo(F, i)) <= ListLimit
    BY <1>3, <1>4
  <2> QED
    BY <1>3, <2>2, <2>3, <2>4
<1> QED
  BY <1>4, <1>5, <1>6, <1>7

\* A page, as collectPagedMessages makes it.
LEMMA ListPageIs ==
  ASSUME List!MatchesAssumption, List!TypeOK, NEW q \in List!Questions, List!QuestionFits(q),
         \A i \in DOMAIN messages : messages[i] <= stored
  PROVE  List!Page(q) \in List!Answers /\ List!AnswerFits(List!Page(q))
<1> DEFINE found == List!Found(q.filter, q.before)
           N == List!Newest(found)
           rows == List!InOrder(N)
           rest == Cardinality(found) > ListLimit
           a == [kind |-> "answer", reset |-> q.reset, filter |-> q.filter, rows |-> rows,
                 more |-> rest, before |-> IF rest THEN rows[1] ELSE 0]
<1>1. /\ q.filter \in ListFilter /\ q.reset \in BOOLEAN /\ q.before \in 0..ListStored
      /\ ListStored \in Nat /\ ListLimit \in Nat \ {0} /\ stored \in Nat
      /\ Matches[q.filter] \in SUBSET (1..ListStored)
  BY DEF List!Questions, List!MatchesAssumption, List!TypeOK
<1>2. found \in SUBSET (1..ListStored)
  BY <1>1 DEF List!Found
<1>3. \A p \in Matches[q.filter] : p \in found <=> p <= stored /\ (q.before = 0 \/ p < q.before)
  BY DEF List!Found
<1>4. found \subseteq Matches[q.filter]
  BY DEF List!Found
<1> HIDE DEF found
<1>5. /\ N \subseteq found /\ (~rest => N = found) /\ (found # {} => N # {})
      /\ \A i \in N : \A p \in found : p >= i => p \in N
  BY <1>1, <1>2, ListNewestIs
<1> HIDE DEF N
<1>6. N \in SUBSET (1..ListStored)
  BY <1>2, <1>5
<1>7. /\ rows \in [1..Cardinality(N) -> N] /\ List!Increasing(rows)
      /\ \A x \in N : \E i \in DOMAIN rows : rows[i] = x
      /\ rows \in Seq(N) /\ Cardinality(N) \in Nat
  BY <1>1, <1>6, ListInOrderIs, ListSizeIs
<1> HIDE DEF rows
<1>8. Len(rows) \in Nat /\ DOMAIN rows = 1..Len(rows) /\ \A i \in DOMAIN rows : rows[i] \in N
  BY <1>7
<1>9. rows \in Seq(List!Positions)
  <2>1. N \subseteq List!Positions
    BY <1>6 DEF List!Positions
  <2> QED
    BY <1>7, <2>1
<1>10. rest => rows # <<>>
  <2>1. rest => found # {}
    <3>1. Cardinality({}) = 0
      BY FS_EmptySet
    <3> QED
      BY <1>1, <3>1
  <2>2. N # {} => rows # <<>>
    BY <1>7
  <2> QED
    BY <1>5, <2>1, <2>2
<1>11. rows # <<>> => 1 \in DOMAIN rows /\ Len(rows) \in DOMAIN rows
  BY <1>8, <1>9
<1>12. List!Page(q) = a
  BY ListSizes DEF List!Page, found, N, rows
<1>13. rest \in BOOLEAN
  <2>1. rest = TRUE \/ rest = FALSE
    BY <1>1, <1>2, ListSizeIs
  <2> QED
    BY <2>1
<1> HIDE DEF rest
<1>14. (IF rest THEN rows[1] ELSE 0) \in 0..ListStored
  <2>1. rest => rows[1] \in 1..ListStored
    BY <1>6, <1>8, <1>10, <1>11
  <2>2. rest => rows[1] \in 0..ListStored
    BY <1>1, <2>1
  <2>3. 0 \in 0..ListStored
    BY <1>1
  <2> QED
    BY <2>2, <2>3
<1>15. a \in List!Answers
  BY <1>1, <1>9, <1>13, <1>14 DEF List!Answers
<1>16. /\ a.rows = rows /\ a.more = rest /\ a.reset = q.reset /\ a.filter = q.filter
       /\ rest => a.before = rows[1]
  OBVIOUS
<1> HIDE DEF a
<1>17. messages # <<>> =>
         messages[1] \in Nat \ {0} /\ messages[1] <= stored /\ q.before = messages[1]
  <2>1. messages # <<>> => 1 \in DOMAIN messages /\ messages[1] \in 1..ListStored
    <3>1. messages \in Seq(1..ListStored)
      BY DEF List!TypeOK, List!Positions
    <3>2. messages # <<>> => Len(messages) \in Nat /\ Len(messages) >= 1
      BY <3>1
    <3>3. DOMAIN messages = 1..Len(messages)
      BY <3>1
    <3>4. messages # <<>> => 1 \in DOMAIN messages
      BY <3>2, <3>3
    <3>5. \A i \in 1..Len(messages) : messages[i] \in 1..ListStored
      BY <3>1, ElementOfSeq
    <3> QED
      BY <3>3, <3>4, <3>5
  <2> QED
    BY <1>1, <2>1 DEF List!QuestionFits
<1>18. \A i \in DOMAIN rows : rows[i] <= stored /\ (messages # <<>> => rows[i] < messages[1])
  <2> TAKE i \in DOMAIN rows
  <2>1. rows[i] \in N /\ rows[i] \in found /\ rows[i] \in Matches[q.filter]
    BY <1>4, <1>5, <1>8
  <2>2. rows[i] <= stored /\ (q.before = 0 \/ rows[i] < q.before)
    BY <1>3, <2>1
  <2>3. messages # <<>> => q.before # 0 /\ q.before = messages[1]
    BY <1>17
  <2> QED
    BY <2>2, <2>3
<1>19. ASSUME NEW p \in Matches[q.filter], rest => p >= rows[1],
              IF messages # <<>> THEN p < messages[1] ELSE rows # <<>> /\ p <= rows[Len(rows)]
       PROVE  \E i \in DOMAIN rows : rows[i] = p
  <2>1. p \in Nat
    BY <1>1
  <2>2. p \in found
    <3>1. CASE messages # <<>>
      <4>1. p < messages[1]
        BY <1>19, <3>1
      <4> QED
        BY <1>1, <1>3, <1>17, <2>1, <3>1, <4>1
    <3>2. CASE messages = <<>>
      <4> DEFINE z == rows[Len(rows)]
      <4>1. p <= z /\ z \in N
        BY <1>8, <1>11, <1>19, <3>2
      <4>2. z \in found /\ z \in Matches[q.filter] /\ z \in Nat
        <5>1. z \in found /\ z \in Matches[q.filter]
          BY <1>4, <1>5, <4>1
        <5>2. z \in 1..ListStored
          BY <1>1, <5>1
        <5> QED
          BY <1>1, <5>1, <5>2
      <4>3. z <= stored /\ (q.before = 0 \/ z < q.before)
        BY <1>3, <4>2
      <4> HIDE DEF z
      <4>4. p <= stored /\ (q.before = 0 \/ p < q.before)
        BY <1>1, <2>1, <4>1, <4>2, <4>3
      <4> QED
        BY <1>3, <4>4
    <3> QED
      BY <3>1, <3>2
  <2>3. p \in N
    <3>1. CASE rest
      <4>1. rows[1] \in N
        BY <1>8, <1>10, <1>11, <3>1
      <4> QED
        BY <1>5, <1>19, <2>2, <3>1, <4>1
    <3>2. CASE ~rest
      BY <1>5, <2>2, <3>2
    <3> QED
      BY <3>1, <3>2
  <2> QED
    BY <1>7, <2>3
<1>20. messages # <<>> => ~q.reset
  BY DEF List!QuestionFits
<1>21. \A p \in List!Due(a) : \E i \in DOMAIN a.rows : a.rows[i] = p
  BY <1>16, <1>19 DEF List!Due
<1>22. List!AnswerFits(a)
  BY <1>7, <1>10, <1>16, <1>18, <1>20, <1>21 DEF List!AnswerFits
<1> QED
  BY <1>12, <1>15, <1>22

-----------------------------------------------------------------------------
(* Steps.                                                                  *)

\* The list is a sequence of stored positions.
LEMMA ListListIs ==
  ASSUME List!MatchesAssumption, List!TypeOK
  PROVE  /\ DOMAIN messages = 1..Len(messages) /\ Len(messages) \in Nat
         /\ \A i \in DOMAIN messages : messages[i] \in Nat \ {0} /\ messages[i] <= ListStored
         /\ messages # <<>> => 1 \in DOMAIN messages /\ Len(messages) \in DOMAIN messages
<1>1. messages \in Seq(1..ListStored) /\ ListStored \in Nat
  BY DEF List!TypeOK, List!Positions, List!MatchesAssumption
<1>2. DOMAIN messages = 1..Len(messages) /\ Len(messages) \in Nat
  BY <1>1
<1>3. messages # <<>> => Len(messages) >= 1
  BY <1>1, <1>2
<1>4. \A i \in DOMAIN messages : messages[i] \in 1..ListStored
  BY <1>1
<1> QED
  BY <1>1, <1>2, <1>3, <1>4

\* What is under way has its type.
LEMMA ListNetIs ==
  ASSUME List!IInv
  PROVE  /\ DOMAIN listNet = 1..Len(listNet) /\ Len(listNet) \in {0, 1}
         /\ (listNet = <<>> <=> Len(listNet) = 0)
         /\ listNet # <<>> =>
              /\ loading /\ Head(listNet) = listNet[1] /\ Tail(listNet) = <<>>
              /\ 1 \in DOMAIN listNet
                             /\ listNet[1] \in List!Questions \cup List!Answers
         /\ listNet = <<>> => ~loading
<1>1. listNet \in Seq(List!Questions \cup List!Answers) /\ Len(listNet) = IF loading THEN 1 ELSE 0
  BY DEF List!IInv, List!OneLoad
<1>2. /\ DOMAIN listNet = 1..Len(listNet) /\ Len(listNet) \in {0, 1}
      /\ (listNet = <<>> <=> Len(listNet) = 0)
  <2>1. Len(listNet) \in {0, 1}
    BY <1>1
  <2>2. DOMAIN listNet = 1..Len(listNet)
    BY <1>1, LenProperties
  <2>3. listNet = <<>> <=> Len(listNet) = 0
    BY <1>1, EmptySeq
  <2> QED
    BY <2>1, <2>2, <2>3
<1>3. CASE listNet # <<>>
  <2>1. /\ Len(listNet) = 1 /\ loading /\ 1 \in DOMAIN listNet
        /\ listNet[1] \in List!Questions \cup List!Answers
    BY <1>1, <1>2, <1>3
  <2>2. /\ Head(listNet) = listNet[1] /\ Tail(listNet) \in Seq(List!Questions \cup List!Answers)
        /\ Len(Tail(listNet)) = 0
    BY <1>1, <1>3, <2>1
  <2>3. Tail(listNet) = <<>>
    BY <2>2, EmptySeq
  <2> QED
    BY <1>2, <1>3, <2>1, <2>2, <2>3
<1>4. CASE listNet = <<>>
  BY <1>1, <1>2, <1>4
<1> QED
  BY <1>2, <1>3, <1>4

\* Steps that leave the rows alone and end no load.
LEMMA ListSameListInv ==
  ASSUME List!MatchesAssumption, List!IInv, UNCHANGED <<List!list, used, button>>,
         stored' \in 0..ListStored, stored'
           >= stored, filter' \in ListFilter, List!OneLoad', loading' \in BOOLEAN
  PROVE  List!IInv'
<1>1. List!TypeOK'
  <2>1. Len(listNet') <= 1
    BY DEF List!OneLoad
  <2> QED
    BY <2>1 DEF List!IInv, List!TypeOK, List!list
<1>2. List!NoGap'
  BY DEF List!IInv, List!NoGap, List!list, List!Increasing
<1>3. List!ListContinues'
  <2>1. \A i \in DOMAIN messages : messages[i] <= stored'
    BY ListListIs DEF List!IInv, List!ListContinues, List!TypeOK
  <2> QED
    BY <2>1 DEF List!IInv, List!ListContinues, List!list
<1>4. List!NothingLost'
  BY <1>3 DEF List!NothingLost, List!ListContinues
<1> QED
  BY <1>1, <1>2, <1>3, <1>4 DEF List!IInv

\* Steps that empty the rows.
LEMMA ListEmptiedInv ==
  ASSUME List!MatchesAssumption, List!IInv, messages' = <<>>, more' = FALSE, before' = 0,
         used' \subseteq ListFilter, button' \in BOOLEAN, loading' \in BOOLEAN,
         UNCHANGED <<stored, filter>>, List!OneLoad'
  PROVE  List!IInv'
<1>1. Len(listNet') <= 1
  BY DEF List!OneLoad
<1>2. messages' \in Seq(List!Positions) /\ before' \in 0..ListStored
  BY DEF List!MatchesAssumption
<1>3. List!TypeOK'
  BY <1>1, <1>2 DEF List!IInv, List!TypeOK
<1>4. List!NoGap' /\ List!NothingLost' /\ List!ListContinues'
  BY DEF List!NoGap, List!NothingLost, List!ListContinues, List!Increasing
<1> QED
  BY <1>3, <1>4 DEF List!IInv

\* A load of the list.
LEMMA ListLoadMessagesInv ==
  ASSUME List!MatchesAssumption, List!IInv, NEW reset \in BOOLEAN, List!LoadMessages(reset),
         reset \/ button
  PROVE  List!IInv'
<1> DEFINE q == List!Query(reset)
<1>1. q \in List!Questions /\ q.kind = "query"
  BY DEF List!Query, List!Questions, List!IInv, List!TypeOK, List!MatchesAssumption
<1>2. listNet = <<>>
  BY ListNetIs DEF List!LoadMessages
<1>3. /\ listNet' = <<q>> /\ Len(listNet') = 1
      /\ listNet' \in Seq(List!Questions \cup List!Answers) /\ listNet'[1] = q
      /\ DOMAIN listNet' = {1}
  BY <1>1, <1>2 DEF List!LoadMessages
<1>4. loading' = TRUE
  BY DEF List!LoadMessages
<1>5. CASE reset
  <2>1. /\ messages' = <<>> /\ more' = FALSE /\ before' = 0
        /\ UNCHANGED <<stored, filter, button, used>>
    BY <1>5 DEF List!LoadMessages
  <2>2. List!QuestionFits(q)'
    BY <2>1 DEF List!QuestionFits
  <2>3. List!OneLoad'
    BY <1>1, <1>3, <1>4, <2>1 DEF List!OneLoad, List!QuestionFits
  <2>4. used' \subseteq ListFilter /\ button' \in BOOLEAN
    BY <2>1 DEF List!IInv, List!TypeOK
  <2> QED
    BY <1>4, <2>1, <2>3, <2>4, ListEmptiedInv
<1>6. CASE ~reset
  <2>1. UNCHANGED <<List!list, stored, filter, button, used>>
    BY <1>6 DEF List!LoadMessages
  <2>2. messages # <<>> => q.before = messages[1] /\ ~q.reset
    BY <1>6 DEF List!IInv, List!ListContinues, List!Query
  <2>3. List!OneLoad'
    BY <1>1, <1>3, <1>4, <2>1, <2>2 DEF List!OneLoad, List!QuestionFits, List!list
  <2>4. stored' \in 0..ListStored /\ stored' >= stored /\ filter' \in ListFilter
    BY <2>1 DEF List!IInv, List!TypeOK
  <2> QED
    BY <1>4, <2>1, <2>3, <2>4, ListSameListInv
<1> QED
  BY <1>5, <1>6

\* What is under way still fits when more is stored or nothing of it changes.
LEMMA ListStillFits ==
  ASSUME List!MatchesAssumption, List!IInv, UNCHANGED <<messages, listNet, loading>>,
         stored' \in Nat, stored' >= stored
  PROVE  List!OneLoad'
<1>1. \A a \in List!Answers : \A i \in DOMAIN a.rows : a.rows[i] \in Nat
  <2> TAKE a \in List!Answers
  <2>1. a.rows \in Seq(List!Positions)
    BY DEF List!Answers
  <2>2. \A i \in DOMAIN a.rows : a.rows[i] \in List!Positions
    BY <2>1
  <2> QED
    BY <2>2 DEF List!Positions
<1>2. \A a \in List!Answers : List!AnswerFits(a) => List!AnswerFits(a)'
  <2> TAKE a \in List!Answers
  <2>1. (\A i \in DOMAIN a.rows :
           a.rows[i] <= stored) => \A i \in DOMAIN a.rows : a.rows[i] <= stored'
    BY <1>1 DEF List!IInv, List!TypeOK
  <2>2. List!Due(a)' = List!Due(a)
    BY DEF List!Due
  <2>3. messages' = messages
    OBVIOUS
  <2>4. SUFFICES ASSUME List!AnswerFits(a) PROVE List!AnswerFits(a)'
    OBVIOUS
  <2>5. \A i \in DOMAIN a.rows :
          a.rows[i] <= stored' /\ (messages' # <<>> => a.rows[i] < messages'[1])
    <3>1. \A i \in DOMAIN a.rows : a.rows[i] <= stored
      BY <2>4 DEF List!AnswerFits
    <3>2. \A i \in DOMAIN a.rows : messages # <<>> => a.rows[i] < messages[1]
      BY <2>4 DEF List!AnswerFits
    <3> QED
      BY <2>1, <2>3, <3>1, <3>2
  <2>6. \A p \in List!Due(a)' : \E i \in DOMAIN a.rows : a.rows[i] = p
    BY <2>2, <2>4 DEF List!AnswerFits
  <2> QED
    BY <2>3, <2>4, <2>5, <2>6 DEF List!AnswerFits
<1>3. \A n \in DOMAIN listNet : listNet[n] \in List!Questions \cup List!Answers
  BY DEF List!IInv, List!OneLoad
<1>4. \A q \in List!Questions : q.kind = "query"
  BY DEF List!Questions
<1> QED
  BY <1>2, <1>3, <1>4 DEF List!IInv, List!OneLoad, List!QuestionFits

\* The server answers.
LEMMA ListServeInv ==
  ASSUME List!MatchesAssumption, List!IInv, List!Serve
  PROVE  List!IInv'
<1>1. PICK n \in 1..Len(listNet) :
        /\ listNet[n].kind = "query" /\ listNet' = [listNet EXCEPT ![n] = List!Page(listNet[n])]
                              /\ UNCHANGED <<stored, filter, List!list, loading, button, used>>
  BY DEF List!Serve
<1>2. listNet # <<>> /\ n = 1 /\ Len(listNet) = 1
  BY ListNetIs
<1>3. listNet[1] \in List!Questions /\ List!QuestionFits(listNet[1])
  <2>1. listNet[1] \in List!Questions \cup List!Answers /\ 1 \in DOMAIN listNet
    BY <1>2, ListNetIs
  <2>2. listNet[1] \in List!Questions
    BY <1>1, <1>2, <2>1 DEF List!Answers
  <2> QED
    BY <1>1, <1>2, <2>1, <2>2 DEF List!IInv, List!OneLoad
<1>4. \A i \in DOMAIN messages : messages[i] <= stored
  BY DEF List!IInv, List!ListContinues
<1>15. PICK a : a = List!Page(listNet[1])
  OBVIOUS
<1>5. a \in List!Answers /\ List!AnswerFits(a)
  BY <1>3, <1>4, <1>15, ListPageIs DEF List!IInv
<1>6. /\ listNet' \in Seq(List!Questions \cup List!Answers) /\ Len(listNet') = 1
      /\ listNet'[1] = a /\ DOMAIN listNet' = {1}
  <2>1. listNet \in Seq(List!Questions \cup List!Answers) /\ 1 \in DOMAIN listNet
    BY <1>2, ListNetIs DEF List!IInv, List!OneLoad
  <2>2. listNet' = [listNet EXCEPT ![1] = a]
    BY <1>1, <1>2, <1>15
  <2> QED
    BY <1>2, <1>5, <2>1, <2>2
<1>7. List!AnswerFits(a)'
  <2>1. messages' = messages /\ stored' = stored
    BY <1>1 DEF List!list
  <2>2. List!Due(a)' = List!Due(a)
    BY <2>1 DEF List!Due
  <2> QED
    BY <1>5, <2>1, <2>2 DEF List!AnswerFits
<1>8. loading' /\ loading' \in BOOLEAN
  BY <1>1, <1>2, ListNetIs DEF List!IInv, List!TypeOK
<1>9. a.kind = "answer"
  BY <1>5 DEF List!Answers
<1>10. Len(listNet') = IF loading' THEN 1 ELSE 0
  BY <1>6, <1>8
<1>11. List!OneLoad'
  <2> DEFINE Fits(m) == IF m.kind = "query" THEN List!QuestionFits(m) ELSE List!AnswerFits(m)
  <2>1. Fits(a)'
    BY <1>7, <1>9
  <2>2. (\A m \in DOMAIN listNet : Fits(listNet[m]))'
    <3> HIDE DEF Fits
    <3> QED
      BY <1>6, <2>1
  <2> QED
    BY <1>6, <1>10, <2>2 DEF List!OneLoad
<1>12. stored' \in 0..ListStored /\ stored' >= stored /\ filter' \in ListFilter
  BY <1>1 DEF List!IInv, List!TypeOK
<1> QED
  BY <1>1, <1>8, <1>11, <1>12, ListSameListInv

\* The rows after an answer are those of the answer in front of those there were.
ListJoined(a, m) ==
  /\ a \in List!Answers /\ List!AnswerFits(a)
  /\ m \in Seq(List!Positions) /\ m = a.rows \o messages
  /\ Len(m) = Len(a.rows) + Len(messages) /\ DOMAIN m = 1..Len(m)
  /\ Len(a.rows) \in Nat /\ DOMAIN a.rows = 1..Len(a.rows)
  /\ \A i \in DOMAIN a.rows : i \in DOMAIN m /\ m[i] = a.rows[i] /\ a.rows[i] \in Nat \ {0}
  /\ \A i \in DOMAIN messages : Len(a.rows) + i \in DOMAIN m /\ m[Len(a.rows) + i] = messages[i]
  /\ \A i \in DOMAIN m : i \notin DOMAIN a.rows =>
       i - Len(a.rows) \in DOMAIN messages /\ m[i] = messages[i - Len(a.rows)]

\* The rows that are joined are a sequence in order.
LEMMA ListJoinedIs ==
  ASSUME List!MatchesAssumption, List!IInv, listNet # <<>>, listNet[1].kind = "answer",
         NEW a, a = listNet[1], NEW m, m = IF a.reset THEN a.rows ELSE a.rows \o messages
  PROVE  ListJoined(a, m)
<1>1. a \in List!Answers /\ List!AnswerFits(a)
  <2>1. a \in List!Questions \cup List!Answers /\ 1 \in DOMAIN listNet
    BY ListNetIs
  <2>2. a \in List!Answers
    BY <2>1 DEF List!Questions
  <2>3. List!AnswerFits(listNet[1])
    BY <2>1 DEF List!IInv, List!OneLoad
  <2> QED
    BY <2>2, <2>3
<1>2. a.rows \in Seq(List!Positions) /\ messages \in Seq(List!Positions)
  BY <1>1 DEF List!Answers, List!IInv, List!TypeOK
<1>3. m = a.rows \o messages
  <2>1. CASE a.reset
    <3>1. messages = <<>>
      BY <1>1, <2>1 DEF List!AnswerFits
    <3>2. a.rows \o messages = a.rows
      BY <1>2, <3>1, ConcatEmptySeq
    <3> QED
      BY <2>1, <3>2
  <2> QED
    BY <2>1
<1> DEFINE r == a.rows
<1> HIDE DEF r
<1>4. /\ m \in Seq(List!Positions) /\ Len(m) = Len(r) + Len(messages)
      /\ \A i \in 1..Len(r) + Len(messages) :
           m[i] = IF i <= Len(r) THEN r[i] ELSE messages[i - Len(r)]
  BY <1>2, <1>3, ConcatProperties DEF r
<1>5. /\ DOMAIN m = 1..Len(m) /\ DOMAIN r = 1..Len(r) /\ DOMAIN messages = 1..Len(messages)
      /\ Len(r) \in Nat /\ Len(messages) \in Nat
  BY <1>2, <1>4, LenProperties DEF r
<1>6. \A i \in 1..Len(r) : r[i] \in Nat \ {0}
  <2> TAKE i \in 1..Len(r)
  <2>1. r[i] \in List!Positions
    BY <1>2, ElementOfSeq DEF r
  <2>2. ListStored \in Nat
    BY DEF List!MatchesAssumption
  <2> QED
    BY <2>1, <2>2 DEF List!Positions
<1>7. ASSUME NEW i \in 1..Len(r) PROVE i \in DOMAIN m /\ m[i] = r[i]
  BY <1>4, <1>5
<1>8. ASSUME NEW i \in 1..Len(messages)
      PROVE  Len(r) + i \in DOMAIN m /\ m[Len(r) + i] = messages[i]
  <2>1. /\ Len(r) + i \in 1..Len(r) + Len(messages) /\ ~(Len(r) + i <= Len(r))
        /\ Len(r) + i - Len(r) = i
    BY <1>5
  <2> DEFINE j == Len(r) + i
  <2>2. j \in 1..Len(r) + Len(messages) /\ ~(j <= Len(r)) /\ j - Len(r) = i
    BY <2>1
  <2> HIDE DEF j
  <2>3. j \in DOMAIN m /\ m[j] = messages[i]
    BY <1>4, <1>5, <2>2
  <2> QED
    BY <2>3 DEF j
<1>9. ASSUME NEW i \in DOMAIN m, i \notin DOMAIN r
      PROVE  i - Len(r) \in DOMAIN messages /\ m[i] = messages[i - Len(r)]
  <2>1. i \in 1..Len(r) + Len(messages) /\ ~(i <= Len(r))
    BY <1>4, <1>5, <1>9
  <2>2. i - Len(r) \in 1..Len(messages)
    BY <1>5, <2>1
  <2> QED
    BY <1>4, <1>5, <2>1, <2>2
<1> QED
  BY <1>1, <1>3, <1>4, <1>5, <1>6, <1>7, <1>8, <1>9 DEF r, ListJoined

\* An answer arrives.
LEMMA ListArriveInv ==
  ASSUME List!MatchesAssumption, List!IInv, List!Arrive
  PROVE  List!IInv'
<1>1. listNet # <<>> /\ Head(listNet) = listNet[1] /\ listNet[1].kind = "answer"
  BY ListNetIs DEF List!Arrive
<1>2. PICK a : a = listNet[1]
  OBVIOUS
<1>3. PICK m : m = IF a.reset THEN a.rows ELSE a.rows \o messages
  OBVIOUS
<1>4. PICK k : k = Len(a.rows)
  OBVIOUS
<1>5. /\ a \in List!Answers /\ List!AnswerFits(a)
      /\ m \in Seq(List!Positions) /\ m = a.rows \o messages
      /\ Len(m) = k + Len(messages) /\ DOMAIN m = 1..Len(m)
      /\ k \in Nat /\ DOMAIN a.rows = 1..k
      /\ \A i \in DOMAIN a.rows : i \in DOMAIN m /\ m[i] = a.rows[i] /\ a.rows[i] \in Nat \ {0}
      /\ \A i \in DOMAIN messages : k + i \in DOMAIN m /\ m[k + i] = messages[i]
      /\ \A i \in DOMAIN m : i \notin DOMAIN a.rows =>
           i - k \in DOMAIN messages /\ m[i] = messages[i - k]
  <2>1. /\ a \in List!Answers /\ List!AnswerFits(a)
        /\ m \in Seq(List!Positions) /\ m = a.rows \o messages
        /\ Len(m) = Len(a.rows) + Len(messages) /\ DOMAIN m = 1..Len(m)
        /\ Len(a.rows) \in Nat /\ DOMAIN a.rows = 1..Len(a.rows)
        /\ \A i \in DOMAIN a.rows : i \in DOMAIN m /\ m[i] = a.rows[i] /\ a.rows[i] \in Nat \ {0}
        /\ \A i \in DOMAIN messages :
             Len(a.rows) + i \in DOMAIN m /\ m[Len(a.rows) + i] = messages[i]
        /\ \A i \in DOMAIN m : i \notin DOMAIN a.rows =>
             i - Len(a.rows) \in DOMAIN messages /\ m[i] = messages[i - Len(a.rows)]
    <3>1. ListJoined(a, m)
      BY <1>1, <1>2, <1>3, ListJoinedIs
    <3> QED
      BY <3>1 DEF ListJoined
  <2> QED
    BY <1>4, <2>1
<1>6. PICK used1 : used1 = {a.filter} \cup IF a.reset THEN {} ELSE used
  OBVIOUS
<1>7. /\ messages' = m /\ more' = a.more /\ before' = a.before /\ used' = used1
      /\ loading' = FALSE /\ button' = (m # <<>> /\ a.more) /\ listNet' = <<>>
      /\ UNCHANGED <<stored, filter>>
  BY <1>1, <1>2, <1>3, <1>6, ListNetIs DEF List!Arrive
<1>8. /\ a.filter \in ListFilter /\ a.more \in BOOLEAN /\ a.before \in 0..ListStored
      /\ a.reset \in BOOLEAN
      /\ a.rows \in Seq(List!Positions)
  BY <1>5 DEF List!Answers
<1>9. /\ List!Increasing(a.rows)
      /\ \A i \in DOMAIN a.rows : a.rows[i] <= stored
      /\ \A i \in DOMAIN a.rows : messages # <<>> => a.rows[i] < messages[1]
      /\ a.more => a.rows # <<>> /\ a.before = a.rows[1]
      /\ messages # <<>> => ~a.reset
      /\ \A p \in List!Due(a) : \E i \in DOMAIN a.rows : a.rows[i] = p
  BY <1>5 DEF List!AnswerFits
<1>10. /\ DOMAIN messages = 1..Len(messages) /\ Len(messages) \in Nat
       /\ \A i \in DOMAIN messages : messages[i] \in Nat \ {0}
       /\ messages # <<>> => 1 \in DOMAIN messages /\ Len(messages) \in DOMAIN messages
  BY ListListIs DEF List!IInv
<1>11. /\ List!Increasing(messages) /\ stored \in Nat /\ used \subseteq ListFilter
       /\ \A i \in DOMAIN messages : messages[i] <= stored
  <2>1. \A i \in DOMAIN messages : messages[i] <= stored
    BY <1>10 DEF List!IInv, List!ListContinues
  <2> QED
    BY <2>1 DEF List!IInv, List!NoGap, List!TypeOK
<1>12. k = 0 <=> a.rows = <<>>
  BY <1>4, <1>8, EmptySeq
<1>13. messages = <<>> <=> Len(messages) = 0
  BY EmptySeq DEF List!IInv, List!TypeOK
<1>14. m = <<>> <=> Len(m) = 0
  BY <1>5, EmptySeq
<1>15. \A i \in DOMAIN m : m[i] \in Nat \ {0}
  <2> TAKE i \in DOMAIN m
  <2>1. CASE i \in DOMAIN a.rows
    BY <1>5, <2>1
  <2>2. CASE i \notin DOMAIN a.rows
    BY <1>5, <1>10, <2>2
  <2> QED
    BY <2>1, <2>2
<1>16. messages # <<>> => \A p \in Nat : p >= messages[1] /\ p <= messages[Len(messages)]
                          /\ (\A f \in used : p \in Matches[f]) =>
                               \E i \in DOMAIN messages : messages[i] = p
  BY <1>10 DEF List!IInv, List!NoGap
<1>17. messages # <<>> =>
         \A p \in Nat \ {0} : p < messages[1] /\ (\A f \in used : p \in Matches[f])
                          => more /\ before = messages[1]
  <2>1. ASSUME messages # <<>>, NEW p \in Nat \ {0}, p < messages[1],
               \A f \in used : p \in Matches[f]
        PROVE  more /\ before = messages[1]
    <3>1. p \in 1..messages[1] - 1
      BY <1>10, <2>1
    <3> QED
      BY <2>1, <3>1 DEF List!IInv, List!ListContinues
  <2> QED
    BY <2>1
<1>18. messages # <<>> => used1 = used \cup {a.filter}
  BY <1>6, <1>8, <1>9
<1>19. a.filter \in used1 /\ used1 \subseteq ListFilter
  BY <1>6, <1>8, <1>11
<1>20. List!Increasing(m)
  <2>1. ASSUME NEW i \in DOMAIN m, NEW j \in DOMAIN m, i < j PROVE m[i] < m[j]
    <3>1. i \in Nat /\ j \in Nat
      BY <1>5, <1>10
    <3>2. CASE j \in DOMAIN a.rows
      <4>1. i \in DOMAIN a.rows
        BY <1>5, <2>1, <3>1, <3>2
      <4> QED
        BY <1>5, <1>9, <2>1, <3>2, <4>1 DEF List!Increasing
    <3>3. CASE i \notin DOMAIN a.rows
      <4>1. j \notin DOMAIN a.rows
        BY <1>5, <1>10, <2>1, <3>1, <3>3
      <4>2. i - k < j - k
        BY <1>5, <2>1, <3>1
      <4> QED
        BY <1>5, <1>11, <3>3, <4>1, <4>2 DEF List!Increasing
    <3>4. CASE i \in DOMAIN a.rows /\ j \notin DOMAIN a.rows
      <4>1. /\ m[j] = messages[j - k] /\ j - k \in DOMAIN messages /\ m[i] = a.rows[i]
            /\ a.rows[i] \in Nat
        BY <1>5, <3>4
      <4>2. messages # <<>> /\ 1 \in DOMAIN messages /\ j - k \in Nat /\ j - k >= 1
        BY <1>10, <1>13, <4>1
      <4>3. a.rows[i] < messages[1]
        BY <1>9, <3>4, <4>2
      <4>4. messages[1] <= messages[j - k]
        <5>1. CASE j - k = 1
          BY <1>10, <4>2, <5>1
        <5>2. CASE j - k # 1
          <6>1. 1 < j - k
            BY <4>2, <5>2
          <6>2. messages[1] < messages[j - k]
            BY <1>11, <4>1, <4>2, <6>1 DEF List!Increasing
          <6> QED
            BY <1>10, <4>1, <4>2, <6>2
        <5> QED
          BY <5>1, <5>2
      <4>5. messages[1] \in Nat /\ messages[j - k] \in Nat
        BY <1>10, <4>1, <4>2
      <4> QED
        BY <4>1, <4>3, <4>4, <4>5
    <3> QED
      BY <3>2, <3>3, <3>4
  <2> QED
    BY <2>1 DEF List!Increasing
<1>21. m # <<>> => 1 \in DOMAIN m /\ Len(m) \in DOMAIN m /\ Len(m) \in Nat
  BY <1>5, <1>10, <1>14
<1>22. /\ a.rows # <<>> => m[1] = a.rows[1] /\ 1 \in DOMAIN a.rows /\ k \in DOMAIN a.rows
       /\ a.rows = <<>> => m = messages
       /\ messages # <<>> => m[Len(m)] = messages[Len(messages)]
       /\ messages = <<>> => m = a.rows
  <2>1. a.rows # <<>> => m[1] = a.rows[1] /\ 1 \in DOMAIN a.rows /\ k \in DOMAIN a.rows
    BY <1>5, <1>12
  <2>2. a.rows = <<>> => m = messages
    BY <1>5, ConcatEmptySeq DEF List!IInv, List!TypeOK
  <2>3. messages # <<>> => m[Len(m)] = messages[Len(messages)]
    BY <1>5, <1>10
  <2>4. messages = <<>> => m = a.rows
    BY <1>5, <1>8, ConcatEmptySeq
  <2> QED
    BY <2>1, <2>2, <2>3, <2>4
<1>23. ASSUME m # <<>>, NEW p \in Nat, p >= m[1], p <= m[Len(m)],
              \A f \in used1 : p \in Matches[f]
       PROVE  \E i \in DOMAIN m : m[i] = p
  <2>1. p \in Matches[a.filter]
    BY <1>19, <1>23
  <2>2. CASE messages # <<>> /\ p >= messages[1]
    <3>1. \A f \in used : p \in Matches[f]
      BY <1>18, <1>23, <2>2
    <3>2. p <= messages[Len(messages)]
      BY <1>22, <1>23, <2>2
    <3>3. PICK i \in DOMAIN messages : messages[i] = p
      BY <1>16, <2>2, <3>1, <3>2
    <3> QED
      BY <1>5, <3>3
  <2>3. CASE messages # <<>> /\ ~(p >= messages[1])
    <3>1. p < messages[1]
      BY <1>10, <2>3
    <3>2. a.rows # <<>>
      BY <1>22, <1>23, <2>3
    <3>3. a.more => p >= a.rows[1]
      BY <1>22, <1>23, <3>2
    <3>4. p \in List!Due(a)
      BY <2>1, <2>3, <3>1, <3>3 DEF List!Due
    <3> QED
      BY <1>5, <1>9, <3>4
  <2>4. CASE messages = <<>>
    <3>1. m = a.rows /\ a.rows # <<>>
      BY <1>22, <1>23, <2>4
    <3>2. p \in List!Due(a)
      BY <1>23, <2>1, <2>4, <3>1 DEF List!Due
    <3> QED
      BY <1>9, <3>1, <3>2
  <2> QED
    BY <2>2, <2>3, <2>4
<1>24. ASSUME m # <<>>, NEW p \in Nat \ {0}, p < m[1], \A f \in used1 : p \in Matches[f]
       PROVE  a.more /\ a.before = m[1]
  <2>1. p \in Matches[a.filter]
    BY <1>19, <1>24
  <2>2. a.more
    <3> SUFFICES ASSUME ~a.more PROVE FALSE
      OBVIOUS
    <3>1. p \in List!Due(a)
      <4>1. CASE messages # <<>>
        <5>1. p < messages[1]
          <6>1. CASE a.rows = <<>>
            BY <1>22, <1>24, <6>1
          <6>2. CASE a.rows # <<>>
            <7>1. /\ p < a.rows[1] /\ a.rows[1] < messages[1] /\ a.rows[1] \in Nat
                  /\ messages[1] \in Nat
              BY <1>5, <1>9, <1>10, <1>22, <1>24, <4>1, <6>2
            <7> QED
              BY <7>1
          <6> QED
            BY <6>1, <6>2
        <5> QED
          BY <2>1, <4>1, <5>1 DEF List!Due
      <4>2. CASE messages = <<>>
        <5>1. m = a.rows /\ a.rows # <<>>
          BY <1>22, <1>24, <4>2
        <5>2. a.rows[1] <= a.rows[Len(a.rows)]
          <6>1. 1 \in DOMAIN a.rows /\ k \in DOMAIN a.rows /\ k >= 1
            BY <1>5, <1>22, <5>1
          <6>2. CASE k = 1
            BY <1>4, <1>5, <6>1, <6>2
          <6>3. CASE k # 1
            <7>1. 1 < k
              BY <1>5, <6>1, <6>3
            <7>2. a.rows[1] < a.rows[k]
              BY <1>9, <6>1, <7>1 DEF List!Increasing
            <7> QED
              BY <1>4, <1>5, <6>1, <7>2
          <6> QED
            BY <6>2, <6>3
        <5>3. a.rows[1] \in Nat /\ a.rows[Len(a.rows)] \in Nat
          BY <1>4, <1>5, <1>22, <5>1
        <5>4. p <= a.rows[Len(a.rows)]
          BY <1>24, <5>1, <5>2, <5>3
        <5> QED
          BY <2>1, <4>2, <5>1, <5>4 DEF List!Due
      <4> QED
        BY <4>1, <4>2
    <3>2. PICK i \in DOMAIN a.rows : a.rows[i] = p
      BY <1>9, <3>1
    <3>3. i \in DOMAIN m /\ m[i] = p /\ i \in Nat /\ i >= 1
      BY <1>5, <3>2
    <3>4. CASE i = 1
      BY <1>15, <1>24, <3>3, <3>4
    <3>5. CASE i # 1
      <4>1. 1 < i
        BY <3>3, <3>5
      <4>2. m[1] < m[i]
        BY <1>20, <1>21, <1>24, <3>3, <4>1 DEF List!Increasing
      <4> QED
        BY <1>15, <1>21, <1>24, <3>3, <4>2
    <3> QED
      BY <3>4, <3>5
  <2> QED
    BY <1>9, <1>22, <2>2
<1>25. List!TypeOK'
  <2>1. Len(listNet') <= 1 /\ button' \in BOOLEAN /\ loading' \in BOOLEAN
    <3>1. Len(listNet') = 0
      BY <1>7, EmptySeq
    <3>2. button' \in BOOLEAN
      BY <1>7, Zenon
    <3>3. loading' = FALSE
      BY <1>7
    <3>4. Len(listNet') <= 1
      BY <3>1
    <3>5. loading' \in BOOLEAN
      BY <3>3
    <3> QED
      BY <3>2, <3>4, <3>5
  <2>2. stored' \in 0..ListStored /\ filter' \in ListFilter
    BY <1>7 DEF List!IInv, List!TypeOK
  <2> QED
    BY <1>5, <1>7, <1>8, <1>19, <2>1, <2>2 DEF List!TypeOK
<1>26. List!NoGap'
  <2>1. ASSUME m # <<>>, NEW p \in m[1]..m[Len(m)], \A f \in used1 : p \in Matches[f]
        PROVE  \E i \in 1..Len(m) : m[i] = p
    <3>1. p \in Nat /\ p >= m[1] /\ p <= m[Len(m)]
      BY <1>15, <1>21, <2>1
    <3> QED
      BY <1>5, <1>23, <2>1, <3>1
  <2> QED
    BY <1>7, <1>20, <2>1 DEF List!NoGap
<1>27. List!ListContinues'
  <2>1. ASSUME m # <<>>, ~a.more, NEW p \in 1..m[1] - 1 PROVE \E f \in used1 : p \notin Matches[f]
    <3>1. p \in Nat \ {0} /\ p < m[1]
      BY <1>15, <1>21, <2>1
    <3> QED
      BY <1>24, <2>1, <3>1
  <2>2. \A i \in DOMAIN m : m[i] <= stored
    <3> TAKE i \in DOMAIN m
    <3>1. CASE i \in DOMAIN a.rows
      BY <1>5, <1>9, <3>1
    <3>2. CASE i \notin DOMAIN a.rows
      BY <1>5, <1>11, <3>2
    <3> QED
      BY <3>1, <3>2
  <2>3. a.more => a.before = m[1]
    BY <1>9, <1>22
  <2> QED
    BY <1>7, <2>1, <2>2, <2>3 DEF List!ListContinues
<1>28. List!NothingLost'
  BY <1>27 DEF List!NothingLost, List!ListContinues
<1>29. List!OneLoad'
  BY <1>7, EmptySeq DEF List!OneLoad
<1> QED
  BY <1>25, <1>26, <1>27, <1>28, <1>29 DEF List!IInv

\* A request fails.
LEMMA ListFailsInv ==
  ASSUME List!MatchesAssumption, List!IInv, List!Fails
  PROVE  List!IInv'
<1>1. /\ listNet' = <<>> /\ loading' = FALSE /\ button' = (messages # <<>> /\ more)
      /\ UNCHANGED <<stored, filter, messages, more, before, used>>
  BY ListNetIs DEF List!Fails, List!list
<1>2. List!OneLoad'
  BY <1>1, EmptySeq DEF List!OneLoad
<1>3. List!TypeOK'
  <2>1. Len(listNet') <= 1 /\ button' \in BOOLEAN /\ loading' \in BOOLEAN
    <3>1. Len(listNet') = 0
      BY <1>1, EmptySeq
    <3>2. button' \in BOOLEAN
      BY <1>1, Zenon
    <3>3. loading' = FALSE
      BY <1>1
    <3>4. Len(listNet') <= 1
      BY <3>1
    <3>5. loading' \in BOOLEAN
      BY <3>3
    <3> QED
      BY <3>2, <3>4, <3>5
  <2> QED
    BY <1>1, <2>1 DEF List!IInv, List!TypeOK
<1>4. List!NoGap'
  BY <1>1 DEF List!IInv, List!NoGap, List!Increasing
<1>5. List!ListContinues'
  BY <1>1 DEF List!IInv, List!ListContinues
<1>6. List!NothingLost'
  BY <1>5 DEF List!NothingLost, List!ListContinues
<1> QED
  BY <1>2, <1>3, <1>4, <1>5, <1>6 DEF List!IInv

\* A logout.
LEMMA ListLogoutInv ==
  ASSUME List!MatchesAssumption, List!IInv, List!Logout
  PROVE  List!IInv'
<1>1. messages' = <<>> /\ more' = FALSE /\ before' = 0 /\ used' = {}
      /\ UNCHANGED <<stored, filter, loading, button, listNet>>
  BY DEF List!Logout
<1>2. \A a \in List!Answers : List!AnswerFits(a) => List!AnswerFits(a)'
  <2> TAKE a \in List!Answers
  <2> SUFFICES ASSUME List!AnswerFits(a) PROVE List!AnswerFits(a)'
    OBVIOUS
  <2>1. a.rows \in Seq(List!Positions) /\ a.filter \in ListFilter
    BY DEF List!Answers
  <2>2. Len(a.rows) \in Nat /\ DOMAIN a.rows = 1..Len(a.rows)
    BY <2>1, LenProperties
  <2>3. a.rows # <<>> => Len(a.rows) \in DOMAIN a.rows
    BY <2>1, <2>2, EmptySeq
  <2>4. List!Due(a)' \subseteq List!Due(a)
    <3> SUFFICES ASSUME NEW p \in List!Due(a)' PROVE p \in List!Due(a)
      OBVIOUS
    <3>1. /\ p \in Matches[a.filter] /\ (a.more => p >= a.rows[1])
          /\ a.rows # <<>> /\ p <= a.rows[Len(a.rows)]
      BY <1>1 DEF List!Due
    <3>2. p \in Nat
      BY <2>1, <3>1 DEF List!MatchesAssumption
    <3>3. messages # <<>> => a.rows[Len(a.rows)] < messages[1]
      BY <2>3, <3>1 DEF List!AnswerFits
    <3>4. a.rows[Len(a.rows)] \in Nat
      <4>1. a.rows[Len(a.rows)] \in List!Positions
        BY <2>1, <2>2, <2>3, <3>1, ElementOfSeq
      <4> QED
        BY <4>1 DEF List!Positions
    <3>5. messages # <<>> => messages[1] \in Nat
      BY ListListIs DEF List!IInv
    <3>6. messages # <<>> => p < messages[1]
      BY <3>1, <3>2, <3>3, <3>4, <3>5
    <3> QED
      BY <3>1, <3>6 DEF List!Due
  <2>5. \A i \in DOMAIN a.rows : a.rows[i] <= stored'
    BY <1>1 DEF List!AnswerFits
  <2>6. List!Increasing(a.rows) /\ (a.more => a.rows # <<>> /\ a.before = a.rows[1])
    BY DEF List!AnswerFits
  <2>7. \A p \in List!Due(a)' : \E i \in DOMAIN a.rows : a.rows[i] = p
    BY <2>4 DEF List!AnswerFits
  <2> QED
    BY <1>1, <2>5, <2>6, <2>7 DEF List!AnswerFits
<1>3. \A n \in DOMAIN listNet : listNet[n] \in List!Questions \cup List!Answers
  BY ListNetIs DEF List!IInv, List!OneLoad
<1>4. \A q \in List!Questions : q.kind = "query" /\ List!QuestionFits(q)'
  BY <1>1 DEF List!Questions, List!QuestionFits
<1>5. List!OneLoad'
  <2>1. ASSUME NEW n \in DOMAIN listNet
        PROVE  IF listNet[n].kind = "query" THEN List!QuestionFits(listNet[n])'
                 ELSE List!AnswerFits(listNet[n])'
    <3>1. PICK x : x = listNet[n]
      OBVIOUS
    <3>2. /\ x \in List!Questions \cup List!Answers
          /\ (IF x.kind = "query" THEN List!QuestionFits(x) ELSE List!AnswerFits(x))
      BY <1>3, <3>1 DEF List!IInv, List!OneLoad
    <3>3. IF x.kind = "query" THEN List!QuestionFits(x)' ELSE List!AnswerFits(x)'
      BY <1>2, <1>4, <3>2 DEF List!Answers
    <3> QED
      BY <1>1, <3>1, <3>3
  <2> QED
    BY <1>1, <2>1 DEF List!IInv, List!OneLoad
<1>6. used' \subseteq ListFilter /\ button' \in BOOLEAN /\ loading' \in BOOLEAN
  BY <1>1 DEF List!IInv, List!TypeOK
<1> QED
  BY <1>1, <1>5, <1>6, ListEmptiedInv

\* Every step.
LEMMA ListNextInv ==
  ASSUME List!MatchesAssumption, List!IInv, [List!Next]_(List!vars)
  PROVE  List!IInv'
<1>1. CASE List!ApplyFilter
  BY <1>1, ListLoadMessagesInv DEF List!ApplyFilter
<1>2. CASE List!LoadMore
  BY <1>2, ListLoadMessagesInv DEF List!LoadMore
<1>3. CASE List!Store
  <2>1. /\ UNCHANGED <<List!list, messages, used, button, listNet, loading>>
        /\ stored' = stored + 1 /\ filter' = filter
    BY <1>3 DEF List!Store, List!list
  <2>2. /\ stored' \in 0..ListStored /\ stored' \in Nat /\ stored' >= stored
        /\ filter' \in ListFilter
        /\ loading' \in BOOLEAN
    BY <1>3, <2>1 DEF List!Store, List!IInv, List!TypeOK, List!MatchesAssumption
  <2>3. List!OneLoad'
    BY <2>1, <2>2, ListStillFits
  <2> QED
    BY <2>1, <2>2, <2>3, ListSameListInv
<1>4. CASE (\E f \in ListFilter : List!Edit(f)) \/ UNCHANGED List!vars
  <2>1. UNCHANGED <<List!list, messages, used, button, listNet, loading>> /\ stored' = stored
    BY <1>4 DEF List!Edit, List!vars, List!list
  <2>2. /\ filter' \in ListFilter /\ stored' \in 0..ListStored /\ stored' \in Nat
        /\ stored' >= stored
        /\ loading' \in BOOLEAN
    BY <1>4, <2>1 DEF List!Edit, List!vars, List!IInv, List!TypeOK
  <2>3. List!OneLoad'
    BY <2>1, <2>2, ListStillFits
  <2> QED
    BY <2>1, <2>2, <2>3, ListSameListInv
<1> QED
  BY <1>1, <1>2, <1>3, <1>4, ListServeInv, ListArriveInv, ListFailsInv,
     ListLogoutInv DEF List!Next

\* The first state.
LEMMA ListInitInv == List!MatchesAssumption /\ List!Init => List!IInv
<1> SUFFICES ASSUME List!MatchesAssumption, List!Init PROVE List!IInv
  OBVIOUS
<1>1. messages = <<>> /\ listNet = <<>> /\ loading = FALSE /\ used = {} /\ before = 0
  BY DEF List!Init
<1>2. before \in 0..ListStored
  BY <1>1 DEF List!MatchesAssumption
<1>3. List!TypeOK
  <2>1. Len(listNet) <= 1 /\ messages \in Seq(List!Positions)
    BY <1>1, EmptySeq
  <2> QED
    BY <1>1, <1>2, <2>1 DEF List!Init, List!TypeOK
<1>4. List!NoGap /\ List!NothingLost /\ List!ListContinues
  BY <1>1 DEF List!NoGap, List!NothingLost, List!ListContinues, List!Increasing
<1>5. List!OneLoad
  BY <1>1, EmptySeq DEF List!OneLoad
<1> QED
  BY <1>3, <1>4, <1>5 DEF List!IInv

\* The invariant of the list.
LEMMA ListInvariance == ASSUME List!MatchesAssumption
                        PROVE  List!Init /\ [][List!Next]_(List!vars) => []List!IInv
  BY ListInitInv, ListNextInv, PTL

-----------------------------------------------------------------------------
(* The whole administration.                                               *)

\* The whole behaves as the account does, or leaves it alone.
LEMMA WholeAccount ==
  /\ Init => Account!Init
  /\ [Next]_vars => [Account!Next]_(Account!vars)
<1>1. AccountStep => Account!Next
  BY DEF AccountStep
<1>2. ASSUME UNCHANGED accountVars PROVE UNCHANGED Account!vars
  BY <1>2 DEF accountVars, Account!vars
<1>3. \/ LockoutStep \/ AuditStep \/ ConsoleStep \/ PagerStep \/ ListStep
      \/ UNCHANGED vars
      => UNCHANGED accountVars
  BY DEF LockoutStep, AuditStep, ConsoleStep, PagerStep, ListStep, vars
<1> QED
  BY <1>1, <1>2, <1>3 DEF Init, Next

\* The whole behaves as the lockout does, or leaves it alone.
LEMMA WholeLockout ==
  /\ Init => Lockout!Init
  /\ [Next]_vars => [Lockout!Next]_(Lockout!vars)
<1>1. LockoutStep => Lockout!Next
  BY DEF LockoutStep
<1>2. ASSUME UNCHANGED lockoutVars PROVE UNCHANGED Lockout!vars
  BY <1>2 DEF lockoutVars, Lockout!vars
<1>3. \/ AccountStep \/ AuditStep \/ ConsoleStep \/ PagerStep \/ ListStep
      \/ UNCHANGED vars
      => UNCHANGED lockoutVars
  BY DEF AccountStep, AuditStep, ConsoleStep, PagerStep, ListStep, vars
<1> QED
  BY <1>1, <1>2, <1>3 DEF Init, Next

\* The whole behaves as the audit log does, or leaves it alone.
LEMMA WholeAudit ==
  /\ Init => Audit!Init
  /\ [Next]_vars => [Audit!Next]_(Audit!vars)
<1>1. AuditStep => Audit!Next
  BY DEF AuditStep
<1>2. ASSUME UNCHANGED auditVars PROVE UNCHANGED Audit!vars
  BY <1>2 DEF auditVars, Audit!vars
<1>3. \/ LockoutStep \/ AccountStep \/ ConsoleStep \/ PagerStep \/ ListStep
      \/ UNCHANGED vars
      => UNCHANGED auditVars
  BY DEF LockoutStep, AccountStep, ConsoleStep, PagerStep, ListStep, vars
<1> QED
  BY <1>1, <1>2, <1>3 DEF Init, Next

\* The whole behaves as the dialogs do, or leaves it alone.
LEMMA WholeConsole ==
  /\ Init => Console!Init
  /\ [Next]_vars => [Console!Next]_(Console!vars)
<1>1. ConsoleStep => Console!Next
  BY DEF ConsoleStep
<1>2. ASSUME UNCHANGED consoleVars PROVE UNCHANGED Console!vars
  BY <1>2 DEF consoleVars, Console!vars
<1>3. \/ LockoutStep \/ AccountStep \/ AuditStep \/ PagerStep \/ ListStep
      \/ UNCHANGED vars
      => UNCHANGED consoleVars
  BY DEF LockoutStep, AccountStep, AuditStep, PagerStep, ListStep, vars
<1> QED
  BY <1>1, <1>2, <1>3 DEF Init, Next

\* The whole behaves as the pager does, or leaves it alone.
LEMMA WholePager ==
  /\ Init => Pager!Init
  /\ [Next]_vars => [Pager!Next]_(Pager!vars)
<1>1. PagerStep => Pager!Next
  BY DEF PagerStep
<1>2. ASSUME UNCHANGED pagerVars PROVE UNCHANGED Pager!vars
  BY <1>2 DEF pagerVars, Pager!vars
<1>3. \/ LockoutStep \/ AccountStep \/ AuditStep \/ ConsoleStep \/ ListStep
      \/ UNCHANGED vars
      => UNCHANGED pagerVars
  BY DEF LockoutStep, AccountStep, AuditStep, ConsoleStep, ListStep, vars
<1> QED
  BY <1>1, <1>2, <1>3 DEF Init, Next

\* The whole behaves as the list does, or leaves it alone.
LEMMA WholeList ==
  /\ Init => List!Init
  /\ [Next]_vars => [List!Next]_(List!vars)
<1>1. ListStep => List!Next
  BY DEF ListStep
<1>2. ASSUME UNCHANGED listVars PROVE UNCHANGED List!vars
  BY <1>2 DEF listVars, List!vars
<1>3. \/ LockoutStep \/ AccountStep \/ AuditStep \/ ConsoleStep \/ PagerStep
      \/ UNCHANGED vars
      => UNCHANGED listVars
  BY DEF LockoutStep, AccountStep, AuditStep, ConsoleStep, PagerStep, vars
<1> QED
  BY <1>1, <1>2, <1>3 DEF Init, Next

\* The invariants of the parts are invariants of the whole.
LEMMA Parts ==
  Spec => [](/\ Account!IInv /\ Lockout!IInv /\ Audit!IInv
             /\ Console!IInv /\ Pager!IInv /\ List!IInv)
<1> USE AdministrationAssumption DEF AdministrationAssumption
<1>1. Account!Spec => []Account!IInv
  BY AccountInvariance
<1>2. Lockout!Spec => []Lockout!IInv
  BY LockoutInvariance
<1>3. Audit!Spec => []Audit!IInv
  BY AuditInvariance
<1>4. Console!Spec => []Console!IInv
  BY ConsoleInvariance
<1>5. Pager!Spec => []Pager!IInv
  BY PagerInvariance
<1>6. List!Init /\ [][List!Next]_(List!vars) => []List!IInv
  BY ListInvariance
<1>7. Spec => Account!Spec /\ Lockout!Spec
  BY WholeAccount, WholeLockout, PTL DEF Spec, Account!Spec, Lockout!Spec
<1>8. Spec => Audit!Spec /\ Console!Spec
  BY WholeAudit, WholeConsole, PTL DEF Spec, Audit!Spec, Console!Spec
<1>9. Spec => Pager!Spec /\ List!Init /\ [][List!Next]_(List!vars)
  BY WholePager, WholeList, PTL DEF Spec, Pager!Spec
<1> QED
  BY <1>1, <1>2, <1>3, <1>4, <1>5, <1>6, <1>7, <1>8, <1>9, PTL

\* Every part keeps the types of its variables.
THEOREM TypeCorrect == Spec => []TypeOK
<1>1. Account!IInv => Account!TypeOK
  BY DEF Account!IInv, Account!Shape, Account!RequestsSound, Account!TypeOK, Account!Form
<1>2. /\ Lockout!IInv => Lockout!TypeOK
      /\ Audit!IInv => Audit!TypeOK
      /\ Console!IInv => Console!TypeOK
      /\ Pager!IInv => Pager!TypeOK
      /\ List!IInv => List!TypeOK
  BY DEF Lockout!IInv, Audit!IInv, Console!IInv, Pager!IInv, List!IInv
<1>3. /\ Account!IInv /\ Lockout!IInv /\ Audit!IInv /\ Console!IInv /\ Pager!IInv /\ List!IInv
      => TypeOK
  BY <1>1, <1>2 DEF TypeOK
<1> QED
  BY <1>3, Parts, PTL

\* persistAdminConfigToEnvFile, resolveAdminConfig: the server starts again with the
\* credentials it runs with, whichever source had them in whatever form, unless the
\* file was edited or a write of it was cut, and never with the default ones, unless a
\* write was cut.
THEOREM Surviving == Spec => []CredentialsSurvive
<1>1. Account!IInv => CredentialsSurvive
  BY DEF Account!IInv, CredentialsSurvive
<1> QED
  BY <1>1, Parts, PTL

\* isRateLimited, recordLoginFailure: no span of a window's length sees more than
\* twice the limit, no lock's length more wrong passwords than the allowed failures
\* and the hashes at work, and nobody is refused or locked out without a reason.
THEOREM Limiting == Spec => []LimitsHold
<1>1. Lockout!LockoutAssumption
  BY AdministrationAssumption DEF AdministrationAssumption
<1>2. Lockout!IInv => LimitsHold
  BY <1>1, LockoutLockReason DEF Lockout!IInv, LimitsHold
<1> QED
  BY <1>2, Parts, PTL

\* recordAdminAction, verifyAdminAuditChain: the page shows what the file holds, a
\* warning has a reason (a harmed line, or a key that a cut write of the environment
\* file or an edit lost), and a start that finds the chain in order has before it the
\* lines the program wrote.
THEOREM Trusting == Spec => AuditIsTrusted
<1>1. Audit!IInv => (part = "audit" => Audit!NoFalseAlarm /\ Audit!PageShowsFile)
  BY DEF Audit!IInv
<1>2. Audit!Spec => Audit!HarmIsSeen
  BY AuditStartsKnow, AdministrationAssumption DEF AdministrationAssumption
<1>3. Spec => Audit!Spec
  BY WholeAudit, PTL DEF Spec, Audit!Spec
<1> QED
  BY <1>1, <1>2, <1>3, Parts, PTL DEF AuditIsTrusted

\* openDialog, loadUsers, loadAccessLogs, loadMessages: what is sent is what was
\* confirmed, ticks stay with the users listed, the pager names the page that is
\* drawn, and the list of messages has no gap, whatever answers overtake each other.
THEOREM Telling == Spec => []PageTellsTruth
<1>1. /\ Console!IInv => Console!NobodyWaits /\ Console!SentAsConfirmed /\ Console!SelectionListed
      /\ Pager!IInv => Pager!PagerTellsTruth /\ Pager!ClicksStartHere
      /\ List!IInv => List!NoGap /\ List!NothingLost
  BY DEF Console!IInv, Pager!IInv, List!IInv
<1>2. Console!IInv /\ Pager!IInv /\ List!IInv => PageTellsTruth
  BY <1>1 DEF PageTellsTruth
<1> QED
  BY <1>2, Parts, PTL
=============================================================================
