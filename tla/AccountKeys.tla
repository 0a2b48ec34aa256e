----------------------------- MODULE AccountKeys -----------------------------
(***************************************************************************)
(* Password and keys of one account on several devices: the login, the     *)
(* restoring or rebuilding of the identity (public/app.js) and the         *)
(* handlers of the login, the key bundle and the password                  *)
(* (routes/account-routes.js), with their awaits.                          *)
(*                                                                         *)
(* Keys and passwords are numbered in the order of their creation (0:      *)
(* none).  A key bundle is a private key encrypted with a password.  The   *)
(* vault of a device keeps its identity.  An account of before the key     *)
(* bundles (legacy) has none.  The new password of a change is known to    *)
(* the user, who types the current one at a login.                         *)
(***************************************************************************)
EXTENDS Naturals, FiniteSets

CONSTANTS
  Device,
  MaxPasswords, MaxKeys,
  MaxLogins,   \* logins
  MaxReloads   \* reloads of a page

\* Assumed of the constants.
KeysAssumption == {MaxPasswords, MaxKeys, MaxLogins, MaxReloads} \subseteq Nat

VARIABLES
  legacy,   \* the account had no key bundle at the beginning
  account,  \* password, public key and key bundle at the server
  session,  \* the password the live session of each device was issued for, or 0
  vault,    \* the key in the device's vault, or 0
  identity, \* state.identity of a device that is logged in, or 0
  login,    \* the login under way on each device
  post,     \* the request under way of each device
  passwords, keys,  \* numbers given out
  refused,  \* a login with the current password was refused, by stale vaults
            \* or by a bundle that does not open
  touched,  \* a change of the password has replaced the key in the bundle
  used

vars == <<legacy, account, session, vault, identity, login, post, passwords, keys, refused, touched, used>>

NoBundle == [key |-> 0, pw |-> 0]
NoLogin == [step |-> "none", pw |-> 0, key |-> 0, bundle |-> NoBundle]
NoPost == [kind |-> "none", step |-> "none", key |-> 0, pw |-> 0, new |-> 0]

May(kind, bound) == used[kind] < bound /\ used' = [used EXCEPT ![kind] = @ + 1]

-----------------------------------------------------------------------------
(* Login.                                                                  *)

\* handleLogin reads the hash and verifies the password.
LoginVerified(d) ==
  /\ identity[d] = 0 /\ login[d].step = "none" /\ post[d].kind = "none"
  /\ May("logins", MaxLogins)
  /\ login' = [login EXCEPT ![d] = [step |-> "verified", pw |-> account.pw, key |-> 0, bundle |-> NoBundle]]
  /\ UNCHANGED <<legacy, account, session, vault, identity, post, passwords, keys, refused, touched>>

\* It issues the session and answers with the key and the bundle of that moment.
LoginAnswered(d) ==
  /\ login[d].step = "verified"
  /\ session' = [session EXCEPT ![d] = login[d].pw]
  /\ login' = [login EXCEPT ![d] = [step |-> "answered", pw |-> @.pw, key |-> account.key,
                                    bundle |-> account.bundle]]
  /\ UNCHANGED <<legacy, account, vault, identity, post, passwords, keys, refused, touched, used>>

\* setSession and persistSessionIdentity; a device that was told of no bundle
\* sends one.
Enter(d, k) ==
  /\ identity' = [identity EXCEPT ![d] = k]
  /\ vault' = [vault EXCEPT ![d] = k]
  /\ login' = [login EXCEPT ![d] = NoLogin]
  /\ post' = IF login[d].bundle = NoBundle /\ session[d] # 0
             THEN [post EXCEPT ![d] = [kind |-> "bundle", step |-> "body", key |-> k,
                                       pw |-> login[d].pw, new |-> 0]]
             ELSE [post EXCEPT ![d] = NoPost]

Opens(l) == l.bundle = [key |-> l.key, pw |-> l.pw]

\* submitAuth: the vault, then the bundle.
Restored(d) ==
  /\ login[d].step = "answered"
  /\ IF vault[d] # 0 THEN vault[d] = login[d].key ELSE Opens(login[d])
  /\ Enter(d, login[d].key)
  /\ UNCHANGED <<legacy, account, session, passwords, keys, refused, touched, used>>

\* Either of them does not fit: the login ends with an error.
Refused(d) ==
  /\ login[d].step = "answered"
  /\ IF vault[d] # 0 THEN vault[d] # login[d].key ELSE login[d].bundle # NoBundle /\ ~Opens(login[d])
  /\ login' = [login EXCEPT ![d] = NoLogin]
  /\ refused' = IF login[d].pw = account.pw /\ login[d].key = account.key
                THEN refused \cup {IF vault[d] # 0 THEN "vault" ELSE "bundle"} ELSE refused
  /\ UNCHANGED <<legacy, account, session, vault, identity, post, passwords, keys, touched, used>>

\* recoverAccountIdentity: neither is there, a new identity is announced.
Rebuild(d) ==
  /\ login[d].step = "answered" /\ vault[d] = 0 /\ login[d].bundle = NoBundle
  /\ keys < MaxKeys /\ keys' = keys + 1
  /\ IF session[d] # 0
     THEN /\ login' = [login EXCEPT ![d].step = "rebuilding"]
          /\ post' = [post EXCEPT ![d] = [kind |-> "rotate", step |-> "body", key |-> keys + 1,
                                          pw |-> login[d].pw, new |-> 0]]
     ELSE login' = [login EXCEPT ![d] = NoLogin] /\ UNCHANGED post
  /\ UNCHANGED <<legacy, account, session, vault, identity, passwords, refused, touched, used>>

Rebuilt(d) ==
  /\ login[d].step = "rebuilt"
  /\ Enter(d, login[d].key)
  /\ UNCHANGED <<legacy, account, session, passwords, keys, refused, touched, used>>

\* The page is reloaded: what the device had in memory is restored from its
\* vault if it fits; requests go on at the server.
Reload(d) ==
  /\ May("reloads", MaxReloads)
  /\ identity' = [identity EXCEPT ![d] = IF session[d] # 0 /\ vault[d] = account.key THEN vault[d] ELSE 0]
  /\ login' = [login EXCEPT ![d] = NoLogin]
  /\ UNCHANGED <<legacy, account, session, vault, post, passwords, keys, refused, touched>>

-----------------------------------------------------------------------------
(* handleMeKeyBundlePatch.  Its session was checked before the body came.  *)

\* The device's own key with the password of its login.
BundleStored(d) ==
  /\ post[d].kind = "bundle"
  /\ account' = [pw |-> account.pw, key |-> account.key,
                 bundle |-> [key |-> post[d].key, pw |-> post[d].pw]]
  /\ post' = [post EXCEPT ![d] = NoPost]
  /\ UNCHANGED <<legacy, session, vault, identity, login, passwords, keys, refused, touched, used>>

\* A rotation asks for the password ...
RotateVerified(d) ==
  /\ post[d].kind = "rotate" /\ post[d].step = "body"
  /\ IF post[d].pw = account.pw
     THEN post' = [post EXCEPT ![d].step = "verified"] /\ UNCHANGED login
     ELSE post' = [post EXCEPT ![d] = NoPost] /\ login' = [login EXCEPT ![d] = NoLogin]
  /\ UNCHANGED <<legacy, account, session, vault, identity, passwords, keys, refused, touched, used>>

\* ... and stores the key and its bundle together.
RotateStored(d) ==
  /\ post[d].step = "verified" /\ post[d].kind = "rotate"
  /\ account' = [pw |-> account.pw, key |-> post[d].key,
                 bundle |-> [key |-> post[d].key, pw |-> post[d].pw]]
  /\ post' = [post EXCEPT ![d] = NoPost]
  /\ login' = IF login[d].step = "rebuilding"
              THEN [login EXCEPT ![d] = [step |-> "rebuilt", pw |-> @.pw, key |-> post[d].key,
                                         bundle |-> @.bundle]]
              ELSE login
  /\ UNCHANGED <<legacy, session, vault, identity, passwords, keys, refused, touched, used>>

-----------------------------------------------------------------------------
(* handleMePassword.                                                       *)

\* The bundle is built from the device's own identity.
ChangePassword(d) ==
  /\ identity[d] # 0 /\ session[d] # 0 /\ post[d].kind = "none"
  /\ passwords < MaxPasswords /\ passwords' = passwords + 1
  /\ post' = [post EXCEPT ![d] = [kind |-> "password", step |-> "body", key |-> identity[d],
                                  pw |-> account.pw, new |-> passwords + 1]]
  /\ UNCHANGED <<legacy, account, session, vault, identity, login, keys, refused, touched, used>>

\* Mutant of PasswordVerified: the bundle is stored before the new hash is ready.
PasswordVerifiedEagerly(d) ==
  /\ post[d].kind = "password" /\ post[d].step = "body"
  /\ IF post[d].pw = account.pw
     THEN /\ post' = [post EXCEPT ![d].step = "verified"]
          /\ account' = [account EXCEPT !.bundle = [key |-> post[d].key, pw |-> post[d].new]]
     ELSE post' = [post EXCEPT ![d] = NoPost] /\ UNCHANGED account
  /\ UNCHANGED <<legacy, session, vault, identity, login, passwords, keys, refused, touched, used>>

PasswordVerified(d) ==
  /\ post[d].kind = "password" /\ post[d].step = "body"
  /\ post' = [post EXCEPT ![d] = IF @.pw = account.pw THEN [@ EXCEPT !.step = "verified"] ELSE NoPost]
  /\ UNCHANGED <<legacy, account, session, vault, identity, login, passwords, keys, refused, touched, used>>

\* The new hash is ready: hash and bundle are stored, every session is revoked
\* and one is issued for this device.
PasswordStored(d) ==
  /\ post[d].kind = "password" /\ post[d].step = "verified"
  /\ account' = [pw |-> post[d].new, key |-> account.key,
                 bundle |-> [key |-> post[d].key, pw |-> post[d].new]]
  /\ touched' = (touched \/ account.bundle.key \notin {0, post[d].key})
  /\ session' = [e \in Device |-> IF e = d THEN post[d].new ELSE 0]
  /\ post' = [post EXCEPT ![d] = NoPost]
  /\ UNCHANGED <<legacy, vault, identity, login, passwords, keys, refused, used>>

\* A request of a device whose session has gone is answered with 401, or the
\* user logs out.
Leave(d) ==
  /\ identity[d] # 0 /\ post[d].kind = "none"
  /\ identity' = [identity EXCEPT ![d] = 0]
  /\ session' = [session EXCEPT ![d] = 0]
  /\ UNCHANGED <<legacy, account, vault, login, post, passwords, keys, refused, touched, used>>

-----------------------------------------------------------------------------

\* One device holds the identity; the others are new.
Init ==
  /\ legacy \in BOOLEAN
  /\ account = [pw |-> 1, key |-> 1, bundle |-> IF legacy THEN NoBundle ELSE [key |-> 1, pw |-> 1]]
  /\ \E d \in Device : vault = [e \in Device |-> IF e = d THEN 1 ELSE 0]
  /\ session = [d \in Device |-> 0] /\ identity = session
  /\ login = [d \in Device |-> NoLogin] /\ post = [d \in Device |-> NoPost]
  /\ passwords = 1 /\ keys = 1 /\ refused = {} /\ touched = FALSE
  /\ used = [kind \in {"logins", "reloads"} |-> 0]

Next == \E d \in Device :
  \/ LoginVerified(d) \/ LoginAnswered(d) \/ Restored(d) \/ Refused(d) \/ Rebuild(d) \/ Rebuilt(d)
  \/ Reload(d) \/ Leave(d)
  \/ BundleStored(d) \/ RotateVerified(d) \/ RotateStored(d)
  \/ ChangePassword(d) \/ PasswordVerified(d) \/ PasswordStored(d)

Spec == Init /\ [][Next]_vars

-----------------------------------------------------------------------------
(* Properties.                                                             *)

\* Every variable keeps its type.
TypeOK ==
  /\ account.pw \in 1..passwords /\ account.key \in 1..keys
  /\ account.bundle.key \in 0..keys /\ account.bundle.pw \in 0..passwords
  /\ \A d \in Device : /\ {vault[d], identity[d]} \subseteq 0..keys
                       /\ session[d] \in 0..passwords
                       /\ post[d].kind = "none" => post[d] = NoPost

\* The bundle of an account that always had one holds its key and opens with its
\* password, while several devices log in and change it.
BundleOpens == ~legacy => account.bundle = [key |-> account.key, pw |-> account.pw]

\* Such an account lets every device in that types the current password.
NobodyRefused == ~legacy => refused = {}

\* A device that is logged in keeps its identity in its vault: a reload does not
\* need the password again unless the key or the session has changed.
IdentityIsKept == \A d \in Device : identity[d] # 0 => vault[d] = identity[d]

\* What the account promises the devices of its user.
DevicesGetIn == BundleOpens /\ NobodyRefused /\ IdentityIsKept

\* After a change of the password no other session lives (the README).
OldPasswordIsOut == \A d \in Device : session[d] \in {0, account.pw}

\* A device whose identity is not the account's any more gets in by a new login,
\* as its message says.
ReloginRestores == "vault" \notin refused

\* A change of the password leaves the private key alone (the README).
KeyIsKept == ~touched

-----------------------------------------------------------------------------
(* What makes the above inductive.                                         *)

Bundle == [key : Nat, pw : Nat]

\* A login and a request hold numbers that were given out only, p and k so far.
LoginFits(l, p, k) ==
  /\ l \in [step : {"none", "verified", "answered", "rebuilding", "rebuilt"}, pw : Nat, key : Nat,
            bundle : Bundle]
  /\ l.pw <= p /\ l.key <= k /\ l.bundle.pw <= p /\ l.bundle.key <= k

PostFits(q, p, k) ==
  /\ q \in [kind : {"none", "bundle", "rotate", "password"}, step : {"none", "body", "verified"},
            key : Nat, pw : Nat, new : Nat]
  /\ q.key <= k /\ q.pw <= p /\ q.new <= p
  /\ q.kind = "none" => q = NoPost
  /\ q.kind = "rotate" => q.key # 0
  /\ q.kind = "password" => q.new # 0

Shape ==
  /\ legacy \in BOOLEAN /\ passwords \in Nat /\ keys \in Nat
  /\ account \in [pw : Nat, key : Nat, bundle : Bundle]
  /\ {session, vault, identity} \subseteq [Device -> Nat]
  /\ DOMAIN login = Device /\ DOMAIN post = Device
  /\ \A d \in Device :
       LoginFits(login[d], passwords, keys) /\ PostFits(post[d], passwords, keys)

\* A password that is being set is nobody's yet.
NewIsNew == \A d \in Device : post[d].kind = "password" =>
  /\ post[d].new # account.pw
  /\ \A e \in Device : /\ login[e].pw # post[d].new
                       /\ e # d /\ post[e].kind = "password" => post[e].new # post[d].new

\* An account that always had a bundle has one key for good: no device rebuilds
\* or rotates it, or sends a bundle by itself.
OneKey == ~legacy =>
  /\ keys = 1
  /\ \A d \in Device : /\ login[d].step \notin {"rebuilding", "rebuilt"}
                       /\ post[d].kind \notin {"bundle", "rotate"}
                       /\ post[d].kind = "password" => post[d].key = 1

\* The bundle such a device was told of opens with the password it has typed, if
\* that is still the password.
AnswersOpen == ~legacy => \A d \in Device : login[d].step = "answered" =>
  /\ login[d].key = 1 /\ login[d].bundle.key = 1
  /\ login[d].pw = account.pw => login[d].bundle.pw = account.pw

IInv ==
  /\ TypeOK
  /\ Shape
  /\ DevicesGetIn
  /\ NewIsNew
  /\ OneKey
  /\ AnswersOpen
=============================================================================
