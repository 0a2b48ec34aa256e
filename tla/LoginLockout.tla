---------------------------- MODULE LoginLockout ----------------------------
(***************************************************************************)
(* What stands before the password of one name: the rate limit of a fixed  *)
(* window and the lock after too many failures (utils/rate-limit.js), as   *)
(* handleLogin and handleAdminLogin use them, with the hash of the         *)
(* password awaited between the look at the lock and the failure that is   *)
(* recorded, and the timers that clean both maps.  Time is in whole units  *)
(* and does not run backwards.                                             *)
(***************************************************************************)
EXTENDS Integers, Sequences, FiniteSets

CONSTANTS
  Window,      \* RATE_WINDOW_MS
  Limit,       \* MAX_AUTH_REQUESTS_PER_WINDOW
  FailWindow,  \* *_LOGIN_FAILURE_WINDOW_MS
  Lockout,     \* *_LOGIN_LOCKOUT_MS
  MaxFailures, \* *_LOGIN_MAX_FAILURES
  Worker,      \* bound: logins whose password is being hashed at once
  Hashing,     \* bound: the longest hash
  MaxRefused,  \* bound: requests a window refuses
  MaxTime      \* bound: the clock

\* Spans and limits are numbers, and the workers are finitely many.
LockoutAssumption ==
  /\ {Window, Limit, FailWindow, Lockout, MaxFailures, Hashing, MaxRefused, MaxTime} \subseteq Nat
  /\ IsFiniteSet(Worker)

VARIABLES
  now,
  bucket,   \* rateBuckets: [count, startedAt] of this name, or NoBucket
  failures, \* userLoginFailures: [count, lockedUntil, lastFailedAt], or NoFailures
  hashing,  \* the login each worker is hashing, or NoLogin
  admitted, \* ghost: times at which a request passed the limit
  guesses,  \* ghost: times at which a wrong password went to its hash, since
            \* the last success
  wrong,    \* ghost: failures recorded since the last success
  told      \* ghost: what the last request of this moment was told

vars == <<now, bucket, failures, hashing, admitted, guesses, wrong, told>>

NoBucket == [count |-> 0, startedAt |-> -1]
NoFailures == [count |-> 0, lockedUntil |-> 0, lastFailedAt |-> -1]
NoLogin == [since |-> -1, right |-> FALSE]

Past(t, span) == now - t > span

-----------------------------------------------------------------------------
\* isRateLimited: refused requests count, and do not move the window.
Counted ==
  IF bucket = NoBucket \/ Past(bucket.startedAt, Window) THEN [count |-> 1, startedAt |-> now]
  ELSE [bucket EXCEPT !.count = @ + 1]

Locked == failures.lockedUntil > now

\* handleLogin up to the hash.
Login(w, right) ==
  /\ hashing[w] = NoLogin
  /\ bucket' = Counted /\ bucket'.count <= Limit + MaxRefused
  /\ IF bucket'.count > Limit THEN told' = "limited" /\ UNCHANGED <<hashing, admitted, guesses>>
     ELSE /\ admitted' = Append(admitted, now)
          /\ IF Locked THEN told' = "locked" /\ UNCHANGED <<hashing, guesses>>
             ELSE /\ told' = "hashing"
                  /\ hashing' = [hashing EXCEPT ![w] = [since |-> now, right |-> right]]
                  /\ guesses' = IF right THEN guesses ELSE Append(guesses, now)
  /\ UNCHANGED <<now, failures, wrong>>

\* Mutant of Failed: only the failure that reaches the limit locks.
FailedOnce ==
  LET recent == IF failures # NoFailures /\ ~Past(failures.lastFailedAt, FailWindow)
                THEN failures.count ELSE 0
      count == recent + 1
  IN  [count |-> count, lastFailedAt |-> now,
       lockedUntil |-> IF count = MaxFailures + 1 THEN now + Lockout ELSE 0]

\* recordLoginFailure
Failed ==
  LET recent == IF failures # NoFailures /\ ~Past(failures.lastFailedAt, FailWindow)
                THEN failures.count ELSE 0
      count == recent + 1
  IN  [count |-> count, lastFailedAt |-> now,
       lockedUntil |-> IF count > MaxFailures THEN now + Lockout ELSE 0]

\* handleLogin after the hash: clearUserLoginFailures or recordUserLoginFailure.
Hashed(w) ==
  /\ hashing[w] # NoLogin
  /\ failures' = IF hashing[w].right THEN NoFailures ELSE Failed
  /\ guesses' = IF hashing[w].right THEN <<>> ELSE guesses
  /\ wrong' = IF hashing[w].right THEN 0 ELSE wrong + 1
  /\ hashing' = [hashing EXCEPT ![w] = NoLogin]
  /\ UNCHANGED <<now, bucket, admitted, told>>

-----------------------------------------------------------------------------
\* cleanRateBucketMap
CleanBuckets ==
  /\ bucket # NoBucket /\ Past(bucket.startedAt, 3 * Window)
  /\ bucket' = NoBucket
  /\ UNCHANGED <<now, failures, hashing, admitted, guesses, wrong, told>>

\* cleanLoginFailuresMap
CleanFailures ==
  /\ failures # NoFailures
  /\ Past(failures.lastFailedAt, FailWindow) /\ now > failures.lockedUntil
  /\ failures' = NoFailures
  /\ UNCHANGED <<now, bucket, hashing, admitted, guesses, wrong, told>>

\* Time passes; no hash takes longer than Hashing.
Tick ==
  /\ now < MaxTime /\ \A w \in Worker : hashing[w] = NoLogin \/ now - hashing[w].since < Hashing
  /\ now' = now + 1
  /\ told' = "none"
  /\ UNCHANGED <<bucket, failures, hashing, admitted, guesses, wrong>>

Init ==
  /\ now = 0 /\ bucket = NoBucket /\ failures = NoFailures
  /\ hashing = [w \in Worker |-> NoLogin]
  /\ admitted = <<>> /\ guesses = <<>> /\ wrong = 0 /\ told = "none"

Next ==
  \/ \E w \in Worker : Hashed(w) \/ \E right \in BOOLEAN : Login(w, right)
  \/ CleanBuckets \/ CleanFailures \/ Tick

Spec == Init /\ [][Next]_vars

-----------------------------------------------------------------------------
Time == 0..MaxTime

Hits(times, span) == Cardinality({i \in 1..Len(times) : times[i] \in span})
InSpan(times, from, span) == Hits(times, from..from + span)

\* The state has its shape; in particular a lock is over within Lockout.
TypeOK ==
  /\ now \in Time
  /\ bucket.startedAt \in -1..now /\ bucket.count \in Nat
  /\ failures.lastFailedAt \in -1..now /\ failures.lockedUntil \in 0..now + Lockout /\ failures.count \in Nat
  /\ \A w \in Worker : hashing[w] = NoLogin \/ now - hashing[w].since \in 0..Hashing

\* isRateLimited, cleanRateBucketMap: no more than twice the limit passes in any
\* span of a window's length, wherever the fixed windows begin and whenever the
\* map is cleaned.
BurstBounded == \A t \in Time : InSpan(admitted, t, Window) <= 2 * Limit

\* isRateLimited: a request is refused only if as many as the limit allows
\* have passed within the last window; whoever waits that long is let in.
LimitedForAReason == told = "limited" => InSpan(admitted, now - Window, Window) >= Limit

\* The length of a lock, or of the window when that is shorter.
Reach == IF Lockout < FailWindow THEN Lockout ELSE FailWindow

\* recordLoginFailure: between two successes, no more wrong passwords go to the
\* hash within a lock's length (or the window's, when that is shorter) than the
\* allowed failures and one for each worker, although the look at the lock and
\* the record of the failure are a hash apart.
GuessesBounded ==
  \A t \in Time : InSpan(guesses, t, Reach - 1) <= MaxFailures + Cardinality(Worker)

\* clearLoginFailures: a lock needs more failures since the last success than
\* are allowed, so that nobody is locked out for what came before a success.
LockedForAReason == Locked => wrong > MaxFailures

-----------------------------------------------------------------------------
(* What makes the above inductive.                                         *)

Shape ==
  /\ now \in Time /\ admitted \in Seq(Nat) /\ guesses \in Seq(Nat) /\ wrong \in Nat
  /\ bucket \in [count : Nat, startedAt : Int]
  /\ failures \in [count : Nat, lockedUntil : Nat, lastFailedAt : Int]
  /\ hashing \in [Worker -> [since : Int, right : BOOLEAN]]

\* Times from t on.
From(t) == {x \in Nat : x >= t}

\* The bucket counts what passed since it began; what passed in the window's
\* length before it is of one bucket, too.
BucketCounts ==
  /\ \A i \in 1..Len(admitted) : admitted[i] <= now
  /\ IF bucket = NoBucket THEN \A i \in 1..Len(admitted) : admitted[i] + Window < now
     ELSE /\ bucket.startedAt \in 0..now
          /\ \A i \in 1..Len(admitted) : admitted[i] <= bucket.startedAt + Window
          /\ Hits(admitted, From(bucket.startedAt)) = (IF bucket.count < Limit THEN bucket.count ELSE Limit)
          /\ Hits(admitted, bucket.startedAt - Window..bucket.startedAt - 1) <= Limit

\* The lock says what the failures say.
LockFollows ==
  /\ failures.count <= wrong
  /\ failures.count > MaxFailures => failures.lockedUntil = failures.lastFailedAt + Lockout
  /\ failures.lockedUntil # 0 => failures.count > MaxFailures

\* Wrong passwords that are being hashed since t.
InFlight(t) == {w \in Worker : ~hashing[w].right /\ hashing[w].since >= t}

\* Of the guesses since t all but those in flight are failures that are counted,
\* as long as t is within reach.
GuessesCounted ==
  /\ \A i \in 1..Len(guesses) : guesses[i] <= now
  /\ \A t \in Time : now < t + Reach =>
       \/ Hits(guesses, From(t)) <= Cardinality(InFlight(t))
       \/ /\ failures.lastFailedAt >= t
          /\ Hits(guesses, From(t)) <= Cardinality(InFlight(t)) + failures.count

IInv ==
  /\ TypeOK /\ Shape /\ BucketCounts /\ LockFollows /\ GuessesCounted
  /\ BurstBounded /\ LimitedForAReason /\ GuessesBounded
=============================================================================
