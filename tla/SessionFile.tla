---------------------------- MODULE SessionFile -----------------------------
(***************************************************************************)
(* Sessions across restarts (services/session-store.js): what the server   *)
(* remembers, what sessions.json holds, and when the one is written to the *)
(* other: at once when a session is issued or revoked, after a delay and   *)
(* at most every so often when a session is merely used.  Files are        *)
(* replaced whole (utils/data.js); a write can fail.                       *)
(***************************************************************************)
EXTENDS Integers, FiniteSets

CONSTANTS
  Session,
  Ttl,       \* sessionTtlMs
  Absolute,  \* sessionAbsoluteTtlMs
  Activity,  \* sessionActivityPersistMs
  Debounce,  \* sessionPersistDebounceMs
  MaxTime,   \* bound: the clock
  MaxFails,  \* bound: writes that fail
  MaxStops   \* bound: crashes and shutdowns

\* Assumed of the constants.
TtlAssumption ==
  /\ Ttl \in Nat \ {0} /\ Absolute \in Nat /\ Absolute >= Ttl /\ {Activity, Debounce} \subseteq Nat
  /\ {MaxTime, MaxFails, MaxStops} \subseteq Nat

VARIABLES
  now, up,
  memory,  \* sessions, each with its two ends and when it was last persisted
  file,    \* sessions.json
  dirty,   \* sessionsDirty
  timer,   \* when the pending write is due, or NoTimer
  fails, stops,
  used,    \* ghost: when each session was last used (issued, at first)
  born,    \* ghost: when each session was issued; never before Never
  ended,   \* ghost: sessions revoked, logged out or found expired
  unsaved, \* ghost: those of them whose end the file has not been told
  behind,  \* ghost: sessions of which a failed write lost the issue or a use
  shorted  \* ghost: sessions of which a stop lost the last use

vars == <<now, up, memory, file, dirty, timer, fails, stops, used, born, ended, unsaved, behind, shorted>>

Never == -1
NoTimer == -1
NoSession == [expires |-> Never, absolute |-> Never, persisted |-> Never]
Live(m) == {s \in Session : m[s] # NoSession}
Smaller(a, b) == IF a < b THEN a ELSE b

-----------------------------------------------------------------------------
(* Writing.                                                                *)

\* persistedSessionSnapshot: expired sessions are left out.
Snapshot(m) == [s \in Session |-> IF m[s].expires > now /\ m[s].absolute > now THEN m[s] ELSE NoSession]

Written(m) ==
  /\ file' = Snapshot(m)
  /\ unsaved' = unsaved \cap Live(m) /\ behind' = behind \ Live(m)
  /\ UNCHANGED fails

\* writeJsonFile throws: the flag is down already, and the file as it was.
NotWritten(m, gone) ==
  /\ fails < MaxFails /\ fails' = fails + 1
  /\ unsaved' = unsaved \cup gone /\ behind' = behind \cup Live(m)
  /\ UNCHANGED file

\* schedulePersistSessions(true)
PersistNow(m, gone) ==
  /\ dirty' = FALSE /\ timer' = NoTimer
  /\ Written(m) \/ NotWritten(m, gone)

-----------------------------------------------------------------------------
(* Sessions.                                                               *)

Issue(s) ==
  /\ up /\ born[s] = Never
  /\ memory' = [memory EXCEPT ![s] = [expires |-> now + Ttl, absolute |-> now + Absolute, persisted |-> now]]
  /\ used' = [used EXCEPT ![s] = now] /\ born' = [born EXCEPT ![s] = now]
  /\ shorted' = shorted \ {s}
  /\ PersistNow(memory', {})
  /\ UNCHANGED <<now, up, stops, ended>>

\* Mutant of End: logging out is noted, and written with the next use.
EndLazily(gone) ==
  /\ gone # {}
  /\ memory' = [s \in Session |-> IF s \in gone THEN NoSession ELSE memory[s]]
  /\ ended' = ended \cup gone
  /\ dirty' = TRUE /\ timer' = IF timer = NoTimer THEN now + Debounce ELSE timer
  /\ UNCHANGED <<now, up, stops, used, born, file, unsaved, behind, shorted, fails>>

\* revokeSession, deleteSessionsForUsername, cleanSessions.
End(gone) ==
  /\ gone # {}
  /\ memory' = [s \in Session |-> IF s \in gone THEN NoSession ELSE memory[s]]
  /\ ended' = ended \cup gone
  /\ PersistNow(memory', gone)
  /\ UNCHANGED <<now, up, stops, used, born, shorted>>

Revoke(gone) == up /\ gone \subseteq Live(memory) /\ End(gone)

Over(s) == memory[s].expires <= now \/ memory[s].absolute <= now

CleanSessions == up /\ End({s \in Live(memory) : Over(s)})

\* refreshSessionState
Refreshed(s) == Smaller(now + Ttl, memory[s].absolute)

Due(s) == now - memory[s].persisted >= Activity

\* schedulePersistSessions(): the write that is pending takes this use along.
Saved ==
  /\ dirty' = TRUE
  /\ timer' = IF timer = NoTimer THEN now + Debounce ELSE timer

\* requireSession, refreshSessionState, maybePersistSessionActivity
Request(s) ==
  /\ up /\ s \in Live(memory)
  /\ IF Over(s) THEN End({s})
     ELSE LET due == Due(s)
          IN  /\ memory' = [memory EXCEPT ![s] =
                   [expires |-> Refreshed(s), absolute |-> @.absolute,
                    persisted |-> IF due THEN now ELSE @.persisted]]
              /\ IF due THEN Saved ELSE UNCHANGED <<dirty, timer>>
              /\ used' = [used EXCEPT ![s] = now] /\ shorted' = shorted \ {s}
              /\ UNCHANGED <<now, up, stops, born, ended, file, unsaved, behind, fails>>

-----------------------------------------------------------------------------
(* The timer, the clock, and the process.                                  *)

\* flushPendingSessionPersist by its timer; a write that fails there ends the
\* process (see Stop).
TimerFires ==
  /\ up /\ timer # NoTimer /\ timer <= now
  /\ timer' = NoTimer /\ dirty' = FALSE
  /\ IF dirty THEN Written(memory) ELSE UNCHANGED <<file, unsaved, behind, fails>>
  /\ UNCHANGED <<now, up, memory, stops, used, born, ended, shorted>>

Tick ==
  /\ now < MaxTime /\ (timer = NoTimer \/ now < timer)
  /\ now' = now + 1
  /\ UNCHANGED <<up, memory, file, dirty, timer, fails, stops, used, born, ended, unsaved, behind, shorted>>

\* A crash, or a shutdown that writes what is dirty first.
Stop(clean) ==
  /\ up /\ stops < MaxStops /\ stops' = stops + 1
  /\ up' = FALSE /\ memory' = [s \in Session |-> NoSession] /\ dirty' = FALSE /\ timer' = NoTimer
  /\ IF clean /\ dirty THEN Written(memory) ELSE UNCHANGED <<file, unsaved, behind, fails>>
  /\ shorted' = shorted \cup behind' \cup IF clean THEN {} ELSE {s \in Session : now - used[s] <= Debounce}
  /\ UNCHANGED <<now, used, born, ended>>

\* loadSessionState: what has expired meanwhile is not taken over.
Start ==
  /\ ~up /\ up' = TRUE
  /\ memory' = Snapshot(file)
  /\ file' = Snapshot(memory')
  /\ UNCHANGED <<now, dirty, timer, fails, stops, used, born, ended, unsaved, behind, shorted>>

Init ==
  /\ now = 0 /\ up = TRUE /\ dirty = FALSE /\ timer = NoTimer /\ fails = 0 /\ stops = 0
  /\ memory = [s \in Session |-> NoSession] /\ file = memory
  /\ used = [s \in Session |-> Never] /\ born = used
  /\ ended = {} /\ unsaved = {} /\ behind = {} /\ shorted = {}

Next ==
  \/ \E s \in Session : Issue(s) \/ Request(s)
  \/ \E gone \in SUBSET Session : Revoke(gone)
  \/ CleanSessions \/ TimerFires \/ Tick \/ Start
  \/ \E clean \in BOOLEAN : Stop(clean)

Spec == Init /\ [][Next]_vars

-----------------------------------------------------------------------------
\* The state has its shape; a write is pending exactly while something is dirty.
TypeOK ==
  /\ now \in 0..MaxTime /\ up \in BOOLEAN /\ fails \in 0..MaxFails /\ stops \in 0..MaxStops
  /\ \A s \in Session : memory[s] = NoSession \/ memory[s].absolute = born[s] + Absolute
  /\ dirty = (timer # NoTimer)

\* requireSession, persistedSessionSnapshot: a session is never good for longer
\* than its idle time since the last use and its whole time since the login,
\* on whichever side of a restart; neither is one the file would bring back.
SessionsEnd ==
  \A s \in Session : \A m \in {memory[s], file[s]} :
    m # NoSession => m.expires <= Smaller(used[s] + Ttl, born[s] + Absolute)

\* revokeSession, deleteSessionsForUsername: a session that was ended does not
\* come back, neither while the server runs nor with a restart, unless the very
\* write of its end failed and no write has worked since.
EndedStaysEnded == \A s \in ended \ unsaved : memory[s] = NoSession /\ file[s] = NoSession

\* maybePersistSessionActivity: whoever uses a session goes on being signed in
\* through shutdowns and crashes; a restart costs no more of the idle time than
\* the time between two writes of its use, unless the last use was just before
\* a crash, or a write failed.
UsersStaySignedIn ==
  \A s \in Session \ (ended \cup shorted) :
    (up /\ born[s] # Never /\ now < used[s] + Ttl - Activity /\ now < born[s] + Absolute)
      => memory[s] # NoSession

\* What the server promises of a session.
SessionsSurviveRestarts == SessionsEnd /\ EndedStaysEnded /\ UsersStaySignedIn

-----------------------------------------------------------------------------
(* What makes the above inductive.                                         *)

Record == [expires : Int, absolute : Int, persisted : Int]

Shape ==
  /\ {memory, file} \subseteq [Session -> Record] /\ {used, born} \subseteq [Session -> Int]
  /\ timer \in Int /\ ended \subseteq Session
  /\ \A s \in Session : born[s] # Never => 0 <= born[s] /\ born[s] <= used[s] /\ used[s] <= now

\* A pending write is due soon, and nothing is due while the server is down.
TimerIsSoon ==
  /\ timer # NoTimer => now <= timer /\ timer <= now + Debounce
  /\ ~up => timer = NoTimer /\ \A s \in Session : memory[s] = NoSession

\* A session that was not issued is nowhere.
Unborn == \A s \in Session : born[s] = Never =>
  memory[s] = NoSession /\ file[s] = NoSession /\ s \notin ended

\* What a record of a session says of it on either side: it is good for the idle
\* time since it was marked as persisted at least, and at most since its last use.
Holds(m, s) == m # NoSession =>
  /\ m.absolute = born[s] + Absolute /\ m.persisted <= used[s]
  /\ Smaller(m.persisted + Ttl, born[s] + Absolute) <= m.expires
  /\ m.expires <= Smaller(used[s] + Ttl, born[s] + Absolute)

RecordsHold == \A s \in Session : Holds(memory[s], s) /\ Holds(file[s], s)

\* The write that takes the mark of session s along is still to come.
Pending(s) == timer # NoTimer /\ timer - Debounce <= memory[s].persisted

\* The file has each session as of its mark, unless that is about to be written
\* or a write failed; it may lack one that is over.
FileKnows == up => \A s \in Session \ ended :
  IF memory[s] = NoSession THEN file[s] = NoSession
  ELSE \/ s \in behind \/ Pending(s)
       \/ IF file[s] = NoSession THEN Over(s) ELSE file[s].persisted = memory[s].persisted

Known(s) == IF up THEN memory[s] ELSE file[s]

\* The mark is not much older than the last use, and a session that is gone
\* without having been ended was idle for long or old.
MarksAreFresh == \A s \in Session \ (ended \cup shorted) : born[s] # Never =>
  IF Known(s) = NoSession THEN now >= Smaller(used[s] + Ttl - Activity, born[s] + Absolute)
  ELSE used[s] <= Known(s).persisted + Activity

IInv ==
  /\ TypeOK
  /\ Shape
  /\ TimerIsSoon
  /\ Unborn
  /\ RecordsHold
  /\ EndedStaysEnded
  /\ FileKnows
  /\ MarksAreFresh
=============================================================================
