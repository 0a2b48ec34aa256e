-------------------------- MODULE SessionFileProofs --------------------------
(***************************************************************************)
(* Sessions end in time, stay ended and keep their users signed in, on     *)
(* either side of a restart: for every number of sessions, stops and       *)
(* failed writes, and for all times of the configuration.                  *)
(***************************************************************************)
EXTENDS SessionFile, TLAPS

-----------------------------------------------------------------------------
(* The steps.                                                              *)

Ends(gone) == up /\ gone \subseteq Live(memory) /\ End(gone)

\* A request of a session that is not over.
Uses(s) ==
  /\ up /\ s \in Live(memory) /\ ~Over(s)
  /\ memory' = [memory EXCEPT ![s] =
       [expires |-> Refreshed(s), absolute |-> memory[s].absolute,
        persisted |-> IF Due(s) THEN now ELSE memory[s].persisted]]
  /\ IF Due(s) THEN Saved ELSE UNCHANGED <<dirty, timer>>
  /\ used' = [used EXCEPT ![s] = now] /\ shorted' = shorted \ {s}
  /\ UNCHANGED <<now, up, stops, born, ended, file, unsaved, behind, fails>>

LEMMA Kinds ==
  ASSUME [Next]_vars
  PROVE  \/ \E s \in Session : Issue(s) \/ Uses(s)
         \/ \E gone \in SUBSET Session : Ends(gone)
         \/ TimerFires \/ Tick \/ Start \/ UNCHANGED vars
         \/ \E clean \in BOOLEAN : Stop(clean)
<1>1. ASSUME NEW s \in Session, Request(s)
      PROVE  Uses(s) \/ \E gone \in SUBSET Session : Ends(gone)
  <2>1. CASE Over(s)
    <3>1. {s} \in SUBSET Session /\ Ends({s})
      BY <1>1, <2>1 DEF Request, Ends
    <3> QED
      BY <3>1
  <2>2. CASE ~Over(s)
    BY <1>1, <2>2 DEF Request, Uses
  <2> QED
    BY <2>1, <2>2
<1>2. ASSUME CleanSessions
      PROVE  \E gone \in SUBSET Session : Ends(gone)
  <2> DEFINE gone == {s \in Live(memory) : Over(s)}
  <2>1. gone \in SUBSET Session /\ Ends(gone)
    BY <1>2 DEF CleanSessions, Ends, Live
  <2> QED
    BY <2>1
<1>3. ASSUME NEW gone \in SUBSET Session, Revoke(gone)
      PROVE  Ends(gone)
  BY <1>3 DEF Revoke, Ends
<1> QED
  BY <1>1, <1>2, <1>3 DEF Next

-----------------------------------------------------------------------------
(* Types and times.                                                        *)

\* The invariant without what is said of each session's records.
Base ==
  /\ now \in 0..MaxTime /\ up \in BOOLEAN /\ fails \in 0..MaxFails /\ stops \in 0..MaxStops
  /\ memory \in [Session -> Record] /\ file \in [Session -> Record]
  /\ timer \in Int /\ ended \subseteq Session
  /\ used \in [Session -> Int] /\ born \in [Session -> Int]
  /\ \A s \in Session : born[s] # Never => 0 <= born[s] /\ born[s] <= used[s] /\ used[s] <= now
  /\ TimerIsSoon

LEMMA BaseIs ==
  ASSUME RecordsHold, Unborn
  PROVE  TypeOK /\ Shape /\ TimerIsSoon <=> Base /\ dirty = (timer # NoTimer)
  BY DEF Base, TypeOK, Shape, RecordsHold, Holds

LEMMA Absent == NoSession \in Record /\ NoSession.expires = -1
BY DEF NoSession, Never, Record

LEMMA Snap ==
  ASSUME NEW m \in [Session -> Record]
  PROVE  /\ Snapshot(m) \in [Session -> Record]
         /\ \A s \in Session :
              Snapshot(m)[s] = IF m[s].expires > now /\ m[s].absolute > now THEN m[s] ELSE NoSession
BY Absent DEF Snapshot

\* One request, as what becomes of the record.
LEMMA Used ==
  ASSUME TtlAssumption, Base, NEW s \in Session, Uses(s)
  PROVE  /\ memory' \in [Session -> Record]
         /\ memory'[s] = [expires |-> Refreshed(s), absolute |-> memory[s].absolute,
                          persisted |-> IF Due(s) THEN now ELSE memory[s].persisted]
         /\ \A t \in Session \ {s} : memory'[t] = memory[t]
<1> DEFINE r == [expires |-> Refreshed(s), absolute |-> memory[s].absolute,
                 persisted |-> IF Due(s) THEN now ELSE memory[s].persisted]
<1>1. memory[s] \in Record /\ memory \in [Session -> Record] /\ now \in Int
  BY DEF Base
<1>2. Refreshed(s) \in Int
  BY <1>1, TtlAssumption DEF TtlAssumption, Refreshed, Smaller, Record
<1>3. r \in Record
  BY <1>1, <1>2 DEF Record
<1>4. memory' = [memory EXCEPT ![s] = r]
  BY DEF Uses
<1> HIDE DEF r
<1>5. memory' \in [Session -> Record] /\ memory'[s] = r /\ \A t \in Session \ {s} : memory'[t] = memory[t]
  BY <1>1, <1>3, <1>4
<1> QED
  BY <1>5 DEF r

LEMMA BaseHolds ==
  ASSUME TtlAssumption, Base, [Next]_vars
  PROVE  Base'
<1> USE TtlAssumption DEF TtlAssumption, NoTimer, Never
<1>0. now \in Int
  BY DEF Base
<1>1. ASSUME NEW s \in Session, Issue(s)
      PROVE  Base'
  <2>1. memory' \in [Session -> Record]
    BY <1>0, <1>1 DEF Base, Issue, Record
  <2>2. file' \in [Session -> Record] /\ fails' \in 0..MaxFails
    <3>1. CASE Written(memory')
      BY <2>1, <3>1, Snap DEF Base, Written
    <3>2. CASE NotWritten(memory', {})
      BY <3>2 DEF Base, NotWritten
    <3> QED
      BY <1>1, <3>1, <3>2 DEF Issue, PersistNow
  <2> QED
    BY <1>1, <2>1, <2>2 DEF Base, Issue, PersistNow, TimerIsSoon
<1>2. ASSUME NEW s \in Session, Uses(s)
      PROVE  Base'
  <2>1. memory' \in [Session -> Record]
    BY <1>2, Used
  <2> QED
    BY <1>2, <2>1 DEF Base, Uses, TimerIsSoon, Saved
<1>3. ASSUME NEW gone \in SUBSET Session, Ends(gone)
      PROVE  Base'
  <2>1. memory' \in [Session -> Record]
    BY <1>3, Absent DEF Base, Ends, End
  <2>2. file' \in [Session -> Record] /\ fails' \in 0..MaxFails
    BY <2>1, <1>3, Snap DEF Base, Ends, End, PersistNow, Written, NotWritten
  <2> QED
    BY <1>3, <2>1, <2>2 DEF Base, Ends, End, PersistNow, TimerIsSoon
<1>4. ASSUME TimerFires
      PROVE  Base'
  <2>1. file' \in [Session -> Record] /\ fails' = fails
    BY <1>4, Snap DEF Base, TimerFires, Written
  <2> QED
    BY <1>4, <2>1 DEF Base, TimerFires, TimerIsSoon
<1>5. CASE Tick
  BY <1>5 DEF Base, Tick, TimerIsSoon
<1>6. ASSUME Start
      PROVE  Base'
  <2>1. memory' \in [Session -> Record]
    BY <1>6, Snap DEF Base, Start
  <2>2. file' \in [Session -> Record]
    BY <1>6, <2>1, Snap DEF Start
  <2> QED
    BY <1>6, <2>1, <2>2 DEF Base, Start, TimerIsSoon
<1>7. ASSUME NEW clean \in BOOLEAN, Stop(clean)
      PROVE  Base'
  <2>1. file' \in [Session -> Record] /\ fails' = fails
    BY <1>7, Snap DEF Base, Stop, Written
  <2>2. memory' \in [Session -> Record]
    BY <1>7, Absent DEF Stop
  <2>3. stops' \in 0..MaxStops
    BY <1>7 DEF Base, Stop
  <2>4. up' = FALSE /\ timer' = NoTimer /\ \A s \in Session : memory'[s] = NoSession
    BY <1>7 DEF Stop
  <2>5. UNCHANGED <<now, used, born, ended>>
    BY <1>7 DEF Stop
  <2>6. TimerIsSoon' /\ up' \in BOOLEAN
    BY <2>4 DEF TimerIsSoon
  <2> QED
    BY <2>1, <2>2, <2>3, <2>4, <2>5, <2>6 DEF Base
<1>8. CASE UNCHANGED vars
  BY <1>8 DEF Base, vars, TimerIsSoon
<1> QED
  BY <1>1, <1>2, <1>3, <1>4, <1>5, <1>6, <1>7, <1>8, Kinds

-----------------------------------------------------------------------------
(* Writes, and what a step does to one session.                            *)

LEMMA Write ==
  ASSUME NEW m \in [Session -> Record], Written(m), NEW t \in Session
  PROVE  /\ file'[t] = IF m[t].expires > now /\ m[t].absolute > now THEN m[t] ELSE NoSession
         /\ t \in unsaved' <=> t \in unsaved /\ m[t] # NoSession
         /\ t \in behind' <=> t \in behind /\ m[t] = NoSession
BY Snap DEF Written, Live

LEMMA FailedWrite ==
  ASSUME NEW m, NEW gone, NotWritten(m, gone), NEW t \in Session
  PROVE  /\ file'[t] = file[t]
         /\ t \in unsaved' <=> t \in unsaved \/ t \in gone
         /\ t \in behind' <=> t \in behind \/ m[t] # NoSession
BY DEF NotWritten, Live

\* A session changes by a step of its own, or it keeps its past.
Rests(t) ==
  /\ memory'[t] \in {memory[t], file[t], NoSession}
  /\ file'[t] \in {file[t], memory[t], NoSession}
  /\ used'[t] = used[t] /\ born'[t] = born[t]

LEMMA Changes ==
  ASSUME TtlAssumption, Base, [Next]_vars, NEW t \in Session
  PROVE  Issue(t) \/ Uses(t) \/ Rests(t)
<1>0. memory' \in [Session -> Record] /\ Base'
  BY BaseHolds DEF Base
<1>1. ASSUME NEW s \in Session \ {t}, Issue(s)
      PROVE  Rests(t)
  <2>1. memory'[t] = memory[t] /\ used'[t] = used[t] /\ born'[t] = born[t]
    BY <1>1 DEF Issue, Base
  <2>2. Written(memory') \/ NotWritten(memory', {})
    BY <1>1 DEF Issue, PersistNow
  <2> QED
    BY <1>0, <2>1, <2>2, Write, FailedWrite DEF Rests
<1>2. ASSUME NEW s \in Session \ {t}, Uses(s)
      PROVE  Rests(t)
  <2>1. memory'[t] = memory[t]
    BY <1>2, Used
  <2> QED
    BY <1>2, <2>1 DEF Uses, Base, Rests
<1>3. ASSUME NEW gone \in SUBSET Session, Ends(gone)
      PROVE  Rests(t)
  <2>1. memory'[t] \in {memory[t], NoSession} /\ UNCHANGED <<used, born>>
    BY <1>3 DEF Ends, End
  <2>2. Written(memory') \/ NotWritten(memory', gone)
    BY <1>3 DEF Ends, End, PersistNow
  <2> QED
    BY <1>0, <2>1, <2>2, Write, FailedWrite DEF Rests
<1>4. ASSUME TimerFires
      PROVE  Rests(t)
  <2>1. file'[t] \in {file[t], memory[t], NoSession}
    BY <1>4, Write DEF TimerFires, Base
  <2> QED
    BY <1>4, <2>1 DEF TimerFires, Rests
<1>5. CASE Tick
  BY <1>5 DEF Tick, Rests
<1>6. ASSUME Start
      PROVE  Rests(t)
  <2>1. memory'[t] \in {file[t], NoSession}
    BY <1>6, Snap DEF Start, Base
  <2>2. file'[t] \in {memory'[t], NoSession}
    BY <1>0, <1>6, Snap DEF Start, Base
  <2> QED
    BY <1>6, <2>1, <2>2 DEF Start, Rests
<1>7. ASSUME NEW clean \in BOOLEAN, Stop(clean)
      PROVE  Rests(t)
  <2>1. file'[t] \in {file[t], memory[t], NoSession}
    BY <1>7, Write DEF Stop, Base
  <2>2. memory'[t] = NoSession /\ UNCHANGED <<used, born>>
    BY <1>7 DEF Stop
  <2> QED
    BY <2>1, <2>2 DEF Rests
<1>8. CASE UNCHANGED vars
  BY <1>8 DEF vars, Rests
<1> QED
  BY <1>1, <1>2, <1>3, <1>4, <1>5, <1>6, <1>7, <1>8, Kinds

-----------------------------------------------------------------------------
(* What the records of a session say.                                      *)

Records(t) ==
  /\ born[t] = Never => memory[t] = NoSession /\ file[t] = NoSession /\ t \notin ended
  /\ Holds(memory[t], t) /\ Holds(file[t], t)

LEMMA EndedBefore ==
  ASSUME [Next]_vars, NEW t \in Session, t \in ended' \ ended
  PROVE  up /\ memory[t] # NoSession
BY Kinds DEF Ends, End, Live, Issue, Uses, TimerFires, Tick, Start, Stop, vars

LEMMA RecordsStay ==
  ASSUME TtlAssumption, Base, Base', [Next]_vars, NEW t \in Session, Records(t)
  PROVE  Records(t)'
<1> USE TtlAssumption DEF TtlAssumption, Never
<1>0. /\ now \in Int /\ used[t] \in Int /\ born[t] \in Int /\ memory[t] \in Record /\ file[t] \in Record
      /\ memory'[t] \in Record /\ file'[t] \in Record
      /\ born[t] # Never => 0 <= born[t] /\ born[t] <= used[t] /\ used[t] <= now
  BY DEF Base
<1>1. CASE Issue(t)
  <2>1. memory'[t] = [expires |-> now + Ttl, absolute |-> now + Absolute, persisted |-> now]
    BY <1>1 DEF Issue, Base
  <2>2. used'[t] = now /\ born'[t] = now /\ now >= 0
    BY <1>1 DEF Issue, Base
  <2>3. file[t] = NoSession
    BY <1>1 DEF Issue, Records
  <2>4. file'[t] \in {file[t], memory'[t], NoSession}
    <3>1. memory' \in [Session -> Record]
      BY DEF Base
    <3> QED
      BY <1>1, <3>1, Write, FailedWrite DEF Issue, PersistNow
  <2>5. Holds(memory[t], t)'
    BY <1>0, <2>1, <2>2 DEF Holds, Smaller
  <2>6. Holds(file[t], t)'
    BY <2>3, <2>4, <2>5 DEF Holds
  <2> QED
    BY <1>0, <2>2, <2>5, <2>6 DEF Records
<1>2. CASE Uses(t)
  <2>1. memory'[t] = [expires |-> Refreshed(t), absolute |-> memory[t].absolute,
                      persisted |-> IF Due(t) THEN now ELSE memory[t].persisted]
    BY <1>2, Used
  <2>2. used'[t] = now /\ born'[t] = born[t] /\ file'[t] = file[t] /\ memory[t] # NoSession
    BY <1>2 DEF Uses, Base, Live
  <2>3. born[t] # Never /\ used[t] <= now
    BY <1>0, <2>2 DEF Records
  <2>4. Holds(memory[t], t)'
    BY <1>0, <2>1, <2>2, <2>3 DEF Records, Holds, Smaller, Refreshed, Record
  <2>5. Holds(file[t], t)'
    BY <1>0, <2>2, <2>3 DEF Records, Holds, Smaller, Record
  <2> QED
    BY <2>2, <2>3, <2>4, <2>5 DEF Records
<1>3. CASE Rests(t)
  <2>1. Holds(memory[t], t)' /\ Holds(file[t], t)'
    BY <1>3 DEF Rests, Records, Holds
  <2>2. ASSUME born'[t] = Never
        PROVE  memory'[t] = NoSession /\ file'[t] = NoSession /\ t \notin ended'
    BY <1>3, <2>2, EndedBefore DEF Rests, Records
  <2> QED
    BY <2>1, <2>2 DEF Records
<1> QED
  BY <1>1, <1>2, <1>3, Changes

-----------------------------------------------------------------------------
(* Ended sessions, and what the file has of the others.                    *)

Gone(t) == t \in ended \ unsaved => memory[t] = NoSession /\ file[t] = NoSession

Filed(t) == up /\ t \notin ended =>
  IF memory[t] = NoSession THEN file[t] = NoSession
  ELSE \/ t \in behind \/ Pending(t)
       \/ IF file[t] = NoSession THEN Over(t) ELSE file[t].persisted = memory[t].persisted

Fresh(t) == t \notin ended \cup shorted /\ born[t] # Never =>
  IF Known(t) = NoSession THEN now >= Smaller(used[t] + Ttl - Activity, born[t] + Absolute)
  ELSE used[t] <= Known(t).persisted + Activity

\* A write of what is in memory now.
LEMMA GoneByWrite ==
  ASSUME memory' \in [Session -> Record], NEW gone, NEW t \in Session, Gone(t),
         Written(memory') \/ NotWritten(memory', gone),
         t \in gone => memory'[t] = NoSession, t \notin gone => memory'[t] = memory[t],
         t \in ended' => t \in ended \cup gone
  PROVE  Gone(t)'
<1>1. CASE Written(memory')
  <2>1. /\ file'[t] \in {memory'[t], NoSession}
        /\ t \in unsaved' <=> t \in unsaved /\ memory'[t] # NoSession
    BY <1>1, Write
  <2> QED
    BY <2>1 DEF Gone
<1>2. CASE NotWritten(memory', gone)
  <2>1. file'[t] = file[t] /\ (t \in unsaved' <=> t \in unsaved \/ t \in gone)
    BY <1>2, FailedWrite
  <2> QED
    BY <2>1 DEF Gone
<1> QED
  BY <1>1, <1>2

LEMMA FiledByWrite ==
  ASSUME memory' \in [Session -> Record], NEW gone, NEW t \in Session, now \in Int, now' = now,
         Written(memory') \/ NotWritten(memory', gone),
         memory'[t] = NoSession => file[t] = NoSession
  PROVE  Filed(t)'
<1>0. memory'[t] \in Record
  OBVIOUS
<1>1. CASE Written(memory')
  <2>1. file'[t] = IF memory'[t].expires > now /\ memory'[t].absolute > now THEN memory'[t]
                   ELSE NoSession
    BY <1>1, Write
  <2>2. CASE memory'[t].expires > now /\ memory'[t].absolute > now
    BY <2>1, <2>2 DEF Filed
  <2>3. CASE ~(memory'[t].expires > now /\ memory'[t].absolute > now)
    <3>1. Over(t)'
      BY <1>0, <2>3 DEF Over, Record
    <3> QED
      BY <2>1, <2>3, <3>1 DEF Filed
  <2> QED
    BY <2>2, <2>3
<1>2. CASE NotWritten(memory', gone)
  <2>1. file'[t] = file[t] /\ (t \in behind' <=> t \in behind \/ memory'[t] # NoSession)
    BY <1>2, FailedWrite
  <2> QED
    BY <2>1 DEF Filed
<1> QED
  BY <1>1, <1>2

LEMMA GoneStays ==
  ASSUME TtlAssumption, Base, Base', [Next]_vars, NEW t \in Session, Records(t), Gone(t)
  PROVE  Gone(t)'
<1>0. memory' \in [Session -> Record]
  BY DEF Base
<1>1. ASSUME NEW s \in Session, Issue(s)
      PROVE  Gone(t)'
  <2>1. CASE t = s
    BY <1>1, <2>1 DEF Issue, Records, Gone
  <2>2. CASE t # s
    <3>1. memory'[t] = memory[t] /\ ended' = ended /\ (Written(memory') \/ NotWritten(memory', {}))
      BY <1>1, <2>2 DEF Issue, PersistNow, Base
    <3> QED
      BY <1>0, <3>1, GoneByWrite
  <2> QED
    BY <2>1, <2>2
<1>2. ASSUME NEW s \in Session, Uses(s)
      PROVE  Gone(t)'
  <2>1. memory[s] # NoSession /\ \A r \in Session \ {s} : memory'[r] = memory[r]
    BY <1>2, Used DEF Uses, Live
  <2> QED
    BY <1>2, <2>1 DEF Uses, Gone
<1>3. ASSUME NEW gone \in SUBSET Session, Ends(gone)
      PROVE  Gone(t)'
  <2>1. /\ memory'[t] = IF t \in gone THEN NoSession ELSE memory[t]
        /\ ended' = ended \cup gone
        /\ Written(memory') \/ NotWritten(memory', gone)
    BY <1>3 DEF Ends, End, PersistNow
  <2> QED
    BY <1>0, <2>1, GoneByWrite
<1>4. ASSUME memory' = memory, ended' = ended, Written(memory)
      PROVE  Gone(t)'
  BY <1>0, <1>4, Write DEF Gone
<1>5. CASE TimerFires
  BY <1>4, <1>5 DEF TimerFires, Gone
<1>6. CASE Tick
  BY <1>6 DEF Tick, Gone
<1>7. ASSUME Start
      PROVE  Gone(t)'
  <2>1. memory'[t] \in {file[t], NoSession}
    BY <1>7, Snap DEF Start, Base
  <2>2. file'[t] \in {memory'[t], NoSession}
    BY <1>0, <1>7, Snap DEF Start
  <2> QED
    BY <1>7, <2>1, <2>2 DEF Start, Gone
<1>8. ASSUME NEW clean \in BOOLEAN, Stop(clean)
      PROVE  Gone(t)'
  <2>1. memory'[t] = NoSession /\ ended' = ended
    BY <1>8 DEF Stop
  <2>2. CASE Written(memory)
    <3>1. file'[t] \in {memory[t], NoSession} /\ (t \in unsaved' <=> t \in unsaved /\ memory[t] # NoSession)
      BY <2>2, Write DEF Base
    <3> QED
      BY <2>1, <3>1 DEF Gone
  <2>3. CASE UNCHANGED <<file, unsaved>>
    BY <2>1, <2>3 DEF Gone
  <2> QED
    BY <1>8, <2>2, <2>3 DEF Stop
<1>9. CASE UNCHANGED vars
  BY <1>9 DEF vars, Gone
<1> QED
  BY <1>1, <1>2, <1>3, <1>5, <1>6, <1>7, <1>8, <1>9, Kinds

LEMMA FiledStays ==
  ASSUME TtlAssumption, Base, Base', dirty = (timer # NoTimer), [Next]_vars,
         NEW t \in Session, Records(t), Filed(t)
  PROVE  Filed(t)'
<1> USE TtlAssumption DEF TtlAssumption, NoTimer
<1>0. /\ memory \in [Session -> Record] /\ memory' \in [Session -> Record] /\ now \in Int
      /\ memory[t] \in Record /\ file[t] \in Record /\ memory'[t] \in Record /\ timer \in Int
  BY DEF Base
<1>1. ASSUME NEW s \in Session, Issue(s)
      PROVE  Filed(t)'
  <2>1. /\ now' = now /\ up /\ ended' = ended /\ up' = up
        /\ Written(memory') \/ NotWritten(memory', {})
        /\ t # s => memory'[t] = memory[t]
        /\ t = s => file[t] = NoSession
    BY <1>1 DEF Issue, PersistNow, Base, Records
  <2>2. CASE t \in ended
    BY <2>1, <2>2 DEF Filed
  <2>3. CASE t \notin ended
    BY <1>0, <2>1, <2>3, FiledByWrite DEF Filed
  <2> QED
    BY <2>2, <2>3
<1>2. ASSUME NEW s \in Session, Uses(s)
      PROVE  Filed(t)'
  <2>1. CASE t # s
    <3>1. memory'[t] = memory[t]
      BY <1>2, <2>1, Used
    <3>2. Pending(t) => Pending(t)'
      BY <1>2, <3>1 DEF Uses, Saved, Pending
    <3> QED
      BY <1>2, <3>1, <3>2 DEF Uses, Filed, Over
  <2>2. CASE t = s /\ Due(s)
    <3>0. memory'[s] = [expires |-> Refreshed(s), absolute |-> memory[s].absolute,
                        persisted |-> IF Due(s) THEN now ELSE memory[s].persisted]
      BY <1>2, Used
    <3>1. memory'[t].persisted = now
      BY <2>2, <3>0
    <3>2. timer' # NoTimer /\ timer' <= now + Debounce
      BY <1>2, <1>0, <2>2 DEF Uses, Saved, Base, TimerIsSoon
    <3>3. memory'[t] # NoSession
      BY <3>1, <1>0 DEF NoSession, Never, Base
    <3>4. timer' \in Int
      BY DEF Base
    <3> QED
      BY <1>0, <3>1, <3>2, <3>3, <3>4 DEF Filed, Pending
  <2>3. CASE t = s /\ ~Due(s)
    <3>1. memory'[t].persisted = memory[t].persisted /\ memory[t] # NoSession /\ ~Over(t) /\ up
      BY <1>2, <2>3, Used DEF Uses, Live
    <3>2. file' = file /\ behind' = behind /\ timer' = timer /\ ended' = ended
      BY <1>2, <2>3 DEF Uses
    <3>3. CASE memory'[t] = NoSession
      BY <1>0, <1>2, <2>3, Used, <3>3 DEF Filed, NoSession, Over, Refreshed, Smaller, Never, Base, Uses, Record
    <3> QED
      BY <3>1, <3>2, <3>3 DEF Filed, Pending
  <2> QED
    BY <2>1, <2>2, <2>3
<1>3. ASSUME NEW gone \in SUBSET Session, Ends(gone)
      PROVE  Filed(t)'
  <2>1. /\ memory'[t] = IF t \in gone THEN NoSession ELSE memory[t]
        /\ ended' = ended \cup gone /\ up /\ now' = now
        /\ Written(memory') \/ NotWritten(memory', gone)
    BY <1>3 DEF Ends, End, PersistNow
  <2>2. CASE t \in ended'
    BY <2>2 DEF Filed
  <2>3. CASE t \notin ended'
    BY <1>0, <2>1, <2>3, FiledByWrite DEF Filed
  <2> QED
    BY <2>2, <2>3
<1>4. CASE TimerFires
  <2>0. dirty = TRUE
    BY <1>4 DEF TimerFires
  <2>1. /\ memory' = memory /\ now' = now /\ up /\ ended' = ended /\ Written(memory')
    BY <1>4, <2>0 DEF TimerFires
  <2>2. CASE t \in ended
    BY <2>1, <2>2 DEF Filed
  <2>3. CASE t \notin ended
    BY <1>0, <2>1, <2>3, FiledByWrite DEF Filed
  <2> QED
    BY <2>2, <2>3
<1>5. CASE Tick
  <2>1. Over(t) => Over(t)'
    BY <1>0, <1>5 DEF Tick, Over, Record
  <2> QED
    BY <1>5, <2>1 DEF Tick, Filed, Pending
<1>6. ASSUME Start
      PROVE  Filed(t)'
  <2>0. memory'[t] = IF file[t].expires > now /\ file[t].absolute > now THEN file[t] ELSE NoSession
    BY <1>6, Snap DEF Start, Base
  <2>1. memory'[t] = NoSession \/ (memory'[t].expires > now /\ memory'[t].absolute > now)
    BY <2>0
  <2>2. file'[t] = IF memory'[t].expires > now /\ memory'[t].absolute > now THEN memory'[t]
                   ELSE NoSession
    BY <1>0, <1>6, Snap DEF Start
  <2> QED
    BY <2>1, <2>2 DEF Filed
<1>7. ASSUME NEW clean \in BOOLEAN, Stop(clean)
      PROVE  Filed(t)'
  BY <1>7 DEF Stop, Filed
<1>8. CASE UNCHANGED vars
  BY <1>8 DEF vars, Filed, Over, Pending
<1> QED
  BY <1>1, <1>2, <1>3, <1>4, <1>5, <1>6, <1>7, <1>8, Kinds

-----------------------------------------------------------------------------
(* Marks.                                                                  *)

\* What is not taken over of a session in a snapshot is over, and its mark says
\* that it was not used for long.
LEMMA IdleOrOld ==
  ASSUME TtlAssumption, NEW r \in Record, NEW n \in Int, NEW lastUse \in Int, NEW first \in Int,
         r.absolute = first + Absolute, lastUse <= r.persisted + Activity,
         Smaller(r.persisted + Ttl, first + Absolute) <= r.expires,
         ~(r.expires > n /\ r.absolute > n)
  PROVE  n >= Smaller(lastUse + Ttl - Activity, first + Absolute)
BY DEF TtlAssumption, Record, Smaller

LEMMA FreshStays ==
  ASSUME TtlAssumption, Base, Base', dirty = (timer # NoTimer), [Next]_vars,
         NEW t \in Session, Records(t), Filed(t), Fresh(t)
  PROVE  Fresh(t)'
<1> USE TtlAssumption DEF TtlAssumption
<1>0. /\ memory \in [Session -> Record] /\ now \in Int /\ used[t] \in Int /\ born[t] \in Int
      /\ memory[t] \in Record /\ file[t] \in Record /\ memory'[t] \in Record /\ timer \in Int
  BY DEF Base
<1>1. ASSUME NEW s \in Session, Issue(s)
      PROVE  Fresh(t)'
  <2>1. /\ now' = now /\ up /\ ended' = ended /\ up' = up /\ shorted' = shorted \ {s}
    BY <1>1 DEF Issue
  <2>2. CASE t = s
    <3>1. memory'[t].persisted = now /\ used'[t] = now
      BY <1>1, <2>2 DEF Issue, Base
    <3>2. memory'[t] # NoSession
      BY <1>0, <3>1 DEF NoSession, Never, Base
    <3> QED
      BY <1>0, <2>1, <3>1, <3>2 DEF Fresh, Known
  <2>3. CASE t # s
    <3>1. memory'[t] = memory[t] /\ used'[t] = used[t] /\ born'[t] = born[t]
      BY <1>1, <2>3 DEF Issue, Base
    <3> QED
      BY <2>1, <2>3, <3>1 DEF Fresh, Known
  <2> QED
    BY <2>2, <2>3
<1>2. ASSUME NEW s \in Session, Uses(s)
      PROVE  Fresh(t)'
  <2>1. /\ now' = now /\ up /\ ended' = ended /\ up' = up /\ shorted' = shorted \ {s}
        /\ born' = born
    BY <1>2 DEF Uses
  <2>2. CASE t = s
    <3>0. memory'[s] = [expires |-> Refreshed(s), absolute |-> memory[s].absolute,
                        persisted |-> IF Due(s) THEN now ELSE memory[s].persisted]
      BY <1>2, Used
    <3>1. used'[t] = now /\ memory[t] # NoSession /\ now < memory[t].absolute
      BY <1>0, <1>2, <2>2 DEF Uses, Base, Live, Over, Record
    <3>2. now <= memory'[t].persisted + Activity
      BY <1>0, <2>2, <3>0 DEF Due, Record
    <3>3. memory'[t] # NoSession
      <4>1. memory'[t].absolute = memory[t].absolute /\ memory[t].absolute # Never
        BY <1>0, <2>2, <3>0, <3>1 DEF Record, Never, Base
      <4> QED
        BY <4>1 DEF NoSession
    <3> QED
      BY <2>1, <3>1, <3>2, <3>3 DEF Fresh, Known
  <2>3. CASE t # s
    <3>1. memory'[t] = memory[t] /\ used'[t] = used[t]
      BY <1>2, <2>3, Used DEF Uses, Base
    <3> QED
      BY <2>1, <2>3, <3>1 DEF Fresh, Known
  <2> QED
    BY <2>2, <2>3
<1>3. ASSUME NEW gone \in SUBSET Session, Ends(gone)
      PROVE  Fresh(t)'
  <2>1. /\ memory'[t] = IF t \in gone THEN NoSession ELSE memory[t]
        /\ ended' = ended \cup gone /\ up /\ UNCHANGED <<now, up, used, born, shorted>>
    BY <1>3 DEF Ends, End
  <2> QED
    BY <2>1 DEF Fresh, Known
<1>4. ASSUME TimerFires
      PROVE  Fresh(t)'
  BY <1>4 DEF TimerFires, Fresh, Known
<1>5. CASE Tick
  <2>1. now' = now + 1 /\ UNCHANGED <<up, memory, file, used, born, ended, shorted>>
    BY <1>5 DEF Tick
  <2>2. Known(t)' = Known(t)
    BY <2>1 DEF Known
  <2> QED
    BY <1>0, <2>1, <2>2 DEF Fresh, Smaller
<1>6. ASSUME Start, Fresh(t)
      PROVE  Fresh(t)'
  <2>1. memory'[t] = IF file[t].expires > now /\ file[t].absolute > now THEN file[t] ELSE NoSession
    BY <1>6, Snap DEF Start, Base
  <2>2. Known(t)' = memory'[t] /\ Known(t) = file[t] /\ UNCHANGED <<now, used, born, ended, shorted>>
    BY <1>6 DEF Start, Known
  <2>3. CASE memory'[t] = file[t]
    BY <2>2, <2>3 DEF Fresh
  <2>4. CASE memory'[t] # file[t]
    <3>1. /\ memory'[t] = NoSession /\ file[t] # NoSession
          /\ ~(file[t].expires > now /\ file[t].absolute > now)
      BY <2>1, <2>4
    <3>2. /\ file[t].absolute = born[t] + Absolute
          /\ Smaller(file[t].persisted + Ttl, born[t] + Absolute) <= file[t].expires
      BY <3>1 DEF Records, Holds
    <3>3. ASSUME t \notin ended \cup shorted, born[t] # Never
          PROVE  now >= Smaller(used[t] + Ttl - Activity, born[t] + Absolute)
      <4>1. used[t] <= file[t].persisted + Activity
        BY <2>2, <3>1, <3>3 DEF Fresh
      <4> QED
        BY <1>0, <3>1, <3>2, <4>1, IdleOrOld
    <3> QED
      BY <2>2, <3>1, <3>3 DEF Fresh
  <2> QED
    BY <2>3, <2>4
<1>7. ASSUME NEW clean \in BOOLEAN, Stop(clean)
      PROVE  Fresh(t)'
  <2>1. /\ Known(t)' = file'[t] /\ Known(t) = memory[t] /\ up
        /\ UNCHANGED <<now, used, born, ended>>
        /\ t \notin shorted' => /\ t \notin shorted /\ t \notin behind'
                                /\ clean \/ ~(now - used[t] <= Debounce)
    BY <1>7 DEF Stop, Known
  <2>2. SUFFICES ASSUME t \notin ended, t \notin shorted', born[t] # Never
                 PROVE  IF file'[t] = NoSession
                        THEN now >= Smaller(used[t] + Ttl - Activity, born[t] + Absolute)
                        ELSE used[t] <= file'[t].persisted + Activity
    BY <2>1 DEF Fresh
  <2>3. IF memory[t] = NoSession
        THEN now >= Smaller(used[t] + Ttl - Activity, born[t] + Absolute)
        ELSE used[t] <= memory[t].persisted + Activity
    BY <2>1, <2>2 DEF Fresh
  <2>4. ASSUME memory[t] # NoSession, ~(memory[t].expires > now /\ memory[t].absolute > now)
        PROVE  now >= Smaller(used[t] + Ttl - Activity, born[t] + Absolute)
    <3>1. /\ memory[t].absolute = born[t] + Absolute
          /\ Smaller(memory[t].persisted + Ttl, born[t] + Absolute) <= memory[t].expires
      BY <2>4 DEF Records, Holds
    <3> QED
      BY <1>0, <2>3, <2>4, <3>1, IdleOrOld
  <2>5. CASE Written(memory)
    <3>1. file'[t] = IF memory[t].expires > now /\ memory[t].absolute > now THEN memory[t] ELSE NoSession
      BY <1>0, <2>5, Write
    <3> QED
      BY <2>3, <2>4, <3>1
  <2>6. CASE file' = file /\ behind' = behind /\ (clean => ~dirty)
    <3>1. memory[t] # NoSession => ~Pending(t)
      <4>1. CASE clean
        BY <2>6, <4>1 DEF Pending
      <4>2. CASE ~clean /\ memory[t] # NoSession
        <5>1. ~(now - used[t] <= Debounce) /\ memory[t].persisted <= used[t] /\ memory[t].persisted \in Int
          BY <1>0, <2>1, <2>2, <4>2 DEF Records, Holds, Record
        <5>2. timer # NoTimer => now <= timer
          BY DEF Base, TimerIsSoon
        <5> QED
          BY <1>0, <5>1, <5>2 DEF Pending
      <4> QED
        BY <4>1, <4>2
    <3>2. IF memory[t] = NoSession THEN file[t] = NoSession
          ELSE IF file[t] = NoSession THEN Over(t) ELSE file[t].persisted = memory[t].persisted
      BY <2>1, <2>2, <2>6, <3>1 DEF Filed
    <3>3. Over(t) => ~(memory[t].expires > now /\ memory[t].absolute > now)
      BY <1>0 DEF Over, Record
    <3> QED
      BY <2>3, <2>4, <2>6, <3>2, <3>3
  <2> QED
    BY <1>7, <2>5, <2>6 DEF Stop
<1>8. CASE UNCHANGED vars
  BY <1>8 DEF vars, Fresh, Known
<1> QED
  BY <1>1, <1>2, <1>3, <1>4, <1>5, <1>6, <1>7, <1>8, Kinds

-----------------------------------------------------------------------------
(* The invariant, and what follows from it.                                *)

LEMMA FlagHolds ==
  ASSUME dirty = (timer # NoTimer), Base, Base', TtlAssumption, [Next]_vars
  PROVE  (dirty = (timer # NoTimer))'
<1>0. now \in 0..MaxTime /\ Debounce \in Nat
  BY DEF Base, TtlAssumption
<1>1. ASSUME dirty' = FALSE, timer' = NoTimer
      PROVE  (dirty = (timer # NoTimer))'
  BY <1>1
<1>2. ASSUME Saved
      PROVE  (dirty = (timer # NoTimer))'
  <2>1. now + Debounce # NoTimer
    BY <1>0 DEF NoTimer
  <2>2. dirty' = TRUE /\ timer' # NoTimer
    BY <1>2, <2>1 DEF Saved
  <2> QED
    BY <2>2
<1>3. ASSUME UNCHANGED <<dirty, timer>>
      PROVE  (dirty = (timer # NoTimer))'
  BY <1>3
<1>4. (dirty' = FALSE /\ timer' = NoTimer) \/ Saved \/ UNCHANGED <<dirty, timer>>
  BY Kinds DEF Ends, End, PersistNow, Issue, Uses, TimerFires, Tick, Start, Stop, vars
<1> QED
  BY <1>1, <1>2, <1>3, <1>4

\* The invariant, session by session.
Each == \A t \in Session : Records(t) /\ Gone(t) /\ Filed(t) /\ Fresh(t)

LEMMA BySession ==
  IInv <=> Base /\ dirty = (timer # NoTimer) /\ Each
<1>1. ASSUME IInv
      PROVE  Base /\ dirty = (timer # NoTimer) /\ Each
  <2>1. Base /\ dirty = (timer # NoTimer)
    BY <1>1, BaseIs DEF IInv
  <2>2. ASSUME NEW t \in Session
        PROVE  Records(t) /\ Gone(t) /\ Filed(t) /\ Fresh(t)
    BY <1>1 DEF IInv, RecordsHold, Unborn, EndedStaysEnded, FileKnows, MarksAreFresh,
                Records, Gone, Filed, Fresh
  <2> QED
    BY <2>1, <2>2 DEF Each
<1>2. ASSUME Base, dirty = (timer # NoTimer), Each
      PROVE  IInv
  <2>1. RecordsHold /\ Unborn /\ EndedStaysEnded
    BY <1>2 DEF RecordsHold, Unborn, EndedStaysEnded, Records, Gone, Each, Base
  <2>2. FileKnows /\ MarksAreFresh
    BY <1>2 DEF FileKnows, MarksAreFresh, Filed, Fresh, Each
  <2>3. TypeOK /\ Shape /\ TimerIsSoon
    BY <1>2, <2>1, BaseIs
  <2> QED
    BY <2>1, <2>2, <2>3 DEF IInv
<1> QED
  BY <1>1, <1>2

LEMMA Start0 ==
  ASSUME TtlAssumption, Init
  PROVE  IInv
<1> USE DEF Init, Never, NoTimer
<1>0. memory \in [Session -> Record] /\ file \in [Session -> Record]
  BY Absent
<1>1. Base
  BY <1>0 DEF TtlAssumption, Base, TimerIsSoon
<1>3. dirty = (timer # NoTimer)
  OBVIOUS
<1>2. ASSUME NEW t \in Session
      PROVE  Records(t) /\ Gone(t) /\ Filed(t) /\ Fresh(t)
  BY DEF Records, Holds, Gone, Filed, Fresh
<1> QED
  BY <1>1, <1>2, <1>3, BySession DEF Each

LEMMA Inductive ==
  ASSUME TtlAssumption, IInv, [Next]_vars
  PROVE  IInv'
<1>1. Base /\ dirty = (timer # NoTimer) /\ Each
  BY BySession
<1>2. Base' /\ (dirty = (timer # NoTimer))'
  BY <1>1, BaseHolds, FlagHolds
<1>3. ASSUME NEW t \in Session
      PROVE  Records(t)' /\ Gone(t)' /\ Filed(t)' /\ Fresh(t)'
  BY <1>1, <1>2, RecordsStay, GoneStays, FiledStays, FreshStays DEF Each
<1>4. Each'
  BY <1>3 DEF Each
<1> QED
  BY <1>2, <1>4, BySession, PTL

LEMMA Enough ==
  ASSUME TtlAssumption, IInv
  PROVE  SessionsSurviveRestarts
<1>1. SessionsEnd
  BY DEF IInv, RecordsHold, Holds, SessionsEnd
<1>2. ASSUME NEW s \in Session \ (ended \cup shorted), up, born[s] # Never,
             now < used[s] + Ttl - Activity, now < born[s] + Absolute
      PROVE  memory[s] # NoSession
  <2>1. now \in Int /\ used[s] \in Int /\ born[s] \in Int
    BY BySession DEF Base
  <2>2. ~(now >= Smaller(used[s] + Ttl - Activity, born[s] + Absolute))
    BY <1>2, <2>1 DEF TtlAssumption, Smaller
  <2> QED
    BY <1>2, <2>2 DEF IInv, MarksAreFresh, Known
<1> QED
  BY <1>1, <1>2 DEF IInv, UsersStaySignedIn, SessionsSurviveRestarts

-----------------------------------------------------------------------------
\* The inductive invariant holds.
THEOREM Invariance ==
  ASSUME TtlAssumption
  PROVE  Spec => []IInv
<1>1. Init => IInv
  BY Start0
<1>2. IInv /\ [Next]_vars => IInv'
  BY Inductive
<1> QED
  BY <1>1, <1>2, PTL DEF Spec

\* The state has its shape, and a write is pending exactly while something is dirty.
THEOREM TypeCorrect ==
  ASSUME TtlAssumption
  PROVE  Spec => []TypeOK
<1>1. IInv => TypeOK
  BY DEF IInv
<1> QED
  BY <1>1, Invariance, PTL

\* requireSession, revokeSession, maybePersistSessionActivity: a session ends in
\* time on either side of a restart, an ended one stays ended, and whoever uses
\* theirs stays signed in.
THEOREM Surviving ==
  ASSUME TtlAssumption
  PROVE  Spec => []SessionsSurviveRestarts
<1>1. IInv => SessionsSurviveRestarts
  BY Enough
<1> QED
  BY <1>1, Invariance, PTL
=============================================================================
