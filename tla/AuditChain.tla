----------------------------- MODULE AuditChain -----------------------------
(***************************************************************************)
(* The administration audit log (server.js, services/admin-config.js): a   *)
(* chain of hashed lines in admin_audit.jsonl, the copy in memory that the *)
(* administration page shows, the key of the hashes, and the check of the  *)
(* chain at every start.  Appends and the rewrite of the environment file  *)
(* fail or break off, the process crashes, and between two starts lines of *)
(* the audit file are lost or changed.                                     *)
(***************************************************************************)
EXTENDS Naturals, Sequences, SequencesExt

CONSTANTS
  Password,   \* administrator passwords
  MaxEntries, \* bound: entries recorded
  MaxStops,   \* bound: crashes and stops
  MaxHarm     \* bound: lines lost or changed, or broken off

VARIABLES
  up,
  lines,    \* admin_audit.jsonl
  tail,     \* how its last line ends: in a line break, or broken off before
            \* it, or within the entry
  entries,  \* adminAuditEntries
  last,     \* adminAuditLastHash
  key,      \* adminAuditHmacKeyState
  env,      \* AUDIT_HMAC_KEY in the environment file that the next start reads, or NoKey
  keyFile,  \* audit-hmac-key.txt, or NoKey
  password,
  writable, \* whether the key file can be written, as the directory was set up
  checked,  \* what the last start said: "ok", "failed", or "no" check yet
  next, stops, harm,
  written,  \* ghost: the lines the program appended, as it appended them
  excused   \* ghost: a line was harmed, or the key in use is lost

vars == <<up, lines, tail, entries, last, key, env, keyFile, password, writable, checked, next,
          stops, harm, written, excused>>

file == <<lines, tail, written>>
memory == <<entries, last>>
keys == <<env, keyFile, password, writable>>

NoKey == "none"
\* A line that was cut after "AUDIT_HMAC_KEY=", and one cut within the key, which makes
\* another key.
Blank == "blank"
Short == "short"
Genesis == <<>>
\* The key of entries from before the HMAC (hashAlgo is missing).
Sha == "sha"

\* Assumed of the constants: a password is told from no key and from the old hashes.
AuditAssumption ==
  /\ MaxEntries \in Nat \ {0} /\ MaxStops \in Nat /\ MaxHarm \in Nat
  /\ {NoKey, Blank, Short, Sha} \cap Password = {}

\* computeAdminAuditEntryHash, taken to be injective.
Hash(prev, id, k) == <<prev, id, k>>
Entry(prev, id, k) == [id |-> id, key |-> k, prev |-> prev, hash |-> Hash(prev, id, k)]
Garbage == [id |-> 0, key |-> NoKey, prev |-> Genesis, hash |-> Genesis]

HashAfter(s) == IF s = <<>> THEN Genesis ELSE Last(s).hash

-----------------------------------------------------------------------------
(* Recording.                                                              *)

\* appendFileSync after what the file ends in; garbage if that is a piece of a line.
Appended(e) ==
  IF tail = "whole" THEN Append(lines, e) ELSE Append(Front(lines), Garbage)

\* recordAdminAction: the entry is appended to the file, then to the page's list,
\* and only then does the hash move on.
Recorded ==
  LET e == Entry(last, next, key)
  IN  /\ lines' = Appended(e) /\ tail' = "whole" /\ written' = Append(written, e)
      /\ entries' = Append(entries, e) /\ last' = e.hash

\* The append throws before it writes anything: nothing has happened.
NotRecorded == UNCHANGED <<file, memory>>

\* A handler that does nothing else to this state records what it did.
Record ==
  /\ up /\ next <= MaxEntries /\ next' = next + 1
  /\ Recorded \/ NotRecorded
  /\ UNCHANGED <<up, key, keys, checked, stops, harm, excused>>

\* The append throws after a part of the line, or ends with the process; the
\* part may be the whole entry without its line break.
BrokenOff(part, crash) ==
  LET e == Entry(last, next, key)
  IN  /\ up /\ next <= MaxEntries /\ harm < MaxHarm /\ tail = "whole"
      /\ lines' = Append(lines, IF part = "entry" THEN e ELSE Garbage)
      /\ tail' = part /\ next' = next + 1 /\ harm' = harm + 1 /\ excused' = TRUE
      /\ written' = IF part = "entry" THEN Append(written, e) ELSE written
      /\ IF crash THEN /\ stops < MaxStops /\ stops' = stops + 1 /\ up' = FALSE
                       /\ entries' = <<>> /\ last' = Genesis
         ELSE UNCHANGED <<up, stops, memory>>
      /\ UNCHANGED <<key, keys, checked>>

-----------------------------------------------------------------------------
(* Starting.                                                               *)

\* readAuditHmacKeyState: environment, file, a file written now, or a key derived
\* from the password.
StartKey ==
  IF env \notin {NoKey, Blank} THEN env
  ELSE IF keyFile # NoKey THEN keyFile ELSE IF writable THEN "generated" ELSE password

\* Mutant of Verifies: each line is checked against the hash it names itself.
VerifiesAlone(k) ==
  \A i \in 1..Len(lines) : /\ lines[i].key \in {k, Sha}
                           /\ lines[i].hash = Hash(lines[i].prev, lines[i].id, lines[i].key)

\* verifyAdminAuditChain: an HMAC line with another key does not match.
Verifies(k) ==
  \A i \in 1..Len(lines) :
    /\ lines[i].prev = HashAfter(SubSeq(lines, 1, i - 1))
    /\ lines[i].key \in {k, Sha}
    /\ lines[i].hash = Hash(lines[i].prev, lines[i].id, lines[i].key)

\* loadAdminAuditState
Loaded == entries' = lines /\ last' = HashAfter(lines)

\* The process starts unless a line cannot be parsed; a chain that does not
\* verify is a warning.
Start ==
  /\ ~up /\ \A i \in 1..Len(lines) : lines[i] # Garbage
  /\ up' = TRUE /\ Loaded
  /\ key' = StartKey
  /\ keyFile' = IF env \in {NoKey, Blank} /\ keyFile = NoKey /\ writable
                THEN "generated" ELSE keyFile
  /\ checked' = IF Verifies(key') THEN "ok" ELSE "failed"
  /\ written' = IF checked' = "ok" THEN lines ELSE written
  /\ UNCHANGED <<lines, tail, env, password, writable, next, stops, harm, excused>>

Stop ==
  /\ up /\ stops < MaxStops /\ stops' = stops + 1 /\ up' = FALSE
  /\ entries' = <<>> /\ last' = Genesis
  /\ UNCHANGED <<file, key, keys, checked, next, harm, excused>>

-----------------------------------------------------------------------------
(* The administrator, the operator and the disk.                           *)

\* persistAdminConfigToEnvFile: the file with the new password gets the key in
\* use as well, unless it names one.
KeyKept == IF env = NoKey THEN key ELSE env

\* handleAdminAccountReset
Reset(p) ==
  /\ up /\ next <= MaxEntries /\ next' = next + 1
  /\ p # password /\ password' = p /\ env' = KeyKept
  /\ Recorded \/ NotRecorded
  /\ UNCHANGED <<up, key, keyFile, writable, checked, stops, harm, excused>>

\* The file is rewritten in place.  The write fails, and the server runs on, or the
\* process ends: what follows in the file is missing, the key or its end perhaps.
\* The key is lost if the file had it, if it became another one, or if it was derived
\* from the password.
ResetCut(crash) ==
  /\ up /\ harm < MaxHarm /\ harm' = harm + 1
  /\ password' \in Password /\ env' \in {KeyKept, NoKey, Blank, Short}
  /\ excused' = \/ excused
                 \/ env' = Short
                 \/ (env \notin {NoKey, Blank} /\ env' # env)
                 \/ (env' \in {NoKey, Blank} /\ key \in Password)
  /\ IF crash THEN /\ stops < MaxStops /\ stops' = stops + 1 /\ up' = FALSE
                   /\ entries' = <<>> /\ last' = Genesis
     ELSE UNCHANGED <<up, stops, memory>>
  /\ UNCHANGED <<file, key, keyFile, writable, checked, next>>

\* The operator changes the password in the file instead; a key that was derived
\* from the old one is lost (README.md).
EditPassword(p) ==
  /\ ~up /\ p # password /\ password' = p
  /\ excused' = (excused \/ key \in Password)
  /\ UNCHANGED <<up, file, memory, key, env, keyFile, writable, checked, next, stops, harm>>

\* A line of the file is lost, or changed, while the server is down.
LoseLine(i) ==
  /\ ~up /\ harm < MaxHarm /\ harm' = harm + 1 /\ excused' = TRUE
  /\ lines' = RemoveAt(lines, i) /\ tail' = IF i = Len(lines) THEN "whole" ELSE tail
  /\ UNCHANGED <<up, memory, key, keys, checked, next, stops, written>>

ChangeLine(i) ==
  /\ ~up /\ harm < MaxHarm /\ harm' = harm + 1 /\ excused' = TRUE
  /\ lines' = [lines EXCEPT ![i].id = 0]
  /\ UNCHANGED <<up, tail, memory, key, keys, checked, next, stops, written>>

\* The operator cuts out a line that cannot be parsed, so that the server starts.
Repair(i) ==
  /\ ~up /\ lines[i] = Garbage /\ excused' = TRUE
  /\ lines' = RemoveAt(lines, i) /\ tail' = IF i = Len(lines) THEN "whole" ELSE tail
  /\ UNCHANGED <<up, memory, key, keys, checked, next, stops, harm, written>>

Init ==
  /\ up = FALSE /\ tail = "whole" /\ entries = <<>> /\ last = Genesis
  /\ lines \in {<<>>, <<Entry(Genesis, 1, Sha)>>} /\ written = lines
  /\ key = NoKey /\ env \in {NoKey, "configured"} /\ keyFile = NoKey /\ password \in Password
  /\ writable \in BOOLEAN /\ checked = "no" /\ next = 2 /\ stops = 0 /\ harm = 0 /\ excused = FALSE

Next ==
  \/ Record \/ Start \/ Stop
  \/ \E part \in {"entry", "piece"}, crash \in BOOLEAN : BrokenOff(part, crash)
  \/ \E p \in Password : Reset(p) \/ EditPassword(p)
  \/ \E crash \in BOOLEAN : ResetCut(crash)
  \/ \E i \in 1..Len(lines) : LoseLine(i) \/ ChangeLine(i) \/ Repair(i)

Spec == Init /\ [][Next]_vars

-----------------------------------------------------------------------------
Keys == {NoKey, Blank, Short, "configured", "generated"} \cup Password

\* The state has its shape; an entry is never hashed without a key.
TypeOK ==
  /\ up \in BOOLEAN /\ tail \in {"whole", "entry", "piece"} /\ checked \in {"no", "ok", "failed"}
  /\ {key, env, keyFile} \subseteq Keys /\ Blank \notin {key, keyFile}
  /\ password \in Password /\ writable \in BOOLEAN
  /\ \A i \in 1..Len(entries) : entries[i].key \in (Keys \ {NoKey}) \cup {Sha}
  /\ next \in 2..MaxEntries + 1 /\ stops \in 0..MaxStops /\ harm \in 0..MaxHarm

\* recordAdminAction, verifyAdminAuditChain, persistAdminConfigToEnvFile: the
\* warning at the start has a reason: a line that was harmed or broken off, or a key
\* that was lost, with a password the operator changed in the file or with a rewrite of
\* the environment file that was cut.  Failed appends, restarts and resets that end
\* are none, nor is a reset that is cut while the key has a file of its own.
NoFalseAlarm == checked = "failed" => excused

\* recordAdminAction: the page shows what the file holds, and the next entry is
\* chained to the last of them, unless an append was broken off.
PageShowsFile ==
  up /\ tail = "whole" /\ Garbage \notin ToSet(lines) => entries = lines /\ last = HashAfter(lines)

\* verifyAdminAuditChain: a start that finds the chain in order has before it
\* the lines the program wrote, without a gap, at most with the end missing.
HarmIsSeen == [][~up /\ up' /\ checked' = "ok" => IsPrefix(lines, written)]_vars

-----------------------------------------------------------------------------
(* What makes the above inductive.                                         *)

Intact(e) == e.hash = Hash(e.prev, e.id, e.key)

\* The number an entry was recorded under, also when its line was changed.
Number(e) == e.hash[2]

IsSeq(s) == s \in Seq(ToSet(s))

IsEntry(e) ==
  /\ e = Entry(e.prev, e.id, e.key)
  /\ e.id \in 1..next - 1 /\ e.key \in (Keys \ {NoKey}) \cup {Sha}

Changed(e) == [id |-> 0, key |-> e.key, prev |-> e.prev, hash |-> e.hash]

\* The file has, in order, some of what was written, whole, changed or as garbage.
FileTypes ==
  /\ IsSeq(written) /\ IsSeq(lines) /\ IsSeq(entries)
  /\ \A j \in DOMAIN written : IsEntry(written[j])
  /\ \A j, k \in DOMAIN written : j < k => written[j].id < written[k].id
  /\ \A i \in DOMAIN lines :
       lines[i] = Garbage \/ \E j \in DOMAIN written : lines[i] \in {written[j], Changed(written[j])}
  /\ \A i, k \in DOMAIN lines :
       i < k /\ Garbage \notin {lines[i], lines[k]} => Number(lines[i]) < Number(lines[k])
  /\ tail # "whole" => lines # <<>>

\* Lines that verify with a key, each with the one it is chained to.
Rooted(S, k) ==
  \A i \in S :
    /\ Intact(lines[i]) /\ lines[i].key \in {k, Sha}
    /\ lines[i].prev = Genesis \/ \E j \in S : j < i /\ lines[i].prev = lines[j].hash

\* The line is one that was written, and is chained to the one written before it.
Follows(e) ==
  \E j \in DOMAIN written : /\ e = written[j]
                            /\ e.prev = IF j = 1 THEN Genesis ELSE written[j - 1].hash

ChainsAreWritten ==
  \A k \in Keys, S \in SUBSET DOMAIN lines : Rooted(S, k) => \A i \in S : Follows(lines[i])

\* A chain in the file that the next entry continues ends with what was written last.
NextContinues ==
  up /\ tail = "whole" =>
    /\ last = Genesis => written = <<>>
    /\ \A S \in SUBSET DOMAIN lines : Rooted(S, key) =>
         \A i \in S : lines[i].hash = last => lines[i] = written[Len(written)]

\* Without an excuse the whole file verifies with the key of the next start.
FileVerifies ==
  /\ up => key # NoKey
  /\ ~excused =>
       /\ tail = "whole"
       /\ \A i \in DOMAIN lines :
            /\ Intact(lines[i]) /\ lines[i].key \in {key, Sha}
            /\ lines[i].prev = IF i = 1 THEN Genesis ELSE lines[i - 1].hash
       /\ key # NoKey => StartKey = key
       /\ env = Blank => key \notin Password \cup {NoKey}

IInv ==
  /\ TypeOK /\ NoFalseAlarm /\ PageShowsFile
  /\ FileTypes /\ ChainsAreWritten /\ NextContinues /\ FileVerifies
=============================================================================
