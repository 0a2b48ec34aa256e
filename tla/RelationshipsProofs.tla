------------------------- MODULE RelationshipsProofs -------------------------
(***************************************************************************)
(* Nobody goes on seeing whom a block or a setting hides, and nobody waits *)
(* for an announcement: for all users and any number of their streams.     *)
(***************************************************************************)
EXTENDS Relationships, TLAPS

-----------------------------------------------------------------------------
(* Sharing: what one step of presence does to each stream.                 *)

Entries == [state : {"none", "unset", "normal", "muted", "blocked"}, muted : BOOLEAN,
            removed : BOOLEAN]

\* What a stream knows is what its user may see.
Informed == Withheld /\ Announced

LEMMA Streams ==
  ASSUME TypeOK, NEW c \in open
  PROVE  c[1] \in User /\ c[2] \in Slot /\ c = <<c[1], c[2]>> /\ told[c] \subseteq User
BY DEF TypeOK

\* A push about t to the streams that are left: what they know of t is made
\* true, and all that may have changed of the others is what a block of t's says.
LEMMA PushKeepsInformed ==
  ASSUME TypeOK, Informed, NEW t \in User, NEW fresh,
         open' \subseteq open, PushPresence(t, open', fresh),
         \A w \in User \ {t} : (Online(w, open') <=> Online(w, open)) /\ (w \in shows' <=> w \in shows),
         \A w \in User \ {t}, v \in User : <<w, v>> \in blocks' <=> <<w, v>> \in blocks,
         \A c \in open', w \in User \ {t} :
            <<c[1], w>> \in blocks' \/ <<c[1], w>> \notin blocks \/ <<c, w>> \in fresh
  PROVE  Informed'
<1>1. ASSUME NEW c \in open'
      PROVE  /\ c \in open /\ c[1] \in User
             /\ told'[c] = IF Visible(c[1], t, open', shows', blocks') THEN told[c] \cup {t} ELSE told[c] \ {t}
  BY Streams DEF PushPresence
<1>2. Withheld'
  <2> SUFFICES ASSUME NEW c \in open', NEW w \in told'[c]
               PROVE  Online(w, open') /\ (w = c[1] \/ (w \in shows' /\ <<w, c[1]>> \notin blocks'))
    BY DEF Withheld
  <2>1. CASE w = t
    BY <1>1, <2>1 DEF Visible
  <2>2. CASE w # t
    <3>1. w \in told[c] /\ w \in User /\ c[1] \in User
      <4>1. w \in told[c]
        <5>1. told'[c] = told[c] \cup {t} \/ told'[c] = told[c] \ {t}
          BY <1>1
        <5> QED
          BY <2>2, <5>1
      <4>2. c \in open /\ c[1] \in User
        BY <1>1
      <4>3. told[c] \subseteq User
        BY <4>2, Streams
      <4> QED
        BY <4>1, <4>2, <4>3
    <3>2. Online(w, open) /\ (w = c[1] \/ (w \in shows /\ <<w, c[1]>> \notin blocks))
      BY <1>1, <3>1 DEF Informed, Withheld
    <3> QED
      BY <2>2, <3>1, <3>2
  <2> QED
    BY <2>1, <2>2
<1>3. Announced'
  <2> SUFFICES ASSUME NEW c \in open', NEW w \in User, Visible(c[1], w, open', shows', blocks')
               PROVE  w \in told'[c] \/ <<c, w>> \in doubt'
    BY DEF Announced
  <2>1. CASE w = t
    BY <1>1, <2>1
  <2>2. CASE w # t
    <3>1. CASE <<c, w>> \in fresh
      BY <3>1 DEF PushPresence
    <3>2. CASE <<c, w>> \notin fresh
      <4>1. Visible(c[1], w, open, shows, blocks)
        <5>2. Online(w, open) /\ (w \in shows' <=> w \in shows)
          BY <2>2 DEF Visible
        <5>3. c[1] = w \/ (<<c[1], w>> \notin blocks /\ <<w, c[1]>> \notin blocks /\ w \in shows)
          BY <1>1, <2>2, <3>2, <5>2 DEF Visible
        <5> QED
          BY <5>2, <5>3 DEF Visible
      <4>2. w \in told[c] \/ <<c, w>> \in doubt
        BY <1>1, <4>1 DEF Informed, Announced
      <4> QED
        BY <1>1, <2>2, <4>2 DEF PushPresence
    <3> QED
      BY <3>1, <3>2
  <2> QED
    BY <2>1, <2>2
<1> QED
  BY <1>2, <1>3 DEF Informed

LEMMA PushTypes ==
  ASSUME TypeOK, NEW t \in User, NEW fresh \in SUBSET (open \X User), fresh \subseteq open' \X User,
         open' \subseteq open, PushPresence(t, open', fresh)
  PROVE  told' \in [open' -> SUBSET User] /\ doubt' \subseteq open' \X User
<1>1. \A c \in open' : told[c] \subseteq User
  BY Streams
<1>2. told' \in [open' -> SUBSET User]
  BY <1>1 DEF PushPresence
<1>3. doubt' \subseteq open' \X User
  BY DEF PushPresence, TypeOK
<1> QED
  BY <1>2, <1>3

-----------------------------------------------------------------------------
(* One step.                                                               *)

LEMMA OpenKeeps ==
  ASSUME IInv, NEW v \in User, NEW s \in Slot, Open(v, s)
  PROVE  IInv'
<1> DEFINE ready == {t \in User : Visible(v, t, open', shows, blocks)}
<1>1. /\ TypeOK /\ open' = open \cup {<<v, s>>} /\ <<v, s>> \notin open
      /\ UNCHANGED <<shows, blocks, entry, asked, sent>>
  BY DEF IInv, Open, Opened
<1>2. \A t \in User : Online(t, open') <=> Online(t, open) \/ t = v
  BY <1>1 DEF Online
<1>3. ASSUME NEW c \in open'
      PROVE  IF c = <<v, s>> THEN told'[c] = ready
             ELSE /\ c \in open /\ c[1] \in User /\ told[c] \subseteq User
                  /\ told'[c] = IF ~Online(v, open) /\ Visible(c[1], v, open', shows, blocks)
                                THEN told[c] \cup {v} ELSE told[c]
  <2>1. told'[c] = IF c = <<v, s>> THEN ready
                   ELSE IF ~Online(v, open) /\ Visible(c[1], v, open', shows, blocks)
                        THEN told[c] \cup {v} ELSE told[c]
    BY DEF Open
  <2>2. CASE c = <<v, s>>
    BY <2>1, <2>2
  <2>3. CASE c # <<v, s>>
    <3>1. c \in open
      BY <1>1, <2>3
    <3> QED
      BY <1>1, <2>1, <2>3, <3>1, Streams
  <2> QED
    BY <2>2, <2>3
<1>4. Withheld'
  <2> SUFFICES ASSUME NEW c \in open', NEW t \in told'[c]
               PROVE  Online(t, open') /\ (t = c[1] \/ (t \in shows /\ <<t, c[1]>> \notin blocks))
    BY <1>1 DEF Withheld
  <2>1. CASE c = <<v, s>>
    <3>1. Visible(v, t, open', shows, blocks) /\ c[1] = v
      BY <1>3, <2>1
    <3> QED
      BY <3>1 DEF Visible
  <2>2. CASE c # <<v, s>> /\ t \in told[c]
    <3>1. c \in open /\ t \in User
      BY <1>3, <2>2
    <3>2. Online(t, open) /\ (t = c[1] \/ (t \in shows /\ <<t, c[1]>> \notin blocks))
      BY <2>2, <3>1 DEF IInv, BlocksAreRespected, Withheld
    <3> QED
      BY <1>2, <3>1, <3>2
  <2>3. CASE c # <<v, s>> /\ t \notin told[c]
    <3>1. t = v /\ Visible(c[1], v, open', shows, blocks)
      BY <1>3, <2>3
    <3> QED
      BY <3>1 DEF Visible
  <2> QED
    BY <2>1, <2>2, <2>3
<1>5. Announced'
  <2> SUFFICES ASSUME NEW c \in open', NEW t \in User, Visible(c[1], t, open', shows, blocks)
               PROVE  t \in told'[c] \/ <<c, t>> \in doubt'
    BY <1>1 DEF Announced
  <2>1. CASE c = <<v, s>>
    <3>1. c[1] = v
      BY <2>1
    <3> QED
      BY <1>3, <2>1, <3>1
  <2>2. CASE c # <<v, s>> /\ t = v /\ ~Online(v, open)
    BY <1>3, <2>2
  <2>3. CASE c # <<v, s>> /\ ~(t = v /\ ~Online(v, open))
    <3>1. Visible(c[1], t, open, shows, blocks)
      BY <1>2, <2>3 DEF Visible
    <3>2. c \in open /\ told[c] \subseteq told'[c]
      BY <1>3, <2>3
    <3>3. t \in told[c] \/ <<c, t>> \in doubt
      BY <3>1, <3>2 DEF IInv, BlocksAreRespected, Announced
    <3>4. <<c, t>> \in doubt => <<c, t>> \in doubt'
      BY <2>3 DEF Open
    <3> QED
      BY <3>2, <3>3, <3>4
  <2> QED
    BY <2>1, <2>2, <2>3
<1>6. WaitsForAReason' /\ WithheldStays'
  <2>0. WithheldStays'
    <3>1. held \subseteq waiting
      BY DEF IInv, BlocksAreRespected, WithheldStays
    <3> QED
      BY <3>1 DEF WithheldStays, Open, Opened, Marked
  <2> SUFFICES ASSUME NEW p \in waiting', Online(p[2], open')
               PROVE  p \in held'
    BY <2>0 DEF WaitsForAReason
  <2>1. p \in waiting \ Marked(v) /\ p[2] \in User
    BY <1>1 DEF Open, Opened, TypeOK, Pair
  <2>2. CASE p[2] = v
    BY <2>1, <2>2 DEF Open, Opened, Marked
  <2>3. CASE p[2] # v
    <3>1. Online(p[2], open)
      BY <1>2, <2>1, <2>3
    <3>2. p \in held
      BY <2>1, <3>1 DEF IInv, BlocksAreRespected, WaitsForAReason
    <3>3. {q \in held : q[2] # v} \subseteq held'
      BY DEF Open, Opened
    <3> QED
      BY <2>3, <3>2, <3>3
  <2> QED
    BY <2>2, <2>3
<1>7. TypeOK'
  <2>1. ASSUME NEW c \in open'
        PROVE  told'[c] \subseteq User
    <3>1. CASE c = <<v, s>>
      <4>1. told'[c] = ready
        BY <1>3, <3>1
      <4>2. ready \subseteq User
        OBVIOUS
      <4> QED
        BY <4>1, <4>2
    <3>2. CASE c # <<v, s>>
      <4>1. told[c] \subseteq User /\ told'[c] \subseteq told[c] \cup {v}
        <5>1. /\ told[c] \subseteq User
              /\ told'[c] = IF ~Online(v, open) /\ Visible(c[1], v, open', shows, blocks)
                            THEN told[c] \cup {v} ELSE told[c]
          BY <1>3, <3>2
        <5>2. told'[c] = told[c] \cup {v} \/ told'[c] = told[c]
          BY <5>1
        <5> QED
          BY <5>1, <5>2
      <4> QED
        BY <4>1
    <3> QED
      BY <3>1, <3>2
  <2>2. told' \in [open' -> SUBSET User]
    BY <2>1 DEF Open
  <2>3. doubt' \subseteq open' \X User
    BY <1>1 DEF Open, TypeOK
  <2>4. open' \subseteq User \X Slot /\ waiting' \subseteq Pair /\ held' \subseteq Pair
    BY <1>1 DEF TypeOK, Open, Opened
  <2> QED
    BY <1>1, <2>2, <2>3, <2>4 DEF TypeOK
<1>8. EntriesAgree' /\ AskedIsKept'
  BY <1>1 DEF IInv, BlocksAreRespected, EntriesAgree, AskedIsKept, StateFor
<1> QED
  BY <1>4, <1>5, <1>6, <1>7, <1>8 DEF IInv, BlocksAreRespected

LEMMA CloseKeeps ==
  ASSUME IInv, NEW v \in User, NEW gone, Close(v, gone)
  PROVE  IInv'
<1>1. /\ TypeOK /\ Informed /\ open' = open \ gone /\ gone \subseteq {c \in open : c[1] = v}
      /\ UNCHANGED <<shows, blocks, entry, asked, sent, waiting, held>>
  BY DEF IInv, Close, Informed, BlocksAreRespected
<1>2. open' \subseteq open /\ \A t \in User \ {v} : Online(t, open') <=> Online(t, open)
  BY <1>1 DEF Online
<1>3. Informed' /\ told' \in [open' -> SUBSET User] /\ doubt' \subseteq open' \X User
  <2>1. CASE Online(v, open')
    <3>1. told' = [c \in open' |-> told[c]] /\ doubt' = {d \in doubt : d[1] \in open'}
      BY <2>1 DEF Close
    <3>2. told' \in [open' -> SUBSET User] /\ doubt' \subseteq open' \X User
      BY <1>1, <1>2, <3>1, Streams DEF TypeOK
    <3>3. \A t \in User : Online(t, open') => Online(t, open)
      BY <1>1 DEF Online
    <3>4. \A t \in User : Online(t, open) => Online(t, open')
      BY <1>2, <2>1
    <3>5. ASSUME NEW c \in open'
          PROVE  c \in open /\ told'[c] = told[c] /\ told[c] \subseteq User /\ c[1] \in User
      BY <1>1, <1>2, <3>1, Streams
    <3>6. Withheld'
      <4> SUFFICES ASSUME NEW c \in open', NEW t \in told'[c]
                   PROVE  Online(t, open') /\ (t = c[1] \/ (t \in shows /\ <<t, c[1]>> \notin blocks))
        BY <1>1 DEF Withheld
      <4>1. t \in told[c] /\ t \in User /\ c \in open
        BY <3>5
      <4> QED
        BY <1>1, <3>4, <4>1 DEF Informed, Withheld
    <3>7. Announced'
      <4> SUFFICES ASSUME NEW c \in open', NEW t \in User, Visible(c[1], t, open', shows, blocks)
                   PROVE  t \in told'[c] \/ <<c, t>> \in doubt'
        BY <1>1 DEF Announced
      <4>1. Visible(c[1], t, open, shows, blocks)
        BY <3>3 DEF Visible
      <4>2. t \in told[c] \/ <<c, t>> \in doubt
        BY <1>1, <3>5, <4>1 DEF Informed, Announced
      <4> QED
        BY <3>1, <3>5, <4>2
    <3> QED
      BY <3>2, <3>6, <3>7 DEF Informed
  <2>2. CASE ~Online(v, open')
    <3>1. PushPresence(v, open', {})
      BY <2>2 DEF Close
    <3>2. Informed'
      BY <1>1, <1>2, <3>1, PushKeepsInformed
    <3> QED
      BY <1>1, <1>2, <3>1, <3>2, PushTypes
  <2> QED
    BY <2>1, <2>2
<1>4. WaitsForAReason' /\ WithheldStays'
  <2>1. \A t : Online(t, open') => Online(t, open)
    BY <1>1 DEF Online
  <2> QED
    BY <1>1, <2>1 DEF IInv, BlocksAreRespected, WaitsForAReason, WithheldStays
<1>5. TypeOK'
  BY <1>1, <1>3 DEF TypeOK
<1> QED
  BY <1>1, <1>3, <1>4, <1>5 DEF IInv, BlocksAreRespected, Informed, EntriesAgree, AskedIsKept, StateFor

LEMMA ShowsKeeps ==
  ASSUME IInv, NEW v \in User, SetShows(v)
  PROVE  IInv'
<1>1. /\ TypeOK /\ Informed /\ open' = open /\ UNCHANGED <<blocks, entry, asked, sent, waiting, held>>
      /\ PushPresence(v, open', {})
  BY DEF IInv, SetShows, Informed, BlocksAreRespected
<1>2. shows' \subseteq User /\ \A w \in User \ {v} : w \in shows' <=> w \in shows
  BY <1>1 DEF SetShows, TypeOK
<1>3. Informed'
  BY <1>1, <1>2, PushKeepsInformed
<1>4. told' \in [open' -> SUBSET User] /\ doubt' \subseteq open' \X User
  BY <1>1, PushTypes
<1>5. TypeOK'
  BY <1>1, <1>2, <1>4 DEF TypeOK
<1> QED
  BY <1>1, <1>3, <1>5 DEF IInv, BlocksAreRespected, Informed, EntriesAgree, AskedIsKept, StateFor,
                          WaitsForAReason, WithheldStays, Online

\* The entry and the block list are set to a state, and say it.
LEMMA SetStateAgrees ==
  ASSUME TypeOK, EntriesAgree, AskedIsKept, NEW p \in Pair,
         NEW state \in {"normal", "muted", "blocked"}, SetState(p, state),
         asked' = [asked EXCEPT ![p] = state]
  PROVE  /\ EntriesAgree' /\ AskedIsKept' /\ entry' \in [Pair -> Entries] /\ blocks' \subseteq Pair
         /\ asked' \in [Pair -> {"normal", "muted", "blocked"}]
<1>1. entry \in [Pair -> Entries] /\ blocks \subseteq Pair
  BY DEF TypeOK, Entries
<1> DEFINE e == [state |-> state, muted |-> state = "muted", removed |-> FALSE]
<1>2. e \in Entries /\ e.state = state /\ e.muted = (state = "muted")
  BY DEF Entries
<1>3. entry' = [entry EXCEPT ![p] = e]
  BY DEF SetState
<1> HIDE DEF e
<1>4. entry' \in [Pair -> Entries] /\ \A q \in Pair : entry'[q] = IF q = p THEN e ELSE entry[q]
  BY <1>1, <1>2, <1>3
<1>5. blocks' \subseteq Pair /\ \A q \in Pair : q \in blocks' <=> IF q = p THEN state = "blocked" ELSE q \in blocks
  BY <1>1 DEF SetState
<1>6. EntriesAgree'
  <2> SUFFICES ASSUME NEW q \in Pair
               PROVE  /\ entry'[q].state = "blocked" => q \in blocks'
                      /\ entry'[q].state = "muted" => entry'[q].muted
                      /\ entry'[q].muted => q \notin blocks'
    BY DEF EntriesAgree
  <2>1. CASE q = p
    BY <1>2, <1>4, <1>5, <2>1
  <2>2. CASE q # p
    BY <1>4, <1>5, <2>2 DEF EntriesAgree
  <2> QED
    BY <2>1, <2>2
<1>7. /\ asked' \in [Pair -> {"normal", "muted", "blocked"}]
      /\ \A q \in Pair : asked'[q] = IF q = p THEN state ELSE asked[q]
  BY DEF TypeOK
<1>8. AskedIsKept'
  <2> SUFFICES ASSUME NEW q \in Pair
               PROVE  StateFor(q)' = asked'[q]
    BY DEF AskedIsKept
  <2>1. CASE q = p
    BY <1>2, <1>4, <1>5, <1>7, <2>1 DEF StateFor
  <2>2. CASE q # p
    <3>1. StateFor(q)' = StateFor(q)
      BY <1>4, <1>5, <2>2 DEF StateFor
    <3> QED
      BY <1>7, <2>2, <3>1 DEF AskedIsKept
  <2> QED
    BY <2>1, <2>2
<1> QED
  BY <1>4, <1>5, <1>6, <1>7, <1>8

LEMMA PatchKeeps ==
  ASSUME IInv, NEW p \in Pair, NEW mute \in {"kept", "muted", "normal"}, Patch(p, mute)
  PROVE  IInv'
<1> DEFINE state == IF mute = "kept" THEN StateFor(p) ELSE mute
<1>1. /\ TypeOK /\ EntriesAgree /\ AskedIsKept /\ SetState(p, state)
      /\ UNCHANGED <<open, told, shows, doubt, sent, waiting, held>>
  BY DEF IInv, Patch, BlocksAreRespected
<1>2. state \in {"normal", "muted", "blocked"}
  BY DEF StateFor
<1>3. state = "blocked" <=> p \in blocks
  BY DEF Patch, StateFor
<1>4. asked' = [asked EXCEPT ![p] = state]
  <2>1. CASE mute = "kept"
    <3>1. asked' = asked /\ state = asked[p]
      BY <1>1, <2>1 DEF Patch, AskedIsKept
    <3> QED
      BY <1>1, <3>1 DEF TypeOK
  <2>2. CASE mute # "kept"
    BY <2>2 DEF Patch
  <2> QED
    BY <2>1, <2>2
<1> HIDE DEF state
<1>5. /\ EntriesAgree' /\ AskedIsKept' /\ entry' \in [Pair -> Entries]
      /\ asked' \in [Pair -> {"normal", "muted", "blocked"}]
  BY <1>1, <1>2, <1>4, SetStateAgrees
<1>6. blocks' = blocks
  BY <1>1, <1>3 DEF SetState
<1> QED
  BY <1>1, <1>5, <1>6 DEF IInv, BlocksAreRespected, TypeOK, Entries, Withheld, Announced, Visible,
                          WaitsForAReason, WithheldStays, Online

LEMMA BlockKeeps ==
  ASSUME IInv, NEW p \in Pair, NEW on \in BOOLEAN, SetBlock(p, on)
  PROVE  IInv'
<1> DEFINE state == IF on THEN "blocked" ELSE "normal"
           fresh == IF ~on /\ p \in blocks THEN {c \in open : c[1] = p[1]} \X {p[2]} ELSE {}
<1>1. /\ TypeOK /\ Informed /\ EntriesAgree /\ AskedIsKept /\ SetState(p, state)
      /\ UNCHANGED <<open, shows, sent, waiting, held>> /\ open' = open
      /\ PushPresence(p[1], open', fresh) /\ asked' = [asked EXCEPT ![p] = state]
  BY DEF IInv, SetBlock, BlocksAreRespected, Informed
<1>2. p[1] \in User /\ p[2] \in User /\ p = <<p[1], p[2]>> /\ p[1] # p[2]
  BY DEF Pair
<1>3. blocks' = IF on THEN blocks \cup {p} ELSE blocks \ {p}
  BY <1>1 DEF SetState
<1>4. /\ EntriesAgree' /\ AskedIsKept' /\ entry' \in [Pair -> Entries] /\ blocks' \subseteq Pair
      /\ asked' \in [Pair -> {"normal", "muted", "blocked"}]
  <2>1. state \in {"normal", "muted", "blocked"}
    OBVIOUS
  <2> HIDE DEF state
  <2> QED
    BY <1>1, <2>1, SetStateAgrees
<1>5. fresh \in SUBSET (open \X User)
  BY <1>2
<1>6. \A w \in User \ {p[1]}, v \in User : <<w, v>> \in blocks' <=> <<w, v>> \in blocks
  BY <1>2, <1>3
<1>7. \A c \in open', w \in User \ {p[1]} :
        <<c[1], w>> \in blocks' \/ <<c[1], w>> \notin blocks \/ <<c, w>> \in fresh
  BY <1>1, <1>2, <1>3
<1> HIDE DEF fresh
<1>8. Informed'
  BY <1>1, <1>2, <1>6, <1>7, PushKeepsInformed
<1>9. told' \in [open' -> SUBSET User] /\ doubt' \subseteq open' \X User
  BY <1>1, <1>2, <1>5, PushTypes
<1>10. TypeOK'
  BY <1>1, <1>3, <1>4, <1>9 DEF TypeOK, Entries
<1> QED
  BY <1>1, <1>4, <1>8, <1>10 DEF IInv, BlocksAreRespected, Informed, WaitsForAReason,
                                 WithheldStays, Online

\* A step that leaves streams and blocks alone.
Quiet == UNCHANGED <<open, told, shows, blocks, doubt, asked, held>>

LEMMA EntryKeeps ==
  ASSUME IInv, Quiet, entry' \in [Pair -> Entries], sent' \subseteq Pair, waiting' \subseteq Pair,
         \A q \in Pair : /\ \/ entry'[q].state = entry[q].state
                            \/ entry[q].state \in {"none", "unset"} /\ entry'[q].state = "normal"
                         /\ entry'[q].muted = entry[q].muted,
         waiting \subseteq waiting', \A q \in waiting' \ waiting : ~Online(q[2], open)
  PROVE  IInv'
<1>1. EntriesAgree'
  <2> SUFFICES ASSUME NEW q \in Pair
               PROVE  /\ entry'[q].state = "blocked" => q \in blocks
                      /\ entry'[q].state = "muted" => entry'[q].muted
                      /\ entry'[q].muted => q \notin blocks
    BY DEF EntriesAgree, Quiet
  <2>1. /\ entry[q].state = "blocked" => q \in blocks
        /\ entry[q].state = "muted" => entry[q].muted
        /\ entry[q].muted => q \notin blocks
    BY DEF IInv, BlocksAreRespected, EntriesAgree
  <2>2. /\ entry'[q].state = entry[q].state \/ entry'[q].state = "normal"
        /\ entry'[q].muted = entry[q].muted
    OBVIOUS
  <2> QED
    BY <2>1, <2>2
<1>2. TypeOK'
  BY DEF IInv, TypeOK, Entries, Quiet
<1>3. WaitsForAReason' /\ WithheldStays'
  BY DEF IInv, BlocksAreRespected, WaitsForAReason, WithheldStays, Quiet, Online
<1>4. Withheld' /\ Announced'
  BY DEF IInv, BlocksAreRespected, Withheld, Announced, Visible, Online, Quiet
<1>5. AskedIsKept'
  <2> SUFFICES ASSUME NEW q \in Pair
               PROVE  StateFor(q)' = asked[q]
    BY DEF AskedIsKept, Quiet
  <2>1. (entry'[q].state = "muted") = (entry[q].state = "muted") /\ entry'[q].muted = entry[q].muted
    OBVIOUS
  <2>2. StateFor(q)' = StateFor(q)
    BY <2>1 DEF StateFor, Quiet
  <2> QED
    BY <2>2 DEF IInv, BlocksAreRespected, AskedIsKept
<1> QED
  BY <1>1, <1>2, <1>3, <1>4, <1>5 DEF IInv, BlocksAreRespected

LEMMA CreateKeeps ==
  ASSUME IInv, NEW p \in Pair, Create(p)
  PROVE  IInv'
<1> DEFINE known == IF entry[p].state \in {"none", "unset"} THEN "normal" ELSE entry[p].state
           e == [entry[p] EXCEPT !.state = known, !.removed = FALSE]
<1>1. /\ entry \in [Pair -> Entries] /\ sent \subseteq Pair /\ waiting \subseteq Pair /\ Quiet
      /\ sent' = sent /\ waiting' = waiting /\ entry' = [entry EXCEPT ![p] = e]
  BY DEF IInv, TypeOK, Entries, Create, Quiet
<1>2. /\ e \in Entries /\ e.muted = entry[p].muted
      /\ e.state = entry[p].state \/ (entry[p].state \in {"none", "unset"} /\ e.state = "normal")
  BY <1>1 DEF Entries
<1> HIDE DEF e
<1>3. entry' \in [Pair -> Entries] /\ \A q \in Pair : entry'[q] = IF q = p THEN e ELSE entry[q]
  BY <1>1, <1>2
<1> QED
  BY <1>1, <1>2, <1>3, EntryKeeps

LEMMA DeleteKeeps ==
  ASSUME IInv, NEW p \in Pair, Delete(p)
  PROVE  IInv'
<1> DEFINE e == [entry[p] EXCEPT !.removed = TRUE]
<1>1. /\ entry \in [Pair -> Entries] /\ sent \subseteq Pair /\ waiting \subseteq Pair /\ Quiet
      /\ sent' = sent /\ waiting' = waiting /\ entry' = [entry EXCEPT ![p] = e]
  BY DEF IInv, TypeOK, Entries, Delete, Quiet
<1>2. e \in Entries /\ e.muted = entry[p].muted /\ e.state = entry[p].state
  BY <1>1 DEF Entries
<1> HIDE DEF e
<1>3. entry' \in [Pair -> Entries] /\ \A q \in Pair : entry'[q] = IF q = p THEN e ELSE entry[q]
  BY <1>1, <1>2
<1> QED
  BY <1>1, <1>2, <1>3, EntryKeeps

LEMMA SendKeeps ==
  ASSUME IInv, NEW p \in Pair, Send(p)
  PROVE  IInv'
<1> DEFINE e == [NoEntry EXCEPT !.state = "normal"]
<1>1. /\ entry \in [Pair -> Entries] /\ waiting \subseteq Pair /\ Quiet
      /\ sent \subseteq Pair /\ sent' = sent \cup {p}
      /\ entry' = [q \in Pair |-> IF q \in {p, <<p[2], p[1]>>} /\ entry[q] = NoEntry THEN e ELSE entry[q]]
      /\ waiting' = IF Online(p[2], open) THEN waiting ELSE waiting \cup {p}
  BY DEF IInv, TypeOK, Entries, Send, Quiet
<1>2. e \in Entries /\ e.muted = NoEntry.muted /\ e.state = "normal" /\ NoEntry.state = "none"
  BY DEF NoEntry, Entries
<1> HIDE DEF e
<1>3. \A q \in Pair : entry'[q] = entry[q] \/ (entry[q] = NoEntry /\ entry'[q] = e)
  BY <1>1
<1>4. entry' \in [Pair -> Entries]
  BY <1>1, <1>2
<1>5. sent' \subseteq Pair /\ waiting' \subseteq Pair /\ waiting \subseteq waiting'
      /\ \A q \in waiting' \ waiting : ~Online(q[2], open)
  BY <1>1
<1> QED
  BY <1>1, <1>2, <1>3, <1>4, <1>5, EntryKeeps

LEMMA SettleKeeps ==
  ASSUME IInv, NEW p \in Pair, NEW read \in BOOLEAN, Settle(p, read)
  PROVE  IInv'
<1>1. /\ waiting' = waiting \ {p} /\ held' = held \ {p}
      /\ UNCHANGED <<open, told, shows, blocks, entry, doubt, asked, sent>>
  BY DEF Settle
<1>2. TypeOK'
  BY <1>1 DEF IInv, TypeOK
<1>3. WaitsForAReason' /\ WithheldStays'
  BY <1>1 DEF IInv, BlocksAreRespected, WaitsForAReason, WithheldStays, Online
<1>4. Withheld' /\ Announced' /\ AskedIsKept' /\ EntriesAgree'
  BY <1>1 DEF IInv, BlocksAreRespected, Withheld, Announced, Visible, Online, AskedIsKept,
              StateFor, EntriesAgree
<1> QED
  BY <1>2, <1>3, <1>4 DEF IInv, BlocksAreRespected

\* What the load keeps of an entry says the same as the whole entry did.
LEMMA RestartKeeps ==
  ASSUME IInv, Restart
  PROVE  IInv'
<1>1. /\ TypeOK /\ entry \in [Pair -> Entries] /\ open' = {} /\ told' = [c \in {} |-> {}]
      /\ doubt' = {} /\ held' = {} /\ waiting' \subseteq sent
      /\ UNCHANGED <<shows, blocks, asked, sent>>
  BY DEF IInv, Restart, TypeOK, Entries
<1>2. ASSUME NEW q \in Pair
      PROVE  /\ entry'[q] \in Entries /\ entry'[q].muted = entry[q].muted
             /\ entry'[q].state = entry[q].state \/ entry'[q].state = "unset"
  <2>1. entry[q] \in Entries
    BY <1>1
  <2>2. entry'[q] = IF entry[q] = NoEntry THEN NoEntry ELSE [entry[q] EXCEPT !.state = "unset"]
    BY DEF Restart
  <2>3. CASE entry[q] = NoEntry
    BY <2>1, <2>2, <2>3
  <2>4. CASE entry[q] # NoEntry
    <3>1. entry'[q] = [entry[q] EXCEPT !.state = "unset"]
      BY <2>2, <2>4
    <3> QED
      BY <2>1, <3>1 DEF Entries
  <2> QED
    BY <2>3, <2>4
<1>3. entry' \in [Pair -> Entries]
  BY <1>2 DEF Restart
<1>4. EntriesAgree'
  <2> SUFFICES ASSUME NEW q \in Pair
               PROVE  /\ entry'[q].state = "blocked" => q \in blocks
                      /\ entry'[q].state = "muted" => entry'[q].muted
                      /\ entry'[q].muted => q \notin blocks
    BY <1>1 DEF EntriesAgree
  <2>1. /\ entry[q].state = "blocked" => q \in blocks
        /\ entry[q].state = "muted" => entry[q].muted
        /\ entry[q].muted => q \notin blocks
    BY DEF IInv, BlocksAreRespected, EntriesAgree
  <2> QED
    BY <1>2, <2>1
<1>5. AskedIsKept'
  <2> SUFFICES ASSUME NEW q \in Pair
               PROVE  StateFor(q)' = asked[q]
    BY <1>1 DEF AskedIsKept
  <2>1. StateFor(q) = asked[q]
    BY DEF IInv, BlocksAreRespected, AskedIsKept
  <2>2. StateFor(q)' = StateFor(q)
    <3>1. /\ entry'[q].muted = entry[q].muted
          /\ entry'[q].state = entry[q].state \/ entry'[q].state = "unset"
      BY <1>2
    <3>2. blocks' = blocks
      BY <1>1
    <3>3. entry[q].state = "muted" => entry[q].muted
      BY DEF IInv, BlocksAreRespected, EntriesAgree
    <3>4. entry'[q].state = "muted" \/ entry'[q].muted <=> entry[q].state = "muted" \/ entry[q].muted
      BY <3>1, <3>3
    <3> QED
      BY <3>2, <3>4 DEF StateFor
  <2> QED
    BY <2>1, <2>2
<1>6. TypeOK'
  BY <1>1, <1>3 DEF TypeOK, Entries
<1>7. Withheld' /\ Announced' /\ WaitsForAReason' /\ WithheldStays'
  BY <1>1 DEF Withheld, Announced, WaitsForAReason, WithheldStays, Online
<1> QED
  BY <1>4, <1>5, <1>6, <1>7 DEF IInv, BlocksAreRespected

-----------------------------------------------------------------------------
(* Every behaviour.                                                        *)

LEMMA InitInv ==
  Init => IInv
<1> SUFFICES ASSUME Init
             PROVE  IInv
  OBVIOUS
<1>1. NoEntry \in Entries /\ NoEntry.state = "none" /\ NoEntry.muted = FALSE
  BY DEF NoEntry, Entries
<1>2. TypeOK
  BY <1>1 DEF Init, TypeOK, Entries
<1>3. EntriesAgree /\ AskedIsKept
  <2>1. blocks = {} /\ \A p \in Pair : entry[p] = NoEntry /\ asked[p] = "normal"
    BY DEF Init
  <2>2. ASSUME NEW p \in Pair
        PROVE  /\ entry[p].state # "blocked" /\ entry[p].state # "muted" /\ ~entry[p].muted
               /\ StateFor(p) = asked[p]
    <3>1. p \notin blocks /\ entry[p].state = "none" /\ entry[p].muted = FALSE /\ asked[p] = "normal"
      BY <1>1, <2>1
    <3> QED
      BY <3>1 DEF StateFor
  <2> QED
    BY <2>2 DEF EntriesAgree, AskedIsKept
<1> QED
  BY <1>2, <1>3 DEF Init, IInv, BlocksAreRespected, Withheld, Announced, WaitsForAReason,
                    WithheldStays

LEMMA NextInv ==
  IInv /\ [Next]_vars => IInv'
<1> SUFFICES ASSUME IInv, [Next]_vars
             PROVE  IInv'
  OBVIOUS
<1>1. ASSUME NEW v \in User, NEW s \in Slot, Open(v, s)
      PROVE  IInv'
  BY <1>1, OpenKeeps
<1>2. ASSUME NEW v \in User, NEW s \in Slot, Close(v, {<<v, s>>})
      PROVE  IInv'
  BY <1>2, CloseKeeps
<1>3. ASSUME NEW v \in User, Close(v, {c \in open : c[1] = v})
      PROVE  IInv'
  BY <1>3, CloseKeeps
<1>4. ASSUME NEW v \in User, SetShows(v)
      PROVE  IInv'
  BY <1>4, ShowsKeeps
<1>5. ASSUME NEW p \in Pair, Create(p) \/ Delete(p) \/ Send(p)
      PROVE  IInv'
  BY <1>5, CreateKeeps, DeleteKeeps, SendKeeps
<1>6. ASSUME NEW p \in Pair, NEW on \in BOOLEAN, SetBlock(p, on)
      PROVE  IInv'
  BY <1>6, BlockKeeps
<1>7. ASSUME NEW p \in Pair, NEW mute \in {"kept", "muted", "normal"}, Patch(p, mute)
      PROVE  IInv'
  BY <1>7, PatchKeeps
<1>8. ASSUME NEW p \in Pair, NEW read \in BOOLEAN, Settle(p, read)
      PROVE  IInv'
  BY <1>8, SettleKeeps
<1>9. CASE Restart
  BY <1>9, RestartKeeps
<1>10. CASE UNCHANGED vars
  <2>1. TypeOK'
    BY <1>10 DEF vars, IInv, TypeOK
  <2>2. BlocksAreRespected'
    BY <1>10 DEF vars, IInv, BlocksAreRespected, Withheld, Announced, Visible, Online, EntriesAgree,
                 AskedIsKept, StateFor, WaitsForAReason, WithheldStays
  <2> QED
    BY <2>1, <2>2 DEF IInv
<1> QED
  BY <1>1, <1>2, <1>3, <1>4, <1>5, <1>6, <1>7, <1>8, <1>9, <1>10 DEF Next

\* IInv is an invariant of every instance.
THEOREM Invariance == Spec => []IInv
BY InitInv, NextInv, PTL DEF Spec

\* Streams, lists and entries keep their types.
THEOREM TypeCorrect == Spec => []TypeOK
<1>1. IInv => TypeOK
  BY DEF IInv
<1> QED
  BY <1>1, Invariance, PTL

\* What a stream last heard of somebody is "online" only while the rules let its
\* user see that; whoever may be seen is announced; a contact is blocked or muted
\* exactly while its owner asks for that, through removals and restarts; and a message
\* waits for somebody who is there only if a block withheld it, and then does.
THEOREM Blocking == Spec => []BlocksAreRespected
<1>1. IInv => BlocksAreRespected
  BY DEF IInv
<1> QED
  BY <1>1, Invariance, PTL
=============================================================================
