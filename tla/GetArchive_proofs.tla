-------------------------- MODULE GetArchive_proofs --------------------------
(***************************************************************************)
(* Proofs about GetArchive, for any number of builds and of kills.         *)
(***************************************************************************)
EXTENDS GetArchive, TLAPS

\* A build between its second look and its end.
Locked(b) == get[b].at \in {"again", "fetch", "fetching", "check", "done", "stamp"}

\* Such a build has the flock.
LockInv == \A b \in Builds : Locked(b) => flock = b

\* While a build downloads there are no stamps.
NoStamps(b) ==
    /\ get[b].at \in {"fetch", "fetching", "check", "done"} => ~url /\ sha = NoFile
    /\ get[b].at = "stamp" => sha = NoFile

\* In the loop there are rounds left, and a wrong checksum for each URL of
\* this round; whoever leaves it without having run out has a whole file and
\* its checksum.
LoopInv(b) ==
    /\ get[b].at \in {"fetch", "fetching", "check"} =>
          /\ get[b].rounds >= 1 /\ get[b].checks >= 0
          /\ ~get[b].mirror => get[b].checks >= 1
    /\ get[b].at \in {"todo", "look", "lock", "again"} =>
          get[b].rounds = NBGET /\ get[b].checks = NBCHKS /\ ~get[b].mirror
    /\ get[b].at = "check" => file \in Hashes
    /\ get[b].at = "stamp" \/ (get[b].at = "done" /\ ~Exhausted(b)) =>
          file \in Hashes /\ get[b].calc = file

Inv ==
    /\ TypeOK /\ LockInv /\ StampTruthful
    /\ \A b \in Builds : NoStamps(b) /\ LoopInv(b)

\* The set of records that get maps builds to.
GetSet ==
    [at : {"todo", "look", "lock", "again", "fetch", "fetching", "check", "done",
           "stamp", "ok", "failed", "killed"},
     want : Hashes \union {Unchecked},
     rounds : 0..NBGET, checks : -1..NBCHKS,
     mirror : BOOLEAN,
     calc : Hashes \union {NoFile}]

\* The invariant holds initially.
LEMMA InvInit == Init => Inv
<1> SUFFICES ASSUME Init PROVE Inv
  OBVIOUS
<1>1. \A b \in Builds : get[b] = NotStarted
  BY DEF Init
<1>2. TypeOK
  <2>1. NotStarted \in GetSet
    BY DEF NotStarted, GetSet, NBGET, NBCHKS
  <2>2. get \in [Builds -> GetSet]
    BY <2>1 DEF Init
  <2>3. url \in BOOLEAN
    BY DEF Init
  <2>4. file \in Hashes \union {NoFile, Incomplete} /\ sha \in Hashes \union {NoFile}
    BY DEF Init
  <2>5. kills \in 0..MaxKills /\ flock \in Builds \union {Nobody} /\ hash \in Hashes \union {Unchecked}
    BY GetAssumption DEF Init
  <2> QED BY <2>2, <2>3, <2>4, <2>5 DEF TypeOK, GetSet
<1>3. LockInv
  BY <1>1 DEF LockInv, Locked, NotStarted
<1>4. StampTruthful
  BY DEF Init, StampTruthful
<1>5. ASSUME NEW b \in Builds PROVE NoStamps(b) /\ LoopInv(b)
  BY <1>1 DEF NoStamps, LoopInv, NotStarted
<1> QED BY <1>2, <1>3, <1>4, <1>5 DEF Inv

----------------------------------------------------------------------------
(* A step of build b changes its own record to r and, under the lock,      *)
(* what is shared; what that asks of r and of the shared state.            *)

\* A step that keeps the lock discipline: build b alone changes its record;
\* the lock goes from Nobody to b, from b to Nobody or stays; the file and its
\* stamps change only under the lock.
Moves(b, r) ==
    /\ get' = [get EXCEPT ![b] = r]
    /\ flock' = flock \/ (flock = Nobody /\ flock' = b) \/ (flock = b /\ flock' = Nobody)
    /\ Locked(b) \/ UNCHANGED <<file, url, sha>>

\* What such a step must establish for build b itself is enough.
LEMMA MovesInv ==
    ASSUME Inv, NEW b \in Builds, NEW r \in GetSet, Moves(b, r),
           TypeOK', StampTruthful',
           r.at \in {"again", "fetch", "fetching", "check", "done", "stamp"} => flock' = b,
           NoStamps(b)', LoopInv(b)'
    PROVE  Inv'
<1>1. get \in [Builds -> GetSet]
  BY DEF Inv, TypeOK, GetSet
<1>2. get'[b] = r /\ \A c \in Builds \ {b} : get'[c] = get[c]
  BY <1>1 DEF Moves
<1>3. Nobody \notin Builds
  BY GetAssumption
<1>4. ASSUME NEW c \in Builds \ {b}, Locked(c) PROVE flock' = c /\ UNCHANGED <<file, url, sha>>
  <2>1. flock = c /\ ~Locked(b)
    BY <1>4 DEF Inv, LockInv
  <2> QED BY <2>1, <1>3 DEF Moves
<1>5. LockInv'
  <2> SUFFICES ASSUME NEW c \in Builds, Locked(c)' PROVE flock' = c
    BY DEF LockInv
  <2>1. CASE c = b
    BY <2>1, <1>2 DEF Locked
  <2>2. CASE c # b
    <3>1. Locked(c)
      BY <2>2, <1>2 DEF Locked
    <3> QED BY <2>2, <3>1, <1>4
  <2> QED BY <2>1, <2>2
<1>6. ASSUME NEW c \in Builds \ {b} PROVE NoStamps(c)' /\ LoopInv(c)'
  <2>1. NoStamps(c) /\ LoopInv(c) /\ get'[c] = get[c]
    BY <1>2 DEF Inv
  <2>2. CASE Locked(c)
    BY <2>1, <2>2, <1>4 DEF NoStamps, LoopInv, Exhausted
  <2>3. CASE ~Locked(c)
    BY <2>1, <2>3 DEF NoStamps, LoopInv, Locked, Exhausted
  <2> QED BY <2>2, <2>3
<1> QED BY <1>5, <1>6 DEF Inv

\* The types of what the actions use.
LEMMA Types ==
    ASSUME Inv, NEW b \in Builds
    PROVE  /\ get[b] \in GetSet
           /\ get[b].want \in Hashes \union {Unchecked}
           /\ get[b].rounds \in 0..NBGET /\ get[b].checks \in -1..NBCHKS
           /\ get[b].mirror \in BOOLEAN
           /\ get[b].calc \in Hashes \union {NoFile}
           /\ hash \in Hashes \union {Unchecked}
           /\ file \in Hashes \union {NoFile, Incomplete}
           /\ sha \in Hashes \union {NoFile}
           /\ flock \in Builds \union {Nobody}
           /\ kills \in 0..MaxKills
           /\ get \in [Builds -> GetSet]
           /\ NBGET = 10 /\ NBCHKS = 2
           /\ NoFile \notin Hashes /\ Incomplete \notin Hashes /\ Unchecked \notin Hashes
<1>1. get[b] \in GetSet /\ get \in [Builds -> GetSet]
  BY DEF Inv, TypeOK, GetSet
<1>2. NoFile \notin Hashes /\ Incomplete \notin Hashes /\ Unchecked \notin Hashes
  BY GetAssumption
<1> QED BY <1>1, <1>2 DEF Inv, TypeOK, GetSet, NBGET, NBCHKS

\* Types after a step of b.
LEMMA MovesType ==
    ASSUME Inv, NEW b \in Builds, NEW r \in GetSet, Moves(b, r),
           hash' \in Hashes \union {Unchecked},
           file' \in Hashes \union {NoFile, Incomplete},
           url' \in BOOLEAN, sha' \in Hashes \union {NoFile}, kills' \in 0..MaxKills
    PROVE  TypeOK'
<1>1. get' \in [Builds -> GetSet]
  BY Types DEF Moves
<1>2. flock' \in Builds \union {Nobody}
  BY Types DEF Moves
<1> QED BY <1>1, <1>2 DEF TypeOK, GetSet

\* A step that changes the place of b and nothing shared but the flock.
LEMMA PlaceInv ==
    ASSUME Inv, NEW b \in Builds, NEW r \in GetSet, Moves(b, r),
           UNCHANGED <<hash, file, url, sha>>, kills' \in 0..MaxKills,
           r.at \in {"again", "fetch", "fetching", "check", "done", "stamp"} => flock' = b,
           NoStamps(b)', LoopInv(b)'
    PROVE  Inv'
<1>1. url \in BOOLEAN
  BY DEF Inv, TypeOK
<1>2. TypeOK'
  <2>1. url' \in BOOLEAN
    BY <1>1
  <2> QED BY <2>1, Types, MovesType
<1>3. StampTruthful'
  BY DEF Inv, StampTruthful
<1> QED BY <1>2, <1>3, MovesInv

\* The builds' first steps, until they have the flock.
LEMMA BeginInv == ASSUME Inv, NEW b \in Builds, Start(b) \/ Look(b) \/ Lock(b) PROVE Inv'
<1>1. UNCHANGED <<hash, file, url, sha, kills>>
  BY DEF Start, Look, Lock
<1>2. NoStamps(b) /\ LoopInv(b)
  BY DEF Inv
<1>3. CASE Start(b)
  <2>1. PICK r : r = [get[b] EXCEPT !.at = "look", !.want = hash]
    OBVIOUS
  <2>2. r \in GetSet /\ r.at = "look" /\ r.rounds = get[b].rounds /\ r.checks = get[b].checks
        /\ r.mirror = get[b].mirror
    BY <2>1, Types DEF GetSet
  <2>3. Moves(b, r)
    BY <1>3, <2>1 DEF Start, Moves
  <2>4. get'[b] = r
    BY <2>3, Types DEF Moves
  <2>5. get[b].at = "todo"
    BY <1>3 DEF Start, At
  <2>6. NoStamps(b)' /\ LoopInv(b)'
    BY <1>2, <2>2, <2>4, <2>5 DEF NoStamps, LoopInv, Exhausted
  <2>7. kills' \in 0..MaxKills
    BY <1>1, Types
  <2> QED BY <1>1, <2>2, <2>3, <2>6, <2>7, PlaceInv
<1>4. CASE Look(b)
  <2>1. PICK place \in {"ok", "lock"} : get' = [get EXCEPT ![b].at = place]
    BY <1>4 DEF Look, GoTo
  <2>2. PICK r : r = [get[b] EXCEPT !.at = place]
    OBVIOUS
  <2>3. r \in GetSet /\ r.at = place /\ r.rounds = get[b].rounds /\ r.checks = get[b].checks
        /\ r.mirror = get[b].mirror
    BY <2>2, Types DEF GetSet
  <2>4. Moves(b, r)
    BY <1>4, <2>1, <2>2 DEF Look, Moves
  <2>5. get'[b] = r
    BY <2>4, Types DEF Moves
  <2>6. get[b].at = "look"
    BY <1>4 DEF Look, At
  <2>7. NoStamps(b)' /\ LoopInv(b)'
    BY <1>2, <2>1, <2>3, <2>5, <2>6 DEF NoStamps, LoopInv, Exhausted
  <2>8. kills' \in 0..MaxKills
    BY <1>1, Types
  <2> QED BY <1>1, <2>1, <2>3, <2>4, <2>7, <2>8, PlaceInv
<1>5. CASE Lock(b)
  <2>1. PICK r : r = [get[b] EXCEPT !.at = "again"]
    OBVIOUS
  <2>2. r \in GetSet /\ r.at = "again" /\ r.rounds = get[b].rounds /\ r.checks = get[b].checks
        /\ r.mirror = get[b].mirror
    BY <2>1, Types DEF GetSet
  <2>3. Moves(b, r) /\ flock' = b
    BY <1>5, <2>1 DEF Lock, GoTo, Moves
  <2>4. get'[b] = r
    BY <2>3, Types DEF Moves
  <2>5. get[b].at = "lock"
    BY <1>5 DEF Lock, At
  <2>6. NoStamps(b)' /\ LoopInv(b)'
    BY <1>2, <2>2, <2>4, <2>5 DEF NoStamps, LoopInv, Exhausted
  <2>7. kills' \in 0..MaxKills
    BY <1>1, Types
  <2> QED BY <1>1, <2>2, <2>3, <2>6, <2>7, PlaceInv
<1> QED BY <1>3, <1>4, <1>5

\* However a build ends, it leaves the shared files as they are.
LEMMA EndInv ==
    ASSUME Inv, NEW b \in Builds, NEW how \in {"ok", "failed", "killed"}, End(b, how),
           UNCHANGED <<hash, file, url, sha>>, kills' \in 0..MaxKills
    PROVE  Inv'
<1>1. PICK r : r = [get[b] EXCEPT !.at = how]
  OBVIOUS
<1>2. r \in GetSet /\ r.at = how
  BY <1>1, Types DEF GetSet
<1>3. Moves(b, r)
  BY <1>1 DEF End, GoTo, Released, Moves
<1>4. get'[b] = r
  BY <1>3, Types DEF Moves
<1>5. NoStamps(b)' /\ LoopInv(b)'
  BY <1>2, <1>4 DEF NoStamps, LoopInv
<1> QED BY <1>2, <1>3, <1>5, PlaceInv

\* The second look, under the lock.
LEMMA LookAgainInv == ASSUME Inv, NEW b \in Builds, LookAgain(b) PROVE Inv'
<1>1. /\ get[b].at = "again" /\ UNCHANGED <<hash, file, kills>> /\ kills' \in 0..MaxKills
  BY Types DEF LookAgain, At
<1>2. NoStamps(b) /\ LoopInv(b) /\ flock = b
  BY <1>1 DEF Inv, LockInv, Locked
<1>3. CASE End(b, "ok") /\ UNCHANGED <<url, sha>>
  BY <1>1, <1>3, EndInv
<1>4. CASE GoTo(b, "fetch") /\ url' = FALSE /\ sha' = NoFile /\ UNCHANGED flock
  <2>1. PICK r : r = [get[b] EXCEPT !.at = "fetch"]
    OBVIOUS
  <2>2. r \in GetSet /\ r.at = "fetch" /\ r.rounds = get[b].rounds /\ r.checks = get[b].checks
        /\ r.mirror = get[b].mirror
    BY <2>1, Types DEF GetSet
  <2>3. Moves(b, r)
    BY <1>1, <1>4, <2>1 DEF GoTo, Moves, Locked
  <2>4. get'[b] = r
    BY <2>3, Types DEF Moves
  <2>5. LoopInv(b)'
    BY <1>1, <1>2, <2>2, <2>4, Types DEF LoopInv
  <2>6. NoStamps(b)'
    BY <1>4, <2>2, <2>4 DEF NoStamps
  <2>7. url' \in BOOLEAN
    BY <1>4
  <2>8. TypeOK'
    BY <1>1, <1>4, <2>2, <2>3, <2>7, Types, MovesType
  <2>9. StampTruthful'
    BY <1>4 DEF StampTruthful
  <2> QED BY <1>2, <1>4, <2>2, <2>3, <2>5, <2>6, <2>8, <2>9, MovesInv
<1> QED BY <1>3, <1>4 DEF LookAgain, StampsRemoved

\* A step in the download loop: there are no stamps, so only the loop's own
\* invariant is left to show.
LEMMA LoopStepInv ==
    ASSUME Inv, NEW b \in Builds, NEW r \in GetSet,
           get[b].at \in {"fetch", "fetching", "check"},
           get' = [get EXCEPT ![b] = r],
           UNCHANGED <<url, sha, flock, kills>>,
           hash' \in Hashes \union {Unchecked},
           file' \in Hashes \union {NoFile, Incomplete},
           r.at \in {"fetch", "fetching", "check", "done"},
           LoopInv(b)'
    PROVE  Inv'
<1>1. flock = b /\ ~url /\ sha = NoFile /\ Locked(b)
  BY DEF Inv, LockInv, NoStamps, Locked
<1>2. Moves(b, r) /\ get'[b] = r
  BY <1>1, Types DEF Moves
<1>3. url' \in BOOLEAN
  BY DEF Inv, TypeOK
<1>4. TypeOK'
  BY <1>2, <1>3, Types, MovesType
<1>5. StampTruthful'
  BY <1>1 DEF StampTruthful
<1>6. NoStamps(b)'
  BY <1>1, <1>2 DEF NoStamps
<1> QED BY <1>1, <1>2, <1>4, <1>5, <1>6, MovesInv

\* The record after an URL that brought nothing: there are rounds left and a
\* wrong checksum for the next URL, or the build has run out, unless it just
\* counted its third wrong checksum.
LEMMA NextUrlFacts ==
    ASSUME Inv, NEW b \in Builds, get[b].at \in {"fetching", "check"},
           NEW n \in {get[b].checks, get[b].checks - 1},
           NEW r, r = NextUrl(b, n)
    PROVE  /\ r \in GetSet /\ r.at \in {"fetch", "done"} /\ r.calc = get[b].calc
           /\ r.at = "fetch" => r.rounds >= 1 /\ r.checks >= 0 /\ (~r.mirror => r.checks >= 1)
           /\ r.at = "done" => r.rounds = 0 \/ r.checks = 0 \/ (n = get[b].checks - 1 /\ r.checks = -1)
<1>1. /\ get[b].rounds \in 1..10 /\ get[b].checks \in 0..2
      /\ ~get[b].mirror => get[b].checks >= 1
  BY Types DEF Inv, LoopInv
<1>2. /\ get[b] \in GetSet /\ get[b].mirror \in BOOLEAN
      /\ NBGET = 10 /\ NBCHKS = 2
  BY Types
<1>3. n \in -1..2
  BY <1>1
<1>4. CASE ~get[b].mirror
  <2>1. r = [get[b] EXCEPT !.at = "fetch", !.mirror = TRUE, !.checks = n]
    BY <1>4 DEF NextUrl
  <2>2. r \in GetSet
    BY <2>1, <1>2, <1>3 DEF GetSet
  <2>3. r.at = "fetch" /\ r.mirror /\ r.checks = n /\ r.rounds = get[b].rounds /\ r.calc = get[b].calc
    BY <2>1, <1>2 DEF GetSet
  <2>4. n >= 0
    BY <1>1, <1>4
  <2> QED BY <2>2, <2>3, <2>4, <1>1
<1>5. CASE get[b].mirror
  <2>1. PICK k \in 0..9 : k = get[b].rounds - 1
    BY <1>1
  <2>2. PICK place \in {"fetch", "done"} : place = IF k > 0 /\ n > 0 THEN "fetch" ELSE "done"
    OBVIOUS
  <2>3. r = [get[b] EXCEPT !.at = place, !.mirror = FALSE, !.rounds = k, !.checks = n]
    BY <1>5, <2>1, <2>2 DEF NextUrl, NextRounds, Loops
  <2>4. r \in GetSet
    <3>1. k \in 0..NBGET /\ n \in -1..NBCHKS /\ FALSE \in BOOLEAN
      BY <1>2, <1>3
    <3>2. place \in {"todo", "look", "lock", "again", "fetch", "fetching", "check", "done",
                     "stamp", "ok", "failed", "killed"}
      OBVIOUS
    <3> QED BY <2>3, <3>1, <3>2, <1>2 DEF GetSet
  <2>5. /\ r.at = place /\ ~r.mirror /\ r.checks = n /\ r.rounds = k /\ r.calc = get[b].calc
    BY <2>3, <1>2 DEF GetSet
  <2>6. place = "done" => k = 0 \/ n = 0 \/ n = -1
    BY <2>2, <1>3
  <2>7. n = -1 => n = get[b].checks - 1
    BY <1>1
  <2> QED BY <2>2, <2>4, <2>5, <2>6, <2>7, <1>3
<1> QED BY <1>4, <1>5, <1>2

\* The download begins.
LEMMA FetchInv == ASSUME Inv, NEW b \in Builds, Fetch(b) PROVE Inv'
<1>1. /\ get[b].at = "fetch" /\ file' = Incomplete /\ hash' = hash
      /\ UNCHANGED <<url, sha, flock, kills>>
  BY DEF Fetch, At
<1>2. PICK r : r = [get[b] EXCEPT !.at = "fetching"]
  OBVIOUS
<1>3. /\ r \in GetSet /\ r.at = "fetching" /\ r.rounds = get[b].rounds
      /\ r.checks = get[b].checks /\ r.mirror = get[b].mirror
  BY <1>2, Types DEF GetSet
<1>4. get' = [get EXCEPT ![b] = r] /\ get'[b] = r
  BY <1>2, Types DEF Fetch, GoTo
<1>5. LoopInv(b)'
  BY <1>1, <1>3, <1>4 DEF Inv, LoopInv
<1> QED BY <1>1, <1>3, <1>4, <1>5, Types, LoopStepInv

\* A whole file arrives, the right one or another.
LEMMA ArriveInv == ASSUME Inv, NEW b \in Builds, Arrive(b) PROVE Inv'
<1>1. /\ get[b].at = "fetching" /\ file' \in Hashes /\ hash' = hash
      /\ UNCHANGED <<url, sha, flock, kills>>
  BY DEF Arrive, At
<1>2. PICK r : r = [get[b] EXCEPT !.at = "check"]
  OBVIOUS
<1>3. /\ r \in GetSet /\ r.at = "check" /\ r.rounds = get[b].rounds
      /\ r.checks = get[b].checks /\ r.mirror = get[b].mirror
  BY <1>2, Types DEF GetSet
<1>4. get' = [get EXCEPT ![b] = r] /\ get'[b] = r
  BY <1>2, Types DEF Arrive, GoTo
<1>5. LoopInv(b)'
  BY <1>1, <1>3, <1>4 DEF Inv, LoopInv
<1> QED BY <1>1, <1>3, <1>4, <1>5, Types, LoopStepInv

\* A download fails.
LEMMA FetchFailsInv == ASSUME Inv, NEW b \in Builds, FetchFails(b) PROVE Inv'
<1>1. /\ get[b].at = "fetching" /\ file' \in {NoFile, Incomplete} /\ hash' = hash
      /\ UNCHANGED <<url, sha, flock, kills>>
  BY DEF FetchFails, At
<1>2. PICK n : n = get[b].checks
  OBVIOUS
<1>3. PICK r : r = NextUrl(b, n)
  OBVIOUS
<1>4. /\ r \in GetSet /\ r.at \in {"fetch", "done"}
      /\ r.at = "fetch" => r.rounds >= 1 /\ r.checks >= 0 /\ (~r.mirror => r.checks >= 1)
      /\ r.at = "done" => r.rounds = 0 \/ r.checks = 0
  <2>1. n \in {get[b].checks, get[b].checks - 1} /\ n # get[b].checks - 1
    BY <1>2, Types
  <2> QED BY <2>1, <1>1, <1>3, NextUrlFacts
<1>5. get' = [get EXCEPT ![b] = r] /\ get'[b] = r
  BY <1>2, <1>3, Types DEF FetchFails
<1>6. LoopInv(b)'
  BY <1>4, <1>5 DEF LoopInv, Exhausted
<1> QED BY <1>1, <1>4, <1>5, <1>6, Types, LoopStepInv

\* The checksum of a whole file is calculated.
LEMMA CheckInv == ASSUME Inv, NEW b \in Builds, Check(b) PROVE Inv'
<1>1. get[b].at = "check" /\ UNCHANGED <<file, url, sha, flock, kills>> /\ file \in Hashes
  BY DEF Check, At, Inv, LoopInv
<1>2. hash' \in Hashes \union {Unchecked}
  BY <1>1, Types DEF Check
<1>3. CASE get' = [get EXCEPT ![b].at = "done", ![b].calc = file]
  <2>1. PICK r : r = [get[b] EXCEPT !.at = "done", !.calc = file]
    OBVIOUS
  <2>2. r \in GetSet /\ r.at = "done" /\ r.calc = file
    BY <2>1, <1>1, Types DEF GetSet
  <2>3. get' = [get EXCEPT ![b] = r] /\ get'[b] = r
    BY <2>1, <1>3, Types
  <2>4. LoopInv(b)'
    BY <2>2, <2>3, <1>1 DEF LoopInv
  <2> QED BY <1>1, <1>2, <2>2, <2>3, <2>4, Types, LoopStepInv
<1>4. CASE get' = [get EXCEPT ![b] = [NextUrl(b, get[b].checks - 1) EXCEPT !.calc = file]]
  <2>1. PICK n : n = get[b].checks - 1
    OBVIOUS
  <2>2. PICK q : q = NextUrl(b, n)
    OBVIOUS
  <2>3. /\ q \in GetSet /\ q.at \in {"fetch", "done"}
        /\ q.at = "fetch" => q.rounds >= 1 /\ q.checks >= 0 /\ (~q.mirror => q.checks >= 1)
    BY <2>1, <2>2, <1>1, NextUrlFacts
  <2>4. PICK r : r = [q EXCEPT !.calc = file]
    OBVIOUS
  <2>5. /\ r \in GetSet /\ r.at = q.at /\ r.calc = file
        /\ r.rounds = q.rounds /\ r.checks = q.checks /\ r.mirror = q.mirror
    BY <2>3, <2>4, <1>1, Types DEF GetSet
  <2>6. get' = [get EXCEPT ![b] = r] /\ get'[b] = r
    BY <2>1, <2>2, <2>4, <1>4, Types
  <2>7. LoopInv(b)'
    BY <2>3, <2>5, <2>6, <1>1 DEF LoopInv
  <2> QED BY <1>1, <1>2, <2>3, <2>5, <2>6, <2>7, Types, LoopStepInv
<1> QED BY <1>3, <1>4 DEF Check

\* The build that has its file writes the stamps.
LEMMA StampInv == ASSUME Inv, NEW b \in Builds, StampUrl(b) \/ StampSha(b) PROVE Inv'
<1>1. kills' \in 0..MaxKills /\ UNCHANGED <<hash, file>>
  BY Types DEF StampUrl, StampSha
<1>2. flock = b /\ Locked(b) /\ NoStamps(b) /\ LoopInv(b)
  BY DEF Inv, LockInv, Locked, StampUrl, StampSha, At
<1>3. CASE StampUrl(b)
  <2>1. /\ get[b].at = "done" /\ ~Exhausted(b) /\ url' = TRUE /\ UNCHANGED <<sha, flock>>
    BY <1>3 DEF StampUrl, At
  <2>2. PICK r : r = [get[b] EXCEPT !.at = "stamp"]
    OBVIOUS
  <2>3. r \in GetSet /\ r.at = "stamp" /\ r.calc = get[b].calc
    BY <2>2, Types DEF GetSet
  <2>4. Moves(b, r) /\ get'[b] = r
    BY <1>2, <1>3, <2>1, <2>2, Types DEF StampUrl, GoTo, Moves
  <2>5. sha = NoFile
    BY <1>2, <2>1 DEF NoStamps
  <2>6. LoopInv(b)' /\ NoStamps(b)'
    BY <1>1, <1>2, <2>1, <2>3, <2>4, <2>5 DEF LoopInv, NoStamps
  <2>7. url' \in BOOLEAN
    BY <2>1
  <2>8. TypeOK'
    BY <1>1, <2>1, <2>3, <2>4, <2>7, Types, MovesType
  <2>9. StampTruthful'
    BY <2>1, <2>5 DEF StampTruthful
  <2> QED BY <1>2, <2>1, <2>3, <2>4, <2>6, <2>8, <2>9, MovesInv
<1>4. CASE StampSha(b)
  <2>1. /\ get[b].at = "stamp" /\ sha' = get[b].calc /\ url' = url /\ End(b, "ok")
    BY <1>4 DEF StampSha, At
  <2>2. PICK r : r = [get[b] EXCEPT !.at = "ok"]
    OBVIOUS
  <2>3. r \in GetSet /\ r.at = "ok"
    BY <2>2, Types DEF GetSet
  <2>4. Moves(b, r) /\ get'[b] = r
    BY <1>2, <2>1, <2>2, Types DEF End, GoTo, Released, Moves
  <2>5. sha' = file /\ file \in Hashes
    BY <1>2, <2>1 DEF LoopInv, Exhausted
  <2>6. LoopInv(b)' /\ NoStamps(b)'
    BY <2>3, <2>4 DEF LoopInv, NoStamps
  <2>7. url' \in BOOLEAN
    BY <2>1 DEF Inv, TypeOK
  <2>8. TypeOK'
    BY <1>1, <2>3, <2>4, <2>5, <2>7, Types, MovesType
  <2>9. StampTruthful'
    BY <1>1, <2>5 DEF StampTruthful
  <2> QED BY <2>3, <2>4, <2>6, <2>8, <2>9, MovesInv
<1> QED BY <1>3, <1>4

\* Every step keeps the invariant.
LEMMA InvStep == Inv /\ [Next]_vars => Inv'
<1> SUFFICES ASSUME Inv, [Next]_vars PROVE Inv'
  OBVIOUS
<1>1. ASSUME NEW b \in Builds, Die(b) PROVE Inv'
  <2>1. kills' \in 0..MaxKills
    BY <1>1, Types DEF Die
  <2> QED BY <1>1, <2>1, EndInv DEF Die
<1>2. ASSUME NEW b \in Builds, Kill(b) PROVE Inv'
  <2>1. kills' \in 0..MaxKills
    BY <1>2, Types, GetAssumption DEF Kill
  <2> QED BY <1>2, <2>1, EndInv DEF Kill
<1>3. ASSUME NEW b \in Builds, Step(b) PROVE Inv'
  BY <1>1, <1>3, BeginInv, LookAgainInv, FetchInv, ArriveInv, FetchFailsInv, CheckInv, StampInv
     DEF Step
<1>4. ASSUME UNCHANGED vars PROVE Inv'
  <2>1. TypeOK'
    BY <1>4 DEF Inv, TypeOK, vars
  <2>2. LockInv' /\ StampTruthful'
    BY <1>4 DEF Inv, LockInv, Locked, StampTruthful, vars
  <2>3. \A b \in Builds : NoStamps(b)' /\ LoopInv(b)'
    BY <1>4 DEF Inv, NoStamps, LoopInv, Exhausted, vars
  <2> QED BY <2>1, <2>2, <2>3 DEF Inv
<1> QED BY <1>2, <1>3, <1>4 DEF Next, Over

----------------------------------------------------------------------------
(* The theorems.                                                           *)

\* The invariant holds in every reachable state.
THEOREM Invariant == Spec => []Inv
<1> QED BY InvInit, InvStep, PTL DEF Spec

\* Types are kept; in particular at most three wrong checksums are counted.
THEOREM TypeCorrect == Spec => []TypeOK
<1>1. Inv => TypeOK
  BY DEF Inv
<1> QED BY <1>1, Invariant, PTL

\* Wherever builds are killed, stamps speak for the whole file that is there.
THEOREM StampTruthfulHolds == Spec => []StampTruthful
<1>1. Inv => StampTruthful
  BY DEF Inv
<1> QED BY <1>1, Invariant, PTL

\* No step takes away a stamped file that all builds want.
LEMMA KeptStep ==
    ASSUME Inv, [Next]_vars, url, sha = file, file \in Hashes, FileSuits
    PROVE  url' /\ sha' = sha /\ file' = file
<1>1. ASSUME NEW b \in Builds, Step(b) PROVE url' /\ sha' = sha /\ file' = file
  <2>1. get[b].at \notin {"fetch", "fetching", "check", "done", "stamp"}
    BY Types DEF Inv, NoStamps
  <2>2. CASE LookAgain(b)
    <3>1. get[b].want \in {Unchecked, file}
      BY <2>2 DEF FileSuits, LookAgain, At
    <3>2. SecondLook(b)
      BY <3>1, Types DEF SecondLook, AlreadyDownloaded
    <3> QED BY <2>2, <3>2 DEF LookAgain
  <2> QED BY <1>1, <2>1, <2>2 DEF Step, Start, Look, Lock, Fetch, Arrive, FetchFails, Check,
            Die, StampUrl, StampSha, At
<1>2. ASSUME NEW b \in Builds, Kill(b) PROVE url' /\ sha' = sha /\ file' = file
  BY <1>2 DEF Kill
<1>3. CASE UNCHANGED vars
  BY <1>3 DEF vars
<1> QED BY <1>1, <1>2, <1>3 DEF Next, Over

\* A source that all builds want, once it is there with its stamps, stays.
THEOREM KeptWhileWantedHolds == Spec => KeptWhileWanted
<1>1. ASSUME Inv, [Next]_vars
      PROVE  [url /\ sha = file /\ file \in Hashes /\ FileSuits
                 => url' /\ sha' = sha /\ file' = file]_vars
  BY <1>1, KeptStep
<1> QED BY <1>1, Invariant, PTL DEF Spec, KeptWhileWanted
==============================================================================
