----------------------------- MODULE GetArchive -----------------------------
(***************************************************************************)
(* scripts/get with scripts/get_archive: builds of several projects and    *)
(* devices fetch the same source package into the one SOURCES directory    *)
(* that they share.  A build first looks without a lock whether the file   *)
(* is there already, takes the flock on the directory of the package,      *)
(* looks again, and then tries the package's URL and the mirror in turn.   *)
(*                                                                         *)
(* A file is represented by its SHA256.  Left out: progress output, the    *)
(* choice between wget and curl and their options, and what the tests of   *)
(* _get_file_already_downloaded see while another build removes or writes  *)
(* a stamp (each look is one step).                                        *)
(***************************************************************************)
EXTENDS Integers

CONSTANTS
    Builds,       \* the runs of scripts/get for the package
    Hashes,       \* SHA256 sums
    Unchecked,    \* an empty PKG_SHA256
    NoFile,       \* no file, no stamp, or no sum calculated yet
    Incomplete,   \* the file of a download that goes on, or went wrong
    Nobody,       \* nobody holds the flock
    Maintainers,  \* the builds with CHANGE_HASH=yes
    MaxKills      \* bound: builds that are killed

ASSUME GetAssumption ==
    /\ Unchecked \notin Hashes /\ NoFile \notin Hashes /\ Incomplete \notin Hashes
    /\ NoFile # Incomplete
    /\ Nobody \notin Builds
    /\ Maintainers \subseteq Builds
    /\ MaxKills \in Nat

VARIABLES
    hash,   \* PKG_SHA256 in package.mk
    get,    \* per build: how far its scripts/get has come
    file,   \* ${PACKAGE}
    url,    \* whether ${STAMP_URL} exists
    sha,    \* the contents of ${STAMP_SHA}
    flock,  \* who holds the flock on ${SOURCES}/<package>
    kills   \* the number of builds killed so far

vars == <<hash, get, file, url, sha, flock, kills>>

----------------------------------------------------------------------------
NBGET == 10
NBCHKS == 2

\* A run of scripts/get: what it does next, PKG_SHA256 as it read it, the
\* rounds and wrong checksums it has left, whether it has come to the mirror,
\* and the checksum it calculated last.
NotStarted ==
    [at |-> "todo", want |-> Unchecked, rounds |-> NBGET, checks |-> NBCHKS,
     mirror |-> FALSE, calc |-> NoFile]

At(b, place) == get[b].at = place
GoTo(b, place) == get' = [get EXCEPT ![b].at = place]

\* SOURCES may hold an earlier version of the file, with its stamps.
Init ==
    /\ hash \in Hashes \union {Unchecked}
    /\ get = [b \in Builds |-> NotStarted]
    /\ \/ file = NoFile /\ url = FALSE /\ sha = NoFile
       \/ file \in Hashes /\ url = TRUE /\ sha = file
    /\ flock = Nobody
    /\ kills = 0

Start(b) ==
    /\ At(b, "todo")
    /\ get' = [get EXCEPT ![b].at = "look", ![b].want = hash]
    /\ UNCHANGED <<hash, file, url, sha, flock, kills>>

----------------------------------------------------------------------------
(* Is there anything to do?                                                *)

\* _get_file_already_downloaded
AlreadyDownloaded(b) ==
    /\ file # NoFile /\ url /\ sha # NoFile
    /\ get[b].want # Unchecked => sha = get[b].want

Look(b) ==
    /\ At(b, "look")
    /\ GoTo(b, IF AlreadyDownloaded(b) THEN "ok" ELSE "lock")
    /\ UNCHANGED <<hash, file, url, sha, flock, kills>>

\* lock_source_dir, at once or after waiting
Lock(b) ==
    /\ At(b, "lock") /\ flock = Nobody
    /\ flock' = b
    /\ GoTo(b, "again")
    /\ UNCHANGED <<hash, file, url, sha, kills>>

\* The end of the process closes the directory.
Released(b) == IF flock = b THEN Nobody ELSE flock

End(b, how) ==
    /\ GoTo(b, how)
    /\ flock' = Released(b)

\* What the second look finds.  The stamps go before the file does.
FaultySecondLook(b) == FALSE
SecondLook(b) == AlreadyDownloaded(b)

FaultyStamps == [url |-> url, sha |-> sha]
StampsRemoved == [url |-> FALSE, sha |-> NoFile]

LookAgain(b) ==
    /\ At(b, "again")
    /\ \/ SecondLook(b) /\ End(b, "ok") /\ UNCHANGED <<url, sha>>
       \/ /\ ~SecondLook(b) /\ GoTo(b, "fetch")
          /\ url' = StampsRemoved.url /\ sha' = StampsRemoved.sha
          /\ UNCHANGED flock
    /\ UNCHANGED <<hash, file, kills>>

----------------------------------------------------------------------------
(* The download loop                                                       *)

\* rm -f, and the download begins to write.
Fetch(b) ==
    /\ At(b, "fetch")
    /\ file' = Incomplete
    /\ GoTo(b, "fetching")
    /\ UNCHANGED <<hash, url, sha, flock, kills>>

Arrive(b) ==
    /\ At(b, "fetching")
    /\ file' \in Hashes
    /\ GoTo(b, "check")
    /\ UNCHANGED <<hash, url, sha, flock, kills>>

\* The test of the while loop.
Loops(rounds, checks) == rounds > 0 /\ checks > 0

\* On to the mirror, or back to the test.
FaultyNextRounds(b) == get[b].rounds
NextRounds(b) == get[b].rounds - 1

NextUrl(b, checks) ==
    IF ~get[b].mirror
    THEN [get[b] EXCEPT !.at = "fetch", !.mirror = TRUE, !.checks = checks]
    ELSE [get[b] EXCEPT
            !.at = IF Loops(NextRounds(b), checks) THEN "fetch" ELSE "done",
            !.mirror = FALSE, !.rounds = NextRounds(b), !.checks = checks]

\* wget or curl gives up.
FetchFails(b) ==
    /\ At(b, "fetching")
    /\ file' \in {NoFile, Incomplete}
    /\ get' = [get EXCEPT ![b] = NextUrl(b, get[b].checks)]
    /\ UNCHANGED <<hash, url, sha, flock, kills>>

Check(b) ==
    /\ At(b, "check")
    /\ \/ /\ get[b].want \in {Unchecked, file}
          /\ get' = [get EXCEPT ![b].at = "done", ![b].calc = file]
          /\ UNCHANGED hash
       \/ /\ get[b].want \notin {Unchecked, file} /\ b \in Maintainers
          /\ get' = [get EXCEPT ![b].at = "done", ![b].calc = file]
          /\ hash' = file
       \/ /\ get[b].want \notin {Unchecked, file} /\ b \notin Maintainers
          /\ get' = [get EXCEPT ![b] = [NextUrl(b, get[b].checks - 1) EXCEPT !.calc = file]]
          /\ UNCHANGED hash
    /\ UNCHANGED <<file, url, sha, flock, kills>>

----------------------------------------------------------------------------
(* After the loop                                                          *)

Exhausted(b) == get[b].rounds = 0 \/ get[b].checks = 0

Die(b) ==
    /\ At(b, "done") /\ Exhausted(b)
    /\ End(b, "failed")
    /\ UNCHANGED <<hash, file, url, sha, kills>>

StampUrl(b) ==
    /\ At(b, "done") /\ ~Exhausted(b)
    /\ url' = TRUE
    /\ GoTo(b, "stamp")
    /\ UNCHANGED <<hash, file, sha, flock, kills>>

StampSha(b) ==
    /\ At(b, "stamp")
    /\ sha' = get[b].calc
    /\ End(b, "ok")
    /\ UNCHANGED <<hash, file, url, kills>>

\* Whatever it was doing, the build is stopped, and its files stay.
Kill(b) ==
    /\ get[b].at \notin {"todo", "ok", "failed", "killed"}
    /\ kills < MaxKills
    /\ kills' = kills + 1
    /\ End(b, "killed")
    /\ UNCHANGED <<hash, file, url, sha>>

Step(b) ==
    \/ Start(b) \/ Look(b) \/ Lock(b) \/ LookAgain(b)
    \/ Fetch(b) \/ Arrive(b) \/ FetchFails(b) \/ Check(b)
    \/ Die(b) \/ StampUrl(b) \/ StampSha(b)

Over == (\A b \in Builds : get[b].at \in {"ok", "failed", "killed"}) /\ UNCHANGED vars

Next == (\E b \in Builds : Step(b) \/ Kill(b)) \/ Over

\* Builds run, and a download ends, well or not: wget and curl have timeouts.
Spec == Init /\ [][Next]_vars /\ \A b \in Builds : WF_vars(Step(b))

----------------------------------------------------------------------------
(* Properties                                                              *)

TypeOK ==
    /\ hash \in Hashes \union {Unchecked}
    /\ get \in [Builds ->
          [at : {"todo", "look", "lock", "again", "fetch", "fetching", "check", "done",
                 "stamp", "ok", "failed", "killed"},
           want : Hashes \union {Unchecked},
           rounds : 0..NBGET, checks : -1..NBCHKS,
           mirror : BOOLEAN,
           calc : Hashes \union {NoFile}]]
    /\ file \in Hashes \union {NoFile, Incomplete}
    /\ url \in BOOLEAN
    /\ sha \in Hashes \union {NoFile}
    /\ flock \in Builds \union {Nobody}
    /\ kills \in 0..MaxKills

\* Stamps never speak for another file than the one that is there, and never
\* for half of one, even after builds were killed anywhere.
StampTruthful == file # NoFile /\ url /\ sha # NoFile => sha = file

\* The builds that have started agree on the file that is there.
FileSuits == \A b \in Builds : At(b, "todo") \/ get[b].want \in {Unchecked, file}

\* A file with its stamps stays, for the builds that have got it and may be
\* extracting it, as long as it is the one that all builds want: the look
\* under the lock finds what others did since the look without it.
KeptWhileWanted ==
    [][url /\ sha = file /\ file \in Hashes /\ FileSuits
          => url' /\ sha' = sha /\ file' = file]_vars

\* Every build that looks for its source ends: with it, without it or killed.
GetEnds == \A b \in Builds : At(b, "look") ~> get[b].at \in {"ok", "failed", "killed"}

\* PKG_SHA256 is the hashsum of the file: what a build puts a stamp on has it,
\* unless the build was asked to change package.mk.
AcceptedHash ==
    \A b \in Builds \ Maintainers : At(b, "stamp") => get[b].want \in {Unchecked, get[b].calc}
===========================================================================
