-------------------------- MODULE UnpackLock_proofs --------------------------
(***************************************************************************)
(* Proofs about UnpackLock, for any jobs, any packages and any             *)
(* PKG_DEPENDS_UNPACK, cyclic ones included.                               *)
(***************************************************************************)
EXTENDS UnpackLock, SequenceTheorems, TLAPS

\* The elements of a stack with its top replaced, pushed upon and popped.
LEMMA StackFacts ==
    ASSUME NEW S, NEW s \in Seq(S), s # <<>>, NEW f \in S
    PROVE  /\ Len(s) \in Nat \ {0} /\ s[Len(s)] \in S
           /\ SubSeq(s, 1, Len(s) - 1) \in Seq(S)
           /\ Len(SubSeq(s, 1, Len(s) - 1)) = Len(s) - 1
           /\ \A i \in 1..(Len(s) - 1) : SubSeq(s, 1, Len(s) - 1)[i] = s[i]
           /\ Append(SubSeq(s, 1, Len(s) - 1), f) \in Seq(S)
           /\ Len(Append(SubSeq(s, 1, Len(s) - 1), f)) = Len(s)
           /\ \A i \in 1..(Len(s) - 1) : Append(SubSeq(s, 1, Len(s) - 1), f)[i] = s[i]
           /\ Append(SubSeq(s, 1, Len(s) - 1), f)[Len(s)] = f
<1>1. Len(s) \in Nat \ {0}
  OBVIOUS
<1>2. PICK n \in Nat : n = Len(s) - 1
  BY <1>1
<1>3. PICK b : b = SubSeq(s, 1, n)
  OBVIOUS
<1>4. b \in Seq(S) /\ Len(b) = n /\ \A i \in 1..n : b[i] = s[i]
  <2>1. \A i \in 1..n : s[i] \in S
    BY <1>2
  <2>2. /\ SubSeq(s, 1, n) \in Seq(S)
        /\ Len(SubSeq(s, 1, n)) = IF 1 <= n THEN n - 1 + 1 ELSE 0
        /\ \A i \in 1..(n - 1 + 1) : SubSeq(s, 1, n)[i] = s[1 + i - 1]
    BY <2>1, SubSeqProperties
  <2>3. \A i \in 1..n : 1 + i - 1 = i
    OBVIOUS
  <2> QED BY <2>2, <2>3, <1>3
<1>5. /\ Append(b, f) \in Seq(S) /\ Len(Append(b, f)) = n + 1
      /\ \A i \in 1..n : Append(b, f)[i] = b[i]
      /\ Append(b, f)[n + 1] = f
  BY <1>4
<1>6. s[Len(s)] \in S
  BY <1>1
<1> QED BY <1>1, <1>2, <1>3, <1>4, <1>5, <1>6

----------------------------------------------------------------------------
(* The inductive invariant.                                                *)

LockedPlaces == {"claim", "deps", "transfer", "patch", "unlock"}

\* The i-th script of job j has the lock of its package: it got the flock
\* itself, or an outer script for the same package did.
Holds(j, i) ==
    \E k \in 1..i : scripts[j][k].pkg = scripts[j][i].pkg /\ scripts[j][k].mine

\* Scripts inside the lock hold it; only the innermost script of a job is not
\* waiting for another one.
HoldInv ==
    \A j \in Jobs : \A i \in 1..Len(scripts[j]) :
        /\ scripts[j][i].mine => flock[scripts[j][i].pkg] = j
        /\ scripts[j][i].mine => scripts[j][i].at \notin {"read", "try", "wait"}
        /\ scripts[j][i].at \in LockedPlaces \union {"exit"} => Holds(j, i)
        /\ \A k \in 1..Len(scripts[j]) :
              scripts[j][i].mine /\ scripts[j][k].mine /\ scripts[j][i].pkg = scripts[j][k].pkg
                  => i = k
        /\ i < Len(scripts[j]) => scripts[j][i].at = "deps"

OwnedPlaces == {"deps", "transfer", "patch", "unlock"}

\* An owner file names a live job only while that job holds the flock and has
\* not come to remove the file.
OwnerInv ==
    \A j \in Jobs : \A p \in Packages : owner[p] = j =>
        /\ result[j] # "todo"
        /\ result[j] = "running" =>
              \E i \in 1..Len(scripts[j]) :
                  /\ scripts[j][i].pkg = p /\ scripts[j][i].mine
                  /\ scripts[j][i].at \in OwnedPlaces

\* What each script knows about PKG_BUILD of its package and of those it
\* needed unpacked.
DirInv ==
    \A j \in Jobs : \A i \in 1..Len(scripts[j]) :
        /\ scripts[j][i].at \in {"transfer", "patch"} => dir[scripts[j][i].pkg] # "unpacked"
        /\ scripts[j][i].at \in {"unlock", "exit"} => dir[scripts[j][i].pkg] = "unpacked"
        /\ scripts[j][i].at \in {"transfer", "patch", "unlock", "exit"} => scripts[j][i].rest = {}
        /\ result[j] = "running" => \A q \in UnpackDeps[scripts[j][i].pkg] \ scripts[j][i].rest :
              \/ dir[q] = "unpacked"
              \/ i < Len(scripts[j]) /\ scripts[j][i + 1].pkg = q
        /\ i = 1 => scripts[j][i].pkg = JobPkg[j]

Inv == TypeOK /\ HoldInv /\ OwnerInv /\ DirInv /\ UnpackedForUse

\* A script that has the lock has the flock, so there is one job at most.
LEMMA LockedHolds ==
    ASSUME TypeOK, HoldInv, NEW j \in Jobs, NEW i \in 1..Len(scripts[j]),
           scripts[j][i].at \in LockedPlaces \union {"exit"}
    PROVE  flock[scripts[j][i].pkg] = j
<1>1. PICK k \in 1..i : scripts[j][k].pkg = scripts[j][i].pkg /\ scripts[j][k].mine
  BY DEF HoldInv, Holds
<1>2. Len(scripts[j]) \in Nat
  BY DEF TypeOK
<1>3. k \in 1..Len(scripts[j])
  BY <1>2
<1> QED BY <1>1, <1>3 DEF HoldInv

\* The invariant implies mutual exclusion.
LEMMA InvExclusion == Inv => MutualExclusion
<1>1. ASSUME Inv, NEW j \in Jobs, NEW p \in Packages, Inside(j, p) PROVE flock[p] = j
  BY <1>1, LockedHolds DEF Inv, Inside, LockedPlaces
<1> QED BY <1>1 DEF MutualExclusion

\* The invariant holds initially.
LEMMA InvInit == Init => Inv
<1> SUFFICES ASSUME Init PROVE Inv
  OBVIOUS
<1>1. TypeOK
  BY UnpackAssumption DEF Init, TypeOK
<1>2. \A j \in Jobs : Len(scripts[j]) = 0
  BY DEF Init
<1>3. HoldInv /\ DirInv
  BY <1>2 DEF HoldInv, DirInv
<1>4. OwnerInv
  BY UnpackAssumption DEF Init, OwnerInv
<1>5. UnpackedForUse
  BY DEF Init, UnpackedForUse
<1> QED BY <1>1, <1>3, <1>4, <1>5 DEF Inv

----------------------------------------------------------------------------
(* Steps that change the innermost script of a job and nothing else about  *)
(* the scripts: a common frame for most actions.                           *)

\* The top of job j's stack becomes f.
Replaces(j, f) == scripts' = [scripts EXCEPT ![j] = Append(Below(j), f)]

\* The stacks after the top of one of them is replaced.
LEMMA ReplaceFacts ==
    ASSUME TypeOK, NEW j \in Jobs, scripts[j] # <<>>, NEW f \in ScriptSet, Replaces(j, f)
    PROVE  /\ scripts' \in [Jobs -> Seq(ScriptSet)]
           /\ Len(scripts[j]) \in Nat \ {0} /\ Top(j) \in ScriptSet
           /\ \A k \in Jobs : Len(scripts'[k]) = Len(scripts[k])
           /\ \A k \in Jobs \ {j} : scripts'[k] = scripts[k]
           /\ \A i \in 1..(Len(scripts[j]) - 1) : scripts'[j][i] = scripts[j][i]
           /\ scripts'[j][Len(scripts[j])] = f
           /\ scripts'[j] # <<>>
<1>1. scripts \in [Jobs -> Seq(ScriptSet)]
  BY DEF TypeOK
<1>2. /\ Len(scripts[j]) \in Nat \ {0} /\ Top(j) \in ScriptSet
      /\ Append(Below(j), f) \in Seq(ScriptSet)
      /\ Len(Append(Below(j), f)) = Len(scripts[j])
      /\ \A i \in 1..(Len(scripts[j]) - 1) : Append(Below(j), f)[i] = scripts[j][i]
      /\ Append(Below(j), f)[Len(scripts[j])] = f
  BY <1>1, StackFacts DEF Top, Below
<1>3. scripts'[j] = Append(Below(j), f) /\ \A k \in Jobs \ {j} : scripts'[k] = scripts[k]
  BY <1>1 DEF Replaces
<1>4. scripts' \in [Jobs -> Seq(ScriptSet)]
  BY <1>1, <1>2 DEF Replaces
<1> QED BY <1>2, <1>3, <1>4

\* Replacing the top keeps HoldInv: the lock stays with whoever has it, or
\* the job gets a free one.
LEMMA ReplaceHold ==
    ASSUME Inv, NEW j \in Jobs, scripts[j] # <<>>, NEW f \in ScriptSet, Replaces(j, f),
           f.pkg = Top(j).pkg,
           \/ /\ flock' = flock /\ f.mine = Top(j).mine
              /\ Top(j).mine => f.at \notin {"read", "try", "wait"}
              /\ f.at \in LockedPlaces \union {"exit"} =>
                   \E k \in 1..Len(scripts[j]) : scripts[j][k].pkg = f.pkg /\ scripts[j][k].mine
           \/ /\ flock[f.pkg] = NoJob /\ flock' = [flock EXCEPT ![f.pkg] = j]
              /\ f.mine /\ f.at = "claim"
    PROVE  HoldInv'
<1>1. PICK n \in Nat \ {0} : n = Len(scripts[j])
  BY ReplaceFacts DEF Inv
<1>2. /\ \A k \in Jobs : Len(scripts'[k]) = Len(scripts[k])
      /\ \A k \in Jobs \ {j} : scripts'[k] = scripts[k]
      /\ \A i \in 1..(n - 1) : scripts'[j][i] = scripts[j][i]
      /\ scripts'[j][n] = f /\ f.pkg = scripts[j][n].pkg
  BY <1>1, ReplaceFacts DEF Inv, Top
<1>3. flock \in [Packages -> Jobs \union {NoJob}] /\ NoJob \notin Jobs
  BY UnpackAssumption DEF Inv, TypeOK
<1>4. \A k \in Jobs : \A i \in 1..Len(scripts[k]) :
        scripts[k][i].mine => flock'[scripts[k][i].pkg] = k
  <2>1. ASSUME NEW k \in Jobs, NEW i \in 1..Len(scripts[k]), scripts[k][i].mine
        PROVE  flock'[scripts[k][i].pkg] = k
    <3>1. flock[scripts[k][i].pkg] = k
      BY <2>1 DEF Inv, HoldInv
    <3>2. scripts[k][i].pkg \in Packages
      <4>1. scripts[k][i] \in ScriptSet
        BY DEF Inv, TypeOK
      <4> QED BY <4>1 DEF ScriptSet
    <3> QED BY <3>1, <3>2, <1>3
  <2> QED BY <2>1
<1>11. \A i \in 1..n :
         /\ scripts[j][i].mine => scripts[j][i].at \notin {"read", "try", "wait"}
         /\ scripts[j][i].mine => flock[scripts[j][i].pkg] = j
         /\ \A k \in 1..n :
              scripts[j][i].mine /\ scripts[j][k].mine /\ scripts[j][i].pkg = scripts[j][k].pkg
                 => i = k
         /\ i < n => scripts[j][i].at = "deps"
  BY <1>1 DEF Inv, HoldInv
<1>12. n \in 1..n /\ \A i \in 1..(n - 1) : i \in 1..n /\ i # n /\ i < n
  OBVIOUS
<1>13. Top(j) = scripts[j][n]
  BY <1>1 DEF Top
<1>5. f.mine => flock'[f.pkg] = j /\ f.at \notin {"read", "try", "wait"}
  <2>1. CASE flock' = flock /\ f.mine = Top(j).mine /\ (Top(j).mine => f.at \notin {"read", "try", "wait"})
    BY <2>1, <1>2, <1>11, <1>12, <1>13
  <2>2. CASE flock' = [flock EXCEPT ![f.pkg] = j]
    BY <2>2, <1>3 DEF ScriptSet
  <2> QED BY <2>1, <2>2
<1>6. \A i \in 1..(n - 1) : f.mine /\ scripts[j][i].mine => scripts[j][i].pkg # f.pkg
  <2>1. CASE f.mine = Top(j).mine
    BY <2>1, <1>2, <1>11, <1>12, <1>13
  <2>2. CASE flock[f.pkg] = NoJob
    BY <2>2, <1>3, <1>11, <1>12
  <2> QED BY <2>1, <2>2
<1>7. ASSUME NEW i \in 1..(n - 1), scripts[j][i].at \in LockedPlaces \union {"exit"}
      PROVE  \E k \in 1..i : scripts'[j][k].pkg = scripts'[j][i].pkg /\ scripts'[j][k].mine
  <2>1. PICK k \in 1..i : scripts[j][k].pkg = scripts[j][i].pkg /\ scripts[j][k].mine
    BY <1>1, <1>7 DEF Inv, HoldInv, Holds
  <2>2. k \in 1..(n - 1)
    OBVIOUS
  <2> QED BY <2>1, <2>2, <1>2
<1>8. f.at \in LockedPlaces \union {"exit"} =>
        \E k \in 1..n : scripts'[j][k].pkg = f.pkg /\ scripts'[j][k].mine
  <2>1. CASE f.mine
    BY <2>1, <1>2
  <2>2. CASE ~f.mine /\ f.at \in LockedPlaces \union {"exit"}
    <3>1. PICK k \in 1..n : scripts[j][k].pkg = f.pkg /\ scripts[j][k].mine
      BY <2>2, <1>1
    <3>2. k # n
      BY <2>2, <3>1, <1>1 DEF Top
    <3> QED BY <3>1, <3>2, <1>2
  <2> QED BY <2>1, <2>2
<1>9. ASSUME NEW i \in 1..n
      PROVE  /\ scripts'[j][i].mine => flock'[scripts'[j][i].pkg] = j
             /\ scripts'[j][i].mine => scripts'[j][i].at \notin {"read", "try", "wait"}
             /\ scripts'[j][i].at \in LockedPlaces \union {"exit"} =>
                  \E k \in 1..i : scripts'[j][k].pkg = scripts'[j][i].pkg /\ scripts'[j][k].mine
             /\ \A k \in 1..n :
                  scripts'[j][i].mine /\ scripts'[j][k].mine /\ scripts'[j][i].pkg = scripts'[j][k].pkg
                     => i = k
             /\ i < n => scripts'[j][i].at = "deps"
  <2>1. CASE i = n
    <3>1. \A k \in 1..n : f.mine /\ scripts'[j][k].mine /\ f.pkg = scripts'[j][k].pkg => n = k
      BY <1>2, <1>6
    <3> QED BY <2>1, <3>1, <1>2, <1>5, <1>8
  <2>2. CASE i \in 1..(n - 1)
    <3>1. /\ scripts[j][i].mine => flock'[scripts[j][i].pkg] = j
          /\ scripts[j][i].mine => scripts[j][i].at \notin {"read", "try", "wait"}
          /\ scripts[j][i].at = "deps"
          /\ \A k \in 1..n :
               scripts[j][i].mine /\ scripts[j][k].mine /\ scripts[j][i].pkg = scripts[j][k].pkg
                  => i = k
      BY <2>2, <1>1, <1>4 DEF Inv, HoldInv
    <3>2. \A k \in 1..n :
               scripts'[j][i].mine /\ scripts'[j][k].mine /\ scripts'[j][i].pkg = scripts'[j][k].pkg
                  => i = k
      <4> SUFFICES ASSUME NEW k \in 1..n, scripts'[j][i].mine, scripts'[j][k].mine,
                          scripts'[j][i].pkg = scripts'[j][k].pkg
                   PROVE  i = k
        OBVIOUS
      <4>1. CASE k = n
        BY <2>2, <4>1, <1>2, <1>6
      <4>2. CASE k \in 1..(n - 1)
        BY <2>2, <4>2, <3>1, <1>2
      <4> QED BY <4>1, <4>2
    <3> QED BY <2>2, <3>1, <3>2, <1>2, <1>7
  <2> QED BY <2>1, <2>2
<1>10. ASSUME NEW k \in Jobs, NEW i \in 1..Len(scripts'[k])
       PROVE  /\ scripts'[k][i].mine => flock'[scripts'[k][i].pkg] = k
              /\ scripts'[k][i].mine => scripts'[k][i].at \notin {"read", "try", "wait"}
              /\ scripts'[k][i].at \in LockedPlaces \union {"exit"} =>
                   \E h \in 1..i : scripts'[k][h].pkg = scripts'[k][i].pkg /\ scripts'[k][h].mine
              /\ \A h \in 1..Len(scripts'[k]) :
                   scripts'[k][i].mine /\ scripts'[k][h].mine /\ scripts'[k][i].pkg = scripts'[k][h].pkg
                      => i = h
              /\ i < Len(scripts'[k]) => scripts'[k][i].at = "deps"
  <2>1. CASE k = j
    BY <2>1, <1>1, <1>2, <1>9
  <2>2. CASE k # j
    <3>1. scripts'[k] = scripts[k]
      BY <2>2, <1>2
    <3> QED BY <3>1, <1>4 DEF Inv, HoldInv, Holds
  <2> QED BY <2>1, <2>2
<1> QED BY <1>10 DEF HoldInv, Holds

\* Replacing the top keeps OwnerInv: no owner file changes, and the script
\* does not leave the places where it owns one.
LEMMA ReplaceOwner ==
    ASSUME Inv, NEW j \in Jobs, scripts[j] # <<>>, NEW f \in ScriptSet, Replaces(j, f),
           f.pkg = Top(j).pkg, owner' = owner, result' = result,
           Top(j).mine /\ Top(j).at \in OwnedPlaces => f.mine /\ f.at \in OwnedPlaces
    PROVE  OwnerInv'
<1>1. PICK n \in Nat \ {0} : n = Len(scripts[j])
  BY ReplaceFacts DEF Inv
<1>2. /\ \A k \in Jobs : Len(scripts'[k]) = Len(scripts[k])
      /\ \A k \in Jobs \ {j} : scripts'[k] = scripts[k]
      /\ \A i \in 1..(n - 1) : scripts'[j][i] = scripts[j][i]
      /\ scripts'[j][n] = f /\ Top(j) = scripts[j][n]
  BY <1>1, ReplaceFacts DEF Inv, Top
<1> SUFFICES ASSUME NEW k \in Jobs, NEW p \in Packages, owner[p] = k, result[k] = "running"
             PROVE  \E i \in 1..Len(scripts'[k]) :
                       /\ scripts'[k][i].pkg = p /\ scripts'[k][i].mine
                       /\ scripts'[k][i].at \in OwnedPlaces
  BY DEF OwnerInv, Inv
<1>3. PICK i \in 1..Len(scripts[k]) :
        /\ scripts[k][i].pkg = p /\ scripts[k][i].mine
        /\ scripts[k][i].at \in OwnedPlaces
  BY DEF OwnerInv, Inv
<1>4. CASE k = j /\ i = n
  BY <1>1, <1>2, <1>3, <1>4
<1>5. CASE k = j /\ i # n
  BY <1>1, <1>2, <1>3, <1>5
<1>6. CASE k # j
  BY <1>2, <1>3, <1>6
<1> QED BY <1>4, <1>5, <1>6

\* Replacing the top keeps DirInv: only the holder of the flock changes what
\* is in PKG_BUILD, and never takes away what is unpacked.
LEMMA ReplaceDir ==
    ASSUME Inv, NEW j \in Jobs, scripts[j] # <<>>, NEW f \in ScriptSet, Replaces(j, f),
           f.pkg = Top(j).pkg, f.rest = Top(j).rest, result' = result,
           dir' = dir \/ flock[f.pkg] = j,
           \A q \in Packages : dir[q] = "unpacked" => dir'[q] = "unpacked",
           \A q \in Packages \ {f.pkg} : dir'[q] = dir[q],
           f.at \in {"transfer", "patch"} => dir'[f.pkg] # "unpacked",
           f.at \in {"unlock", "exit"} => dir'[f.pkg] = "unpacked",
           f.at \in {"transfer", "patch", "unlock", "exit"} => f.rest = {}
    PROVE  DirInv' /\ UnpackedForUse'
<1>1. PICK n \in Nat \ {0} : n = Len(scripts[j])
  BY ReplaceFacts DEF Inv
<1>2. /\ \A k \in Jobs : Len(scripts'[k]) = Len(scripts[k])
      /\ \A k \in Jobs \ {j} : scripts'[k] = scripts[k]
      /\ \A i \in 1..(n - 1) : scripts'[j][i] = scripts[j][i]
      /\ scripts'[j][n] = f /\ Top(j) = scripts[j][n]
  BY <1>1, ReplaceFacts DEF Inv, Top
<1>3. /\ UnpackDeps \in [Packages -> SUBSET Packages] /\ JobPkg \in [Jobs -> Packages]
      /\ \A k \in Jobs : \A i \in 1..Len(scripts[k]) : scripts[k][i] \in ScriptSet
  BY UnpackAssumption DEF Inv, TypeOK
<1>4. UnpackedForUse'
  BY <1>3 DEF Inv, UnpackedForUse
<1>5. ASSUME NEW i \in 1..n
      PROVE  /\ scripts'[j][i].at \in {"transfer", "patch"} => dir'[scripts'[j][i].pkg] # "unpacked"
             /\ scripts'[j][i].at \in {"unlock", "exit"} => dir'[scripts'[j][i].pkg] = "unpacked"
             /\ scripts'[j][i].at \in {"transfer", "patch", "unlock", "exit"} => scripts'[j][i].rest = {}
             /\ result[j] = "running" => \A q \in UnpackDeps[scripts'[j][i].pkg] \ scripts'[j][i].rest :
                   \/ dir'[q] = "unpacked"
                   \/ i < n /\ scripts'[j][i + 1].pkg = q
             /\ i = 1 => scripts'[j][i].pkg = JobPkg[j]
  <2>1. /\ result[j] = "running" => \A q \in UnpackDeps[scripts[j][i].pkg] \ scripts[j][i].rest :
              \/ dir[q] = "unpacked"
              \/ i < n /\ scripts[j][i + 1].pkg = q
        /\ i = 1 => scripts[j][i].pkg = JobPkg[j]
        /\ i < n => scripts[j][i].at = "deps"
    BY <1>1 DEF Inv, DirInv, HoldInv
  <2>2. scripts'[j][i].pkg = scripts[j][i].pkg /\ scripts'[j][i].rest = scripts[j][i].rest
    BY <1>2
  <2>3. i < n => scripts'[j][i + 1].pkg = scripts[j][i + 1].pkg
    BY <1>2
  <2>4. UnpackDeps[scripts[j][i].pkg] \subseteq Packages
    BY <1>1, <1>3 DEF ScriptSet
  <2>5. result[j] = "running" => \A q \in UnpackDeps[scripts'[j][i].pkg] \ scripts'[j][i].rest :
                   \/ dir'[q] = "unpacked"
                   \/ i < n /\ scripts'[j][i + 1].pkg = q
    BY <2>1, <2>2, <2>3, <2>4
  <2>6. CASE i = n
    BY <2>1, <2>2, <2>5, <2>6, <1>2
  <2>7. CASE i < n
    BY <2>1, <2>2, <2>5, <2>7, <1>2
  <2> QED BY <2>6, <2>7
<1>6. ASSUME NEW k \in Jobs \ {j}, NEW i \in 1..Len(scripts[k])
      PROVE  /\ scripts[k][i].at \in {"transfer", "patch"} => dir'[scripts[k][i].pkg] # "unpacked"
             /\ scripts[k][i].at \in {"unlock", "exit"} => dir'[scripts[k][i].pkg] = "unpacked"
             /\ scripts[k][i].at \in {"transfer", "patch", "unlock", "exit"} => scripts[k][i].rest = {}
             /\ result[k] = "running" => \A q \in UnpackDeps[scripts[k][i].pkg] \ scripts[k][i].rest :
                   \/ dir'[q] = "unpacked"
                   \/ i < Len(scripts[k]) /\ scripts[k][i + 1].pkg = q
             /\ i = 1 => scripts[k][i].pkg = JobPkg[k]
  <2>1. /\ scripts[k][i].at \in {"transfer", "patch"} => dir[scripts[k][i].pkg] # "unpacked"
        /\ scripts[k][i].at \in {"unlock", "exit"} => dir[scripts[k][i].pkg] = "unpacked"
        /\ scripts[k][i].at \in {"transfer", "patch", "unlock", "exit"} => scripts[k][i].rest = {}
        /\ result[k] = "running" => \A q \in UnpackDeps[scripts[k][i].pkg] \ scripts[k][i].rest :
              \/ dir[q] = "unpacked"
              \/ i < Len(scripts[k]) /\ scripts[k][i + 1].pkg = q
        /\ i = 1 => scripts[k][i].pkg = JobPkg[k]
    BY DEF Inv, DirInv
  <2>2. scripts[k][i].pkg \in Packages /\ UnpackDeps[scripts[k][i].pkg] \subseteq Packages
    BY <1>3 DEF ScriptSet
  <2>3. scripts[k][i].at \in {"transfer", "patch"} => dir'[scripts[k][i].pkg] # "unpacked"
    <3>1. scripts[k][i].at \in {"transfer", "patch"} => flock[scripts[k][i].pkg] = k
      BY LockedHolds DEF Inv, LockedPlaces
    <3> QED BY <3>1, <2>1, <2>2
  <2> QED BY <2>1, <2>2, <2>3
<1>7. DirInv'
  BY <1>1, <1>2, <1>5, <1>6 DEF DirInv
<1> QED BY <1>4, <1>7

----------------------------------------------------------------------------
(* One lemma per action.                                                   *)

\* Some facts about a running script, used by every action.
LEMMA TopFacts ==
    ASSUME TypeOK, NEW j \in Jobs, scripts[j] # <<>>
    PROVE  /\ Top(j) \in ScriptSet /\ Len(scripts[j]) \in Nat \ {0}
           /\ Top(j) = scripts[j][Len(scripts[j])]
           /\ Top(j).pkg \in Packages
<1>1. scripts[j] \in Seq(ScriptSet) /\ Len(scripts[j]) \in Nat \ {0}
  BY DEF TypeOK
<1>2. Top(j) \in ScriptSet
  BY <1>1 DEF Top
<1> QED BY <1>1, <1>2 DEF ScriptSet, Top

\* The type invariant after the top of a running job's stack is replaced.
LEMMA ReplaceType ==
    ASSUME Inv, NEW j \in Jobs, scripts[j] # <<>>, NEW f \in ScriptSet, Replaces(j, f),
           builds' = builds, failures' = failures, result' = result,
           flock' \in [Packages -> Jobs \union {NoJob}],
           owner' \in [Packages -> Jobs \union {NoJob}],
           dir' \in [Packages -> {"absent", "partial", "stale", "unpacked"}]
    PROVE  TypeOK'
<1>1. /\ scripts' \in [Jobs -> Seq(ScriptSet)] /\ scripts'[j] # <<>>
      /\ \A k \in Jobs \ {j} : scripts'[k] = scripts[k]
  BY ReplaceFacts DEF Inv
<1> QED BY <1>1 DEF Inv, TypeOK

\* pkg_lock reads the owner file; only a job that has the lock finds itself.
LEMMA ReadOwnerInv == ASSUME Inv, NEW j \in Jobs, ReadOwner(j) PROVE Inv'
<1>1. /\ scripts[j] # <<>> /\ Top(j).at = "read" /\ result[j] = "running"
      /\ builds' = builds /\ failures' = failures /\ result' = result
      /\ flock' = flock /\ owner' = owner /\ dir' = dir
  BY DEF ReadOwner, At
<1>2. /\ Top(j) \in ScriptSet /\ Top(j).pkg \in Packages
      /\ Top(j) = scripts[j][Len(scripts[j])] /\ Len(scripts[j]) \in 1..Len(scripts[j])
  BY <1>1, TopFacts DEF Inv
<1>3. ~Top(j).mine
  BY <1>1, <1>2 DEF Inv, HoldInv
<1>4. PICK place \in {"try", "claim", "wait"} :
        /\ GoTo(j, place)
        /\ place = "claim" => owner[Top(j).pkg] = j
  BY DEF ReadOwner, AssumesHeld
<1>5. PICK f : f = [Top(j) EXCEPT !.at = place]
  OBVIOUS
<1>6. /\ f \in ScriptSet /\ f.pkg = Top(j).pkg /\ f.at = place
      /\ f.mine = Top(j).mine /\ f.rest = Top(j).rest
  BY <1>2, <1>5 DEF ScriptSet
<1>7. Replaces(j, f)
  BY <1>4, <1>5 DEF GoTo, Replaces
<1>8. TypeOK'
  <2>1. TypeOK
    BY DEF Inv
  <2> QED BY <2>1, <1>1, <1>6, <1>7, ReplaceType DEF TypeOK
<1>9. place = "claim" =>
        \E k \in 1..Len(scripts[j]) : scripts[j][k].pkg = f.pkg /\ scripts[j][k].mine
  BY <1>1, <1>2, <1>4, <1>6 DEF Inv, OwnerInv
<1>10. HoldInv'
  BY <1>1, <1>3, <1>6, <1>7, <1>9, ReplaceHold DEF LockedPlaces
<1>11. OwnerInv'
  BY <1>1, <1>3, <1>6, <1>7, ReplaceOwner
<1>12. DirInv' /\ UnpackedForUse'
  BY <1>1, <1>2, <1>6, <1>7, ReplaceDir
<1> QED BY <1>8, <1>10, <1>11, <1>12 DEF Inv

\* flock gives a free lock to the job that waits for it.
LEMMA GetFlockInv == ASSUME Inv, NEW j \in Jobs, GetFlock(j) PROVE Inv'
<1>1. /\ scripts[j] # <<>> /\ Top(j).at \in {"try", "wait"}
      /\ builds' = builds /\ failures' = failures /\ result' = result
      /\ owner' = owner /\ dir' = dir
      /\ flock[Top(j).pkg] = NoJob /\ flock' = [flock EXCEPT ![Top(j).pkg] = j]
  BY DEF GetFlock, At
<1>2. /\ Top(j) \in ScriptSet /\ Top(j).pkg \in Packages
  BY <1>1, TopFacts DEF Inv
<1>3. PICK f : f = [Top(j) EXCEPT !.at = "claim", !.mine = TRUE]
  OBVIOUS
<1>4. /\ f \in ScriptSet /\ f.pkg = Top(j).pkg /\ f.at = "claim"
      /\ f.mine /\ f.rest = Top(j).rest
  BY <1>2, <1>3 DEF ScriptSet
<1>5. Replaces(j, f)
  BY <1>3 DEF GetFlock, Replaces
<1>6. TypeOK'
  <2>1. flock' \in [Packages -> Jobs \union {NoJob}]
    BY <1>1, <1>2 DEF Inv, TypeOK
  <2>2. TypeOK
    BY DEF Inv
  <2> QED BY <2>1, <2>2, <1>1, <1>4, <1>5, ReplaceType DEF TypeOK
<1>7. HoldInv'
  BY <1>1, <1>4, <1>5, ReplaceHold
<1>8. OwnerInv'
  BY <1>1, <1>4, <1>5, ReplaceOwner DEF OwnedPlaces
<1>9. DirInv' /\ UnpackedForUse'
  BY <1>1, <1>2, <1>4, <1>5, ReplaceDir
<1> QED BY <1>6, <1>7, <1>8, <1>9 DEF Inv

\* flock gives up, and the owner file is read again.
LEMMA TimeoutInv == ASSUME Inv, NEW j \in Jobs, Timeout(j) PROVE Inv'
<1>1. /\ scripts[j] # <<>> /\ Top(j).at = "try" /\ GoTo(j, "read")
      /\ builds' = builds /\ failures' = failures /\ result' = result
      /\ flock' = flock /\ owner' = owner /\ dir' = dir
  BY DEF Timeout, At
<1>2. /\ Top(j) \in ScriptSet /\ Top(j).pkg \in Packages
      /\ Top(j) = scripts[j][Len(scripts[j])] /\ Len(scripts[j]) \in 1..Len(scripts[j])
  BY <1>1, TopFacts DEF Inv
<1>3. ~Top(j).mine
  BY <1>1, <1>2 DEF Inv, HoldInv
<1>4. PICK f : f = [Top(j) EXCEPT !.at = "read"]
  OBVIOUS
<1>5. /\ f \in ScriptSet /\ f.pkg = Top(j).pkg /\ f.at = "read"
      /\ f.mine = Top(j).mine /\ f.rest = Top(j).rest
  BY <1>2, <1>4 DEF ScriptSet
<1>6. Replaces(j, f)
  BY <1>1, <1>4 DEF GoTo, Replaces
<1>7. TypeOK'
  <2>1. TypeOK
    BY DEF Inv
  <2> QED BY <2>1, <1>1, <1>5, <1>6, ReplaceType DEF TypeOK
<1>8. HoldInv'
  BY <1>1, <1>3, <1>5, <1>6, ReplaceHold DEF LockedPlaces
<1>9. OwnerInv'
  BY <1>1, <1>3, <1>5, <1>6, ReplaceOwner
<1>10. DirInv' /\ UnpackedForUse'
  BY <1>1, <1>2, <1>5, <1>6, ReplaceDir
<1> QED BY <1>7, <1>8, <1>9, <1>10 DEF Inv

\* The holder writes its name to the owner file.
LEMMA ClaimInv == ASSUME Inv, NEW j \in Jobs, Claim(j) PROVE Inv'
<1>1. /\ scripts[j] # <<>> /\ Top(j).at = "claim" /\ GoTo(j, "deps") /\ result[j] = "running"
      /\ builds' = builds /\ failures' = failures /\ result' = result
      /\ flock' = flock /\ dir' = dir
      /\ owner' = [owner EXCEPT ![Top(j).pkg] = j]
  BY DEF Claim, At, ClaimedBy
<1>2. PICK n \in Nat \ {0} : n = Len(scripts[j])
  BY <1>1, TopFacts DEF Inv
<1>3. Top(j) \in ScriptSet /\ Top(j).pkg \in Packages /\ Top(j) = scripts[j][n]
  BY <1>1, <1>2, TopFacts DEF Inv
<1>4. PICK k \in 1..n : scripts[j][k].pkg = Top(j).pkg /\ scripts[j][k].mine
  BY <1>1, <1>2, <1>3 DEF Inv, HoldInv, Holds, LockedPlaces
<1>5. PICK f : f = [Top(j) EXCEPT !.at = "deps"]
  OBVIOUS
<1>6. /\ f \in ScriptSet /\ f.pkg = Top(j).pkg /\ f.at = "deps"
      /\ f.mine = Top(j).mine /\ f.rest = Top(j).rest
  BY <1>3, <1>5 DEF ScriptSet
<1>7. Replaces(j, f)
  BY <1>1, <1>5 DEF GoTo, Replaces
<1>8. /\ Len(scripts'[j]) = n /\ scripts'[j][n] = f
      /\ \A i \in 1..(n - 1) : scripts'[j][i] = scripts[j][i]
      /\ \A h \in Jobs \ {j} : scripts'[h] = scripts[h]
  BY <1>1, <1>2, <1>6, <1>7, ReplaceFacts DEF Inv
<1>9. owner' \in [Packages -> Jobs \union {NoJob}] /\ owner \in [Packages -> Jobs \union {NoJob}]
  BY <1>1, <1>3 DEF Inv, TypeOK
<1>10. TypeOK'
  <2>1. TypeOK
    BY DEF Inv
  <2> QED BY <2>1, <1>1, <1>6, <1>7, <1>9, ReplaceType DEF TypeOK
<1>11. HoldInv'
  BY <1>1, <1>2, <1>4, <1>6, <1>7, ReplaceHold
<1>12. OwnerInv'
  <2> SUFFICES ASSUME NEW h \in Jobs, NEW p \in Packages, owner'[p] = h
               PROVE  /\ result[h] # "todo"
                      /\ result[h] = "running" =>
                           \E i \in 1..Len(scripts'[h]) :
                              /\ scripts'[h][i].pkg = p /\ scripts'[h][i].mine
                              /\ scripts'[h][i].at \in OwnedPlaces
    BY <1>1 DEF OwnerInv
  <2>1. CASE p = Top(j).pkg
    <3>1. h = j
      BY <2>1, <1>1, <1>9
    <3>2. scripts'[j][k].pkg = p /\ scripts'[j][k].mine /\ scripts'[j][k].at = "deps"
      <4>1. CASE k = n
        BY <2>1, <4>1, <1>3, <1>4, <1>6, <1>8
      <4>2. CASE k # n
        <5>1. scripts[j][k].at = "deps" /\ k \in 1..(n - 1)
          BY <4>2, <1>2 DEF Inv, HoldInv
        <5> QED BY <5>1, <2>1, <1>4, <1>8
      <4> QED BY <4>1, <4>2
    <3> QED BY <3>1, <3>2, <1>1, <1>8 DEF OwnedPlaces
  <2>2. CASE p # Top(j).pkg
    <3>1. owner[p] = h
      BY <2>2, <1>1, <1>9
    <3>2. result[h] # "todo"
      BY <3>1 DEF Inv, OwnerInv
    <3>3. ASSUME result[h] = "running"
          PROVE  \E i \in 1..Len(scripts'[h]) :
                    /\ scripts'[h][i].pkg = p /\ scripts'[h][i].mine
                    /\ scripts'[h][i].at \in OwnedPlaces
      <4>1. PICK i \in 1..Len(scripts[h]) :
              /\ scripts[h][i].pkg = p /\ scripts[h][i].mine
              /\ scripts[h][i].at \in OwnedPlaces
        BY <3>1, <3>3 DEF Inv, OwnerInv
      <4>2. CASE h = j
        <5>1. i \in 1..(n - 1)
          BY <4>1, <4>2, <2>2, <1>2, <1>3
        <5> QED BY <5>1, <4>1, <4>2, <1>8
      <4>3. CASE h # j
        BY <4>1, <4>3, <1>8
      <4> QED BY <4>2, <4>3
    <3> QED BY <3>2, <3>3
  <2> QED BY <2>1, <2>2
<1>13. DirInv' /\ UnpackedForUse'
  BY <1>1, <1>3, <1>6, <1>7, ReplaceDir
<1> QED BY <1>10, <1>11, <1>12, <1>13 DEF Inv

\* The sources of a package that is not unpacked are moved into place.
LEMMA TransferInv == ASSUME Inv, NEW j \in Jobs, Transfer(j) PROVE Inv'
<1>1. /\ scripts[j] # <<>> /\ Top(j).at = "transfer" /\ GoTo(j, "patch")
      /\ builds' = builds /\ failures' = failures /\ result' = result
      /\ flock' = flock /\ owner' = owner
      /\ dir' = [dir EXCEPT ![Top(j).pkg] = "partial"]
  BY DEF Transfer, At
<1>2. PICK n \in Nat \ {0} : n = Len(scripts[j])
  BY <1>1, TopFacts DEF Inv
<1>3. Top(j) \in ScriptSet /\ Top(j).pkg \in Packages /\ Top(j) = scripts[j][n]
  BY <1>1, <1>2, TopFacts DEF Inv
<1>4. PICK k \in 1..n : scripts[j][k].pkg = Top(j).pkg /\ scripts[j][k].mine
  BY <1>1, <1>2, <1>3 DEF Inv, HoldInv, Holds, LockedPlaces
<1>5. /\ flock[Top(j).pkg] = j
      /\ Top(j).at = "transfer" => dir[Top(j).pkg] # "unpacked"
      /\ Top(j).at \in {"transfer", "patch"} => Top(j).rest = {}
  BY <1>2, <1>3, <1>4 DEF Inv, HoldInv, DirInv
<1>6. PICK f : f = [Top(j) EXCEPT !.at = "patch"]
  OBVIOUS
<1>7. /\ f \in ScriptSet /\ f.pkg = Top(j).pkg /\ f.at = "patch"
      /\ f.mine = Top(j).mine /\ f.rest = Top(j).rest
  BY <1>3, <1>6 DEF ScriptSet
<1>8. Replaces(j, f)
  BY <1>1, <1>6 DEF GoTo, Replaces
<1>9. dir \in [Packages -> {"absent", "partial", "stale", "unpacked"}]
  BY DEF Inv, TypeOK
<1>10. TypeOK'
  <2>1. TypeOK
    BY DEF Inv
  <2>2. dir' \in [Packages -> {"absent", "partial", "stale", "unpacked"}]
    BY <1>1, <1>3, <1>9
  <2> QED BY <2>1, <2>2, <1>1, <1>7, <1>8, ReplaceType DEF TypeOK
<1>11. HoldInv'
  BY <1>1, <1>2, <1>4, <1>7, <1>8, ReplaceHold
<1>12. OwnerInv'
  BY <1>1, <1>7, <1>8, ReplaceOwner DEF OwnedPlaces
<1>13. /\ \A q \in Packages : dir[q] = "unpacked" => dir'[q] = "unpacked"
       /\ \A q \in Packages \ {f.pkg} : dir'[q] = dir[q]
       /\ dir'[f.pkg] = "partial"
  BY <1>1, <1>3, <1>5, <1>7, <1>9
<1>14. DirInv' /\ UnpackedForUse'
  BY <1>1, <1>3, <1>5, <1>7, <1>8, <1>13, ReplaceDir
<1> QED BY <1>10, <1>11, <1>12, <1>14 DEF Inv

\* The stamp makes the package unpacked.
LEMMA WriteStampInv == ASSUME Inv, NEW j \in Jobs, WriteStamp(j) PROVE Inv'
<1>1. /\ scripts[j] # <<>> /\ Top(j).at = "patch" /\ GoTo(j, "unlock")
      /\ builds' = builds /\ failures' = failures /\ result' = result
      /\ flock' = flock /\ owner' = owner
      /\ dir' = [dir EXCEPT ![Top(j).pkg] = "unpacked"]
  BY DEF WriteStamp, At
<1>2. PICK n \in Nat \ {0} : n = Len(scripts[j])
  BY <1>1, TopFacts DEF Inv
<1>3. Top(j) \in ScriptSet /\ Top(j).pkg \in Packages /\ Top(j) = scripts[j][n]
  BY <1>1, <1>2, TopFacts DEF Inv
<1>4. PICK k \in 1..n : scripts[j][k].pkg = Top(j).pkg /\ scripts[j][k].mine
  BY <1>1, <1>2, <1>3 DEF Inv, HoldInv, Holds, LockedPlaces
<1>5. /\ flock[Top(j).pkg] = j
      /\ Top(j).at = "transfer" => dir[Top(j).pkg] # "unpacked"
      /\ Top(j).at \in {"transfer", "patch"} => Top(j).rest = {}
  BY <1>2, <1>3, <1>4 DEF Inv, HoldInv, DirInv
<1>6. PICK f : f = [Top(j) EXCEPT !.at = "unlock"]
  OBVIOUS
<1>7. /\ f \in ScriptSet /\ f.pkg = Top(j).pkg /\ f.at = "unlock"
      /\ f.mine = Top(j).mine /\ f.rest = Top(j).rest
  BY <1>3, <1>6 DEF ScriptSet
<1>8. Replaces(j, f)
  BY <1>1, <1>6 DEF GoTo, Replaces
<1>9. dir \in [Packages -> {"absent", "partial", "stale", "unpacked"}]
  BY DEF Inv, TypeOK
<1>10. TypeOK'
  <2>1. TypeOK
    BY DEF Inv
  <2>2. dir' \in [Packages -> {"absent", "partial", "stale", "unpacked"}]
    BY <1>1, <1>3, <1>9
  <2> QED BY <2>1, <2>2, <1>1, <1>7, <1>8, ReplaceType DEF TypeOK
<1>11. HoldInv'
  BY <1>1, <1>2, <1>4, <1>7, <1>8, ReplaceHold
<1>12. OwnerInv'
  BY <1>1, <1>7, <1>8, ReplaceOwner DEF OwnedPlaces
<1>13. /\ \A q \in Packages : dir[q] = "unpacked" => dir'[q] = "unpacked"
       /\ \A q \in Packages \ {f.pkg} : dir'[q] = dir[q]
       /\ dir'[f.pkg] = "unpacked"
  BY <1>1, <1>3, <1>5, <1>7, <1>9
<1>14. DirInv' /\ UnpackedForUse'
  BY <1>1, <1>3, <1>5, <1>7, <1>8, <1>13, ReplaceDir
<1> QED BY <1>10, <1>11, <1>12, <1>14 DEF Inv

\* A current stamp is kept, anything else is cleaned.
LEMMA CheckStampInv == ASSUME Inv, NEW j \in Jobs, CheckStamp(j) PROVE Inv'
<1>1. /\ scripts[j] # <<>> /\ Top(j).at = "deps" /\ Top(j).rest = {}
      /\ builds' = builds /\ failures' = failures /\ result' = result
      /\ flock' = flock /\ owner' = owner
  BY DEF CheckStamp, At
<1>2. PICK n \in Nat \ {0} : n = Len(scripts[j])
  BY <1>1, TopFacts DEF Inv
<1>3. Top(j) \in ScriptSet /\ Top(j).pkg \in Packages /\ Top(j) = scripts[j][n]
  BY <1>1, <1>2, TopFacts DEF Inv
<1>4. PICK k \in 1..n : scripts[j][k].pkg = Top(j).pkg /\ scripts[j][k].mine
  BY <1>1, <1>2, <1>3 DEF Inv, HoldInv, Holds, LockedPlaces
<1>5. flock[Top(j).pkg] = j
  BY <1>2, <1>3, <1>4 DEF Inv, HoldInv
<1>6. PICK place \in {"unlock", "transfer"} :
        /\ GoTo(j, place)
        /\ place = "unlock" => dir[Top(j).pkg] = "unpacked" /\ dir' = dir
        /\ place = "transfer" =>
             dir[Top(j).pkg] # "unpacked" /\ dir' = [dir EXCEPT ![Top(j).pkg] = "absent"]
  BY DEF CheckStamp, NothingToDo
<1>7. PICK f : f = [Top(j) EXCEPT !.at = place]
  OBVIOUS
<1>8. /\ f \in ScriptSet /\ f.pkg = Top(j).pkg /\ f.at = place
      /\ f.mine = Top(j).mine /\ f.rest = Top(j).rest
  BY <1>3, <1>7 DEF ScriptSet
<1>9. Replaces(j, f)
  BY <1>6, <1>7 DEF GoTo, Replaces
<1>10. /\ dir \in [Packages -> {"absent", "partial", "stale", "unpacked"}]
       /\ dir' \in [Packages -> {"absent", "partial", "stale", "unpacked"}]
  BY <1>3, <1>6 DEF Inv, TypeOK
<1>11. TypeOK'
  <2>1. TypeOK
    BY DEF Inv
  <2> QED BY <2>1, <1>1, <1>8, <1>9, <1>10, ReplaceType DEF TypeOK
<1>12. HoldInv'
  BY <1>1, <1>2, <1>4, <1>8, <1>9, ReplaceHold
<1>13. OwnerInv'
  BY <1>1, <1>8, <1>9, ReplaceOwner DEF OwnedPlaces
<1>14. /\ \A q \in Packages : dir[q] = "unpacked" => dir'[q] = "unpacked"
       /\ \A q \in Packages \ {f.pkg} : dir'[q] = dir[q]
       /\ place = "unlock" => dir'[f.pkg] = "unpacked"
       /\ place = "transfer" => dir'[f.pkg] = "absent"
  BY <1>3, <1>6, <1>8, <1>10
<1>15. DirInv' /\ UnpackedForUse'
  BY <1>1, <1>3, <1>5, <1>8, <1>9, <1>14, ReplaceDir
<1> QED BY <1>11, <1>12, <1>13, <1>15 DEF Inv

\* The owner file is removed while the flock is still held.
LEMMA UnlockInv == ASSUME Inv, NEW j \in Jobs, Unlock(j) PROVE Inv'
<1>1. /\ scripts[j] # <<>> /\ Top(j).at = "unlock" /\ GoTo(j, "exit") /\ result[j] = "running"
      /\ builds' = builds /\ failures' = failures /\ result' = result
      /\ flock' = flock /\ dir' = dir
      /\ owner' = [owner EXCEPT ![Top(j).pkg] = NoJob]
  BY DEF Unlock, At
<1>2. PICK n \in Nat \ {0} : n = Len(scripts[j])
  BY <1>1, TopFacts DEF Inv
<1>3. Top(j) \in ScriptSet /\ Top(j).pkg \in Packages /\ Top(j) = scripts[j][n]
  BY <1>1, <1>2, TopFacts DEF Inv
<1>4. PICK k \in 1..n : scripts[j][k].pkg = Top(j).pkg /\ scripts[j][k].mine
  BY <1>1, <1>2, <1>3 DEF Inv, HoldInv, Holds, LockedPlaces
<1>5. dir[Top(j).pkg] = "unpacked" /\ Top(j).rest = {}
  BY <1>1, <1>2, <1>3 DEF Inv, DirInv
<1>6. PICK f : f = [Top(j) EXCEPT !.at = "exit"]
  OBVIOUS
<1>7. /\ f \in ScriptSet /\ f.pkg = Top(j).pkg /\ f.at = "exit"
      /\ f.mine = Top(j).mine /\ f.rest = Top(j).rest
  BY <1>3, <1>6 DEF ScriptSet
<1>8. Replaces(j, f)
  BY <1>1, <1>6 DEF GoTo, Replaces
<1>9. /\ Len(scripts'[j]) = n /\ scripts'[j][n] = f
      /\ \A i \in 1..(n - 1) : scripts'[j][i] = scripts[j][i]
      /\ \A h \in Jobs \ {j} : scripts'[h] = scripts[h]
  BY <1>1, <1>2, <1>7, <1>8, ReplaceFacts DEF Inv
<1>10. /\ owner' \in [Packages -> Jobs \union {NoJob}]
       /\ owner \in [Packages -> Jobs \union {NoJob}] /\ NoJob \notin Jobs
  BY <1>1, <1>3, UnpackAssumption DEF Inv, TypeOK
<1>11. TypeOK'
  <2>1. TypeOK
    BY DEF Inv
  <2> QED BY <2>1, <1>1, <1>7, <1>8, <1>10, ReplaceType DEF TypeOK
<1>12. HoldInv'
  BY <1>1, <1>2, <1>4, <1>7, <1>8, ReplaceHold
<1>13. OwnerInv'
  <2> SUFFICES ASSUME NEW h \in Jobs, NEW p \in Packages, owner'[p] = h
               PROVE  /\ result[h] # "todo"
                      /\ result[h] = "running" =>
                           \E i \in 1..Len(scripts'[h]) :
                              /\ scripts'[h][i].pkg = p /\ scripts'[h][i].mine
                              /\ scripts'[h][i].at \in OwnedPlaces
    BY <1>1 DEF OwnerInv
  <2>1. p # Top(j).pkg /\ owner[p] = h
    BY <1>1, <1>3, <1>10
  <2>2. result[h] # "todo"
    BY <2>1 DEF Inv, OwnerInv
  <2>3. ASSUME result[h] = "running"
        PROVE  \E i \in 1..Len(scripts'[h]) :
                  /\ scripts'[h][i].pkg = p /\ scripts'[h][i].mine
                  /\ scripts'[h][i].at \in OwnedPlaces
    <3>1. PICK i \in 1..Len(scripts[h]) :
            /\ scripts[h][i].pkg = p /\ scripts[h][i].mine
            /\ scripts[h][i].at \in OwnedPlaces
      BY <2>1, <2>3 DEF Inv, OwnerInv
    <3>2. CASE h = j
      <4>1. i \in 1..(n - 1)
        BY <2>1, <3>1, <3>2, <1>2, <1>3
      <4> QED BY <4>1, <3>1, <3>2, <1>9
    <3>3. CASE h # j
      BY <3>1, <3>3, <1>9
    <3> QED BY <3>2, <3>3
  <2> QED BY <2>2, <2>3
<1>14. DirInv' /\ UnpackedForUse'
  BY <1>1, <1>3, <1>5, <1>7, <1>8, ReplaceDir
<1> QED BY <1>11, <1>12, <1>13, <1>14 DEF Inv

\* A job starts with one script, which has no lock yet.
LEMMA StartInv == ASSUME Inv, NEW j \in Jobs, Start(j) PROVE Inv'
<1>1. /\ result[j] = "todo" /\ result' = [result EXCEPT ![j] = "running"]
      /\ scripts' = [scripts EXCEPT ![j] = <<Script(JobPkg[j])>>]
      /\ builds' = builds /\ failures' = failures
      /\ flock' = flock /\ owner' = owner /\ dir' = dir
  BY DEF Start
<1>2. PICK f : f = Script(JobPkg[j])
  OBVIOUS
<1>3. /\ f \in ScriptSet /\ f.pkg = JobPkg[j] /\ f.at = "read"
      /\ ~f.mine /\ f.rest = UnpackDeps[f.pkg]
  BY <1>2, UnpackAssumption DEF Script, ScriptSet
<1>4. /\ scripts' \in [Jobs -> Seq(ScriptSet)]
      /\ Len(scripts'[j]) = 1 /\ scripts'[j][1] = f /\ scripts'[j] # <<>>
      /\ \A k \in Jobs \ {j} : scripts'[k] = scripts[k]
  BY <1>1, <1>2, <1>3 DEF Inv, TypeOK
<1>5. /\ result' \in [Jobs -> {"todo", "running", "dying", "ok", "failed"}]
      /\ result'[j] = "running" /\ \A k \in Jobs \ {j} : result'[k] = result[k]
  BY <1>1 DEF Inv, TypeOK
<1>6. TypeOK'
  BY <1>1, <1>4, <1>5 DEF Inv, TypeOK
<1>7. HoldInv'
  <2>1. ASSUME NEW k \in Jobs, k # j PROVE scripts'[k] = scripts[k]
    BY <2>1, <1>4
  <2>2. LockedPlaces \union {"exit"} = {"claim", "deps", "transfer", "patch", "unlock", "exit"}
    BY DEF LockedPlaces
  <2>3. ASSUME NEW k \in Jobs, NEW i \in 1..Len(scripts'[k])
        PROVE  /\ scripts'[k][i].mine => flock'[scripts'[k][i].pkg] = k
               /\ scripts'[k][i].mine => scripts'[k][i].at \notin {"read", "try", "wait"}
               /\ scripts'[k][i].at \in LockedPlaces \union {"exit"} =>
                    \E h \in 1..i : scripts'[k][h].pkg = scripts'[k][i].pkg /\ scripts'[k][h].mine
               /\ \A h \in 1..Len(scripts'[k]) :
                    scripts'[k][i].mine /\ scripts'[k][h].mine /\ scripts'[k][i].pkg = scripts'[k][h].pkg
                       => i = h
               /\ i < Len(scripts'[k]) => scripts'[k][i].at = "deps"
    <3>1. CASE k = j
      <4>1. i = 1
        BY <2>3, <3>1, <1>4
      <4> QED BY <3>1, <4>1, <2>2, <1>3, <1>4
    <3>2. CASE k # j
      BY <2>1, <3>2, <1>1 DEF Inv, HoldInv, Holds
    <3> QED BY <3>1, <3>2
  <2> QED BY <2>3 DEF HoldInv, Holds
<1>8. OwnerInv'
  <2> SUFFICES ASSUME NEW k \in Jobs, NEW p \in Packages, owner[p] = k
               PROVE  /\ result'[k] # "todo"
                      /\ result'[k] = "running" =>
                           \E i \in 1..Len(scripts'[k]) :
                              /\ scripts'[k][i].pkg = p /\ scripts'[k][i].mine
                              /\ scripts'[k][i].at \in OwnedPlaces
    BY <1>1 DEF OwnerInv
  <2>1. k # j
    BY <1>1 DEF Inv, OwnerInv
  <2> QED BY <2>1, <1>4, <1>5 DEF Inv, OwnerInv
<1>9. DirInv'
  <2>1. ASSUME NEW i \in 1..Len(scripts'[j])
        PROVE  /\ scripts'[j][i].at \notin {"transfer", "patch", "unlock", "exit"}
               /\ scripts'[j][i].rest = UnpackDeps[scripts'[j][i].pkg]
               /\ scripts'[j][i].pkg = JobPkg[j]
    <3>1. i = 1
      BY <1>4
    <3> QED BY <3>1, <1>3, <1>4
  <2> QED BY <2>1, <1>1, <1>4, <1>5 DEF Inv, DirInv
<1>10. UnpackedForUse'
  BY <1>1, <1>5 DEF Inv, UnpackedForUse
<1> QED BY <1>6, <1>7, <1>8, <1>9, <1>10 DEF Inv

\* A failure changes nothing but that the job is dying.
LEMMA DyingInv ==
    ASSUME Inv, NEW j \in Jobs, result[j] = "running",
           result' = [result EXCEPT ![j] = "dying"],
           builds' = builds, failures' \in 0..MaxFailures,
           scripts' = scripts, flock' = flock, owner' = owner, dir' = dir
    PROVE  Inv'
<1>1. /\ result' \in [Jobs -> {"todo", "running", "dying", "ok", "failed"}]
      /\ result'[j] = "dying" /\ \A k \in Jobs \ {j} : result'[k] = result[k]
  BY DEF Inv, TypeOK
<1>2. TypeOK'
  BY <1>1 DEF Inv, TypeOK
<1>3. HoldInv'
  BY DEF Inv, HoldInv, Holds
<1>4. OwnerInv'
  BY <1>1 DEF Inv, OwnerInv
<1>5. DirInv'
  BY <1>1 DEF Inv, DirInv
<1>6. UnpackedForUse'
  BY <1>1 DEF Inv, UnpackedForUse
<1> QED BY <1>2, <1>3, <1>4, <1>5, <1>6 DEF Inv

\* A script starts another one for a package it needs unpacked.
LEMMA UnpackDependencyInv == ASSUME Inv, NEW j \in Jobs, UnpackDependency(j) PROVE Inv'
<1>1. /\ scripts[j] # <<>> /\ Top(j).at = "deps" /\ result[j] = "running"
      /\ builds' = builds /\ failures' = failures /\ result' = result
      /\ flock' = flock /\ owner' = owner /\ dir' = dir
  BY DEF UnpackDependency, At
<1>2. PICK n \in Nat \ {0} : n = Len(scripts[j])
  BY <1>1, TopFacts DEF Inv
<1>3. Top(j) \in ScriptSet /\ Top(j).pkg \in Packages /\ Top(j) = scripts[j][n]
  BY <1>1, <1>2, TopFacts DEF Inv
<1>4. PICK q \in Top(j).rest :
        scripts' = [scripts EXCEPT ![j] =
                      Append(Append(Below(j), [Top(j) EXCEPT !.rest = @ \ {q}]), Script(q))]
  BY DEF UnpackDependency
<1>5. PICK f : f = [Top(j) EXCEPT !.rest = @ \ {q}]
  OBVIOUS
<1>6. PICK g : g = Script(q)
  OBVIOUS
<1>7. /\ f \in ScriptSet /\ f.pkg = Top(j).pkg /\ f.at = "deps"
      /\ f.mine = Top(j).mine /\ f.rest = Top(j).rest \ {q}
  BY <1>1, <1>3, <1>5 DEF ScriptSet
<1>8. /\ g \in ScriptSet /\ g.pkg = q /\ g.at = "read" /\ ~g.mine /\ g.rest = UnpackDeps[q]
  <2>1. q \in Packages
    BY <1>3, <1>4 DEF ScriptSet
  <2> QED BY <2>1, <1>6, UnpackAssumption DEF Script, ScriptSet
<1>9. PICK b : b = Append(Below(j), f)
  OBVIOUS
<1>10. /\ b \in Seq(ScriptSet) /\ Len(b) = n /\ b[n] = f
       /\ \A i \in 1..(n - 1) : b[i] = scripts[j][i]
  <2>1. scripts[j] \in Seq(ScriptSet)
    BY DEF Inv, TypeOK
  <2> QED BY <2>1, <1>1, <1>2, <1>7, <1>9, StackFacts DEF Below
<1>11. /\ Append(b, g) \in Seq(ScriptSet) /\ Len(Append(b, g)) = n + 1 /\ Append(b, g)[n + 1] = g
       /\ \A i \in 1..n : Append(b, g)[i] = b[i]
  BY <1>8, <1>10
<1>12. scripts'[j] = Append(b, g) /\ \A k \in Jobs \ {j} : scripts'[k] = scripts[k]
  BY <1>4, <1>5, <1>6, <1>9 DEF Inv, TypeOK
<1>13. /\ Len(scripts'[j]) = n + 1 /\ scripts'[j][n + 1] = g /\ scripts'[j][n] = f
       /\ \A i \in 1..(n - 1) : scripts'[j][i] = scripts[j][i]
       /\ scripts'[j] # <<>>
  <2>1. n \in 1..n /\ \A i \in 1..(n - 1) : i \in 1..n
    OBVIOUS
  <2> QED BY <2>1, <1>10, <1>11, <1>12
<1>14. \A i \in 1..(n + 1) : i = n + 1 \/ i = n \/ i \in 1..(n - 1)
  OBVIOUS
<1>15. \A i \in 1..n :
         /\ scripts'[j][i].pkg = scripts[j][i].pkg
         /\ scripts'[j][i].mine = scripts[j][i].mine
         /\ scripts'[j][i].at = scripts[j][i].at
         /\ scripts[j][i].at = "deps"
  <2>1. \A i \in 1..(n - 1) : scripts[j][i].at = "deps"
    BY <1>2 DEF Inv, HoldInv
  <2> QED BY <2>1, <1>1, <1>3, <1>7, <1>13
<1>16. TypeOK'
  <2>1. scripts' \in [Jobs -> Seq(ScriptSet)]
    BY <1>4, <1>5, <1>6, <1>9, <1>11 DEF Inv, TypeOK
  <2> QED BY <2>1, <1>1, <1>12, <1>13 DEF Inv, TypeOK
<1>17. HoldInv'
  <2>1. ASSUME NEW i \in 1..(n + 1)
        PROVE  /\ scripts'[j][i].mine => flock[scripts'[j][i].pkg] = j
               /\ scripts'[j][i].mine => scripts'[j][i].at \notin {"read", "try", "wait"}
               /\ scripts'[j][i].at \in LockedPlaces \union {"exit"} =>
                    \E h \in 1..i : scripts'[j][h].pkg = scripts'[j][i].pkg /\ scripts'[j][h].mine
               /\ \A h \in 1..(n + 1) :
                    scripts'[j][i].mine /\ scripts'[j][h].mine /\ scripts'[j][i].pkg = scripts'[j][h].pkg
                       => i = h
               /\ i < n + 1 => scripts'[j][i].at = "deps"
    <3>1. CASE i = n + 1
      BY <3>1, <1>8, <1>13 DEF LockedPlaces
    <3>2. CASE i \in 1..n
      <4>1. scripts[j][i].mine => flock[scripts[j][i].pkg] = j
        BY <3>2, <1>2 DEF Inv, HoldInv
      <4>2. \E h \in 1..i : scripts'[j][h].pkg = scripts'[j][i].pkg /\ scripts'[j][h].mine
        <5>1. PICK h \in 1..i : scripts[j][h].pkg = scripts[j][i].pkg /\ scripts[j][h].mine
          BY <3>2, <1>2, <1>15 DEF Inv, HoldInv, Holds, LockedPlaces
        <5>2. h \in 1..n
          BY <3>2
        <5> QED BY <5>1, <5>2, <3>2, <1>15
      <4>3. \A h \in 1..(n + 1) :
              scripts'[j][i].mine /\ scripts'[j][h].mine /\ scripts'[j][i].pkg = scripts'[j][h].pkg
                 => i = h
        <5> SUFFICES ASSUME NEW h \in 1..(n + 1), scripts'[j][i].mine, scripts'[j][h].mine,
                            scripts'[j][i].pkg = scripts'[j][h].pkg
                     PROVE  i = h
          OBVIOUS
        <5>1. h \in 1..n
          BY <1>8, <1>13
        <5>2. /\ scripts[j][i].mine /\ scripts[j][h].mine
              /\ scripts[j][i].pkg = scripts[j][h].pkg
          BY <5>1, <3>2, <1>15
        <5> QED BY <5>1, <5>2, <3>2, <1>2 DEF Inv, HoldInv
      <4> QED BY <4>1, <4>2, <4>3, <3>2, <1>15
    <3> QED BY <3>1, <3>2
  <2>2. ASSUME NEW k \in Jobs, NEW i \in 1..Len(scripts'[k])
        PROVE  /\ scripts'[k][i].mine => flock[scripts'[k][i].pkg] = k
               /\ scripts'[k][i].mine => scripts'[k][i].at \notin {"read", "try", "wait"}
               /\ scripts'[k][i].at \in LockedPlaces \union {"exit"} =>
                    \E h \in 1..i : scripts'[k][h].pkg = scripts'[k][i].pkg /\ scripts'[k][h].mine
               /\ \A h \in 1..Len(scripts'[k]) :
                    scripts'[k][i].mine /\ scripts'[k][h].mine /\ scripts'[k][i].pkg = scripts'[k][h].pkg
                       => i = h
               /\ i < Len(scripts'[k]) => scripts'[k][i].at = "deps"
    <3>1. CASE k = j
      BY <3>1, <2>1, <2>2, <1>13
    <3>2. CASE k # j
      <4>1. scripts'[k] = scripts[k]
        BY <3>2, <1>12
      <4> QED BY <4>1 DEF Inv, HoldInv, Holds
    <3> QED BY <3>1, <3>2
  <2> QED BY <2>2, <1>1 DEF HoldInv, Holds
<1>18. OwnerInv'
  <2> SUFFICES ASSUME NEW k \in Jobs, NEW p \in Packages, owner[p] = k, result[k] = "running"
               PROVE  \E i \in 1..Len(scripts'[k]) :
                         /\ scripts'[k][i].pkg = p /\ scripts'[k][i].mine
                         /\ scripts'[k][i].at \in OwnedPlaces
    BY <1>1 DEF OwnerInv, Inv
  <2>1. PICK i \in 1..Len(scripts[k]) :
          /\ scripts[k][i].pkg = p /\ scripts[k][i].mine
          /\ scripts[k][i].at \in OwnedPlaces
    BY DEF OwnerInv, Inv
  <2>2. CASE k = j
    <3>1. Len(scripts[k]) = n /\ Len(scripts'[k]) = n + 1 /\ n \in Nat
      BY <2>2, <1>2, <1>13
    <3>2. i \in 1..n /\ i \in 1..Len(scripts'[k])
      BY <3>1
    <3>3. /\ scripts'[k][i].pkg = p /\ scripts'[k][i].mine
          /\ scripts'[k][i].at \in OwnedPlaces
      BY <2>1, <2>2, <3>2, <1>15
    <3> QED BY <3>2, <3>3
  <2>3. CASE k # j
    BY <2>1, <2>3, <1>12
  <2> QED BY <2>2, <2>3
<1>19. DirInv'
  <2>1. ASSUME NEW i \in 1..(n + 1)
        PROVE  /\ scripts'[j][i].at \notin {"transfer", "patch", "unlock", "exit"}
               /\ \A d \in UnpackDeps[scripts'[j][i].pkg] \ scripts'[j][i].rest :
                     \/ dir[d] = "unpacked"
                     \/ i < n + 1 /\ scripts'[j][i + 1].pkg = d
               /\ i = 1 => scripts'[j][i].pkg = JobPkg[j]
    <3>1. CASE i = n + 1
      BY <3>1, <1>8, <1>13
    <3>2. CASE i = n
      <4>1. /\ \A d \in UnpackDeps[scripts[j][n].pkg] \ scripts[j][n].rest : dir[d] = "unpacked"
            /\ n = 1 => scripts[j][n].pkg = JobPkg[j]
        BY <1>1, <1>2 DEF Inv, DirInv
      <4>2. \A d \in UnpackDeps[f.pkg] \ f.rest : dir[d] = "unpacked" \/ d = q
        BY <4>1, <1>3, <1>7
      <4> QED BY <3>2, <4>1, <4>2, <1>3, <1>7, <1>8, <1>13
    <3>3. CASE i \in 1..(n - 1)
      <4>1. /\ \A d \in UnpackDeps[scripts[j][i].pkg] \ scripts[j][i].rest :
                  dir[d] = "unpacked" \/ scripts[j][i + 1].pkg = d
            /\ i = 1 => scripts[j][i].pkg = JobPkg[j]
        BY <3>3, <1>1, <1>2 DEF Inv, DirInv
      <4>2. i + 1 \in 1..n /\ i < n + 1 /\ i \in 1..n
        BY <3>3
      <4>3. scripts'[j][i + 1].pkg = scripts[j][i + 1].pkg /\ scripts'[j][i].at = "deps"
        BY <4>2, <1>15
      <4> QED BY <3>3, <4>1, <4>2, <4>3, <1>13
    <3> QED BY <3>1, <3>2, <3>3, <1>14
  <2>2. ASSUME NEW k \in Jobs, k # j PROVE scripts'[k] = scripts[k]
    BY <2>2, <1>12
  <2> QED BY <2>1, <2>2, <1>1, <1>13 DEF Inv, DirInv
<1>20. UnpackedForUse'
  BY <1>1 DEF Inv, UnpackedForUse
<1> QED BY <1>16, <1>17, <1>18, <1>19, <1>20 DEF Inv

\* The innermost script of a job ends: its lock file is closed, and with the
\* outermost script the job ends.
Pops(j, r) ==
    /\ scripts[j] # <<>>
    /\ scripts' = [scripts EXCEPT ![j] = Below(j)]
    /\ flock' = Closed(j)
    /\ result' = [result EXCEPT ![j] = Result(j, r)]
    /\ UNCHANGED <<builds, failures, owner, dir>>

\* The stacks after the innermost script of one of them ends.
LEMMA PopFacts ==
    ASSUME Inv, NEW j \in Jobs, NEW r, Pops(j, r)
    PROVE  /\ scripts' \in [Jobs -> Seq(ScriptSet)]
           /\ Len(scripts[j]) \in Nat \ {0} /\ Len(scripts'[j]) = Len(scripts[j]) - 1
           /\ \A i \in 1..(Len(scripts[j]) - 1) : scripts'[j][i] = scripts[j][i]
           /\ \A k \in Jobs \ {j} : scripts'[k] = scripts[k] /\ result'[k] = result[k]
           /\ result'[j] = Result(j, r)
<1>1. scripts \in [Jobs -> Seq(ScriptSet)] /\ scripts[j] # <<>>
  BY DEF Inv, TypeOK, Pops
<1>2. /\ Len(scripts[j]) \in Nat \ {0} /\ Below(j) \in Seq(ScriptSet)
      /\ Len(Below(j)) = Len(scripts[j]) - 1
      /\ \A i \in 1..(Len(scripts[j]) - 1) : Below(j)[i] = scripts[j][i]
  BY <1>1, StackFacts DEF Below
<1>3. scripts'[j] = Below(j) /\ \A k \in Jobs \ {j} : scripts'[k] = scripts[k]
  BY <1>1 DEF Pops
<1>4. result'[j] = Result(j, r) /\ \A k \in Jobs \ {j} : result'[k] = result[k]
  BY DEF Pops, Inv, TypeOK
<1>5. scripts' \in [Jobs -> Seq(ScriptSet)]
  BY <1>1, <1>2 DEF Pops
<1> QED BY <1>2, <1>3, <1>4, <1>5

\* The end of a script closes no lock but its own.
LEMMA PopHold ==
    ASSUME Inv, NEW j \in Jobs, NEW r, Pops(j, r)
    PROVE  HoldInv' /\ flock' \in [Packages -> Jobs \union {NoJob}]
<1>1. PICK n \in Nat \ {0} : n = Len(scripts[j])
  BY PopFacts
<1>2. /\ Len(scripts'[j]) = n - 1
      /\ \A i \in 1..(n - 1) : scripts'[j][i] = scripts[j][i]
      /\ \A k \in Jobs \ {j} : scripts'[k] = scripts[k]
  BY <1>1, PopFacts
<1>3. flock \in [Packages -> Jobs \union {NoJob}]
  BY DEF Inv, TypeOK
<1>4. Top(j) = scripts[j][n] /\ Top(j) \in ScriptSet /\ Top(j).pkg \in Packages
  BY <1>1, TopFacts DEF Inv, Pops
<1>5. \A p \in Packages :
        flock'[p] = IF Top(j).mine /\ p = Top(j).pkg THEN NoJob ELSE flock[p]
  BY <1>3, <1>4 DEF Pops, Closed
<1>6. Top(j).mine => flock[Top(j).pkg] = j
  BY <1>1, <1>4 DEF Inv, HoldInv
<1>7. ASSUME NEW k \in Jobs, NEW i \in 1..Len(scripts[k]), scripts[k][i].mine,
             k # j \/ i # n
      PROVE  flock'[scripts[k][i].pkg] = k
  <2>1. flock[scripts[k][i].pkg] = k
    BY <1>7 DEF Inv, HoldInv
  <2>2. scripts[k][i].pkg \in Packages
    <3>1. scripts[k][i] \in ScriptSet
      BY DEF Inv, TypeOK
    <3> QED BY <3>1 DEF ScriptSet
  <2>3. ~(Top(j).mine /\ scripts[k][i].pkg = Top(j).pkg)
    <3>1. CASE k # j
      BY <3>1, <2>1, <1>6
    <3>2. CASE k = j /\ i # n
      <4>1. n \in 1..Len(scripts[j])
        BY <1>1
      <4> QED BY <3>2, <4>1, <1>4, <1>7 DEF Inv, HoldInv
    <3> QED BY <3>1, <3>2, <1>7
  <2> QED BY <2>1, <2>2, <2>3, <1>5
<1>8. ASSUME NEW k \in Jobs, NEW i \in 1..Len(scripts'[k])
      PROVE  /\ scripts'[k][i].mine => flock'[scripts'[k][i].pkg] = k
             /\ scripts'[k][i].mine => scripts'[k][i].at \notin {"read", "try", "wait"}
             /\ scripts'[k][i].at \in LockedPlaces \union {"exit"} =>
                  \E h \in 1..i : scripts'[k][h].pkg = scripts'[k][i].pkg /\ scripts'[k][h].mine
             /\ \A h \in 1..Len(scripts'[k]) :
                  scripts'[k][i].mine /\ scripts'[k][h].mine /\ scripts'[k][i].pkg = scripts'[k][h].pkg
                     => i = h
             /\ i < Len(scripts'[k]) => scripts'[k][i].at = "deps"
  <2>1. CASE k = j
    <3>1. i \in 1..(n - 1) /\ i \in 1..n /\ i # n /\ i < n
      BY <2>1, <1>8, <1>2
    <3>2. /\ scripts[j][i].mine => scripts[j][i].at \notin {"read", "try", "wait"}
          /\ scripts[j][i].at \in LockedPlaces \union {"exit"} =>
               \E h \in 1..i : scripts[j][h].pkg = scripts[j][i].pkg /\ scripts[j][h].mine
          /\ \A h \in 1..n :
               scripts[j][i].mine /\ scripts[j][h].mine /\ scripts[j][i].pkg = scripts[j][h].pkg
                  => i = h
          /\ scripts[j][i].at = "deps"
      BY <3>1, <1>1 DEF Inv, HoldInv, Holds
    <3>3. scripts[j][i].mine => flock'[scripts[j][i].pkg] = j
      BY <3>1, <1>1, <1>7
    <3>4. \A h \in 1..i : h \in 1..(n - 1)
      BY <3>1
    <3>5. scripts'[j][i].at \in LockedPlaces \union {"exit"} =>
               \E h \in 1..i : scripts'[j][h].pkg = scripts'[j][i].pkg /\ scripts'[j][h].mine
      BY <3>1, <3>2, <3>4, <1>2
    <3>6. \A h \in 1..(n - 1) :
               scripts'[j][i].mine /\ scripts'[j][h].mine /\ scripts'[j][i].pkg = scripts'[j][h].pkg
                  => i = h
      BY <3>1, <3>2, <1>2
    <3> QED BY <2>1, <3>1, <3>2, <3>3, <3>5, <3>6, <1>2
  <2>2. CASE k # j
    <3>1. scripts'[k] = scripts[k]
      BY <2>2, <1>2
    <3> QED BY <2>2, <3>1, <1>7 DEF Inv, HoldInv, Holds
  <2> QED BY <2>1, <2>2
<1>9. flock' \in [Packages -> Jobs \union {NoJob}]
  BY <1>3, <1>4 DEF Pops, Closed
<1> QED BY <1>8, <1>9 DEF HoldInv, Holds

\* Whether the end of a script ends the job or not, types are kept.
LEMMA PopType ==
    ASSUME Inv, NEW j \in Jobs, NEW r \in {"ok", "failed"}, Pops(j, r)
    PROVE  TypeOK'
<1>1. PICK n \in Nat \ {0} : n = Len(scripts[j])
  BY PopFacts
<1>2. /\ scripts' \in [Jobs -> Seq(ScriptSet)] /\ Len(scripts'[j]) = n - 1
      /\ \A k \in Jobs \ {j} : scripts'[k] = scripts[k] /\ result'[k] = result[k]
      /\ result'[j] = IF n = 1 THEN r ELSE result[j]
  BY <1>1, PopFacts DEF Result
<1>3. result[j] \in {"running", "dying"}
  BY DEF Inv, TypeOK, Pops
<1>4. scripts'[j] # <<>> <=> n # 1
  <2>1. scripts'[j] \in Seq(ScriptSet)
    BY <1>2
  <2> QED BY <2>1, <1>2
<1>5. result' \in [Jobs -> {"todo", "running", "dying", "ok", "failed"}]
  BY <1>1, <1>3 DEF Inv, TypeOK, Pops, Result
<1>6. \A k \in Jobs : result'[k] \in {"running", "dying"} <=> scripts'[k] # <<>>
  <2>1. CASE n = 1
    BY <2>1, <1>2, <1>4 DEF Inv, TypeOK
  <2>2. CASE n # 1
    BY <2>2, <1>2, <1>3, <1>4 DEF Inv, TypeOK
  <2> QED BY <2>1, <2>2
<1> QED BY <1>2, <1>5, <1>6, PopHold DEF Inv, TypeOK, Pops

\* A script that has unpacked its package ends.
LEMMA ExitInv == ASSUME Inv, NEW j \in Jobs, Exit(j) PROVE Inv'
<1>1. Pops(j, "ok") /\ result[j] = "running" /\ Top(j).at = "exit"
  BY DEF Exit, At, Pops
<1>2. owner' = owner /\ dir' = dir
  BY DEF Exit
<1>3. PICK n \in Nat \ {0} : n = Len(scripts[j])
  BY <1>1, PopFacts
<1>4. /\ Len(scripts'[j]) = n - 1
      /\ \A i \in 1..(n - 1) : scripts'[j][i] = scripts[j][i]
      /\ \A k \in Jobs \ {j} : scripts'[k] = scripts[k] /\ result'[k] = result[k]
      /\ result'[j] = IF n = 1 THEN "ok" ELSE "running"
      /\ Top(j) = scripts[j][n] /\ n \in 1..n
  BY <1>1, <1>3, PopFacts DEF Result, Top
<1>5. OwnerInv'
  <2> SUFFICES ASSUME NEW k \in Jobs, NEW p \in Packages, owner[p] = k
               PROVE  /\ result'[k] # "todo"
                      /\ result'[k] = "running" =>
                           \E i \in 1..Len(scripts'[k]) :
                              /\ scripts'[k][i].pkg = p /\ scripts'[k][i].mine
                              /\ scripts'[k][i].at \in OwnedPlaces
    BY <1>2 DEF OwnerInv
  <2>1. CASE k = j
    <3>1. PICK i \in 1..n :
            /\ scripts[j][i].pkg = p /\ scripts[j][i].mine
            /\ scripts[j][i].at \in OwnedPlaces
      BY <2>1, <1>1, <1>3 DEF Inv, OwnerInv
    <3>2. i \in 1..(n - 1)
      BY <3>1, <1>1, <1>4 DEF OwnedPlaces
    <3> QED BY <2>1, <3>1, <3>2, <1>4
  <2>2. CASE k # j
    BY <2>2, <1>4 DEF Inv, OwnerInv
  <2> QED BY <2>1, <2>2
<1>6. /\ dir[scripts[j][n].pkg] = "unpacked"
      /\ \A q \in UnpackDeps[scripts[j][n].pkg] : dir[q] = "unpacked"
      /\ n = 1 => scripts[j][n].pkg = JobPkg[j]
  <2>1. dir[scripts[j][n].pkg] = "unpacked" /\ scripts[j][n].rest = {}
    BY <1>1, <1>3, <1>4 DEF Inv, DirInv
  <2>2. \A q \in UnpackDeps[scripts[j][n].pkg] \ scripts[j][n].rest : dir[q] = "unpacked"
    BY <1>1, <1>3, <1>4 DEF Inv, DirInv
  <2>3. n = 1 => scripts[j][n].pkg = JobPkg[j]
    BY <1>3, <1>4 DEF Inv, DirInv
  <2> QED BY <2>1, <2>2, <2>3
<1>7. DirInv'
  <2>1. ASSUME NEW i \in 1..(n - 1)
        PROVE  /\ scripts'[j][i].at = "deps"
               /\ \A q \in UnpackDeps[scripts'[j][i].pkg] \ scripts'[j][i].rest :
                     \/ dir[q] = "unpacked"
                     \/ i < n - 1 /\ scripts'[j][i + 1].pkg = q
               /\ i = 1 => scripts'[j][i].pkg = JobPkg[j]
    <3>1. /\ scripts[j][i].at = "deps"
          /\ \A q \in UnpackDeps[scripts[j][i].pkg] \ scripts[j][i].rest :
                dir[q] = "unpacked" \/ scripts[j][i + 1].pkg = q
          /\ i = 1 => scripts[j][i].pkg = JobPkg[j]
      BY <1>1, <1>3 DEF Inv, DirInv, HoldInv
    <3>2. CASE i = n - 1
      <4>1. i + 1 = n
        BY <3>2
      <4> QED BY <4>1, <3>1, <1>4, <1>6
    <3>3. CASE i < n - 1
      <4>1. i + 1 \in 1..(n - 1)
        BY <3>3
      <4> QED BY <3>3, <4>1, <3>1, <1>4
    <3> QED BY <3>2, <3>3
  <2>2. ASSUME NEW k \in Jobs, k # j PROVE scripts'[k] = scripts[k] /\ result'[k] = result[k]
    BY <2>2, <1>4
  <2>3. Len(scripts'[j]) = n - 1 /\ \A i \in 1..Len(scripts'[j]) : i \in 1..(n - 1)
    BY <1>4
  <2>4. ASSUME NEW k \in Jobs, NEW i \in 1..Len(scripts'[k])
        PROVE  /\ scripts'[k][i].at \in {"transfer", "patch"} => dir[scripts'[k][i].pkg] # "unpacked"
               /\ scripts'[k][i].at \in {"unlock", "exit"} => dir[scripts'[k][i].pkg] = "unpacked"
               /\ scripts'[k][i].at \in {"transfer", "patch", "unlock", "exit"} => scripts'[k][i].rest = {}
               /\ result'[k] = "running" => \A q \in UnpackDeps[scripts'[k][i].pkg] \ scripts'[k][i].rest :
                     \/ dir[q] = "unpacked"
                     \/ i < Len(scripts'[k]) /\ scripts'[k][i + 1].pkg = q
               /\ i = 1 => scripts'[k][i].pkg = JobPkg[k]
    <3>1. CASE k = j
      BY <3>1, <2>1, <2>3
    <3>2. CASE k # j
      BY <3>2, <2>2 DEF Inv, DirInv
    <3> QED BY <3>1, <3>2
  <2> QED BY <2>4, <1>2 DEF DirInv
<1>8. UnpackedForUse'
  BY <1>2, <1>4, <1>6 DEF Inv, UnpackedForUse
<1> QED BY <1>1, <1>5, <1>7, <1>8, PopType, PopHold DEF Inv

\* A script of a dying job ends, and nothing is tidied up.
LEMMA UnwindInv == ASSUME Inv, NEW j \in Jobs, Unwind(j) PROVE Inv'
<1>1. Pops(j, "failed") /\ result[j] = "dying"
  BY DEF Unwind, Pops, Inv, TypeOK
<1>2. owner' = owner /\ dir' = dir
  BY DEF Unwind
<1>3. PICK n \in Nat \ {0} : n = Len(scripts[j])
  BY <1>1, PopFacts
<1>4. /\ Len(scripts'[j]) = n - 1
      /\ \A i \in 1..(n - 1) : scripts'[j][i] = scripts[j][i]
      /\ \A k \in Jobs \ {j} : scripts'[k] = scripts[k] /\ result'[k] = result[k]
      /\ result'[j] \in {"failed", "dying"}
  BY <1>1, <1>3, PopFacts DEF Result
<1>5. OwnerInv'
  BY <1>2, <1>4 DEF Inv, OwnerInv
<1>6. DirInv'
  <2>1. ASSUME NEW i \in 1..(n - 1)
        PROVE  /\ scripts'[j][i].at = "deps"
               /\ i = 1 => scripts'[j][i].pkg = JobPkg[j]
    BY <1>3, <1>4 DEF Inv, DirInv, HoldInv
  <2>2. ASSUME NEW k \in Jobs, k # j PROVE scripts'[k] = scripts[k] /\ result'[k] = result[k]
    BY <2>2, <1>4
  <2>3. \A i \in 1..Len(scripts'[j]) : i \in 1..(n - 1)
    BY <1>4
  <2>4. result'[j] # "running"
    BY <1>4
  <2>5. ASSUME NEW k \in Jobs, NEW i \in 1..Len(scripts'[k])
        PROVE  /\ scripts'[k][i].at \in {"transfer", "patch"} => dir[scripts'[k][i].pkg] # "unpacked"
               /\ scripts'[k][i].at \in {"unlock", "exit"} => dir[scripts'[k][i].pkg] = "unpacked"
               /\ scripts'[k][i].at \in {"transfer", "patch", "unlock", "exit"} => scripts'[k][i].rest = {}
               /\ result'[k] = "running" => \A q \in UnpackDeps[scripts'[k][i].pkg] \ scripts'[k][i].rest :
                     \/ dir[q] = "unpacked"
                     \/ i < Len(scripts'[k]) /\ scripts'[k][i + 1].pkg = q
               /\ i = 1 => scripts'[k][i].pkg = JobPkg[k]
    <3>1. CASE k = j
      BY <3>1, <2>1, <2>3, <2>4
    <3>2. CASE k # j
      BY <3>2, <2>2 DEF Inv, DirInv
    <3> QED BY <3>1, <3>2
  <2> QED BY <2>5, <1>2 DEF DirInv
<1>7. UnpackedForUse'
  BY <1>2, <1>4 DEF Inv, UnpackedForUse
<1> QED BY <1>1, <1>5, <1>6, <1>7, PopType, PopHold DEF Inv

\* The next build starts without scripts, so without locks, and with an empty
\* locks directory.
LEMMA RebuildInv == ASSUME Inv, Rebuild PROVE Inv'
<1>1. /\ \A j \in Jobs : result[j] \in {"ok", "failed"}
      /\ builds < MaxBuilds /\ builds' = builds + 1
      /\ result' = [j \in Jobs |-> "todo"]
      /\ owner' = [p \in Packages |-> NoJob]
      /\ failures' = failures /\ scripts' = scripts /\ flock' = flock
  BY DEF Rebuild
<1>2. PICK edited \in SUBSET Packages :
        dir' = [p \in Packages |->
                  IF p \in edited /\ dir[p] = "unpacked" THEN "stale" ELSE dir[p]]
  BY DEF Rebuild
<1>3. \A j \in Jobs : scripts[j] = <<>>
  BY <1>1 DEF Inv, TypeOK
<1>4. \A j \in Jobs : Len(scripts[j]) = 0
  BY <1>3
<1>5. TypeOK'
  <2>1. builds' \in 1..(MaxBuilds + 1)
    BY <1>1, UnpackAssumption DEF Inv, TypeOK
  <2>2. dir' \in [Packages -> {"absent", "partial", "stale", "unpacked"}]
    BY <1>2 DEF Inv, TypeOK
  <2>3. owner' \in [Packages -> Jobs \union {NoJob}]
    BY <1>1
  <2>4. /\ result' \in [Jobs -> {"todo", "running", "dying", "ok", "failed"}]
        /\ \A j \in Jobs : result'[j] \in {"running", "dying"} <=> scripts'[j] # <<>>
    BY <1>1, <1>3
  <2> QED BY <2>1, <2>2, <2>3, <2>4, <1>1 DEF Inv, TypeOK
<1>6. HoldInv' /\ DirInv'
  BY <1>1, <1>4 DEF HoldInv, DirInv
<1>7. OwnerInv'
  BY <1>1, UnpackAssumption DEF OwnerInv
<1>8. UnpackedForUse'
  BY <1>1 DEF UnpackedForUse
<1> QED BY <1>5, <1>6, <1>7, <1>8 DEF Inv

\* A step that changes nothing keeps the invariant.
LEMMA StutterInv == ASSUME Inv, UNCHANGED vars PROVE Inv'
<1>1. TypeOK'
  BY DEF Inv, TypeOK, vars
<1>2. HoldInv'
  BY DEF Inv, HoldInv, Holds, vars
<1>3. OwnerInv'
  BY DEF Inv, OwnerInv, vars
<1>4. DirInv'
  BY DEF Inv, DirInv, vars
<1>5. UnpackedForUse'
  BY DEF Inv, UnpackedForUse, vars
<1> QED BY <1>1, <1>2, <1>3, <1>4, <1>5 DEF Inv

\* Every step keeps the invariant.
LEMMA InvStep == Inv /\ [Next]_vars => Inv'
<1> SUFFICES ASSUME Inv, [Next]_vars PROVE Inv'
  OBVIOUS
<1>1. ASSUME NEW j \in Jobs, TooDeep(j) PROVE Inv'
  BY <1>1, DyingInv DEF TooDeep, At, Inv, TypeOK
<1>2. ASSUME NEW j \in Jobs, Step(j) PROVE Inv'
  BY <1>2, StartInv, ReadOwnerInv, GetFlockInv, TimeoutInv, ClaimInv,
     UnpackDependencyInv, CheckStampInv, TransferInv, WriteStampInv, UnlockInv,
     ExitInv, UnwindInv, <1>1 DEF Step
<1>3. ASSUME NEW j \in Jobs, Fail(j) PROVE Inv'
  <2>1. failures' \in 0..MaxFailures
    BY <1>3, UnpackAssumption DEF Fail, Inv, TypeOK
  <2> QED BY <1>3, <2>1, DyingInv DEF Fail
<1>4. CASE Rebuild
  BY <1>4, RebuildInv
<1>5. CASE Over
  BY <1>5, StutterInv DEF Over
<1>6. CASE UNCHANGED vars
  BY <1>6, StutterInv
<1> QED BY <1>2, <1>3, <1>4, <1>5, <1>6 DEF Next

----------------------------------------------------------------------------
(* The theorems.                                                           *)

\* The invariant holds in every reachable state.
THEOREM Invariant == Spec => []Inv
<1> QED BY InvInit, InvStep, PTL DEF Spec

\* Types are kept: scripts exist exactly while their job runs or dies.
THEOREM TypeCorrect == Spec => []TypeOK
<1>1. Inv => TypeOK
  BY DEF Inv
<1> QED BY <1>1, Invariant, PTL

\* pkg_lock excludes: at most one job is inside the lock of a package, however
\* many jobs failed and left owner files behind.
THEOREM MutualExclusionHolds == Spec => []MutualExclusion
<1> QED BY InvExclusion, Invariant, PTL

\* A job builds only with its package and its PKG_DEPENDS_UNPACK unpacked.
THEOREM UnpackedForUseHolds == Spec => []UnpackedForUse
<1>1. Inv => UnpackedForUse
  BY DEF Inv
<1> QED BY <1>1, Invariant, PTL

\* No step of a build takes an unpacked package away.
LEMMA StaysStep ==
    ASSUME Inv, [Next]_vars
    PROVE  \A p \in Packages :
              dir[p] = "unpacked" /\ builds' = builds => dir'[p] = "unpacked"
<1> SUFFICES ASSUME NEW p \in Packages, dir[p] = "unpacked", builds' = builds
             PROVE  dir'[p] = "unpacked"
  OBVIOUS
<1>1. ASSUME NEW j \in Jobs, CheckStamp(j) \/ Transfer(j) \/ WriteStamp(j)
      PROVE  dir'[p] = "unpacked"
  <2>1. scripts[j] # <<>>
    BY <1>1 DEF CheckStamp, Transfer, WriteStamp, At
  <2>2. PICK n \in Nat \ {0} : n = Len(scripts[j])
    BY <2>1, TopFacts DEF Inv
  <2>3. Top(j) = scripts[j][n] /\ dir \in [Packages -> {"absent", "partial", "stale", "unpacked"}]
    BY <2>1, <2>2, TopFacts DEF Inv, TypeOK
  <2>4. Top(j).at = "transfer" => dir[Top(j).pkg] # "unpacked"
    BY <2>2, <2>3 DEF Inv, DirInv
  <2>5. CASE CheckStamp(j)
    BY <2>5, <2>3 DEF CheckStamp, NothingToDo
  <2>6. CASE Transfer(j)
    BY <2>6, <2>3, <2>4 DEF Transfer, At
  <2>7. CASE WriteStamp(j)
    BY <2>7, <2>3 DEF WriteStamp
  <2> QED BY <1>1, <2>5, <2>6, <2>7
<1>2. ASSUME NEW j \in Jobs, Step(j) PROVE dir'[p] = "unpacked"
  BY <1>1, <1>2 DEF Step, Start, ReadOwner, GetFlock, Timeout, Claim,
     UnpackDependency, TooDeep, Unlock, Exit, Unwind
<1>3. ASSUME NEW j \in Jobs, Fail(j) PROVE dir'[p] = "unpacked"
  BY <1>3 DEF Fail
<1>4. CASE Rebuild
  <2>1. builds' = builds + 1 /\ builds \in Int
    BY <1>4, UnpackAssumption DEF Rebuild, Inv, TypeOK
  <2> QED BY <2>1
<1>5. CASE Over \/ UNCHANGED vars
  BY <1>5 DEF Over, vars
<1> QED BY <1>2, <1>3, <1>4, <1>5 DEF Next

\* During a build no job unpacks a package again that is unpacked, nor cleans
\* it while another job may be using it.
THEOREM StaysUnpackedHolds == Spec => StaysUnpacked
<1>1. ASSUME Inv, [Next]_vars
      PROVE  [\A p \in Packages :
                dir[p] = "unpacked" /\ builds' = builds => dir'[p] = "unpacked"]_vars
  BY <1>1, StaysStep
<1> QED BY <1>1, Invariant, PTL DEF Spec, StaysUnpacked

----------------------------------------------------------------------------
(* The owner file a script is about to remove.                             *)

\* A package whose PKG_DEPENDS_UNPACK does not lead into a circle: every set
\* of packages it is in has one that lists none of the set.
Grounded(p) ==
    \A X \in SUBSET Packages : p \in X => \E x \in X : UnpackDeps[x] \intersect X = {}

\* The scripts of a job follow PKG_DEPENDS_UNPACK, what one of them has seen
\* unpacked is grounded, and who is past pkg_lock is named as the owner.
Nested(j) ==
    \A i \in 1..Len(scripts[j]) :
        /\ scripts[j][i].rest \subseteq UnpackDeps[scripts[j][i].pkg]
        /\ i < Len(scripts[j]) => scripts[j][i + 1].pkg \in UnpackDeps[scripts[j][i].pkg]
        /\ \A q \in UnpackDeps[scripts[j][i].pkg] \ scripts[j][i].rest :
              Grounded(q) \/ (i < Len(scripts[j]) /\ scripts[j][i + 1].pkg = q)
        /\ scripts[j][i].at \in OwnedPlaces => owner[scripts[j][i].pkg] = j

NestInv == \A j \in Jobs : result[j] = "running" => Nested(j)

\* A package is grounded when all it needs unpacked is.
LEMMA GroundedStep ==
    ASSUME NEW p \in Packages, \A q \in UnpackDeps[p] : Grounded(q)
    PROVE  Grounded(p)
<1> SUFFICES ASSUME NEW X \in SUBSET Packages, p \in X,
                    \A x \in X : UnpackDeps[x] \intersect X # {}
             PROVE  FALSE
  BY DEF Grounded
<1>1. PICK q \in UnpackDeps[p] : q \in X
  OBVIOUS
<1> QED BY <1>1 DEF Grounded

\* Scripts are about packages.
LEMMA ScriptFacts ==
    ASSUME TypeOK, NEW j \in Jobs, NEW i \in 1..Len(scripts[j])
    PROVE  scripts[j][i].pkg \in Packages
<1>1. scripts[j][i] \in ScriptSet
  BY DEF TypeOK
<1> QED BY <1>1 DEF ScriptSet

\* A script that has nothing left to unpack first is not nested in another
\* one of the same package: the nesting would be a circle, and only the
\* recursion limit ends that.
LEMMA NotNested ==
    ASSUME Inv, NEW j \in Jobs, scripts[j] # <<>>, Nested(j), Top(j).rest = {}
    PROVE  /\ Grounded(Top(j).pkg)
           /\ \A i \in 1..(Len(scripts[j]) - 1) : scripts[j][i].pkg # Top(j).pkg
<1>1. PICK n \in Nat \ {0} : n = Len(scripts[j])
  BY TopFacts DEF Inv
<1>2. Top(j) = scripts[j][n] /\ n \in 1..n
  BY <1>1, TopFacts DEF Inv
<1>3. \A i \in 1..n : scripts[j][i].pkg \in Packages
  BY <1>1, ScriptFacts DEF Inv
<1>4. Grounded(scripts[j][n].pkg)
  <2>1. \A q \in UnpackDeps[scripts[j][n].pkg] : Grounded(q)
    BY <1>1, <1>2 DEF Nested
  <2> QED BY <2>1, <1>2, <1>3, GroundedStep
<1>5. ASSUME NEW i \in 1..(n - 1), scripts[j][i].pkg = scripts[j][n].pkg
      PROVE  FALSE
  <2>1. PICK X : X = {scripts[j][k].pkg : k \in i..n}
    OBVIOUS
  <2>2. X \in SUBSET Packages /\ scripts[j][n].pkg \in X
    BY <2>1, <1>3
  <2>3. ASSUME NEW k \in i..n PROVE UnpackDeps[scripts[j][k].pkg] \intersect X # {}
    <3>1. CASE k \in i..(n - 1)
      <4>1. k \in 1..n /\ k < n /\ k + 1 \in i..n
        BY <3>1
      <4>2. scripts[j][k + 1].pkg \in UnpackDeps[scripts[j][k].pkg]
        BY <4>1, <1>1 DEF Nested
      <4> QED BY <4>1, <4>2, <2>1
    <3>2. CASE k = n
      <4>1. i \in 1..n /\ i < n /\ i + 1 \in i..n
        OBVIOUS
      <4>2. scripts[j][i + 1].pkg \in UnpackDeps[scripts[j][n].pkg]
        BY <4>1, <1>1, <1>5 DEF Nested
      <4> QED BY <3>2, <4>1, <4>2, <2>1
    <3> QED BY <3>1, <3>2
  <2>4. \A x \in X : UnpackDeps[x] \intersect X # {}
    BY <2>1, <2>3
  <2> QED BY <1>4, <2>2, <2>4 DEF Grounded
<1> QED BY <1>1, <1>2, <1>4, <1>5

\* Whatever a job does to owner files of packages it has the flock of, and to
\* its own scripts, leaves the other jobs as they were.
LEMMA OthersNested ==
    ASSUME Inv, NestInv, NEW j \in Jobs,
           \A k \in Jobs \ {j} : scripts'[k] = scripts[k] /\ result'[k] = result[k],
           \A p \in Packages : owner'[p] = owner[p] \/ flock[p] = j
    PROVE  \A k \in Jobs \ {j} : result'[k] = "running" => Nested(k)'
<1> SUFFICES ASSUME NEW k \in Jobs \ {j}, result[k] = "running", NEW i \in 1..Len(scripts[k]),
                    scripts[k][i].at \in OwnedPlaces
             PROVE  owner'[scripts[k][i].pkg] = k
  BY DEF NestInv, Nested
<1>1. flock[scripts[k][i].pkg] = k
  BY LockedHolds DEF Inv, OwnedPlaces, LockedPlaces
<1>2. scripts[k][i].pkg \in Packages
  BY ScriptFacts DEF Inv
<1>3. owner[scripts[k][i].pkg] = k
  BY DEF NestInv, Nested
<1> QED BY <1>1, <1>2, <1>3

\* Replacing the innermost script keeps the nesting: it becomes the owner, or
\* was it before, or removes the owner file of which no outer script needs
\* anything any more.
LEMMA ReplaceNested ==
    ASSUME Inv, NestInv, NEW j \in Jobs, result[j] = "running", scripts[j] # <<>>,
           NEW f \in ScriptSet, Replaces(j, f), f.pkg = Top(j).pkg, f.rest = Top(j).rest,
           result' = result,
           \/ owner' = owner /\ (f.at \in OwnedPlaces => Top(j).at \in OwnedPlaces)
           \/ Top(j).at \in LockedPlaces /\ owner' = [owner EXCEPT ![f.pkg] = j]
           \/ /\ Top(j).at \in LockedPlaces /\ owner' = [owner EXCEPT ![f.pkg] = NoJob]
              /\ f.at = "exit" /\ f.rest = {}
    PROVE  NestInv'
<1>1. PICK n \in Nat \ {0} : n = Len(scripts[j])
  BY ReplaceFacts DEF Inv
<1>2. /\ Len(scripts'[j]) = n
      /\ \A k \in Jobs \ {j} : scripts'[k] = scripts[k]
      /\ \A i \in 1..(n - 1) : scripts'[j][i] = scripts[j][i]
      /\ scripts'[j][n] = f /\ Top(j) = scripts[j][n] /\ n \in 1..n
  BY <1>1, ReplaceFacts DEF Inv, Top
<1>3. /\ owner \in [Packages -> Jobs \union {NoJob}]
      /\ \A i \in 1..n : scripts[j][i].pkg \in Packages
  BY <1>1, ScriptFacts DEF Inv, TypeOK
<1>4. Nested(j)
  BY DEF NestInv
<1>5. \A p \in Packages : owner'[p] = owner[p] \/ flock[p] = j
  <2>1. Top(j).at \in LockedPlaces => flock[f.pkg] = j
    BY <1>1, <1>2, LockedHolds DEF Inv
  <2> QED BY <2>1, <1>3
<1>6. \A k \in Jobs \ {j} : result'[k] = "running" => Nested(k)'
  BY <1>2, <1>5, OthersNested
<1>7. ASSUME NEW i \in 1..n
      PROVE  /\ scripts'[j][i].pkg = scripts[j][i].pkg
             /\ scripts'[j][i].rest = scripts[j][i].rest
  BY <1>2
<1>8. ASSUME NEW i \in 1..n, scripts'[j][i].at \in OwnedPlaces
      PROVE  owner'[scripts'[j][i].pkg] = j
  <2>1. CASE owner' = owner /\ (f.at \in OwnedPlaces => Top(j).at \in OwnedPlaces)
    <3>1. scripts[j][i].at \in OwnedPlaces
      BY <2>1, <1>2, <1>8
    <3> QED BY <2>1, <3>1, <1>1, <1>4, <1>7 DEF Nested
  <2>2. CASE owner' = [owner EXCEPT ![f.pkg] = j]
    <3>1. CASE scripts[j][i].pkg = f.pkg
      BY <2>2, <3>1, <1>3, <1>7
    <3>2. CASE scripts[j][i].pkg # f.pkg
      <4>1. i \in 1..(n - 1)
        BY <3>2, <1>2
      <4>2. owner[scripts[j][i].pkg] = j
        BY <4>1, <1>1, <1>2, <1>4, <1>8 DEF Nested
      <4> QED BY <2>2, <3>2, <4>2, <1>3, <1>7
    <3> QED BY <3>1, <3>2
  <2>3. CASE owner' = [owner EXCEPT ![f.pkg] = NoJob] /\ f.at = "exit" /\ f.rest = {}
    <3>1. i \in 1..(n - 1)
      BY <2>3, <1>2, <1>8 DEF OwnedPlaces
    <3>2. scripts[j][i].pkg # f.pkg
      BY <2>3, <3>1, <1>1, <1>4, NotNested
    <3>3. owner[scripts[j][i].pkg] = j
      BY <3>1, <1>1, <1>2, <1>4, <1>8 DEF Nested
    <3> QED BY <2>3, <3>2, <3>3, <1>3, <1>7
  <2> QED BY <2>1, <2>2, <2>3
<1>9. Nested(j)'
  <2>1. ASSUME NEW i \in 1..n
        PROVE  /\ scripts'[j][i].rest \subseteq UnpackDeps[scripts'[j][i].pkg]
               /\ i < n => scripts'[j][i + 1].pkg \in UnpackDeps[scripts'[j][i].pkg]
               /\ \A q \in UnpackDeps[scripts'[j][i].pkg] \ scripts'[j][i].rest :
                     Grounded(q) \/ (i < n /\ scripts'[j][i + 1].pkg = q)
               /\ scripts'[j][i].at \in OwnedPlaces => owner'[scripts'[j][i].pkg] = j
    <3>1. i < n => i + 1 \in 1..n
      OBVIOUS
    <3>2. /\ scripts[j][i].rest \subseteq UnpackDeps[scripts[j][i].pkg]
          /\ i < n => scripts[j][i + 1].pkg \in UnpackDeps[scripts[j][i].pkg]
          /\ \A q \in UnpackDeps[scripts[j][i].pkg] \ scripts[j][i].rest :
                Grounded(q) \/ (i < n /\ scripts[j][i + 1].pkg = q)
      BY <1>1, <1>4 DEF Nested
    <3> QED BY <3>1, <3>2, <1>7, <1>8
  <2> QED BY <2>1, <1>2 DEF Nested, Grounded
<1> QED BY <1>6, <1>9 DEF NestInv

\* A nested script is started for a package the innermost one lists.
LEMMA PushNested ==
    ASSUME Inv, NestInv, NEW j \in Jobs, UnpackDependency(j)
    PROVE  NestInv'
<1>1. /\ scripts[j] # <<>> /\ Top(j).at = "deps" /\ result[j] = "running"
      /\ result' = result /\ owner' = owner
  BY DEF UnpackDependency, At
<1>2. PICK n \in Nat \ {0} : n = Len(scripts[j])
  BY <1>1, TopFacts DEF Inv
<1>3. Top(j) \in ScriptSet /\ Top(j) = scripts[j][n] /\ n \in 1..n
  BY <1>1, <1>2, TopFacts DEF Inv
<1>4. PICK q \in Top(j).rest :
        scripts' = [scripts EXCEPT ![j] =
                      Append(Append(Below(j), [Top(j) EXCEPT !.rest = @ \ {q}]), Script(q))]
  BY DEF UnpackDependency
<1>5. PICK f : f = [Top(j) EXCEPT !.rest = @ \ {q}]
  OBVIOUS
<1>6. /\ f \in ScriptSet /\ f.pkg = Top(j).pkg /\ f.at = "deps" /\ f.rest = Top(j).rest \ {q}
  BY <1>1, <1>3, <1>5 DEF ScriptSet
<1>7. PICK g : g = Script(q)
  OBVIOUS
<1>8. g \in ScriptSet /\ g.pkg = q /\ g.at = "read" /\ g.rest = UnpackDeps[q]
  <2>1. q \in Packages
    BY <1>3, <1>4 DEF ScriptSet
  <2> QED BY <2>1, <1>7, UnpackAssumption DEF Script, ScriptSet
<1>9. PICK b : b = Append(Below(j), f)
  OBVIOUS
<1>10. /\ b \in Seq(ScriptSet) /\ Len(b) = n /\ b[n] = f
       /\ \A i \in 1..(n - 1) : b[i] = scripts[j][i]
  <2>1. scripts[j] \in Seq(ScriptSet)
    BY DEF Inv, TypeOK
  <2> QED BY <2>1, <1>1, <1>2, <1>6, <1>9, StackFacts DEF Below
<1>11. /\ Len(Append(b, g)) = n + 1 /\ Append(b, g)[n + 1] = g
       /\ \A i \in 1..n : Append(b, g)[i] = b[i]
  BY <1>8, <1>10
<1>12. scripts'[j] = Append(b, g) /\ \A k \in Jobs \ {j} : scripts'[k] = scripts[k]
  BY <1>4, <1>5, <1>7, <1>9 DEF Inv, TypeOK
<1>13. /\ Len(scripts'[j]) = n + 1 /\ scripts'[j][n + 1] = g /\ scripts'[j][n] = f
       /\ \A i \in 1..(n - 1) : scripts'[j][i] = scripts[j][i]
  BY <1>10, <1>11, <1>12
<1>14. Nested(j)
  BY <1>1 DEF NestInv
<1>15. /\ q \in UnpackDeps[f.pkg]
       /\ f.rest \subseteq UnpackDeps[f.pkg]
       /\ \A d \in UnpackDeps[f.pkg] \ f.rest : Grounded(d) \/ d = q
  <2>1. /\ Top(j).rest \subseteq UnpackDeps[Top(j).pkg]
        /\ \A d \in UnpackDeps[Top(j).pkg] \ Top(j).rest : Grounded(d)
    BY <1>2, <1>3, <1>14 DEF Nested
  <2> QED BY <2>1, <1>4, <1>6
<1>16. ASSUME NEW i \in 1..(n + 1)
       PROVE  /\ scripts'[j][i].rest \subseteq UnpackDeps[scripts'[j][i].pkg]
              /\ i < n + 1 => scripts'[j][i + 1].pkg \in UnpackDeps[scripts'[j][i].pkg]
              /\ \A d \in UnpackDeps[scripts'[j][i].pkg] \ scripts'[j][i].rest :
                    Grounded(d) \/ (i < n + 1 /\ scripts'[j][i + 1].pkg = d)
              /\ scripts'[j][i].at \in OwnedPlaces => owner[scripts'[j][i].pkg] = j
  <2>1. CASE i = n + 1
    BY <2>1, <1>8, <1>13 DEF OwnedPlaces
  <2>2. CASE i = n
    <3>1. owner[f.pkg] = j
      BY <1>1, <1>2, <1>3, <1>6, <1>14 DEF Nested, OwnedPlaces
    <3> QED BY <2>2, <3>1, <1>8, <1>13, <1>15
  <2>3. CASE i \in 1..(n - 1)
    <3>1. /\ i \in 1..n /\ i < n /\ i + 1 \in 1..n
          /\ i + 1 = n \/ i + 1 \in 1..(n - 1)
      BY <2>3
    <3>2. scripts'[j][i + 1].pkg = scripts[j][i + 1].pkg /\ scripts'[j][i] = scripts[j][i]
      BY <2>3, <3>1, <1>3, <1>6, <1>13
    <3> QED BY <3>1, <3>2, <1>2, <1>14 DEF Nested
  <2> QED BY <2>1, <2>2, <2>3
<1>17. Nested(j)'
  BY <1>1, <1>13, <1>16 DEF Nested, Grounded
<1>18. \A k \in Jobs \ {j} : result'[k] = "running" => Nested(k)'
  BY <1>1, <1>12, OthersNested
<1> QED BY <1>17, <1>18 DEF NestInv

\* A script that ends has everything unpacked that its package needs, so its
\* package is grounded: the outer script has seen it.
LEMMA PopNested ==
    ASSUME Inv, NestInv, NEW j \in Jobs, Exit(j)
    PROVE  NestInv'
<1>1. Pops(j, "ok") /\ result[j] = "running" /\ Top(j).at = "exit" /\ owner' = owner
  BY DEF Exit, At, Pops
<1>2. PICK n \in Nat \ {0} : n = Len(scripts[j])
  BY <1>1, PopFacts
<1>3. /\ Len(scripts'[j]) = n - 1
      /\ \A i \in 1..(n - 1) : scripts'[j][i] = scripts[j][i]
      /\ \A k \in Jobs \ {j} : scripts'[k] = scripts[k] /\ result'[k] = result[k]
      /\ Top(j) = scripts[j][n] /\ n \in 1..n /\ scripts[j] # <<>>
  <2>1. scripts[j] # <<>> /\ Top(j) = scripts[j][n] /\ n \in 1..n
    BY <1>1, <1>2 DEF Top, Pops
  <2> QED BY <2>1, <1>1, <1>2, PopFacts
<1>4. Nested(j)
  BY <1>1 DEF NestInv
<1>5. Grounded(scripts[j][n].pkg)
  <2>1. Top(j).rest = {}
    BY <1>1, <1>2, <1>3 DEF Inv, DirInv
  <2> QED BY <2>1, <1>3, <1>4, NotNested
<1>6. ASSUME NEW i \in 1..(n - 1)
      PROVE  /\ scripts'[j][i].rest \subseteq UnpackDeps[scripts'[j][i].pkg]
             /\ i < n - 1 => scripts'[j][i + 1].pkg \in UnpackDeps[scripts'[j][i].pkg]
             /\ \A d \in UnpackDeps[scripts'[j][i].pkg] \ scripts'[j][i].rest :
                   Grounded(d) \/ (i < n - 1 /\ scripts'[j][i + 1].pkg = d)
             /\ scripts'[j][i].at \in OwnedPlaces => owner[scripts'[j][i].pkg] = j
  <2>1. i \in 1..n /\ i < n /\ (i < n - 1 => i + 1 \in 1..(n - 1)) /\ (i < n - 1 \/ i + 1 = n)
    OBVIOUS
  <2>2. /\ scripts[j][i].rest \subseteq UnpackDeps[scripts[j][i].pkg]
        /\ scripts[j][i + 1].pkg \in UnpackDeps[scripts[j][i].pkg]
        /\ \A d \in UnpackDeps[scripts[j][i].pkg] \ scripts[j][i].rest :
              Grounded(d) \/ scripts[j][i + 1].pkg = d
        /\ scripts[j][i].at \in OwnedPlaces => owner[scripts[j][i].pkg] = j
    BY <2>1, <1>2, <1>4 DEF Nested
  <2>3. CASE i < n - 1
    BY <2>1, <2>2, <2>3, <1>3
  <2>4. CASE i + 1 = n
    BY <2>2, <2>4, <1>3, <1>5
  <2> QED BY <2>1, <2>3, <2>4
<1>7. Nested(j)'
  BY <1>1, <1>3, <1>6 DEF Nested, Grounded
<1>8. \A k \in Jobs \ {j} : result'[k] = "running" => Nested(k)'
  BY <1>1, <1>3, OthersNested
<1> QED BY <1>7, <1>8 DEF NestInv

\* A job begins with one script, which has seen nothing yet.
LEMMA StartNested ==
    ASSUME Inv, NestInv, NEW j \in Jobs, Start(j)
    PROVE  NestInv'
<1>1. /\ result' = [result EXCEPT ![j] = "running"]
      /\ scripts' = [scripts EXCEPT ![j] = <<Script(JobPkg[j])>>]
      /\ owner' = owner
  BY DEF Start
<1>2. /\ Len(scripts'[j]) = 1 /\ scripts'[j][1] = Script(JobPkg[j])
      /\ \A k \in Jobs \ {j} : scripts'[k] = scripts[k] /\ result'[k] = result[k]
  BY <1>1 DEF Inv, TypeOK
<1>3. Nested(j)'
  <2>1. ASSUME NEW i \in 1..Len(scripts'[j])
        PROVE  /\ i = 1
               /\ scripts'[j][i].rest = UnpackDeps[scripts'[j][i].pkg]
               /\ scripts'[j][i].at = "read"
    BY <1>2 DEF Script
  <2> QED BY <2>1, <1>2 DEF Nested, OwnedPlaces
<1>4. \A k \in Jobs \ {j} : result'[k] = "running" => Nested(k)'
  BY <1>1, <1>2, OthersNested
<1> QED BY <1>3, <1>4 DEF NestInv

\* The steps of pkg_lock and scripts/unpack that replace the innermost script.
LEMMA StepNested ==
    ASSUME Inv, NestInv, NEW j \in Jobs,
           \/ ReadOwner(j) \/ GetFlock(j) \/ Timeout(j) \/ Claim(j)
           \/ CheckStamp(j) \/ Transfer(j) \/ WriteStamp(j) \/ Unlock(j)
    PROVE  NestInv'
<1>1. /\ result[j] = "running" /\ scripts[j] # <<>> /\ result' = result
      /\ Top(j) \in ScriptSet
  <2>1. result[j] = "running" /\ scripts[j] # <<>> /\ result' = result
    BY DEF ReadOwner, GetFlock, Timeout, Claim, CheckStamp, Transfer, WriteStamp, Unlock, At
  <2> QED BY <2>1, TopFacts DEF Inv
<1>2. ASSUME NEW place \in {"read", "try", "wait", "claim", "deps", "transfer", "patch",
                            "unlock", "exit"},
             GoTo(j, place),
             \/ owner' = owner /\ (place \in OwnedPlaces => Top(j).at \in OwnedPlaces)
             \/ Top(j).at \in LockedPlaces /\ owner' = [owner EXCEPT ![Top(j).pkg] = j]
             \/ /\ Top(j).at = "unlock" /\ owner' = [owner EXCEPT ![Top(j).pkg] = NoJob]
                /\ place = "exit"
      PROVE  NestInv'
  <2>1. PICK f : f = [Top(j) EXCEPT !.at = place]
    OBVIOUS
  <2>2. f \in ScriptSet /\ f.pkg = Top(j).pkg /\ f.at = place /\ f.rest = Top(j).rest
    BY <2>1, <1>1, <1>2 DEF ScriptSet
  <2>3. Replaces(j, f)
    BY <2>1, <1>2 DEF GoTo, Replaces
  <2>4. Top(j).at = "unlock" => Top(j).rest = {} /\ Top(j).at \in LockedPlaces
    <3>1. Top(j) = scripts[j][Len(scripts[j])] /\ Len(scripts[j]) \in 1..Len(scripts[j])
      BY <1>1, TopFacts DEF Inv
    <3> QED BY <3>1 DEF Inv, DirInv, LockedPlaces
  <2> QED BY <2>2, <2>3, <2>4, <1>1, <1>2, ReplaceNested
<1>3. CASE GetFlock(j)
  <2>1. PICK f : f = [Top(j) EXCEPT !.at = "claim", !.mine = TRUE]
    OBVIOUS
  <2>2. f \in ScriptSet /\ f.pkg = Top(j).pkg /\ f.at = "claim" /\ f.rest = Top(j).rest
    BY <2>1, <1>1 DEF ScriptSet
  <2>3. Replaces(j, f) /\ owner' = owner
    BY <2>1, <1>3 DEF GetFlock, Replaces
  <2> QED BY <2>2, <2>3, <1>1, ReplaceNested DEF OwnedPlaces
<1>4. CASE ReadOwner(j) \/ Timeout(j)
  BY <1>2, <1>4 DEF ReadOwner, Timeout, OwnedPlaces
<1>5. CASE Claim(j)
  BY <1>2, <1>5 DEF Claim, At, ClaimedBy, LockedPlaces
<1>6. CASE CheckStamp(j) \/ Transfer(j) \/ WriteStamp(j)
  BY <1>2, <1>6 DEF CheckStamp, Transfer, WriteStamp, At, OwnedPlaces
<1>7. CASE Unlock(j)
  BY <1>2, <1>7 DEF Unlock, At
<1> QED BY <1>3, <1>4, <1>5, <1>6, <1>7

\* NestInv is inductive relative to Inv.
LEMMA NestStep == Inv /\ NestInv /\ [Next]_vars => NestInv'
<1> SUFFICES ASSUME Inv, NestInv, [Next]_vars PROVE NestInv'
  OBVIOUS
<1>1. ASSUME NEW j \in Jobs, TooDeep(j) \/ Unwind(j) \/ Fail(j) PROVE NestInv'
  <2>1. /\ \A k \in Jobs \ {j} : scripts'[k] = scripts[k] /\ result'[k] = result[k]
        /\ result'[j] # "running" /\ owner' = owner
    BY <1>1 DEF TooDeep, Unwind, Fail, At, Result, Inv, TypeOK
  <2>2. \A k \in Jobs \ {j} : result'[k] = "running" => Nested(k)'
    BY <2>1, OthersNested
  <2> QED BY <2>1, <2>2 DEF NestInv
<1>2. ASSUME NEW j \in Jobs, Step(j) PROVE NestInv'
  BY <1>1, <1>2, StartNested, StepNested, PushNested, PopNested DEF Step
<1>3. CASE Rebuild
  BY <1>3 DEF Rebuild, NestInv
<1>4. CASE Over \/ UNCHANGED vars
  <2>1. UNCHANGED <<result, scripts, owner>>
    BY <1>4 DEF Over, vars
  <2> QED BY <2>1 DEF NestInv, Nested, Grounded
<1> QED BY <1>1, <1>2, <1>3, <1>4 DEF Next

\* Whoever is about to remove the owner file finds it there with its own
\* name, although nested scripts of the same job write and remove it too.
THEOREM OwnerIsHolderHolds == Spec => []OwnerIsHolder
<1>1. Init => NestInv
  BY DEF Init, NestInv
<1>2. ASSUME Inv, NestInv PROVE OwnerIsHolder
  <2> SUFFICES ASSUME NEW j \in Jobs, At(j, "unlock")
               PROVE  owner[Top(j).pkg] = j
    BY DEF OwnerIsHolder
  <2>1. result[j] = "running" /\ scripts[j] # <<>> /\ Top(j).at = "unlock"
    BY DEF At
  <2>2. Top(j) = scripts[j][Len(scripts[j])] /\ Len(scripts[j]) \in 1..Len(scripts[j])
    BY <2>1, <1>2, TopFacts DEF Inv
  <2> QED BY <2>1, <2>2, <1>2 DEF NestInv, Nested, OwnedPlaces
<1> QED BY <1>1, <1>2, NestStep, Invariant, PTL DEF Spec
=============================================================================
