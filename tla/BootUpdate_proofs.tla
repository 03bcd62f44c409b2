------------------------- MODULE BootUpdate_proofs -------------------------
(***************************************************************************)
(* Proofs about BootUpdate for any releases, sizes and bounds.             *)
(*                                                                         *)
(* Matched rests on two facts that only do_cleanup and the .tmp directory  *)
(* establish: files of two releases can lie in .update only beside .tmp or *)
(* while do_cleanup is about to remove them, so what an update is written  *)
(* from is of one release; and whatever runs has been booted, so it is     *)
(* whole.  NeverBricks needs in addition that what passes the checks is    *)
(* made for this hardware, unless it had to be trusted, and that a SYSTEM  *)
(* fits beside the KERNEL that was written before it.                      *)
(* GoodUpdateInstalled follows one good update from .update to /flash,     *)
(* through every check that could turn it away.                            *)
(***************************************************************************)
EXTENDS BootUpdate, TLAPS

Sound == Intact \intersect Compatible

Fits(v) == Size["KERNEL"][v] + Size["SYSTEM"][v] + FlashFreeMin <= Capacity

----------------------------------------------------------------------------
(* The inductive invariant of Matched                                      *)

\* .tmp is there as long as check_update works on an update.
TmpWhileAtWork == at \in {"unpack", "move", "check", "write", "writing"} => tmp

\* Between the two moves of a tar, the KERNEL is the archive's.
KernelMoved ==
    at = "move" => archive \in Archives /\ files["KERNEL"] = archive.release

Mixed == files["KERNEL"] # None /\ files["SYSTEM"] # None /\ files["KERNEL"] # files["SYSTEM"]

\* Files of two releases are marked by .tmp, or about to be removed.
MixMarked ==
    Mixed => \/ torn
             \/ at \in {"boot", "broken", "move"} /\ tmp
             \/ at = "clean" /\ (step = 3 \/ (step < 3 /\ tmp))

OneSource ==
    at \in {"check", "write", "writing"} =>
        torn \/ source["KERNEL"] = None \/ source["SYSTEM"] = None
             \/ source["KERNEL"] = source["SYSTEM"]

SourceThere ==
    at \in {"write", "writing"} => source["KERNEL"] # None /\ source["SYSTEM"] # None

\* What check_update runs on has been booted.
Runs ==
    \/ at \in {"up", "unpack", "move", "check"}
    \/ at = "write" /\ step = 1
    \/ at = "clean" /\ after = "up"

Booted == Runs => Bootable

Same == flash["KERNEL"] = flash["SYSTEM"] /\ flash["SYSTEM"] = flash["loader"]
AnyPartial == \E p \in {"KERNEL", "SYSTEM", "loader"} : flash[p] = Partial

\* Between two writes of /flash.
InWrites == at = "writing" \/ (at = "write" /\ step > 1)

FlashOfOne ==
    /\ ~InWrites => torn \/ Same \/ AnyPartial
    /\ InWrites /\ step > 1 => torn \/ flash["KERNEL"] \in {source["KERNEL"], Partial}
    /\ InWrites /\ step > 2 => torn \/ flash["SYSTEM"] \in {source["SYSTEM"], Partial}

Inv ==
    /\ TypeOK /\ TmpWhileAtWork /\ KernelMoved /\ MixMarked
    /\ OneSource /\ SourceThere /\ Booted /\ FlashOfOne

----------------------------------------------------------------------------
(* What NeverBricks needs in addition                                      *)

Harmed == torn \/ risked \/ trusted \/ cramped

SoundSource ==
    at \in {"write", "writing"} =>
        Harmed \/ (source["SYSTEM"] \in Sound /\ Fits(source["SYSTEM"]))

\* A KERNEL is whole when the SYSTEM is written, and both when the boot files are.
SoundFlash ==
    /\ ~InWrites => Harmed \/ Bootable
    /\ InWrites /\ step > 1 => Harmed \/ flash["KERNEL"] = source["KERNEL"]
    /\ InWrites /\ step > 2 => Harmed \/ flash["SYSTEM"] = source["SYSTEM"]

RiskKnown == force # {} => risked

BrokenDoesNotBoot == at = "broken" => ~Bootable

SafeInv == Inv /\ SoundSource /\ SoundFlash /\ RiskKnown /\ BrokenDoesNotBoot

----------------------------------------------------------------------------
(* What GoodUpdateInstalled needs in addition                              *)

\* Without a power cut, nothing is torn and .tmp marks only work in progress.
PowerStayedOn ==
    cuts = 0 => /\ ~torn
                /\ tmp => \/ at \in {"unpack", "move", "check", "write", "writing"}
                          \/ at = "clean" /\ step < 3

\* The update that the user wants lies in .update ...
Waiting ==
    \/ archive # None /\ archive.whole /\ archive.release = wanted
    \/ archive = None /\ files = Both(wanted)

\* ... or what could be written of it is on /flash, a cut KERNEL or SYSTEM
\* being marked as such,
Written == \A f \in Files : flash[f] \in {wanted, Partial}

\* and do_cleanup has removed the archive and the files it has come to.
Removed(n) ==
    /\ n > 1 => archive = None
    /\ n > 3 => files["KERNEL"] = None
    /\ n > 4 => files["SYSTEM"] = None

\* Where a good update is, from the user's hands to the next boot.
OnItsWay ==
    \/ at \in {"up", "boot"} /\ (Waiting \/ (Written /\ Removed(5)))
    \/ at = "unpack" /\ Waiting
    \/ at = "move" /\ archive \in Archives /\ archive.release = wanted
    \/ at \in {"check", "write", "writing"} /\ source = Both(wanted)
    \/ at = "clean" /\ after = "boot" /\ Written /\ Removed(step)
    \/ at = "broken"

Undisturbed == cuts = 0 /\ ~netboot /\ Good(wanted)

UpdateInv == PowerStayedOn /\ (Undisturbed => OnItsWay)

----------------------------------------------------------------------------
(* Facts about the tuples and about what is whole                          *)

\* The parts of /flash, in the order in which they are written.
LEMMA PartsFacts ==
    /\ Len(Parts) = 3
    /\ Parts[1] = "KERNEL" /\ Parts[2] = "SYSTEM" /\ Parts[3] = "loader"
BY DEF Parts

\* The steps of do_cleanup.
LEMMA CleanupFacts ==
    /\ Len(CleanupSteps) = 5
    /\ CleanupSteps[1] = "archive" /\ CleanupSteps[2] = "tmp" /\ CleanupSteps[3] = "KERNEL"
    /\ CleanupSteps[4] = "SYSTEM" /\ CleanupSteps[5] = "force"
BY DEF CleanupSteps

\* What boots has three whole parts, made for the device.
LEMMA BootableFacts ==
    Bootable <=> /\ flash["KERNEL"] \in Sound
                 /\ flash["SYSTEM"] \in Sound
                 /\ flash["loader"] \in Sound
<1>1. Bootable <=> \A i \in 1..3 : flash[Parts[i]] \in Sound
  BY PartsFacts DEF Bootable, Sound
<1>2. \A i : i \in 1..3 <=> i = 1 \/ i = 2 \/ i = 3
  OBVIOUS
<1> QED BY <1>1, <1>2, PartsFacts

----------------------------------------------------------------------------
(* Type correctness                                                        *)

\* The initial states have the types.
LEMMA InitTypeOK == Init => TypeOK
<1> SUFFICES ASSUME Init PROVE TypeOK
  OBVIOUS
<1> USE BootAssumption, CleanupFacts, PartsFacts
<1>1. source \in [Files -> Versions \union {None}] /\ files \in [Files -> Versions \union {None}]
  BY DEF Init, NoFiles
<1>2. flash \in [{"KERNEL", "SYSTEM", "loader"} -> Versions \union {Partial}]
  BY DEF Init
<1>3. at = "up" /\ step = 0 /\ after = "up" /\ archive = None /\ wanted = None
  BY DEF Init
<1>4. tmp \in BOOLEAN /\ netboot \in BOOLEAN /\ torn \in BOOLEAN /\ risked \in BOOLEAN
      /\ trusted \in BOOLEAN /\ cramped \in BOOLEAN /\ tried \in BOOLEAN
  BY DEF Init
<1>5. force = {} /\ puts = 0 /\ cuts = 0
  BY DEF Init
<1> QED BY <1>1, <1>2, <1>3, <1>4, <1>5 DEF TypeOK

\* Every step preserves the types: what is moved and written is there.
LEMMA NextTypeOK == TypeOK /\ KernelMoved /\ SourceThere /\ [Next]_vars => TypeOK'
<1> SUFFICES ASSUME TypeOK, KernelMoved, SourceThere, [Next]_vars PROVE TypeOK'
  OBVIOUS
<1> USE BootAssumption, CleanupFacts, PartsFacts DEF TypeOK, process, device, history, harm
<1>1. ASSUME NEW a \in Archives, PutArchive(a) PROVE TypeOK'
  <2>1. at' = at /\ step' = step /\ after' = after BY <1>1 DEF PutArchive
  <2>2. source' = source /\ flash' = flash /\ archive' = a BY <1>1 DEF PutArchive
  <2>3. files' \in [Files -> Versions \union {None}] BY <1>1 DEF PutArchive, NoFiles
  <2>4. tmp' = tmp /\ force' = force /\ netboot' = netboot /\ cuts' = cuts BY <1>1 DEF PutArchive
  <2>5. puts' \in 0..MaxPuts BY <1>1 DEF PutArchive
  <2>6. UNCHANGED <<torn, risked, trusted, cramped>> /\ tried' \in BOOLEAN BY <1>1 DEF PutArchive
  <2>7. wanted' \in Versions \union {None} BY <1>1 DEF PutArchive, Archives
  <2> QED BY <2>1, <2>2, <2>3, <2>4, <2>5, <2>6, <2>7
<1>2. ASSUME NEW v \in Versions, PutFiles(v) PROVE TypeOK'
  <2>1. at' = at /\ step' = step /\ after' = after BY <1>2 DEF PutFiles
  <2>2. source' = source /\ flash' = flash /\ archive' = None BY <1>2 DEF PutFiles
  <2>3. files' \in [Files -> Versions \union {None}] BY <1>2 DEF PutFiles, Both
  <2>4. tmp' = tmp /\ force' = force /\ netboot' = netboot /\ cuts' = cuts BY <1>2 DEF PutFiles
  <2>5. puts' \in 0..MaxPuts BY <1>2 DEF PutFiles
  <2>6. UNCHANGED <<torn, risked, trusted, cramped>> /\ tried' \in BOOLEAN BY <1>2 DEF PutFiles
  <2>7. wanted' \in Versions \union {None} BY <1>2 DEF PutFiles
  <2> QED BY <2>1, <2>2, <2>3, <2>4, <2>5, <2>6, <2>7
<1>3. ASSUME NEW f \in {"nocheck", "nocompat"}, SwitchOff(f) PROVE TypeOK'
  BY <1>3 DEF SwitchOff
<1>4. CASE Reboot
  BY <1>4 DEF Reboot
<1>5. CASE DoesNotBoot \/ NothingFound
  BY <1>5 DEF DoesNotBoot, NothingFound
<1>6. CASE Refuse
  BY <1>6 DEF Refuse, Cleanup
<1>7. CASE BeginUpdate
  BY <1>7 DEF BeginUpdate
<1>8. CASE UnpackFails
  BY <1>8 DEF UnpackFails, Cleanup
<1>9. CASE MoveKernel
  <2>1. archive.release \in Versions BY <1>9 DEF MoveKernel, Archives
  <2> QED BY <1>9, <2>1 DEF MoveKernel
<1>10. CASE MountImage
  <2>1. archive.release \in Versions BY <1>10 DEF MountImage, Archives
  <2> QED BY <1>10, <2>1 DEF MountImage, Both
<1>11. CASE UseFiles
  BY <1>11 DEF UseFiles
<1>12. CASE Reject
  BY <1>12 DEF Reject, Cleanup
<1>13. CASE Accept
  BY <1>13 DEF Accept
<1>14. CASE CleanupStep
  <2>1. at' \in {"up", "boot", "clean"} /\ step' \in 0..5 /\ (at' = "clean" => step' \in 1..5)
    BY <1>14 DEF CleanupStep
  <2>2. source' \in [Files -> Versions \union {None}] BY <1>14 DEF CleanupStep, NoFiles
  <2>3. files' \in [Files -> Versions \union {None}] BY <1>14 DEF CleanupStep, Cleaned
  <2>4. archive' \in {archive, None} BY <1>14 DEF CleanupStep
  <2>5. tmp' \in BOOLEAN BY <1>14 DEF CleanupStep
  <2>6. force' \in {force, {}} BY <1>14 DEF CleanupStep
  <2>7. after' = after /\ flash' = flash /\ netboot' = netboot /\ puts' = puts /\ cuts' = cuts
    BY <1>14 DEF CleanupStep
  <2>8. UNCHANGED <<torn, risked, trusted, cramped, tried, wanted>>
    BY <1>14 DEF CleanupStep
  <2> QED BY <2>1, <2>2, <2>3, <2>4, <2>5, <2>6, <2>7, <2>8
<1>15. CASE PowerCut
  BY <1>15 DEF PowerCut, NoFiles, HalfWritten, MixRevived
<1>16. CASE MoveSystem
  <2>1. archive.release \in Versions BY <1>16 DEF MoveSystem, KernelMoved, Archives
  <2>2. MovedFiles \in [Files -> Versions \union {None}] BY <2>1 DEF MovedFiles
  <2> QED BY <1>16, <2>2 DEF MoveSystem
<1>17. CASE StartWrite
  BY <1>17 DEF StartWrite, Part
<1>18. CASE FinishWrite
  <2>1. PICK r \in Results(Part) :
            /\ flash' = [flash EXCEPT ![Part] = r]
            /\ cramped' = (cramped \/ (Part = "KERNEL" /\ r = Partial))
    BY <1>18 DEF FinishWrite
  <2>2. r \in Versions \union {Partial}
    <3>1. source["KERNEL"] \in Versions /\ source["SYSTEM"] \in Versions
      BY <1>18 DEF FinishWrite, SourceThere, Files
    <3>2. Part \in {"KERNEL", "SYSTEM", "loader"}
      BY <1>18 DEF FinishWrite, Part
    <3>3. Contents(Part) \in Versions
      <4>1. CASE Part = "KERNEL"
        BY <3>1, <4>1 DEF Contents
      <4>2. CASE Part # "KERNEL"
        BY <3>1, <3>2, <4>2 DEF Contents
      <4> QED BY <4>1, <4>2
    <3> QED BY <2>1, <3>3 DEF Results
  <2>3. flash' \in [{"KERNEL", "SYSTEM", "loader"} -> Versions \union {Partial}]
    BY <2>1, <2>2
  <2>4. \/ at' = "clean" /\ step' = 1 /\ after' = "boot"
        \/ at' = "write" /\ step' \in 1..3 /\ after' = after
    BY <1>18 DEF FinishWrite, Cleanup, LastPart
  <2>5. UNCHANGED <<source, archive, files, tmp, force, netboot, puts, cuts,
                   torn, risked, trusted, tried, wanted>>
    BY <1>18 DEF FinishWrite
  <2>6. cramped' \in BOOLEAN
    BY <2>1
  <2> QED BY <2>3, <2>4, <2>5, <2>6
<1>19. CASE UNCHANGED vars
  BY <1>19 DEF vars
<1> QED
  BY <1>1, <1>2, <1>3, <1>4, <1>5, <1>6, <1>7, <1>8, <1>9, <1>10, <1>11, <1>12, <1>13, <1>14,
     <1>15, <1>16, <1>17, <1>18, <1>19 DEF Next, User, Boot

----------------------------------------------------------------------------
(* Inv is inductive                                                        *)

\* The initial states satisfy the invariant.
LEMMA InitInv == Init => Inv
<1> SUFFICES ASSUME Init PROVE Inv
  OBVIOUS
<1>1. TypeOK
  BY InitTypeOK
<1>2. Bootable
  BY BootAssumption, BootableFacts DEF Init, Sound
<1> QED BY <1>1, <1>2 DEF Inv, Init, TmpWhileAtWork, KernelMoved, MixMarked, Mixed, OneSource,
           SourceThere, Booted, FlashOfOne, InWrites, Same, NoFiles, Files

\* Every step preserves the invariant.
LEMMA NextInv == Inv /\ [Next]_vars => Inv'
<1> SUFFICES ASSUME Inv, [Next]_vars PROVE Inv'
  OBVIOUS
<1>0. TypeOK'
  BY NextTypeOK DEF Inv
<1> USE CleanupFacts, PartsFacts DEF process, device, history, harm, Files
<1> USE DEF Inv, TypeOK, TmpWhileAtWork, KernelMoved, MixMarked, Mixed, OneSource, SourceThere,
            Booted, Runs, FlashOfOne, InWrites, Same, AnyPartial
<1>b. flash' = flash => (Bootable' <=> Bootable)
  BY DEF Bootable
<1>1. ASSUME NEW a \in Archives, PutArchive(a) PROVE Inv'
  BY <1>0, <1>b, <1>1 DEF PutArchive, NoFiles
<1>2. ASSUME NEW v \in Versions, PutFiles(v) PROVE Inv'
  BY <1>0, <1>b, <1>2 DEF PutFiles, Both
<1>3. ASSUME NEW f \in {"nocheck", "nocompat"}, SwitchOff(f) PROVE Inv'
  BY <1>0, <1>b, <1>3 DEF SwitchOff
<1>4. CASE Reboot
  BY <1>0, <1>b, <1>4 DEF Reboot
<1>5. CASE DoesNotBoot
  BY <1>0, <1>b, <1>5 DEF DoesNotBoot
<1>6. CASE NothingFound
  BY <1>0, <1>b, <1>6 DEF NothingFound, Found
<1>7. CASE Refuse
  BY <1>0, <1>b, <1>7 DEF Refuse, Refuses, Found, Cleanup
<1>8. CASE BeginUpdate
  BY <1>0, <1>b, <1>8 DEF BeginUpdate, Refuses
<1>9. CASE UnpackFails
  BY <1>0, <1>b, <1>9 DEF UnpackFails, Cleanup
<1>10. CASE MoveKernel
  BY <1>0, <1>b, <1>10 DEF MoveKernel
<1>11. CASE MoveSystem
  BY <1>0, <1>b, <1>11 DEF MoveSystem, MovedFiles
<1>12. CASE MountImage
  BY <1>0, <1>b, <1>12 DEF MountImage, Both
<1>13. CASE UseFiles
  BY <1>0, <1>b, <1>13 DEF UseFiles
<1>14. CASE Reject
  BY <1>0, <1>b, <1>14 DEF Reject, Cleanup
<1>15. CASE Accept
  BY <1>0, <1>b, <1>15 DEF Accept, Genuine
<1>16. CASE StartWrite
  BY <1>0, <1>b, <1>16 DEF StartWrite, Part
<1>17. CASE FinishWrite
  <2>1. PICK r \in Results(Part) :
            /\ flash' = [flash EXCEPT ![Part] = r]
            /\ cramped' = (cramped \/ (Part = "KERNEL" /\ r = Partial))
    BY <1>17 DEF FinishWrite
  <2>2. r \in {Contents(Part), Partial}
    BY <2>1 DEF Results
  <2>3. UNCHANGED <<source, archive, files, tmp, torn>> /\ at = "writing" /\ step \in 1..3
    BY <1>17 DEF FinishWrite
  <2>4. \/ step = 3 /\ at' = "clean" /\ step' = 1 /\ after' = "boot"
        \/ step < 3 /\ at' = "write" /\ step' = step + 1 /\ after' = after
    BY <1>17, <2>3 DEF FinishWrite, Cleanup, LastPart
  <2>5. (TmpWhileAtWork /\ KernelMoved /\ MixMarked /\ OneSource /\ SourceThere /\ Booted)'
    BY <2>3, <2>4
  <2>6. CASE step = 1
    <3>1. flash' = [flash EXCEPT !["KERNEL"] = r] /\ r \in {source["KERNEL"], Partial}
      BY <2>1, <2>2, <2>6 DEF Part, Contents
    <3> QED BY <1>0, <2>3, <2>4, <2>5, <2>6, <3>1
  <2>7. CASE step = 2
    <3>1. flash' = [flash EXCEPT !["SYSTEM"] = r] /\ r \in {source["SYSTEM"], Partial}
      BY <2>1, <2>2, <2>7 DEF Part, Contents
    <3> QED BY <1>0, <2>3, <2>4, <2>5, <2>7, <3>1
  <2>8. CASE step = 3
    <3>1. flash' = [flash EXCEPT !["loader"] = r] /\ r \in {source["SYSTEM"], Partial}
      BY <2>1, <2>2, <2>8 DEF Part, Contents
    <3> QED BY <1>0, <2>3, <2>4, <2>5, <2>8, <3>1
  <2> QED BY <2>3, <2>6, <2>7, <2>8
<1>18. CASE CleanupStep
  BY <1>0, <1>b, <1>18 DEF CleanupStep, Cleaned, NoFiles
<1>19. CASE PowerCut
  BY <1>0, <1>b, <1>19 DEF PowerCut, HalfWritten, MixRevived, NoFiles
<1>20. CASE UNCHANGED vars
  BY <1>0, <1>b, <1>20 DEF vars
<1> QED
  BY <1>1, <1>2, <1>3, <1>4, <1>5, <1>6, <1>7, <1>8, <1>9, <1>10, <1>11, <1>12, <1>13, <1>14, <1>15, <1>16, <1>17, <1>18, <1>19, <1>20 DEF Next, User, Boot

\* Inv is an invariant.
THEOREM Invariant == Spec => []Inv
<1>1. Init => Inv
  BY InitInv
<1>2. Inv /\ [Next]_vars => Inv'
  BY NextInv
<1> QED BY <1>1, <1>2, PTL DEF Spec

\* The state of the device, of init and of the history has its types.
THEOREM TypeCorrect == Spec => []TypeOK
<1>1. Inv => TypeOK
  BY DEF Inv
<1> QED BY <1>1, Invariant, PTL

\* A system that comes up is of one release, whatever was put into .update,
\* rejected or interrupted, apart from the two places where the power must
\* not fail.
THEOREM MatchedHolds == Spec => []Matched
<1>1. Inv => Matched
  <2> SUFFICES ASSUME Inv, at = "up", ~torn PROVE Same
    BY DEF Matched, Same
  <2>1. Bootable
    BY DEF Inv, Booted, Runs
  <2>2. ~AnyPartial
    BY <2>1, BootableFacts, BootAssumption DEF AnyPartial, Sound
  <2> QED BY <2>2 DEF Inv, FlashOfOne, InWrites
<1> QED BY <1>1, Invariant, PTL

----------------------------------------------------------------------------
(* SafeInv is inductive                                                    *)

\* The initial states satisfy the stronger invariant.
LEMMA InitSafeInv == Init => SafeInv
<1> SUFFICES ASSUME Init PROVE SafeInv
  OBVIOUS
<1>1. Inv
  BY InitInv
<1>2. Bootable
  BY BootAssumption, BootableFacts DEF Init, Sound
<1> QED BY <1>1, <1>2 DEF SafeInv, Init, SoundSource, SoundFlash, InWrites, RiskKnown,
           BrokenDoesNotBoot

\* Every step preserves it: a check that lets something harmful through, and a
\* KERNEL that does not fit, are in the history.
LEMMA NextSafeInv == SafeInv /\ [Next]_vars => SafeInv'
<1> SUFFICES ASSUME SafeInv, [Next]_vars PROVE SafeInv'
  OBVIOUS
<1>0. Inv'
  BY NextInv DEF SafeInv
<1> USE CleanupFacts, PartsFacts DEF process, device, history, harm, Files
<1> USE DEF SafeInv, SoundSource, SoundFlash, InWrites, RiskKnown, Harmed,
            BrokenDoesNotBoot
<1>a. TypeOK /\ Inv
  BY DEF Inv
<1>b. flash' = flash => (Bootable' <=> Bootable)
  BY DEF Bootable
<1>1. ASSUME NEW a \in Archives, PutArchive(a) PROVE SafeInv'
  BY <1>0, <1>a, <1>b, <1>1 DEF PutArchive, TypeOK
<1>2. ASSUME NEW v \in Versions, PutFiles(v) PROVE SafeInv'
  BY <1>0, <1>a, <1>b, <1>2 DEF PutFiles, TypeOK
<1>3. ASSUME NEW f \in {"nocheck", "nocompat"}, SwitchOff(f) PROVE SafeInv'
  BY <1>0, <1>a, <1>b, <1>3 DEF SwitchOff, TypeOK
<1>4. CASE Reboot
  BY <1>0, <1>a, <1>b, <1>4 DEF Reboot, TypeOK
<1>5. CASE DoesNotBoot
  BY <1>0, <1>a, <1>b, <1>5 DEF DoesNotBoot, TypeOK
<1>6. CASE NothingFound
  BY <1>0, <1>a, <1>b, <1>6 DEF NothingFound, TypeOK
<1>7. CASE Refuse
  BY <1>0, <1>a, <1>b, <1>7 DEF Refuse, Cleanup, TypeOK
<1>8. CASE BeginUpdate
  BY <1>0, <1>a, <1>b, <1>8 DEF BeginUpdate, TypeOK
<1>9. CASE UnpackFails
  BY <1>0, <1>a, <1>b, <1>9 DEF UnpackFails, Cleanup, TypeOK
<1>10. CASE MoveKernel
  BY <1>0, <1>a, <1>b, <1>10 DEF MoveKernel, TypeOK
<1>11. CASE MoveSystem
  BY <1>0, <1>a, <1>b, <1>11 DEF MoveSystem, TypeOK
<1>12. CASE MountImage
  BY <1>0, <1>a, <1>b, <1>12 DEF MountImage, TypeOK
<1>13. CASE UseFiles
  BY <1>0, <1>a, <1>b, <1>13 DEF UseFiles, TypeOK
<1>14. CASE Reject
  BY <1>0, <1>a, <1>b, <1>14 DEF Reject, Cleanup, TypeOK
<1>15. CASE Accept
  <2>1. ASSUME ~torn, ~risked, ~trusted' PROVE source["SYSTEM"] \in Sound /\ Fits(source["SYSTEM"])
    <3>1. /\ source["KERNEL"] = source["SYSTEM"] /\ source["SYSTEM"] \in Intact
          /\ CheckIsCompatible(flash["SYSTEM"], source["SYSTEM"])
      BY <1>15, <2>1 DEF Accept, Genuine, Inv, OneSource
    <3>2. source["SYSTEM"] \in Versions
      BY <3>1, BootAssumption
    <3>3. flash["SYSTEM"] \in Compatible
      BY <1>a, <1>15, BootableFacts DEF Accept, Inv, Booted, Runs, Sound
    <3>4. source["SYSTEM"] \in Compatible
      BY <1>15, <2>1, <3>1, <3>2, <3>3, NameAssumption DEF Accept, CheckIsCompatible
    <3> QED BY <1>15, <3>1, <3>2, <3>4, BootAssumption DEF Accept, FlashFreeAfter, Fits, Sound
  <2>2. /\ UNCHANGED <<source, flash, torn, risked, cramped, force>>
        /\ at' = "write" /\ step' = 1 /\ at = "check"
    BY <1>15 DEF Accept
  <2>3. trusted => trusted'
    BY <1>15 DEF Accept
  <2>4. SoundSource'
    BY <2>1, <2>2, <2>3
  <2> QED BY <1>0, <1>b, <2>2, <2>3, <2>4
<1>16. CASE StartWrite
  <2>1. /\ UNCHANGED <<source, torn, risked, trusted, cramped, force, step>>
        /\ at = "write" /\ at' = "writing" /\ step \in 1..3
    BY <1>a, <1>16 DEF StartWrite, TypeOK
  <2>2. flash' = [flash EXCEPT ![Parts[step]] = Partial]
    BY <1>16 DEF StartWrite, Part
  <2>3. flash \in [{"KERNEL", "SYSTEM", "loader"} -> Versions \union {Partial}]
    BY <1>a DEF TypeOK
  <2>4. /\ step > 1 => flash'["KERNEL"] = flash["KERNEL"]
        /\ step > 2 => flash'["SYSTEM"] = flash["SYSTEM"]
    BY <2>1, <2>2, <2>3
  <2> QED BY <1>0, <2>1, <2>4
<1>17. CASE FinishWrite
  <2>1. PICK r \in Results(Part) :
            /\ flash' = [flash EXCEPT ![Part] = r]
            /\ cramped' = (cramped \/ (Part = "KERNEL" /\ r = Partial))
    BY <1>17 DEF FinishWrite
  <2>2. UNCHANGED <<source, torn, risked, trusted, force>> /\ at = "writing" /\ step \in 1..3
    BY <1>a, <1>17 DEF FinishWrite, TypeOK
  <2>3. \/ step = 3 /\ at' = "clean" /\ step' = 1
        \/ step < 3 /\ at' = "write" /\ step' = step + 1
    BY <1>17, <2>2 DEF FinishWrite, Cleanup, LastPart
  <2>4. flash \in [{"KERNEL", "SYSTEM", "loader"} -> Versions \union {Partial}]
    BY <1>a DEF TypeOK
  <2>5. CASE Harmed'
    BY <1>0, <2>2, <2>3, <2>5
  <2>6. CASE ~Harmed'
    <3> DEFINE v == source["SYSTEM"]
    <3>0. ~Harmed
      BY <2>1, <2>2, <2>6
    <3>1. v \in Sound /\ Fits(v) /\ v \in Versions /\ v # Partial
      BY <2>2, <3>0, BootAssumption DEF Sound
    <3>2. source["KERNEL"] = v
      BY <1>a, <2>2, <3>0 DEF Inv, OneSource, SourceThere
    <3>3. Contents("KERNEL") = v /\ Contents("SYSTEM") = v /\ Contents("loader") = v
      BY <3>2 DEF Contents
    <3>4. CASE step = 1
      <4>1. Part = "KERNEL"
        BY <3>4 DEF Part
      <4>2. r = v
        BY <2>1, <2>6, <3>3, <4>1 DEF Results
      <4>3. flash'["KERNEL"] = v
        BY <2>1, <2>4, <4>1, <4>2
      <4> QED BY <1>0, <2>2, <2>3, <3>1, <3>2, <3>4, <4>3
    <3>5. CASE step = 2
      <4>1. Part = "SYSTEM" /\ flash["KERNEL"] = v
        BY <2>2, <3>0, <3>2, <3>5 DEF Part
      <4>2. Size["KERNEL"][v] \in Nat /\ Size["SYSTEM"][v] \in Nat
        BY <3>1, BootAssumption
      <4>3. Size["SYSTEM"][v] <= Capacity - Size["KERNEL"][v]
        BY <3>1, <4>2, BootAssumption DEF Fits
      <4>4. flash' = [flash EXCEPT !["SYSTEM"] = v]
        BY <2>1, <3>1, <3>3, <4>1, <4>3 DEF Results, Other
      <4>5. flash'["KERNEL"] = v /\ flash'["SYSTEM"] = v
        BY <2>4, <4>1, <4>4
      <4> QED BY <1>0, <2>2, <2>3, <3>1, <3>2, <3>5, <4>5
    <3>6. CASE step = 3
      <4>1. Part = "loader" /\ flash["KERNEL"] = v /\ flash["SYSTEM"] = v
        BY <2>2, <3>0, <3>2, <3>6 DEF Part
      <4>2. flash' = [flash EXCEPT !["loader"] = v]
        BY <2>1, <3>3, <4>1 DEF Results
      <4>3. flash'["KERNEL"] = v /\ flash'["SYSTEM"] = v /\ flash'["loader"] = v
        BY <2>4, <4>1, <4>2
      <4>4. Bootable'
        <5>1. (Bootable <=> /\ flash["KERNEL"] \in Sound
                             /\ flash["SYSTEM"] \in Sound
                             /\ flash["loader"] \in Sound)'
          BY BootableFacts, PTL
        <5> QED BY <3>1, <4>3, <5>1
      <4> QED BY <1>0, <2>2, <2>3, <3>1, <3>6, <4>4
    <3> QED BY <2>2, <3>4, <3>5, <3>6
  <2> QED BY <2>5, <2>6
<1>18. CASE CleanupStep
  BY <1>0, <1>a, <1>b, <1>18 DEF CleanupStep, TypeOK
<1>19. CASE PowerCut
  BY <1>0, <1>a, <1>b, <1>19 DEF PowerCut, HalfWritten, TypeOK
<1>20. CASE UNCHANGED vars
  BY <1>0, <1>a, <1>b, <1>20 DEF vars, TypeOK
<1> QED
  BY <1>1, <1>2, <1>3, <1>4, <1>5, <1>6, <1>7, <1>8, <1>9, <1>10, <1>11, <1>12, <1>13, <1>14, <1>15, <1>16, <1>17, <1>18, <1>19, <1>20 DEF Next, User, Boot

\* Whatever was put into .update and wherever else the power failed, the device
\* keeps booting: for any releases, names and sizes, the only ways to lose it
\* are the four that the history records.
THEOREM NeverBricksHolds == Spec => []NeverBricks
<1>1. Init => SafeInv
  BY InitSafeInv
<1>2. SafeInv /\ [Next]_vars => SafeInv'
  BY NextSafeInv
<1>3. SafeInv => NeverBricks
  BY DEF SafeInv, BrokenDoesNotBoot, SoundFlash, InWrites, Harmed, NeverBricks
<1> QED BY <1>1, <1>2, <1>3, PTL DEF Spec
----------------------------------------------------------------------------
(* UpdateInv is inductive                                                  *)

\* A good release is one of the releases, passes the checks, and is no mark.
LEMMA GoodFacts ==
    ASSUME NEW v, Good(v)
    PROVE  /\ v \in Versions /\ v # None /\ v # Partial
           /\ v \in Intact /\ v \in Compatible
           /\ Both(v)["KERNEL"] = v /\ Both(v)["SYSTEM"] = v
BY BootAssumption DEF Good, Both, Files

\* A good release that has been written and boots is what runs.
LEMMA WrittenRuns ==
    ASSUME Written, Bootable
    PROVE  \A f \in Files : flash[f] = wanted
BY BootableFacts, BootAssumption DEF Written, Files, Sound

\* In the beginning nothing is wanted.
LEMMA InitUpdateInv == Init => UpdateInv
<1> SUFFICES ASSUME Init PROVE UpdateInv
  OBVIOUS
<1>1. ~Good(wanted)
  BY BootAssumption DEF Init, Good
<1> QED BY <1>1 DEF Init, UpdateInv, PowerStayedOn, Undisturbed

\* .tmp is removed by every do_cleanup, unless the power fails.
LEMMA NextPowerStayedOn == Inv /\ PowerStayedOn /\ [Next]_vars => PowerStayedOn'
<1> SUFFICES ASSUME Inv, PowerStayedOn, [Next]_vars PROVE PowerStayedOn'
  OBVIOUS
<1> USE CleanupFacts, PartsFacts DEF PowerStayedOn, process, device, history, harm, Inv, TypeOK
<1>1. CASE User
  BY <1>1 DEF User, PutArchive, PutFiles, SwitchOff, Reboot
<1>2. CASE DoesNotBoot \/ NothingFound \/ Refuse \/ BeginUpdate
  BY <1>2 DEF DoesNotBoot, NothingFound, Refuse, Refuses, BeginUpdate, Cleanup
<1>3. CASE UnpackFails \/ MoveKernel \/ MoveSystem \/ MountImage \/ UseFiles
  BY <1>3 DEF UnpackFails, MoveKernel, MoveSystem, MountImage, UseFiles, Cleanup
<1>4. CASE Reject \/ Accept
  <2>1. CASE Reject
    BY <2>1 DEF Reject, Cleanup
  <2>2. CASE Accept
    <3>1. UNCHANGED <<tmp, torn, cuts>> /\ at = "check" /\ at' = "write"
      BY <2>2 DEF Accept
    <3> QED BY <3>1
  <2> QED BY <1>4, <2>1, <2>2
<1>5. CASE StartWrite \/ FinishWrite
  BY <1>5 DEF StartWrite, FinishWrite, Cleanup
<1>6. CASE CleanupStep
  BY <1>6 DEF CleanupStep
<1>7. CASE PowerCut
  BY <1>7 DEF PowerCut
<1>8. CASE UNCHANGED vars
  BY <1>8 DEF vars
<1> QED BY <1>1, <1>2, <1>3, <1>4, <1>5, <1>6, <1>7, <1>8 DEF Next, Boot

\* A good update goes its way: it is found, passes the checks, is written, and
\* is what is there when do_cleanup has restarted the device.
LEMMA NextUpdateInv == Inv /\ UpdateInv /\ [Next]_vars => UpdateInv'
<1> SUFFICES ASSUME Inv, UpdateInv, [Next]_vars PROVE UpdateInv'
  OBVIOUS
<1>p. PowerStayedOn'
  BY NextPowerStayedOn DEF UpdateInv
<1> SUFFICES ASSUME Undisturbed' PROVE OnItsWay'
  BY <1>p DEF UpdateInv
<1>t. TypeOK /\ Files = {"KERNEL", "SYSTEM"}
  BY DEF Inv, Files
<1>g. Good(wanted')
  BY DEF Undisturbed, Good
<1>v. /\ wanted' \in Versions /\ wanted' # None /\ wanted' # Partial
      /\ wanted' \in Intact /\ wanted' \in Compatible
      /\ Both(wanted')["KERNEL"] = wanted' /\ Both(wanted')["SYSTEM"] = wanted'
  BY <1>g, GoodFacts
<1>1. ASSUME NEW a \in Archives, PutArchive(a) PROVE OnItsWay'
  BY <1>1, <1>v, BootAssumption DEF PutArchive, OnItsWay, Waiting, process
<1>2. ASSUME NEW v \in Versions, PutFiles(v) PROVE OnItsWay'
  BY <1>2 DEF PutFiles, OnItsWay, Waiting, Both, process
<1>3. CASE ~User
  <2>1. wanted' = wanted /\ netboot' = netboot /\ cuts <= cuts'
    <3>1. CASE Accept
      BY <3>1, <1>t DEF Accept, TypeOK, device
    <3>2. CASE FinishWrite
      BY <3>2, <1>t DEF FinishWrite, TypeOK
    <3>3. CASE ~Accept /\ ~FinishWrite
      BY <1>3, <1>t, <3>3 DEF Next, Boot, PowerCut, DoesNotBoot, NothingFound, Refuse, BeginUpdate,
         UnpackFails, MoveKernel, MoveSystem, MountImage, UseFiles, Reject, StartWrite,
         CleanupStep, TypeOK, vars, device, history, harm
    <3> QED BY <3>1, <3>2, <3>3
  <2>2. Undisturbed /\ OnItsWay /\ cuts = 0 /\ cuts' = 0
    BY <2>1, <1>t DEF Undisturbed, UpdateInv, Good, TypeOK
  <2>3. ~torn /\ (at = "boot" => ~tmp) /\ ~netboot
    BY <2>2 DEF UpdateInv, PowerStayedOn, Undisturbed
  <2>4. CASE DoesNotBoot
    BY <2>4 DEF DoesNotBoot, OnItsWay
  <2>5. CASE NothingFound
    <3>1. ~Waiting
      BY <2>1, <2>5, <1>t, <1>v, BootAssumption DEF NothingFound, Found, Waiting
    <3> QED BY <2>1, <2>2, <2>5, <3>1 DEF NothingFound, OnItsWay, Written, Removed, device
  <2>6. CASE Refuse
    BY <2>3, <2>6 DEF Refuse, Refuses
  <2>7. CASE BeginUpdate
    <3>1. Waiting
      BY <2>2, <2>7, <1>t DEF BeginUpdate, Found, OnItsWay, Removed
    <3> QED BY <2>1, <2>7, <3>1 DEF BeginUpdate, OnItsWay, Waiting
  <2>8. CASE UnpackFails
    BY <2>2, <2>8 DEF UnpackFails, OnItsWay, Waiting
  <2>9. CASE MoveKernel
    BY <2>1, <2>2, <2>9, <1>t DEF MoveKernel, OnItsWay, Waiting, TypeOK
  <2>10. CASE MoveSystem
    <3>1. archive.release = wanted /\ files["KERNEL"] = wanted
      BY <2>2, <2>10 DEF MoveSystem, OnItsWay, Inv, KernelMoved
    <3>2. MovedFiles = Both(wanted)
      BY <3>1, <1>t DEF MovedFiles, Both, TypeOK
    <3> QED BY <2>1, <2>10, <3>2 DEF MoveSystem, OnItsWay, Both
  <2>11. CASE MountImage
    BY <2>1, <2>2, <2>11 DEF MountImage, OnItsWay, Waiting, Both
  <2>12. CASE UseFiles
    <3>1. files = Both(wanted)
      BY <2>2, <2>12 DEF UseFiles, OnItsWay, Waiting
    <3> QED BY <2>1, <2>12, <3>1 DEF UseFiles, OnItsWay, Both
  <2>13. CASE Reject
    <3>1. source["KERNEL"] = wanted /\ source["SYSTEM"] = wanted
      BY <2>1, <2>2, <2>13, <1>v DEF Reject, OnItsWay
    <3>2. Genuine
      <4>1. flash["SYSTEM"] \in Compatible
        BY <2>13, BootableFacts DEF Reject, Inv, Booted, Runs, Sound
      <4>2. CheckIsCompatible(flash["SYSTEM"], wanted)
        BY <2>1, <4>1, <1>g DEF Good
      <4> QED BY <2>1, <3>1, <4>2, <1>t, <1>v DEF Genuine
    <3>3. FlashFreeAfter >= FlashFreeMin
      BY <2>1, <3>1, <1>g DEF FlashFreeAfter, Good
    <3> QED BY <2>13, <3>2, <3>3 DEF Reject
  <2>14. CASE Accept
    BY <2>1, <2>2, <2>14 DEF Accept, OnItsWay, Both
  <2>15. CASE StartWrite
    BY <2>1, <2>2, <2>15 DEF StartWrite, OnItsWay, Both
  <2>16. CASE FinishWrite
    <3>1. source = Both(wanted) /\ source' = source /\ at = "writing"
      BY <2>2, <2>16 DEF FinishWrite, OnItsWay
    <3>2. CASE ~LastPart
      BY <2>1, <2>16, <3>1, <3>2 DEF FinishWrite, OnItsWay, Both
    <3>3. CASE LastPart
      <4>1. step = 3 /\ Part = "loader"
        BY <3>3, PartsFacts DEF LastPart, Part
      <4>2. flash["KERNEL"] \in {wanted, Partial} /\ flash["SYSTEM"] \in {wanted, Partial}
        BY <2>1, <2>3, <3>1, <4>1, <1>v DEF Inv, FlashOfOne, InWrites
      <4>3. flash'["KERNEL"] = flash["KERNEL"] /\ flash'["SYSTEM"] = flash["SYSTEM"]
        BY <2>16, <4>1, <1>t DEF FinishWrite, TypeOK
      <4>4. at' = "clean" /\ step' = 1 /\ after' = "boot"
        BY <2>16, <3>3 DEF FinishWrite, Cleanup
      <4> QED BY <2>1, <4>2, <4>3, <4>4, <1>t DEF OnItsWay, Written, Removed
    <3> QED BY <3>2, <3>3
  <2>17. CASE CleanupStep
    <3>1. after = "boot" /\ Written /\ Removed(step) /\ step \in 1..5
      BY <2>2, <2>17, <1>t, CleanupFacts DEF CleanupStep, OnItsWay, TypeOK
    <3>2. flash' = flash /\ after' = after
      BY <2>17 DEF CleanupStep
    <3>3. Written'
      BY <2>1, <3>1, <3>2 DEF Written, Files
    <3>4. /\ archive' = IF step = 1 THEN None ELSE archive
          /\ files' = Cleaned(CleanupSteps[step])
      BY <2>17, <3>1, CleanupFacts DEF CleanupStep
    <3>5. /\ files'["KERNEL"] = IF step = 3 THEN None ELSE files["KERNEL"]
          /\ files'["SYSTEM"] = IF step = 4 THEN None ELSE files["SYSTEM"]
      BY <3>1, <3>4, <1>t, CleanupFacts DEF Cleaned
    <3>6. \/ at' = "clean" /\ step' = step + 1 /\ step < 5
          \/ at' = "boot" /\ step = 5
      BY <2>17, <3>1, CleanupFacts DEF CleanupStep
    <3> QED BY <3>1, <3>2, <3>3, <3>4, <3>5, <3>6 DEF OnItsWay, Removed
  <2>18. CASE PowerCut
    BY <2>2, <2>18, <1>t DEF PowerCut, TypeOK
  <2>19. CASE UNCHANGED vars
    BY <2>2, <2>19 DEF vars, process, device, history, harm, OnItsWay, Waiting, Written, Removed, Both
  <2> QED BY <1>3, <2>4, <2>5, <2>6, <2>7, <2>8, <2>9, <2>10, <2>11, <2>12, <2>13, <2>14, <2>15,
             <2>16, <2>17, <2>18, <2>19 DEF Next, Boot
<1>4. CASE (\E f \in {"nocheck", "nocompat"} : SwitchOff(f)) \/ Reboot
  <2>1. /\ UNCHANGED <<flash, archive, files, netboot, cuts, wanted, step, after, source>>
        /\ at = "up" /\ at' \in {"up", "boot"}
    BY <1>4 DEF SwitchOff, Reboot, process, device, history, harm
  <2>2. Undisturbed
    BY <2>1 DEF Undisturbed, Good
  <2> QED BY <2>1, <2>2 DEF UpdateInv, OnItsWay, Waiting, Written, Removed, Both
<1> QED BY <1>1, <1>2, <1>3, <1>4 DEF User

\* A good update that the user put into .update is what runs after the next
\* boot, for all releases and sizes: nothing on its way is rejected, torn or
\* forgotten while the power stays on.  A KERNEL or SYSTEM that was cut short
\* because it did not fit beside the old one does not come up at all.
THEOREM GoodUpdateInstalledHolds == Spec => GoodUpdateInstalled
<1>1. Init => Inv /\ UpdateInv
  BY InitInv, InitUpdateInv
<1>2. Inv /\ UpdateInv /\ [Next]_vars => (Inv /\ UpdateInv)'
  BY NextInv, NextUpdateInv
<1>3. ASSUME Inv, Inv', UpdateInv, [Next]_vars
      PROVE  [at # "up" /\ at' = "up" /\ cuts = 0 /\ ~netboot /\ Good(wanted)
                => \A f \in Files : flash[f] = wanted]_vars
  <2> SUFFICES ASSUME at # "up", at' = "up", Undisturbed
               PROVE  \A f \in Files : flash[f] = wanted
    BY DEF Undisturbed
  <2>1. Good(wanted) /\ OnItsWay
    BY <1>3 DEF UpdateInv, Undisturbed
  <2>2. wanted # None
    BY <2>1, GoodFacts
  <2>3. NothingFound \/ CleanupStep
    BY <1>3 DEF Next, User, Boot, PutArchive, PutFiles, SwitchOff, Reboot, DoesNotBoot, Refuse,
       Cleanup, BeginUpdate, UnpackFails, MoveKernel, MoveSystem, MountImage, UseFiles, Reject,
       Accept, StartWrite, FinishWrite, PowerCut, vars, process
  <2>4. CASE NothingFound
    <3>1. ~Waiting
      BY <2>1, <2>4, GoodFacts, BootAssumption DEF NothingFound, Found, Waiting, Files
    <3>2. Written /\ Bootable
      BY <2>1, <2>4, <3>1 DEF NothingFound, OnItsWay
    <3> QED BY <3>2, WrittenRuns
  <2>5. CASE CleanupStep
    \* It would have to restart the device.
    BY <2>1, <2>5 DEF CleanupStep, OnItsWay
  <2> QED BY <2>3, <2>4, <2>5
<1> QED BY <1>1, <1>2, <1>3, PTL DEF Spec, GoodUpdateInstalled
===========================================================================
