----------------------------- MODULE BootUpdate -----------------------------
(***************************************************************************)
(* The updater that runs from the initramfs at every boot (busybox's init: *)
(* check_update, update_file, update_bootloader, do_cleanup), on a device  *)
(* whose power may fail at any moment.  An update lies in /storage/.update *)
(* as an archive or as a KERNEL and a SYSTEM file; lakka-update.sh or the  *)
(* user puts it there.  /storage and /flash survive a power cut; what init *)
(* knows does not.                                                         *)
(*                                                                         *)
(* Left out: fat32-boot and block-device kernels, two archives at once,    *)
(* messages and countdowns, and the boot steps before check_update.        *)
(***************************************************************************)
EXTENDS Integers, Sequences

CONSTANTS
    Versions,    \* releases, broken and foreign ones included
    Installed,   \* the release a device starts with
    Intact,      \* releases whose KERNEL and SYSTEM match their .md5
    Compatible,  \* releases for this hardware
    Arch,        \* LIBREELEC_ARCH of a release; None in one without /etc/os-release
    CanUpdate,   \* the archs from which a release's canupdate.sh lets it be installed
    Size,        \* per file and release, its size
    Capacity,    \* the room on /flash for KERNEL and SYSTEM
    FlashFreeMin,
    None,        \* no file, no archive, no release
    MaxPuts,     \* bound: updates put into .update
    MaxCuts      \* bound: power cuts while init works on an update

Files == {"KERNEL", "SYSTEM"}
Parts == <<"KERNEL", "SYSTEM", "loader">>
Partial == "partial"
Archives == [form : {"tar", "gz", "img"}, release : Versions, whole : BOOLEAN]

ASSUME BootAssumption ==
    /\ Installed \in Intact \intersect Compatible
    /\ Intact \subseteq Versions /\ Compatible \subseteq Versions
    /\ Partial \notin Versions /\ None \notin Versions /\ None \notin Archives
    /\ Size \in [Files -> [Versions -> Nat]]
    /\ Capacity \in Nat /\ FlashFreeMin \in Nat
    /\ MaxPuts \in Nat /\ MaxCuts \in Nat

\* Names tell the truth (scripts/image:100, projects/*/bootloader/canupdate.sh):
\* a release that has the name of one that runs on this hardware, or says that
\* it may follow that one, runs on it too.
IsCompatible(old, new) == Arch[old] = Arch[new] \/ Arch[old] \in CanUpdate[new]

NamesKnown(old, new) == Arch[old] # None /\ Arch[new] # None

ASSUME NameAssumption ==
    \A old \in Compatible, new \in Versions :
        NamesKnown(old, new) /\ IsCompatible(old, new) => new \in Compatible

VARIABLES
    at,        \* "up", "boot", "broken", or where check_update is
    step,      \* the part it writes, or the step of do_cleanup it is at
    after,     \* where do_cleanup leads: "up", or "boot" after do_reboot
    source,    \* what UPDATE_DIR has as KERNEL and SYSTEM
    flash,     \* what is on /flash, per part
    archive,   \* the archive in .update
    files,     \* KERNEL and SYSTEM in .update
    tmp,       \* .update/.tmp exists
    force,     \* .nocheck and .nocompat
    netboot,   \* UPDATE_DISABLED
    puts, cuts,
    \* History: the power failed between two writes of /flash, or revived a
    \* failed update; the user switched checks off; a release for other hardware
    \* was trusted for want of a name; a new KERNEL did not fit beside the old
    \* SYSTEM.  Work on the update in .update has been started; the release put
    \* there last, if complete.
    torn, risked, trusted, cramped, tried, wanted

device == <<flash, archive, files, tmp, force, netboot>>
harm == <<torn, risked, trusted, cramped>>
history == <<harm, tried, wanted>>
process == <<at, step, after, source>>
vars == <<process, device, puts, cuts, history>>

----------------------------------------------------------------------------
NoFiles == [f \in Files |-> None]
Both(v) == [f \in Files |-> v]

Init ==
    /\ at = "up" /\ step = 0 /\ after = "up" /\ source = NoFiles
    /\ flash = [p \in {"KERNEL", "SYSTEM", "loader"} |-> Installed]
    /\ archive = None /\ files = NoFiles /\ tmp = FALSE /\ force = {}
    /\ netboot \in BOOLEAN
    /\ puts = 0 /\ cuts = 0
    /\ torn = FALSE /\ risked = FALSE /\ trusted = FALSE /\ cramped = FALSE
    /\ tried = FALSE /\ wanted = None

----------------------------------------------------------------------------
(* The running system                                                      *)

\* lakka-update.sh clears .update, hidden files excepted; a user may copy an
\* archive beside what is there.  A download may be cut short.
PutArchive(a) ==
    /\ at = "up" /\ puts < MaxPuts
    /\ puts' = puts + 1
    /\ archive' = a
    /\ files' \in {files, NoFiles}
    /\ tried' = FALSE
    /\ wanted' = IF a.whole THEN a.release ELSE None
    /\ UNCHANGED <<process, flash, tmp, force, netboot, cuts, harm>>

PutFiles(v) ==
    /\ at = "up" /\ puts < MaxPuts
    /\ puts' = puts + 1
    /\ archive' = None /\ files' = Both(v)
    /\ tried' = FALSE /\ wanted' = v
    /\ UNCHANGED <<process, flash, tmp, force, netboot, cuts, harm>>

\* The user asks for an update without checks.
SwitchOff(f) ==
    /\ at = "up"
    /\ force' = force \union {f}
    /\ risked' = TRUE
    /\ UNCHANGED <<process, flash, archive, files, tmp, netboot, puts, cuts, torn,
                   trusted, cramped, tried, wanted>>

Reboot ==
    /\ at = "up"
    /\ at' = "boot"
    /\ UNCHANGED <<step, after, source, device, puts, cuts, history>>

----------------------------------------------------------------------------
(* check_update                                                            *)

\* KERNEL, SYSTEM and boot files are all there, and made for this device.
\* A KERNEL and a SYSTEM of different releases only get a warning.
Bootable == \A i \in 1..Len(Parts) : flash[Parts[i]] \in Intact \intersect Compatible

Found == archive # None \/ \A f \in Files : files[f] # None

Cleanup(next) == at' = "clean" /\ step' = 1 /\ after' = next

DoesNotBoot ==
    /\ at = "boot" /\ ~Bootable
    /\ at' = "broken"
    /\ UNCHANGED <<step, after, source, device, puts, cuts, history>>

NothingFound ==
    /\ at = "boot" /\ Bootable /\ ~Found
    /\ at' = "up"
    /\ UNCHANGED <<step, after, source, device, puts, cuts, history>>

\* Not on netboot; not after an update that did not come to its end.
Refuses == netboot \/ tmp

Refuse ==
    /\ at = "boot" /\ Bootable /\ Found
    /\ Refuses
    /\ Cleanup("up")
    /\ UNCHANGED <<source, device, puts, cuts, history>>

BeginUpdate ==
    /\ at = "boot" /\ Bootable /\ Found
    /\ ~Refuses
    /\ tmp' = TRUE /\ tried' = TRUE
    /\ at' = "unpack"
    /\ UNCHANGED <<step, after, source, flash, archive, files, force, netboot, puts, cuts,
                   harm, wanted>>

\* tar fails on a short archive, gunzip too.  A short image is refused here,
\* though in part only when it is mounted or its md5 sums are checked, with the
\* same result (under .nocheck it could be written; left out).  An image
\* without .gz is moved into .tmp whatever it is.
UnpackFails ==
    /\ at = "unpack" /\ archive # None /\ ~archive.whole
    /\ archive' = IF archive.form = "img" THEN None ELSE archive
    /\ Cleanup("up")
    /\ UNCHANGED <<source, flash, files, tmp, force, netboot, puts, cuts, history>>

\* What an archive contains: mv leaves the files of a tar in .update, one
\* after the other; those of an image are read from the mounted image.
MoveKernel ==
    /\ at = "unpack" /\ archive # None /\ archive.whole /\ archive.form = "tar"
    /\ files' = [files EXCEPT !["KERNEL"] = archive.release]
    /\ at' = "move"
    /\ UNCHANGED <<step, after, source, flash, archive, tmp, force, netboot, puts, cuts, history>>

FaultyMovedFiles == [files EXCEPT !["SYSTEM"] = IF @ = None THEN archive.release ELSE @]
MovedFiles == [files EXCEPT !["SYSTEM"] = archive.release]

MoveSystem ==
    /\ at = "move"
    /\ files' = MovedFiles
    /\ source' = MovedFiles
    /\ at' = "check"
    /\ UNCHANGED <<step, after, flash, archive, tmp, force, netboot, puts, cuts, history>>

MountImage ==
    /\ at = "unpack" /\ archive # None /\ archive.whole /\ archive.form # "tar"
    /\ source' = Both(archive.release)
    /\ archive' = IF archive.form = "img" THEN None ELSE archive
    /\ at' = "check"
    /\ UNCHANGED <<step, after, flash, files, tmp, force, netboot, puts, cuts, history>>

UseFiles ==
    /\ at = "unpack" /\ archive = None
    /\ source' = files
    /\ at' = "check"
    /\ UNCHANGED <<step, after, device, puts, cuts, history>>

\* With one of the names missing the update has to be trusted.
CheckIsCompatible(old, new) == NamesKnown(old, new) => IsCompatible(old, new)

\* Source files, md5 sums, and what /sysroot, the running SYSTEM, says to the update.
FaultyGenuine ==
    /\ \A f \in Files : source[f] # None
    /\ CheckIsCompatible(flash["SYSTEM"], source["SYSTEM"]) \/ "nocompat" \in force

Genuine ==
    /\ \A f \in Files : source[f] # None
    /\ (\A f \in Files : source[f] \in Intact) \/ "nocheck" \in force
    /\ CheckIsCompatible(flash["SYSTEM"], source["SYSTEM"]) \/ "nocompat" \in force

\* Old KERNEL and SYSTEM and what is free, less the new ones.
FlashFreeAfter ==
    Capacity - Size["KERNEL"][source["KERNEL"]] - Size["SYSTEM"][source["SYSTEM"]]

Reject ==
    /\ at = "check"
    /\ ~(Genuine /\ FlashFreeAfter >= FlashFreeMin)
    /\ Cleanup("up")
    /\ UNCHANGED <<source, device, puts, cuts, history>>

Accept ==
    /\ at = "check"
    /\ Genuine /\ FlashFreeAfter >= FlashFreeMin
    /\ at' = "write" /\ step' = 1
    /\ trusted' = \/ trusted
                  \/ ~NamesKnown(flash["SYSTEM"], source["SYSTEM"])
                     /\ source["SYSTEM"] \notin Compatible
    /\ UNCHANGED <<after, source, device, puts, cuts, torn, risked, cramped, tried, wanted>>

----------------------------------------------------------------------------
(* update_file and update_bootloader                                       *)

Part == Parts[step]
Other(p) == IF p = "KERNEL" THEN "SYSTEM" ELSE "KERNEL"

\* The boot files come with SYSTEM.
Contents(p) == source[IF p = "loader" THEN "SYSTEM" ELSE p]

\* Nobody looks at the result of dd, which ends early on a full /flash.  How
\* much room there is beside a KERNEL that is cut short is left open.
Results(p) ==
    IF p = "loader" THEN {Contents(p)}
    ELSE IF flash[Other(p)] = Partial THEN {Contents(p), Partial}
    ELSE IF Size[p][Contents(p)] <= Capacity - Size[Other(p)][flash[Other(p)]]
    THEN {Contents(p)}
    ELSE {Partial}

StartWrite ==
    /\ at = "write"
    /\ flash' = [flash EXCEPT ![Part] = Partial]
    /\ at' = "writing"
    /\ UNCHANGED <<step, after, source, archive, files, tmp, force, netboot, puts, cuts, history>>

LastPart == step = Len(Parts)

FinishWrite ==
    /\ at = "writing"
    /\ \E r \in Results(Part) :
          /\ flash' = [flash EXCEPT ![Part] = r]
          /\ cramped' = (cramped \/ (Part = "KERNEL" /\ r = Partial))
    /\ \/ LastPart /\ Cleanup("boot")
       \/ ~LastPart /\ at' = "write" /\ step' = step + 1 /\ UNCHANGED after
    /\ UNCHANGED <<source, archive, files, tmp, force, netboot, puts, cuts,
                   torn, risked, trusted, tried, wanted>>

----------------------------------------------------------------------------
(* do_cleanup                                                              *)

CleanupSteps == <<"archive", "tmp", "KERNEL", "SYSTEM", "force">>

FaultyCleaned(what) == files
Cleaned(what) == [f \in Files |-> IF f = what THEN None ELSE files[f]]

CleanupStep ==
    /\ at = "clean"
    /\ LET what == CleanupSteps[step] IN
       /\ archive' = IF what = "archive" THEN None ELSE archive
       /\ tmp' = (tmp /\ what # "tmp")
       /\ files' = Cleaned(what)
       /\ force' = IF what = "force" THEN {} ELSE force
    /\ \/ step < Len(CleanupSteps) /\ step' = step + 1 /\ UNCHANGED <<at, source>>
       \/ step = Len(CleanupSteps) /\ at' = after /\ step' = 0 /\ source' = NoFiles
    /\ UNCHANGED <<after, flash, netboot, puts, cuts, history>>

----------------------------------------------------------------------------
\* Some parts on /flash are new, or none is whole.
HalfWritten == at = "writing" \/ (at = "write" /\ step > 1)

\* do_cleanup removes .tmp before the files in .update: when these are left
\* of two releases, nothing tells any more that they belong to a failed update.
MixRevived ==
    /\ at = "clean" /\ ~tmp
    /\ \A f \in Files : files[f] # None
    /\ files["KERNEL"] # files["SYSTEM"]

\* The power fails while init is at work: it forgets everything, and what
\* was being written is left as it is.
PowerCut ==
    /\ at \notin {"up", "boot", "broken"}
    /\ cuts < MaxCuts
    /\ cuts' = cuts + 1
    /\ at' = "boot" /\ step' = 0 /\ after' = "up" /\ source' = NoFiles
    /\ torn' = (torn \/ HalfWritten \/ MixRevived)
    /\ UNCHANGED <<device, puts, risked, trusted, cramped, tried, wanted>>

User ==
    \/ \E a \in Archives : PutArchive(a)
    \/ \E v \in Versions : PutFiles(v)
    \/ \E f \in {"nocheck", "nocompat"} : SwitchOff(f)
    \/ Reboot

Boot ==
    \/ DoesNotBoot \/ NothingFound \/ Refuse \/ BeginUpdate
    \/ UnpackFails \/ MoveKernel \/ MoveSystem \/ MountImage \/ UseFiles
    \/ Reject \/ Accept
    \/ StartWrite \/ FinishWrite \/ CleanupStep

Next == User \/ Boot \/ PowerCut

\* init is one process that nothing keeps from running.
Spec == Init /\ [][Next]_vars /\ WF_vars(Boot)

----------------------------------------------------------------------------
(* Properties                                                              *)

TypeOK ==
    /\ at \in {"up", "boot", "broken", "unpack", "move", "check", "write", "writing", "clean"}
    /\ step \in 0..Len(CleanupSteps)
    /\ at \in {"write", "writing"} => step \in 1..Len(Parts)
    /\ at = "clean" => step \in 1..Len(CleanupSteps)
    /\ after \in {"up", "boot"}
    /\ source \in [Files -> Versions \union {None}]
    /\ flash \in [{"KERNEL", "SYSTEM", "loader"} -> Versions \union {Partial}]
    /\ archive \in Archives \union {None}
    /\ files \in [Files -> Versions \union {None}]
    /\ tmp \in BOOLEAN /\ force \subseteq {"nocheck", "nocompat"} /\ netboot \in BOOLEAN
    /\ puts \in 0..MaxPuts /\ cuts \in 0..MaxCuts
    /\ torn \in BOOLEAN /\ risked \in BOOLEAN
    /\ trusted \in BOOLEAN /\ cramped \in BOOLEAN /\ tried \in BOOLEAN
    /\ wanted \in Versions \union {None}

\* There are four ways in which an update can leave a device that does not
\* boot, whatever lies in .update and wherever else the power fails: a cut while
\* /flash is written (or one that revives a mix of two releases), a check that
\* the user has switched off, a release for other hardware that had to be
\* trusted since it or the old one has no name, and a KERNEL that did not fit
\* beside the old SYSTEM.  What is written after the KERNEL always fits.
NeverBricks == at = "broken" => torn \/ risked \/ trusted \/ cramped

\* A system that comes up has KERNEL, SYSTEM and boot files of one release,
\* however many updates were begun, rejected or interrupted while they were
\* unpacked, unless the power failed between two writes of /flash, or at the
\* one place of do_cleanup where a failed update is revived.
Matched ==
    at = "up" => torn \/ (flash["KERNEL"] = flash["SYSTEM"] /\ flash["SYSTEM"] = flash["loader"])

\* A release that any system of this hardware accepts.
Good(v) ==
    /\ v \in Intact \intersect Compatible
    /\ \A old \in Compatible : CheckIsCompatible(old, v)
    /\ Capacity - Size["KERNEL"][v] - Size["SYSTEM"][v] >= FlashFreeMin

\* A good update that the user put into .update is what runs after the next
\* boot that ends in a running system, if the power stays on and the device
\* does not boot from the network.
GoodUpdateInstalled ==
    [][at # "up" /\ at' = "up" /\ cuts = 0 /\ ~netboot /\ Good(wanted)
         => \A f \in Files : flash[f] = wanted]_vars

\* Every boot comes to an end, in a running system or in one that cannot
\* boot: an update never restarts the device again and again.
ComesUp == at = "boot" ~> at \in {"up", "broken"}

\* "Failed update detected": an update found beside .tmp is one that was
\* begun before, and failed.
FailedWasTried ==
    [][at = "boot" /\ at' = "clean" /\ tmp /\ ~netboot => tried]_vars
===========================================================================
