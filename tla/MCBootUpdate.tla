---------------------------- MODULE MCBootUpdate ----------------------------
(***************************************************************************)
(* A device and nine kinds of releases: the installed one; a good one;     *)
(* one with wrong md5 sums; one for other hardware that says so and one    *)
(* that does not; one for the other architecture of this device; one       *)
(* whose KERNEL fits only beside a smaller SYSTEM than the installed one,  *)
(* and which takes no update from the other architecture; one that does    *)
(* not fit at all; and a small one from before releases had names.         *)
(***************************************************************************)
EXTENDS BootUpdate

MCVersions == {"old", "new", "damaged", "foreign", "unnamed", "port", "grown", "huge",
               "ancient"}
MCIntact == MCVersions \ {"damaged"}
MCCompatible == MCVersions \ {"foreign", "unnamed"}
MCArch ==
    [v \in MCVersions |->
        CASE v = "foreign" -> "other.arm"
          [] v \in {"unnamed", "ancient"} -> None
          [] v = "port" -> "this.aarch64"
          [] OTHER -> "this.arm"]
MCCanUpdate ==
    [v \in MCVersions |->
        CASE v = "foreign" -> {"other.arm", "other.aarch64"}
          [] v \in {"unnamed", "ancient", "grown"} -> {}
          [] OTHER -> {"this.arm", "this.aarch64"}]
MCSize ==
    [f \in Files |->
        [v \in MCVersions |->
            CASE v = "huge" -> IF f = "KERNEL" THEN 2 ELSE 10
              [] v = "grown" -> IF f = "KERNEL" THEN 6 ELSE 2
              [] v = "ancient" -> IF f = "KERNEL" THEN 1 ELSE 4
              [] OTHER -> IF f = "KERNEL" THEN 1 ELSE 5]]
===========================================================================
