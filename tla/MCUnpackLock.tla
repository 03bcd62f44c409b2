---------------------------- MODULE MCUnpackLock ----------------------------
(***************************************************************************)
(* Three jobs that all need lib unpacked: its own job, app, which unpacks  *)
(* it under the lock of app, and loop, which by mistake also lists itself  *)
(* in PKG_DEPENDS_UNPACK and so runs into the recursion limit.             *)
(***************************************************************************)
EXTENDS UnpackLock

MCJobs == 1..3
MCPackages == {"lib", "app", "loop"}
MCJobPkg == <<"lib", "app", "loop">>
MCUnpackDeps ==
    [p \in MCPackages |->
        CASE p = "app" -> {"lib"}
          [] p = "loop" -> {"lib", "loop"}
          [] OTHER -> {}]
===========================================================================
