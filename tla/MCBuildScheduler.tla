------------------------- MODULE MCBuildScheduler -------------------------
(***************************************************************************)
(* A plan of five jobs for TLC.  lib is built for host and target, fw is   *)
(* unpacked by app and itself needs src unpacked, which has no job of its  *)
(* own; img is a virtual package that collects the others.                 *)
(***************************************************************************)
EXTENDS BuildScheduler

MCJobCount == 5
MCPackages == {"lib", "fw", "src", "app", "img"}

\* 1 lib:host, 2 fw:target, 3 lib:target, 4 app:target, 5 img:target
MCPkgOf == <<"lib", "fw", "lib", "app", "img">>
MCWants == <<{}, {}, {1}, {1, 2}, {3, 4}>>
\* Three jobs can start at once.
MCWideWants == <<{}, {}, {}, {1, 2}, {3, 4}>>
MCUnpacks == [p \in MCPackages |->
                CASE p = "app" -> {"lib", "fw"}
                  [] p = "fw" -> {"src"}
                  [] OTHER -> {}]
MCVirtual == {"img"}
===========================================================================
