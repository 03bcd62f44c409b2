---------------------------- MODULE MCGetArchive ----------------------------
(***************************************************************************)
(* Builds of the same package, and two versions of its file: the one that  *)
(* package.mk wants and another one.                                       *)
(***************************************************************************)
EXTENDS GetArchive

MCBuilds == 1..2
MCMaintainers == {2}
MCOneBuild == {1}
MCHashes == {"good", "other"}
===========================================================================
