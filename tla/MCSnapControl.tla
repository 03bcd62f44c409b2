---------------------------- MODULE MCSnapControl ---------------------------
(***************************************************************************)
(* Two clients in one group, one of them not connected, and ids for the    *)
(* groups of those that leave it.                                          *)
(***************************************************************************)
EXTENDS SnapControl

MCHome == [c \in {"c1", "c2"} |-> "g1"]
=============================================================================
