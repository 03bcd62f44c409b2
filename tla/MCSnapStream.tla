---------------------------- MODULE MCSnapStream ----------------------------
(***************************************************************************)
(* One player, two formats that can be played and one that cannot, two     *)
(* volumes, one connection lost and one change by the server.              *)
(***************************************************************************)
EXTENDS SnapStream

MCFormats == {"44k", "48k", "24bit"}
MCPlayable == {"44k", "48k"}
MCOffers ==
    { [codec |-> "flac", format |-> "44k"], [codec |-> "flac", format |-> "48k"],
      [codec |-> "flac", format |-> "24bit"], [codec |-> "vorbis", format |-> "48k"] }
MCVolumes == {"low", "full"}
=============================================================================
