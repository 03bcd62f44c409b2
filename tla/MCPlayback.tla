----------------------------- MODULE MCPlayback -----------------------------
(***************************************************************************)
(* Buffers of a little more than three blocks, a bitreader that holds two  *)
(* and a half FLAC frames, chunks of one to three (so that frames stay in  *)
(* it whole, in part, or not at all), and changes of the clock within and  *)
(* beyond soft synchronisation.                                            *)
(***************************************************************************)
EXTENDS Playback

MCStarts == {-19, 0}
MCJumps == {-3, 2, 9}
=============================================================================
