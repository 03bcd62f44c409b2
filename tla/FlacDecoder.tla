----------------------------- MODULE FlacDecoder ----------------------------
(***************************************************************************)
(* The FLAC decoder of snapweb: FlacDecoder in snapstream.js, driving the  *)
(* stream decoder of libflac.js through callbacks.  decode() hands over a  *)
(* chunk and calls process_single() for as long as bytes of it are unread; *)
(* libFLAC reads as much as its bitreader holds, so that whole FLAC frames *)
(* may stay in there and come out with the next chunk, whose timestamp is  *)
(* then moved back by their length.                                        *)
(*                                                                         *)
(* Bytes are counted in halves of a FLAC frame, time in blocks (the audio  *)
(* of one FLAC frame).  A server puts whole frames into a chunk; between   *)
(* two chunks there may be a gap, when its source was idle.                *)
(***************************************************************************)
EXTENDS Integers, Sequences

CONSTANTS
    Capacity,   \* of the bitreader, in halves of a frame
    MaxFrames,  \* bound: FLAC frames that the server sends
    ChunkSizes, \* frames that it may put in a chunk
    Gaps        \* blocks of silence it may leave before a chunk

ASSUME FlacAssumption ==
    /\ Capacity \in Nat \ {0} /\ MaxFrames \in Nat
    /\ ChunkSizes \subseteq Nat \ {0} /\ Gaps \subseteq Nat

VARIABLES
    at,           \* "header", "idle", "loop" of decode(), "single", "done"
    state,        \* of the stream decoder
    header,       \* read_callback_fn still has the header to give
    flacChunk,    \* halves in flacChunk
    bitreader,    \* halves in the bitreader
    half,         \* halves of the present frame that have been read
    isCachedChunk, cachedBlocks,
    timestamp,    \* of pcmChunk
    pcm,          \* the payload of pcmChunk: when its blocks should be heard
    received,     \* the FLAC frames so far: when each should be heard
    next,         \* the one that is decoded next
    first         \* the first one of the present chunk

vars == <<at, state, header, flacChunk, bitreader, half, isCachedChunk, cachedBlocks,
          timestamp, pcm, received, next, first>>

Minimum(a, b) == IF a < b THEN a ELSE b

----------------------------------------------------------------------------
\* The constructor: a stream decoder with its callbacks; setHeader() keeps the
\* header and calls process_until_end_of_metadata().
Init ==
    /\ at = "header" /\ state = "metadata" /\ header = TRUE
    /\ flacChunk = 0 /\ bitreader = 0 /\ half = 0
    /\ isCachedChunk = FALSE /\ cachedBlocks = 0
    /\ timestamp = 0 /\ pcm = <<>>
    /\ received = <<>> /\ next = 1 /\ first = 1

\* The header comes in one piece, whatever room the bitreader has.
ReadHeader ==
    /\ state = "metadata" /\ header
    /\ header' = FALSE
    /\ UNCHANGED <<at, state, flacChunk, bitreader, half, isCachedChunk, cachedBlocks,
                   timestamp, pcm, received, next, first>>

\* The last metadata block: metadata_callback_fn has the sample format.
EndOfMetadata ==
    /\ state = "metadata" /\ ~header
    /\ state' = "frame_sync" /\ at' = "idle"
    /\ UNCHANGED <<header, flacChunk, bitreader, half, isCachedChunk, cachedBlocks,
                   timestamp, pcm, received, next, first>>

----------------------------------------------------------------------------
(* decode()                                                                *)

EndTime == IF received = <<>> THEN 0 ELSE received[Len(received)] + 1

\* A chunk of n frames that starts gap blocks after the end of the last one.
Decode(n, gap) ==
    /\ at = "idle" /\ Len(received) + n <= MaxFrames
    /\ flacChunk' = 2 * n
    /\ received' = received \o [k \in 1 .. n |-> EndTime + gap + k - 1]
    /\ first' = Len(received) + 1
    /\ timestamp' = EndTime + gap
    /\ pcm' = <<>>
    /\ cachedBlocks' = 0 /\ isCachedChunk' = TRUE
    /\ at' = "loop"
    /\ UNCHANGED <<state, header, bitreader, half, next>>

\* The loop goes on while something of the chunk has not been read.
FaultyLoops == TRUE
Loops == flacChunk > 0

\* At the end of the stream process_single() returns true and does nothing.
CallSingle ==
    /\ at = "loop" /\ Loops
    /\ at' = IF state = "end_of_stream" THEN "loop" ELSE "single"
    /\ UNCHANGED <<state, header, flacChunk, bitreader, half, isCachedChunk, cachedBlocks,
                   timestamp, pcm, received, next, first>>

\* After the loop: blocks that came without a read precede the chunk.
FaultyMovedBack == timestamp
MovedBack == timestamp - cachedBlocks

LeaveLoop ==
    /\ at = "loop" /\ ~Loops
    /\ at' = "done"
    /\ timestamp' = MovedBack
    /\ UNCHANGED <<state, header, flacChunk, bitreader, half, isCachedChunk, cachedBlocks,
                   pcm, received, next, first>>

Return ==
    /\ at = "done"
    /\ at' = "idle"
    /\ UNCHANGED <<state, header, flacChunk, bitreader, half, isCachedChunk, cachedBlocks,
                   timestamp, pcm, received, next, first>>

----------------------------------------------------------------------------
(* FLAC__stream_decoder_process_single()                                   *)

\* frame_sync_() or read_frame_() asks the bitreader for more than it has.
Wants == bitreader = 0 /\ (state = "frame_sync" \/ (state = "read_frame" /\ half < 2))

\* read_callback_fn gives as much of the chunk as there is room for.  Nothing
\* is the end of the stream, and process_single() returns.
ReadCallback ==
    /\ at = "single" /\ Wants
    /\ isCachedChunk' = FALSE
    /\ LET data == Minimum(Capacity, flacChunk)
       IN  /\ bitreader' = data
           /\ flacChunk' = flacChunk - data
           /\ state' = IF data = 0 THEN "end_of_stream" ELSE state
           /\ at' = IF data = 0 THEN "loop" ELSE "single"
    /\ UNCHANGED <<header, half, cachedBlocks, timestamp, pcm, received, next, first>>

FrameSync ==
    /\ at = "single" /\ state = "frame_sync" /\ bitreader > 0
    /\ state' = "read_frame" /\ half' = 0
    /\ UNCHANGED <<at, header, flacChunk, bitreader, isCachedChunk, cachedBlocks,
                   timestamp, pcm, received, next, first>>

ReadFrame ==
    /\ at = "single" /\ state = "read_frame" /\ half < 2 /\ bitreader > 0
    /\ half' = half + 1
    /\ bitreader' = bitreader - 1
    /\ UNCHANGED <<at, state, header, flacChunk, isCachedChunk, cachedBlocks,
                   timestamp, pcm, received, next, first>>

\* The whole frame is there: write_callback_fn adds its block to the chunk,
\* and process_single() returns true.
WriteCallback ==
    /\ at = "single" /\ state = "read_frame" /\ half = 2
    /\ pcm' = Append(pcm, received[next])
    /\ cachedBlocks' = IF isCachedChunk THEN cachedBlocks + 1 ELSE cachedBlocks
    /\ next' = next + 1
    /\ half' = 0
    /\ state' = "frame_sync"
    /\ at' = "loop"
    /\ UNCHANGED <<header, flacChunk, bitreader, isCachedChunk, timestamp, received, first>>

Step ==
    \/ ReadHeader \/ EndOfMetadata
    \/ CallSingle \/ LeaveLoop
    \/ ReadCallback \/ FrameSync \/ ReadFrame \/ WriteCallback

Next == Step \/ Return \/ (\E n \in ChunkSizes, gap \in Gaps : Decode(n, gap))

Spec == Init /\ [][Next]_vars

----------------------------------------------------------------------------
(* Properties                                                              *)

\* Every variable has its type.
TypeOK ==
    /\ at \in {"header", "idle", "loop", "single", "done"}
    /\ state \in {"metadata", "frame_sync", "read_frame", "end_of_stream"}
    /\ header \in BOOLEAN /\ isCachedChunk \in BOOLEAN
    /\ flacChunk \in Nat /\ bitreader \in Nat /\ half \in 0 .. 2
    /\ cachedBlocks \in Nat /\ timestamp \in Int
    /\ received \in Seq(Nat) /\ pcm \in Seq(Nat)
    /\ next \in Nat \ {0} /\ first \in Nat \ {0}

\* The stream decoder never believes that the stream has ended.  If it did,
\* process_single() would return true for ever without reading, and the next
\* decode() would never leave its loop: the page would hang.
NeverEnds == state # "end_of_stream"

\* A decoded chunk says when its first block is to be heard, and its blocks
\* follow each other: those of the chunk itself always, those that were left
\* in the bitreader by the chunk before unless a gap lies between the two.
StampExact ==
    at = "done" =>
        /\ pcm # <<>> /\ cachedBlocks < Len(pcm)
        /\ \A k \in 1 .. Len(pcm) :
              k > cachedBlocks \/ received[first] = pcm[cachedBlocks] + 1
                  => pcm[k] = timestamp + k - 1

=============================================================================
