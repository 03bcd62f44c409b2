------------------------------ MODULE Playback ------------------------------
(***************************************************************************)
(* From the socket to the loudspeaker: a FlacDecoder whose chunks go into  *)
(* an AudioStream, which fills the buffers that playNext() asks for.       *)
(* decode() runs without interruption; buffers are filled between chunks.  *)
(***************************************************************************)
EXTENDS FlacDecoder, AudioStream

playbackVars == <<vars, audioVars>>

PlaybackInit == Init /\ AudioInit

\* onMessage() of SnapStream hands a chunk to decode() ...
ChunkArrives(n, gap) == Decode(n, gap) /\ UNCHANGED audioVars

DecodeStep == Step /\ UNCHANGED audioVars

\* ... and what it returns to addChunk().
Decoded ==
    NewChunk(timestamp * BlockSize, [k \in 1 .. Len(pcm) |-> pcm[k] * BlockSize])

ChunkDecoded == Return /\ AddChunk(Decoded)

\* playNext(), in an onended between two messages.  (Bound: until a block after
\* the last frame that has come.)
BufferPlayed ==
    /\ at = "idle" /\ playTime <= (EndTime + 1) * BlockSize
    /\ NextBuffer
    /\ UNCHANGED vars

TimeAnswered(d) == at = "idle" /\ ClockChanges(d) /\ UNCHANGED vars

PlaybackNext ==
    \/ \E n \in ChunkSizes, gap \in Gaps : ChunkArrives(n, gap)
    \/ DecodeStep
    \/ ChunkDecoded
    \/ BufferPlayed
    \/ \E d \in Jumps : TimeAnswered(d)

\* The decoder runs: decode() is not interrupted.
PlaybackSpec ==
    PlaybackInit /\ [][PlaybackNext]_playbackVars /\ WF_playbackVars(DecodeStep \/ ChunkDecoded)

----------------------------------------------------------------------------
(* Properties                                                              *)

\* Every decode() returns, whatever was left in the bitreader.
DecodeReturns == (at \in {"loop", "single"}) ~> (at = "done")

\* The server has left no gap so far.
Gapless == \A k \in 1 .. Len(received) - 1 : received[k + 1] = received[k] + 1

\* As long as the server leaves no gap, every frame is heard no more than
\* SyncMs before or after its time, through cached FLAC frames, chunks that come
\* too late, and changes of the clock.
OnTime ==
    Gapless =>
        \A p \in 0 .. Frames - 1 :
            buffer[p] # Silence => Absolute(bufferTime + p - buffer[p]) <= SyncFrames

\* How late the next frame is, if there is one.
Lateness == playTime - StartTime(Head(Queue))
Fills == BufferPlayed /\ Gapless /\ Queue # <<>> /\ Queue' # <<>>

\* A buffer that is filled leaves the stream closer to its time: seeking forward
\* is exact, and dropping or inserting single frames approaches the time from
\* its side and never goes past it.
SyncConverges ==
    [][ Fills =>
            /\ Lateness > SyncFrames => Lateness' = 0
            /\ Lateness \in 0 .. SyncFrames => Lateness' \in 0 .. Lateness
            /\ Lateness \in -SyncFrames .. 0 => Lateness' \in Lateness .. 0
            /\ Absolute(Lateness) \in 1 .. SyncFrames /\ 10 * Absolute(Lateness) > MsRate
                  => Lateness' # Lateness
      ]_playbackVars

\* With enough chunks a buffer has no hole: at least as many frames are inserted
\* as fewer are read, wherever the places to insert them fall; with one of them
\* missing the end of the buffer would stay silent.
NoHole ==
    [][ Fills /\ Lateness >= -SyncFrames =>
            \A p \in 0 .. Frames - 1 : buffer'[p] # Silence
      ]_playbackVars

\* "We are 5ms apart, do a hard sync, i.e. don't play faster/slower, but seek to
\* the desired position instead."  When it starts with silence, that silence is
\* subtracted twice from the frames to read: the buffer ends in a hole and the
\* stream is late by as much.
HardSyncExact ==
    [][ Fills /\ Lateness >= -Frames /\ Absolute(Lateness) > SyncFrames => Lateness' = 0
      ]_playbackVars
=============================================================================
